----------------------------- MODULE RelayProofs -----------------------------
(***************************************************************************)
(* Nothing that runs uses what was freed, for every set of configurations  *)
(* and every number of reloads.                                            *)
(***************************************************************************)
EXTENDS Relay, TLAPS

\* Where main() stands: before and after the old aggregators are gone in a
\* reload, and in the shutdown.
Asking == {"close", "tell", "wait"}
Swapping == {"listeners", "stop", "transplant", "restart", "workers", "free"}
Ending == {"closing", "stopcollector", "join", "stopaggregator", "stopworkers", "stopservers"}
Starting == {"start", "listen", "collect", "servers"}
Pcs == Starting \cup {"loop"} \cup Asking \cup Swapping \cup Ending \cup {"exited"}
Active == {"top", "sleep", "report"}

Types ==
    /\ main \in [pc : Pcs, new : Nat, numaggregators : Nat]
    /\ rtr \in Nat
    /\ collector \in [kind : {"runner", "writer"}, pc : Active \cup {"none", "ended"},
                      stop : BOOLEAN, rtr : Nat]
    /\ pending_router \in Nat /\ working \in Nat /\ expiring \in Nat
    /\ freed \in SUBSET Nat /\ expired \in SUBSET Nat /\ running \in SUBSET Nat

\* Routers are freed in the order they were put in place, their aggregators
\* before them.
Order ==
    /\ \A f \in freed : 0 < f /\ f <= rtr /\ (f = rtr => main.pc = "exited")
    /\ \A e \in expired :
          0 < e /\ e <= rtr
          /\ (e = rtr => main.pc \in Swapping \cup {"stopworkers", "stopservers", "exited"})
    /\ main.pc = "start" => rtr = 0
    /\ main.pc \notin {"start", "exited"} => rtr > 0
    /\ main.pc \in Asking \cup Swapping => main.new = rtr + 1

\* The collector runs from "servers" on, and is gone when the shutdown has waited
\* for it.
Lives ==
    /\ main.pc \in {"start", "listen", "collect"} =>
          collector.pc = "none" /\ ~collector.stop /\ pending_router = 0
    /\ main.pc \in {"servers", "loop", "closing", "stopcollector"} \cup Asking \cup Swapping =>
          collector.pc \in Active /\ ~collector.stop
    /\ main.pc = "join" => collector.pc \in Active \cup {"ended"}
    /\ main.pc \in {"stopaggregator", "stopworkers", "stopservers"} => collector.pc = "ended"
    /\ main.pc = "exited" => collector.pc \in {"none", "ended"}
    /\ collector.pc \in Active => submission = "up"

\* Its router is the one in place until it has taken over the new one, for which
\* main() waits.
Follows ==
    /\ main.pc \in {"start", "listen", "collect"} => collector.rtr = 0
    /\ main.pc \in {"servers", "loop", "closing", "stopcollector", "join"} =>
          collector.rtr \in {0, rtr} /\ pending_router \in {0, rtr}
    /\ main.pc \in {"close", "tell"} => collector.rtr \in {0, rtr} /\ pending_router = 0
    /\ main.pc = "wait" => \/ pending_router = rtr + 1 /\ collector.rtr \in {0, rtr}
                           \/ pending_router = 0 /\ collector.rtr = rtr + 1
    /\ main.pc \in Swapping => pending_router = 0 /\ collector.rtr = rtr + 1

\* The routers the servers, the dispatchers and the expiry thread work on.
Users ==
    /\ main.pc \in {"start", "listen"} => working = 0
    /\ main.pc \in {"collect", "servers", "loop"} \cup Asking => working = rtr
    /\ main.pc \in Swapping \ {"free"} => working = rtr
    /\ main.pc = "free" => working = rtr + 1
    /\ main.pc \in Ending \ {"stopservers"} => working = rtr
    /\ main.pc = "stopservers" => working = 0
    /\ main.pc \in Starting \cup {"transplant", "restart"} => running = {}
    /\ main.pc \in {"loop", "listeners", "stop"} \cup Asking \cup Ending => running = {rtr}
    /\ main.pc \in {"workers", "free"} => running = {rtr + 1}
    /\ main.pc \in {"start", "listen", "collect"} => expiring = 0
    /\ main.pc \in {"servers", "loop"} \cup Asking => expiring \in {0, rtr}
    /\ main.pc \in Swapping => expiring \in {0, rtr + 1}
    /\ main.pc \in Ending => expiring \in {0, rtr}
    /\ main.pc = "exited" => running \cap freed = {} /\ working \notin freed

IInv == Types /\ Order /\ Lives /\ Follows /\ Users

USE DEF IInv, Types, Order, Lives, Follows, Users, Asking, Swapping, Ending, Starting, Pcs, Active,
        None

\* IInv holds before main() has done anything.
THEOREM InvInit == Init => IInv
<1> SUFFICES ASSUME Init PROVE IInv OBVIOUS
<1>1. Types
  <2>1. main \in [pc : Pcs, new : Nat, numaggregators : Nat] BY DEF Init
  <2>2. collector \in [kind : {"runner", "writer"}, pc : Active \cup {"none", "ended"},
                      stop : BOOLEAN, rtr : Nat]
    <3>1. PICK k \in {"runner", "writer"} :
            collector = [kind |-> k, pc |-> "none", stop |-> FALSE, rtr |-> 0]
      BY DEF Init
    <3> QED BY <3>1
  <2> QED BY <2>1, <2>2 DEF Init
<1>2. main.pc = "start" /\ collector.pc = "none" /\ collector.rtr = 0 /\ ~collector.stop
  BY DEF Init
<1> QED BY <1>1, <1>2 DEF Init

\* One lemma for each step of main() and of the collector: it keeps IInv.
LEMMA ReadConfigKeeps == IInv /\ ReadConfig => IInv'
<1> SUFFICES ASSUME IInv, ReadConfig PROVE IInv' OBVIOUS
<1>1. /\ main.pc = "start"
      /\ UNCHANGED <<collector, pending_router, running, working, expiring, expired, freed, submission>>
  BY DEF ReadConfig, At, aggrvars, collvars
<1>2. CASE main' = [main EXCEPT !.pc = "exited"] /\ rtr' = rtr
  BY <1>1, <1>2
<1>3. CASE rtr' = 1 /\ main'.pc = "listen" /\ main' \in [pc : Pcs, new : Nat, numaggregators : Nat]
  BY <1>1, <1>3
<1>4. ASSUME NEW n \in Nat, main' = [main EXCEPT !.pc = "listen", !.numaggregators = n]
      PROVE  main'.pc = "listen" /\ main' \in [pc : Pcs, new : Nat, numaggregators : Nat]
  BY <1>4
<1>5. \/ main' = [main EXCEPT !.pc = "exited"] /\ rtr' = rtr
      \/ rtr' = 1 /\ \E n \in Nat : main' = [main EXCEPT !.pc = "listen", !.numaggregators = n]
  BY DEF ReadConfig, Exit, Goto
<1> QED BY <1>2, <1>3, <1>4, <1>5

LEMMA StartListeningKeeps == IInv /\ StartListening => IInv'
BY DEF At, Goto, aggrvars, collvars, StartListening, Exit

LEMMA StartCollectorKeeps == IInv /\ StartCollector => IInv'
<1> SUFFICES ASSUME IInv, StartCollector PROVE IInv' OBVIOUS
<1>1. /\ main.pc = "collect" /\ main' = [main EXCEPT !.pc = "servers"]
      /\ expiring' \in {0, rtr} /\ pending_router' = rtr /\ submission' = "up"
      /\ collector' = [collector EXCEPT !.pc = "top"]
      /\ UNCHANGED <<rtr, running, working, expired, freed>>
  BY DEF StartCollector, At, Goto, aggregator_start, collector_schedulereload
<1>2. ~collector.stop BY <1>1
<1> QED BY <1>1, <1>2

LEMMA StartServersKeeps == IInv /\ StartServers => IInv'
BY DEF At, Goto, aggrvars, collvars, StartServers

LEMMA HandleSignalKeeps == IInv /\ HandleSignal => IInv'
BY DEF At, Goto, aggrvars, collvars, HandleSignal

LEMMA ReadNewConfigKeeps == IInv /\ ReadNewConfig => IInv'
<1> SUFFICES ASSUME IInv, ReadNewConfig PROVE IInv' OBVIOUS
<1>1. /\ main.pc = "loop" /\ pending_router = 0
      /\ UNCHANGED <<rtr, collector, pending_router, running, working, expiring, expired, freed,
                     submission>>
  BY DEF ReadNewConfig, At, aggrvars, collvars
<1>2. UNCHANGED main \/ main' = [main EXCEPT !.pc = "close", !.new = rtr + 1]
  BY DEF ReadNewConfig, ReloadAborted, ReloadBegins
<1>3. CASE UNCHANGED main BY <1>1, <1>3
<1>4. CASE main' = [main EXCEPT !.pc = "close", !.new = rtr + 1]
  <2>1. Types'
    <3>1. ASSUME NEW n \in Nat, main' = [main EXCEPT !.pc = "close", !.new = n]
          PROVE  main' \in [pc : Pcs, new : Nat, numaggregators : Nat]
      BY <3>1
    <3>2. rtr + 1 \in Nat OBVIOUS
    <3> HIDE DEF Pcs
    <3>3. main' \in [pc : Pcs, new : Nat, numaggregators : Nat] BY <1>4, <3>1, <3>2, Zenon
    <3> QED BY <1>1, <3>3
  <2>2. main'.pc = "close" /\ main'.new = rtr + 1 BY <1>4
  <2>3. Order' BY <1>1, <2>2
  <2>4. Lives' /\ Follows' /\ Users' BY <1>1, <2>2
  <2> QED BY <2>1, <2>3, <2>4
<1> QED BY <1>2, <1>3, <1>4

LEMMA CloseListenersKeeps == IInv /\ CloseListeners => IInv'
BY DEF At, Goto, aggrvars, collvars, CloseListeners

LEMMA ReloadCollectorKeeps == IInv /\ ReloadCollector => IInv'
BY DEF At, Goto, aggrvars, collvars, ReloadCollector, collector_schedulereload

LEMMA ReloadAggregatorsKeeps == IInv /\ ReloadAggregators => IInv'
BY DEF At, Goto, aggrvars, collvars, ReloadAggregators, aggregator_start, collector_reloadcomplete

LEMMA ReloadListenersKeeps == IInv /\ ReloadListeners => IInv'
BY DEF At, Goto, aggrvars, collvars, ReloadListeners

LEMMA StopServersKeeps == IInv /\ StopServers => IInv'
BY DEF At, Goto, aggrvars, collvars, StopServers

LEMMA TransplantQueuesKeeps == IInv /\ TransplantQueues => IInv'
BY DEF At, Goto, aggrvars, collvars, TransplantQueues

LEMMA RestartServersKeeps == IInv /\ RestartServers => IInv'
BY DEF At, Goto, aggrvars, collvars, RestartServers

LEMMA ReloadWorkersKeeps == IInv /\ ReloadWorkers => IInv'
BY DEF At, Goto, aggrvars, collvars, ReloadWorkers

LEMMA FreeOldKeeps == IInv /\ FreeOld => IInv'
<1> SUFFICES ASSUME IInv, FreeOld PROVE IInv' OBVIOUS
<1>1. /\ main.pc = "free" /\ main' = [main EXCEPT !.pc = "loop", !.new = 0]
      /\ rtr' = rtr + 1 /\ freed' = freed \cup {rtr}
      /\ UNCHANGED <<collector, pending_router, running, working, expiring, expired, submission>>
  BY DEF FreeOld, At, router_free, aggrvars, collvars
<1>2. Types' BY <1>1
<1>3. Order' BY <1>1
<1>4. Lives' /\ Follows' /\ Users' BY <1>1
<1> QED BY <1>2, <1>3, <1>4

LEMMA CloseAllKeeps == IInv /\ CloseAll => IInv'
BY DEF At, Goto, aggrvars, collvars, CloseAll

LEMMA StopCollectorKeeps == IInv /\ StopCollector => IInv'
<1> SUFFICES ASSUME IInv, StopCollector PROVE IInv' OBVIOUS
<1>1. /\ main.pc = "stopcollector" /\ main' = [main EXCEPT !.pc = "join"]
      /\ collector' = [collector EXCEPT !.stop = TRUE]
      /\ UNCHANGED <<rtr, pending_router, running, working, expiring, expired, freed, submission>>
  BY DEF StopCollector, At, Goto, aggrvars
<1>2. Types' BY <1>1
<1>3. collector'.pc = collector.pc /\ collector'.rtr = collector.rtr /\ main'.pc = "join" BY <1>1
<1> QED BY <1>1, <1>2, <1>3

LEMMA JoinCollectorKeeps == IInv /\ JoinCollector => IInv'
BY DEF At, Goto, aggrvars, collvars, JoinCollector

LEMMA StopAggregatorKeeps == IInv /\ StopAggregator => IInv'
BY DEF At, Goto, aggrvars, collvars, StopAggregator, Exit

LEMMA StopWorkersKeeps == IInv /\ StopWorkers => IInv'
BY DEF At, Goto, aggrvars, collvars, StopWorkers

LEMMA FinishKeeps == IInv /\ Finish => IInv'
BY DEF At, Goto, aggrvars, collvars, Finish, Exit, router_free

LEMMA CollectorTopKeeps == IInv /\ CollectorTop => IInv'
<1> SUFFICES ASSUME IInv, CollectorTop PROVE IInv' OBVIOUS
<1>1. /\ collector.pc = "top"
      /\ UNCHANGED <<main, rtr, running, working, expiring, expired, freed, submission>>
  BY DEF CollectorTop, aggrvars
<1>2. CASE collector.stop
  <2>1. collector' = [collector EXCEPT !.pc = "ended"] /\ UNCHANGED pending_router
    BY <1>2 DEF CollectorTop
  <2>2. main.pc = "join" BY <1>1, <1>2
  <2> QED BY <1>1, <2>1, <2>2
<1>3. CASE ~collector.stop
  <2>1. PICK r \in Nat : /\ r = (IF pending_router = 0 THEN collector.rtr ELSE pending_router)
                         /\ collector' = [collector EXCEPT !.pc = "sleep", !.rtr = r]
                         /\ pending_router' = 0
    BY <1>3 DEF CollectorTop
  <2>2. Types' BY <1>1, <2>1
  <2>3. collector'.pc = "sleep" /\ collector'.rtr = r /\ collector'.stop = collector.stop
    BY <2>1
  <2>4. Order' /\ Users' BY <1>1
  <2>5. Lives' BY <1>1, <2>1, <2>3
  <2>6. Follows' BY <1>1, <2>1, <2>3
  <2> QED BY <2>2, <2>4, <2>5, <2>6
<1> QED BY <1>2, <1>3

LEMMA CollectorWakeKeeps == IInv /\ CollectorWake => IInv'
BY DEF At, Goto, aggrvars, collvars, CollectorWake

LEMMA RunnerReportKeeps == IInv /\ RunnerReport => IInv'
BY DEF At, Goto, aggrvars, collvars, RunnerReport, CollectorReport

LEMMA WriterReportKeeps == IInv /\ WriterReport => IInv'
BY DEF At, Goto, aggrvars, collvars, WriterReport, CollectorReport

\* A signal that arrives, and stuttering, change nothing IInv speaks of.
LEMMA OthersKeep ==
  ASSUME IInv, UNCHANGED vars \/ (\E sig \in {"HUP", "USR1", "TERM"} : Signal(sig))
  PROVE  IInv'
<1>1. UNCHANGED <<main, rtr, collector, pending_router, submission, working, running, expiring,
                  expired, freed>>
  BY DEF vars, Signal, aggrvars, collvars
<1> QED BY <1>1

\* IInv is strong enough: whoever uses a router in a state of IInv uses one that
\* is not freed.
LEMMA InvFreedUnused == IInv => FreedUnused
<1> SUFFICES ASSUME IInv PROVE FreedUnused OBVIOUS
<1>1. ASSUME collector.pc = "report"
      PROVE  /\ collector.rtr \notin freed \cup expired
             /\ working # 0 /\ submission = "up"
  BY <1>1
<1>2. running \cap freed = {} BY DEF At
<1>3. working \notin freed OBVIOUS
<1>4. main.pc = "loop" => expiring \notin freed \cup expired OBVIOUS
<1> QED BY <1>1, <1>2, <1>3, <1>4 DEF FreedUnused, At

HIDE DEF IInv, Types, Order, Lives, Follows, Users, Asking, Swapping, Ending, Starting, Pcs, Active,
         None

\* IInv is kept by every step of the threads, and by signals.
THEOREM InvNext == IInv /\ [Next]_vars => IInv'
<1> USE DEF Next
<1>1. CASE MainStep
  BY <1>1, ReadConfigKeeps, StartListeningKeeps, StartCollectorKeeps, StartServersKeeps,
     HandleSignalKeeps, ReadNewConfigKeeps, CloseListenersKeeps, ReloadCollectorKeeps,
     ReloadAggregatorsKeeps, ReloadListenersKeeps, StopServersKeeps, TransplantQueuesKeeps,
     RestartServersKeeps, ReloadWorkersKeeps, FreeOldKeeps, CloseAllKeeps,
     StopCollectorKeeps, JoinCollectorKeeps, StopAggregatorKeeps, StopWorkersKeeps,
     FinishKeeps
  DEF MainStep
<1>2. CASE CollectorStep
  BY <1>2, CollectorTopKeeps, CollectorWakeKeeps, RunnerReportKeeps, WriterReportKeeps
  DEF CollectorStep
<1>3. CASE UNCHANGED vars \/ (\E sig \in {"HUP", "USR1", "TERM"} : Signal(sig))
  BY <1>3, OthersKeep
<1> QED BY <1>1, <1>2, <1>3 DEF Exited

\* Nothing that runs uses what was freed (do_reload and the shutdown in main):
\* the collector when it reports, the servers' threads, the dispatchers, and
\* between reloads the expiry thread.  It holds for every set of configurations
\* and every number of reloads.
THEOREM FreedUnusedAlways == Spec => []FreedUnused
<1>1. Init => IInv BY InvInit
<1>2. IInv /\ [Next]_vars => IInv' BY InvNext
<1>3. IInv => FreedUnused BY InvFreedUnused
<1> QED BY <1>1, <1>2, <1>3, PTL DEF Spec
=============================================================================
