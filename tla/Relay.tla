-------------------------------- MODULE Relay --------------------------------
(***************************************************************************)
(* The life of the relay: main() starts its parts, serves signals, reloads *)
(* the configuration on SIGHUP and takes everything down at the end        *)
(* (relay.c), with what the steps call: opening, transplanting and closing *)
(* listeners (receptor.c, dispatcher.c), comparing configurations and      *)
(* swapping routers with their queues (router.c), and the collector thread *)
(* (collector.c) that meanwhile reads the servers and aggregators of the   *)
(* router it was given.                                                    *)
(*                                                                         *)
(* Routers are numbered in the order main() puts them in place.  A         *)
(* configuration is a record of its listeners, its statistics settings,    *)
(* its clusters in order, its rules, whether it aggregates, and what the   *)
(* names of its servers resolved to.  A listener is named by what stands   *)
(* in the configuration (key), has a type, a transport and, for TLS, a     *)
(* certificate of some age; Addrs gives the addresses of a key.  A socket  *)
(* is [addr, ctype, by, crt]: by is the router that opened it, crt the     *)
(* certificate it answers with.  Queues are known by where they were made. *)
(* The dispatchers, the servers' threads and the aggregator have models of *)
(* their own; here they are the flags that say whether they run.           *)
(***************************************************************************)
EXTENDS Integers, FiniteSets, SequencesExt

CONSTANTS
    Configs,      \* what the configuration file may hold, a set
    Addrs,        \* the addresses of a listener's key, a sequence
    NoFamily,     \* addresses of a family the system does not support
    Taken,        \* addresses that cannot be bound, paths too
    BadPem,       \* certificates that cannot be loaded
    MAX_LISTENERS,
    MaxReloads    \* how many configurations main() puts in place

None == 0
Routers == 1 .. MaxReloads + 1
NoConfig ==
    [lsnrs |-> <<>>, stats |-> "none", cls |-> <<>>, aggr |-> FALSE, rules |-> "none", dns |-> "none"]
SharedTypes == {"FAILOVER", "LB"}

ASSUME RelayAssumption == MAX_LISTENERS \in Nat /\ MaxReloads \in Nat

VARIABLES
    main,            \* where main() is: [pc, new, numaggregators]
    pending_signal,  \* the signal main() has to look at, or "none"
    rtr,             \* the router in place
    cfg,             \* the configuration of each router, or NoConfig
    socks,           \* the sockets each router's listeners hold
    listeners,       \* the array of the dispatcher: <<router, listener>>
    open,            \* the listening and UDP sockets that are open
    squeue,          \* the queue of each router's servers: [q, shared]
    cqueue,          \* the queue the servers of a cluster share
    destroyed,       \* the queues that were destroyed
    running,         \* the routers whose servers run
    working,         \* the router the dispatchers use
    expiring,        \* the router whose aggregators are expired
    expired,         \* the routers whose aggregators were freed
    freed,           \* the routers that were freed
    submission,      \* the server the statistics go to
    pending_router,  \* the router the collector is to take over
    collector,       \* [kind, pc, stop, rtr]
    kept,            \* history: the queues of the servers old and new share
    seen             \* history: the last configuration that was read

histvars == <<kept, seen>>

netvars == <<socks, listeners, open>>
queuevars == <<squeue, cqueue, destroyed>>
aggrvars == <<expiring, expired>>
collvars == <<pending_router, collector>>
vars == <<main, pending_signal, rtr, cfg, netvars, queuevars, running, working, aggrvars,
          freed, submission, collvars, histvars>>

----------------------------------------------------------------------------
(* Configurations                                                          *)

Servers(c) == UNION {ToSet(cl.servers) : cl \in ToSet(c.cls)}
Names(c) == {cl.name : cl \in ToSet(c.cls)}
Cluster(c, name) == CHOOSE cl \in ToSet(c.cls) : cl.name = name
Homes(c, s) == {cl \in ToSet(c.cls) : s \in ToSet(cl.servers)}

\* The cluster a server is first named in makes it, with its own queue or the
\* one the cluster shares.
FirstHome(c, s) ==
    LET i == CHOOSE i \in DOMAIN c.cls :
                /\ s \in ToSet(c.cls[i].servers)
                /\ \A j \in 1 .. i - 1 : s \notin ToSet(c.cls[j].servers)
    IN  c.cls[i]

NewServerQueues(id, c) ==
    [s \in Servers(c) |->
        IF FirstHome(c, s).type \in SharedTypes
        THEN [q |-> <<id, FirstHome(c, s).name>>, shared |-> TRUE]
        ELSE [q |-> <<id, s>>, shared |-> FALSE]]

NewClusterQueues(id, c) ==
    [n \in Names(c) |-> IF Cluster(c, n).type \in SharedTypes THEN <<id, n>> ELSE <<>>]

\* What router_printconfig prints of the listeners: those that follow one with
\* the same transport are printed beneath it, without their certificate.
PrintedListeners(c) ==
    [i \in DOMAIN c.lsnrs |->
        [c.lsnrs[i] EXCEPT !.pem =
            IF i > 1 /\ c.lsnrs[i - 1].trnsp = c.lsnrs[i].trnsp THEN "hidden" ELSE @]]

\* Servers are printed by name: what it resolved to does not show.
PrintedClusters(c) == c.cls
router_printconfig(c) == <<PrintedListeners(c), c.stats, PrintedClusters(c), c.aggr, c.rules>>

\* The two printed configurations are compared by diff, which may fail: that
\* counts as a difference.
router_printdiffs(old, new, failed) ==
    failed \/ router_printconfig(old) # router_printconfig(new)

----------------------------------------------------------------------------
(* Listeners.  n is the state of the network: [socks, listeners, open].    *)

Socket(id, l, addr) == [addr |-> addr, ctype |-> l.ctype, by |-> id, crt |-> l.pem]

\* TCP and unix sockets have an address for themselves, SO_REUSEADDR lets UDP
\* sockets share it.
Busy(n, l, addr) ==
    addr \in Taken \/ (l.ctype # "udp" /\ \E s \in n.open : s.addr = addr /\ s.ctype = l.ctype)

\* The sockets of an address after another: an unsupported family is passed
\* over unless it is all there is, any other failure closes what was opened.
bindlistenip(n, id, l) ==
    LET usable == SelectSeq(Addrs[l.key], LAMBDA a : a \notin NoFamily)
        new == {Socket(id, l, usable[i]) : i \in DOMAIN usable}
    IN  IF \/ l.pem \in BadPem \/ usable = <<>>
           \/ \E i \in DOMAIN usable : Busy(n, l, usable[i])
        THEN [n |-> n, ok |-> FALSE]
        ELSE [n |-> [n EXCEPT !.socks[id][l] = new, !.open = @ \cup new], ok |-> TRUE]

\* A path is unlinked before it is bound, so only a path that cannot be made
\* fails; the number of the closed socket then stays behind.
bindlistenunix(n, id, l) ==
    LET new == Socket(id, l, l.key)
    IN  CASE l.pem \in BadPem -> [n |-> n, ok |-> FALSE]
          [] l.pem \notin BadPem /\ l.key \in Taken ->
               [n |-> [n EXCEPT !.socks[id][l] = {[new EXCEPT !.by = None]}], ok |-> FALSE]
          [] OTHER -> [n |-> [n EXCEPT !.socks[id][l] = {new}, !.open = @ \cup {new}], ok |-> TRUE]

bindlisten(n, id, l) ==
    IF l.ctype = "unix" THEN bindlistenunix(n, id, l) ELSE bindlistenip(n, id, l)

\* A UDP socket becomes a connection, the others get a slot in the array.
dispatch_addlistener(n, id, l) ==
    IF l.ctype = "udp" THEN [n |-> n, ok |-> TRUE]
    ELSE IF Cardinality(n.listeners) = MAX_LISTENERS THEN [n |-> n, ok |-> FALSE]
    ELSE [n |-> [n EXCEPT !.listeners = @ \cup {<<id, l>>}], ok |-> TRUE]

\* What is not in the array is left alone, except UDP sockets.
dispatch_removelistener(n, id, l) ==
    IF l.ctype # "udp" /\ <<id, l>> \notin n.listeners THEN n
    ELSE [socks |-> [n.socks EXCEPT ![id][l] = {}],
          listeners |-> n.listeners \ {<<id, l>>},
          open |-> n.open \ n.socks[id][l]]

\* Closes the sockets the listener still has.
shutdownclose(n, id, l) == [n EXCEPT !.open = @ \ n.socks[id][l]]

CloseListener(n, id, l) == shutdownclose(dispatch_removelistener(n, id, l), id, l)

\* Mutant of SameListener: the certificate's age is not compared.
SameAddress(l, m) == l.trnsp = m.trnsp /\ l.ctype = m.ctype /\ l.key = m.key

\* Listeners are the same when their type, transport and key are and, with TLS
\* on a port, their certificate.
SameListener(l, m) ==
    /\ l.trnsp = m.trnsp /\ l.ctype = m.ctype /\ l.key = m.key
    /\ l.ctype = "unix" \/ l.trnsp # "ssl" \/ l.pem = m.pem
router_contains_listener(c, l) == SelectSeq(c.lsnrs, LAMBDA m : SameListener(l, m))

\* Only what is in the array is transplanted.
dispatch_transplantlistener(n, old, ol, new, l) ==
    IF <<old, ol>> \notin n.listeners THEN n
    ELSE [n EXCEPT !.socks[new][l] = n.socks[old][ol],
                   !.listeners = (@ \ {<<old, ol>>}) \cup {<<new, l>>}]

OpenListener(n, id, l) ==
    LET b == bindlisten(n, id, l)
    IN  IF b.ok THEN dispatch_addlistener(b.n, id, l) ELSE b

Net == [socks |-> socks, listeners |-> listeners, open |-> open]
SetNet(net) ==
    \E n \in {net} : socks' = n.socks /\ listeners' = n.listeners /\ open' = n.open

----------------------------------------------------------------------------
(* Queues.  st is [sq, cq], as squeue and cqueue.                          *)

server_swap_queue(st, new, old, s) ==
    [st EXCEPT !.sq[new][s] = st.sq[old][s], !.sq[old][s] = st.sq[new][s]]

server_set_shared_queue(st, new, s, q) ==
    IF st.sq[new][s].shared THEN [st EXCEPT !.sq[new][s].q = q] ELSE st

\* A server finds its queue through the cluster of the same name and type.
TransplantServer(st, new, old, nc, oc, s) ==
    IF s \in ToSet(oc.servers)
    THEN server_swap_queue(st, new, old, s)
    ELSE server_set_shared_queue(st, new, s, st.cq[new][nc.name])

TransplantCluster(st, new, old, nc, oc) ==
    FoldLeft(LAMBDA t, s : TransplantServer(t, new, old, nc, oc, s),
             [st EXCEPT !.cq[new][nc.name] = st.cq[old][nc.name],
                        !.cq[old][nc.name] = st.cq[new][nc.name]],
             nc.servers)

SameCluster(c, nc) == nc.name \in Names(c) /\ Cluster(c, nc.name).type = nc.type

router_transplant_queues(st, new, old) ==
    FoldLeft(LAMBDA t, nc :
                IF SameCluster(cfg[old], nc)
                THEN TransplantCluster(t, new, old, nc, Cluster(cfg[old], nc.name))
                ELSE t,
             st, cfg[new].cls)

\* Mutant of FreedQueues: server_free destroys the shared queues too.
FreedSharedToo(id) ==
    {squeue[id][s].q : s \in DOMAIN squeue[id]}
        \cup {cqueue[id][n] : n \in {n \in DOMAIN cqueue[id] : cqueue[id][n] # <<>>}}

\* server_free destroys a queue the server has for itself, cluster_free the one
\* the cluster shares out.
FreedQueues(id) ==
    {squeue[id][s].q : s \in {s \in DOMAIN squeue[id] : ~squeue[id][s].shared}}
        \cup {cqueue[id][n] : n \in {n \in DOMAIN cqueue[id] : cqueue[id][n] # <<>>}}

router_free(id) ==
    /\ destroyed' = destroyed \cup FreedQueues(id)
    /\ freed' = freed \cup {id}
    /\ cfg' = [cfg EXCEPT ![id] = NoConfig]
    /\ squeue' = [squeue EXCEPT ![id] = <<>>]
    /\ cqueue' = [cqueue EXCEPT ![id] = <<>>]
    /\ socks' = [socks EXCEPT ![id] = <<>>]

\* router_readconfig: the router with its servers, clusters and listeners.
NewRouter(id, c) ==
    /\ cfg' = [cfg EXCEPT ![id] = c]
    /\ squeue' = [squeue EXCEPT ![id] = NewServerQueues(id, c)]
    /\ cqueue' = [cqueue EXCEPT ![id] = NewClusterQueues(id, c)]
    /\ socks' = [socks EXCEPT ![id] = [l \in ToSet(c.lsnrs) |-> {}]]

\* The servers both configurations name, with the queue each has; alone are
\* those that are in one cluster, and stay in it.
Kept(old, c) ==
    [s \in Servers(cfg[old]) \cap Servers(c) |->
        [q |-> squeue[old][s].q,
         alone |-> \E oc \in ToSet(cfg[old].cls), nc \in ToSet(c.cls) :
                      /\ Homes(cfg[old], s) = {oc} /\ Homes(c, s) = {nc}
                      /\ oc.name = nc.name /\ oc.type = nc.type]]

----------------------------------------------------------------------------
(* Starting up                                                             *)

At(pc) == main.pc = pc
Goto(pc) == main' = [main EXCEPT !.pc = pc]
Exit == Goto("exited")

Init ==
    /\ main = [pc |-> "start", new |-> None, numaggregators |-> 0]
    /\ pending_signal = "none"
    /\ rtr = None
    /\ cfg = [id \in Routers |-> NoConfig]
    /\ socks = [id \in Routers |-> <<>>]
    /\ listeners = {} /\ open = {}
    /\ squeue = [id \in Routers |-> <<>>]
    /\ cqueue = [id \in Routers |-> <<>>]
    /\ destroyed = {}
    /\ running = {} /\ working = None
    /\ expiring = None /\ expired = {}
    /\ freed = {}
    /\ submission = "none"
    /\ pending_router = None
    /\ collector \in [kind : {"runner", "writer"}, pc : {"none"}, stop : {FALSE}, rtr : {None}]
    /\ kept = <<>> /\ seen = NoConfig

\* A configuration that cannot be read ends the program.
ReadConfig ==
    /\ At("start")
    /\ \/ /\ Exit
          /\ UNCHANGED <<rtr, cfg, socks, squeue, cqueue, seen>>
       \/ \E c \in Configs :
            /\ rtr' = 1
            /\ seen' = c
            /\ NewRouter(1, c)
            /\ main' = [main EXCEPT !.pc = "listen", !.numaggregators = IF c.aggr THEN 1 ELSE 0]
    /\ UNCHANGED <<pending_signal, listeners, open, destroyed, running, working, aggrvars,
                   freed, submission, collvars, kept>>

OpenAll(n, id) ==
    FoldLeft(LAMBDA r, l : IF r.ok THEN OpenListener(r.n, id, l) ELSE r,
             [n |-> n, ok |-> TRUE], cfg[id].lsnrs)

\* Starts the dispatchers, then opens the listeners: the first that fails ends
\* the program.
StartListening ==
    /\ At("listen")
    /\ \E r \in {OpenAll(Net, rtr)} :
         SetNet(r.n) /\ IF r.ok THEN Goto("collect") ELSE Exit
    /\ working' = rtr
    /\ UNCHANGED <<pending_signal, rtr, cfg, queuevars, running, aggrvars, freed, submission,
                   collvars, histvars>>

\* collector_schedulereload: what is pending stays pending.
collector_schedulereload(id) ==
    pending_router' = IF pending_router = None THEN id ELSE pending_router

aggregator_start(id) == expiring' = IF cfg[id].aggr THEN id ELSE None

StartCollector ==
    /\ At("collect")
    /\ submission' = "up"
    /\ aggregator_start(rtr)
    /\ collector_schedulereload(rtr)
    /\ collector' = [collector EXCEPT !.pc = "top"]
    /\ Goto("servers")
    /\ UNCHANGED <<pending_signal, rtr, cfg, netvars, queuevars, running, working, expired,
                   freed, histvars>>

\* router_start; a server that does not start makes main() shut down again.
StartServers ==
    /\ At("servers")
    /\ running' = {rtr}
    /\ Goto("loop") \/ Goto("closing")
    /\ UNCHANGED <<pending_signal, rtr, cfg, netvars, queuevars, working, aggrvars, freed,
                   submission, collvars, histvars>>

----------------------------------------------------------------------------
(* Signals                                                                 *)

\* sig_handler: a signal is dropped while another waits.  No more than
\* MaxReloads configurations are put in place.
Signal(sig) ==
    /\ ~At("start") /\ ~At("exited")
    /\ pending_signal = "none"
    /\ sig = "HUP" => rtr <= MaxReloads
    /\ pending_signal' = sig
    /\ UNCHANGED <<main, rtr, cfg, netvars, queuevars, running, working, aggrvars, freed,
                   submission, collvars, histvars>>

\* handle_signal, for what takes no reload: SIGUSR1 changes what is logged, the
\* others end the loop.
HandleSignal ==
    /\ At("loop")
    /\ pending_signal \in {"USR1", "TERM"}
    /\ pending_signal' = "none"
    /\ IF pending_signal = "TERM" THEN Goto("closing") ELSE UNCHANGED main
    /\ UNCHANGED <<rtr, cfg, netvars, queuevars, running, working, aggrvars, freed, submission,
                   collvars, histvars>>

----------------------------------------------------------------------------
(* do_reload                                                               *)

ReloadAborted ==
    /\ pending_signal' = "none"
    /\ UNCHANGED <<main, cfg, socks, squeue, cqueue, kept>>

ReloadBegins(new, c) ==
    /\ NewRouter(new, c)
    /\ kept' = Kept(rtr, c)
    /\ main' = [main EXCEPT !.pc = "close", !.new = new]
    /\ UNCHANGED pending_signal

\* main() sleeps a second before it looks for a signal, in which the collector
\* has come to take over the router it was started with.  Nothing happens when
\* the file cannot be read, or prints the same.
ReadNewConfig ==
    /\ At("loop")
    /\ pending_signal = "HUP"
    /\ pending_router = None
    /\ \/ ReloadAborted /\ UNCHANGED seen
       \/ \E c \in Configs, failed \in BOOLEAN :
            /\ seen' = c
            /\ IF router_printdiffs(cfg[rtr], c, failed)
               THEN ReloadBegins(rtr + 1, c) ELSE ReloadAborted
    /\ UNCHANGED <<rtr, listeners, open, destroyed, running, working, aggrvars, freed,
                   submission, collvars>>

\* Closes the listeners the new configuration no longer has.
CloseGone(n, old, new) ==
    FoldLeft(LAMBDA m, l : IF router_contains_listener(cfg[new], l) = <<>>
                           THEN CloseListener(m, old, l) ELSE m,
             n, cfg[old].lsnrs)

CloseListeners ==
    /\ At("close")
    /\ SetNet(CloseGone(Net, rtr, main.new))
    /\ Goto("tell")
    /\ UNCHANGED <<pending_signal, rtr, cfg, queuevars, running, working, aggrvars, freed,
                   submission, collvars, histvars>>

ReloadCollector ==
    /\ At("tell")
    /\ collector_schedulereload(main.new)
    /\ Goto("wait")
    /\ UNCHANGED <<pending_signal, rtr, cfg, netvars, queuevars, running, working, aggrvars,
                   freed, submission, collector, histvars>>

\* Mutant of collector_reloadcomplete: nobody waits for the collector.
CollectorNotAwaited == TRUE

collector_reloadcomplete == pending_router = None

\* Once the collector has moved on, the aggregators are replaced: the old ones
\* are expired and freed, while the dispatchers are held.
ReloadAggregators ==
    /\ At("wait")
    /\ collector_reloadcomplete
    /\ expired' = IF cfg[rtr].aggr THEN expired \cup {rtr} ELSE expired
    /\ aggregator_start(main.new)
    /\ Goto("listeners")
    /\ UNCHANGED <<pending_signal, rtr, cfg, netvars, queuevars, running, working, freed,
                   submission, collvars, histvars>>

\* A listener the old configuration has is transplanted, whether or not it was
\* opened, the others are opened; a failure is only logged.
MoveListener(n, old, new, l) ==
    LET same == router_contains_listener(cfg[old], l)
    IN  IF same # <<>>
        THEN dispatch_transplantlistener(n, old, Head(same), new, l)
        ELSE OpenListener(n, new, l).n

MoveAll(n, old, new) ==
    FoldLeft(LAMBDA m, l : MoveListener(m, old, new, l), n, cfg[new].lsnrs)

ReloadListeners ==
    /\ At("listeners")
    /\ SetNet(MoveAll(Net, rtr, main.new))
    /\ Goto("stop")
    /\ UNCHANGED <<pending_signal, rtr, cfg, queuevars, running, working, aggrvars, freed,
                   submission, collvars, histvars>>

\* router_swap, in three steps: router_shutdown returns when the servers' threads
\* have ended.
StopServers ==
    /\ At("stop")
    /\ running' = running \ {rtr}
    /\ Goto("transplant")
    /\ UNCHANGED <<pending_signal, rtr, cfg, netvars, queuevars, working, aggrvars, freed,
                   submission, collvars, histvars>>

TransplantQueues ==
    /\ At("transplant")
    /\ \E st \in {router_transplant_queues([sq |-> squeue, cq |-> cqueue], main.new, rtr)} :
         squeue' = st.sq /\ cqueue' = st.cq
    /\ Goto("restart")
    /\ UNCHANGED <<pending_signal, rtr, cfg, netvars, destroyed, running, working, aggrvars,
                   freed, submission, collvars, histvars>>

RestartServers ==
    /\ At("restart")
    /\ running' = running \cup {main.new}
    /\ Goto("workers")
    /\ UNCHANGED <<pending_signal, rtr, cfg, netvars, queuevars, working, aggrvars, freed,
                   submission, collvars, histvars>>

ReloadWorkers ==
    /\ At("workers")
    /\ working' = main.new
    /\ Goto("free")
    /\ UNCHANGED <<pending_signal, rtr, cfg, netvars, queuevars, running, aggrvars, freed,
                   submission, collvars, histvars>>

FreeOld ==
    /\ At("free")
    /\ router_free(rtr)
    /\ rtr' = main.new
    /\ main' = [main EXCEPT !.pc = "loop", !.new = None]
    /\ pending_signal' = "none"
    /\ UNCHANGED <<listeners, open, running, working, aggrvars, submission, collvars, histvars>>

----------------------------------------------------------------------------
(* Shutting down                                                           *)

CloseEach(n, id) ==
    FoldLeft(LAMBDA m, l : CloseListener(m, id, l), n, cfg[id].lsnrs)

CloseAll ==
    /\ At("closing")
    /\ SetNet(CloseEach(Net, rtr))
    /\ Goto("stopcollector")
    /\ UNCHANGED <<pending_signal, rtr, cfg, queuevars, running, working, aggrvars, freed,
                   submission, collvars, histvars>>

\* collector_stop asks, and waits in the next step.
StopCollector ==
    /\ At("stopcollector")
    /\ collector' = [collector EXCEPT !.stop = TRUE]
    /\ Goto("join")
    /\ UNCHANGED <<pending_signal, rtr, cfg, netvars, queuevars, running, working, aggrvars,
                   freed, submission, pending_router, histvars>>

JoinCollector ==
    /\ At("join")
    /\ collector.pc = "ended"
    /\ submission' = "freed"
    /\ Goto("stopaggregator")
    /\ UNCHANGED <<pending_signal, rtr, cfg, netvars, queuevars, running, working, aggrvars,
                   freed, collvars, histvars>>

\* main() goes by the number of aggregators it started with.  Without a thread
\* to wait for, pthread_join gets one it waited for before: it returns, or the
\* program ends there.
StopAggregator ==
    /\ At("stopaggregator")
    /\ IF main.numaggregators = 0 THEN Goto("stopworkers") /\ UNCHANGED aggrvars
       ELSE /\ Goto("stopworkers") \/ (expiring = None /\ Exit)
            /\ expired' = expired \cup ({expiring} \ {None})
            /\ expiring' = None
    /\ UNCHANGED <<pending_signal, rtr, cfg, netvars, queuevars, running, working, freed,
                   submission, collvars, histvars>>

\* dispatchs_stop, and dispatchs_free which closes the connections, UDP sockets
\* among them.
StopWorkers ==
    /\ At("stopworkers")
    /\ working' = None
    /\ open' = {s \in open : s.ctype # "udp"}
    /\ Goto("stopservers")
    /\ UNCHANGED <<pending_signal, rtr, cfg, socks, listeners, queuevars, running, aggrvars,
                   freed, submission, collvars, histvars>>

Finish ==
    /\ At("stopservers")
    /\ running' = running \ {rtr}
    /\ router_free(rtr)
    /\ Exit
    /\ UNCHANGED <<pending_signal, rtr, listeners, open, working, aggrvars, submission,
                   collvars, histvars>>

----------------------------------------------------------------------------
(* The collector                                                           *)

\* Mutant of CollectorTop: what was pending stays so.
CollectorTopUncleared ==
    /\ collector.pc = "top"
    /\ collector' = IF collector.stop THEN [collector EXCEPT !.pc = "ended"]
                    ELSE [collector EXCEPT !.pc = "sleep",
                            !.rtr = IF pending_router = None THEN @ ELSE pending_router]
    /\ UNCHANGED <<main, pending_signal, rtr, cfg, netvars, queuevars, running, working,
                   aggrvars, freed, submission, pending_router, histvars>>

\* The top of the loop: the end, or the router that is pending.
CollectorTop ==
    /\ collector.pc = "top"
    /\ IF collector.stop
       THEN collector' = [collector EXCEPT !.pc = "ended"] /\ UNCHANGED pending_router
       ELSE /\ collector' = [collector EXCEPT !.pc = "sleep",
                                !.rtr = IF pending_router = None THEN @ ELSE pending_router]
            /\ pending_router' = None
    /\ UNCHANGED <<main, pending_signal, rtr, cfg, netvars, queuevars, running, working,
                   aggrvars, freed, submission, histvars>>

\* After the sleep, when it is time, it reports on every dispatcher, server and
\* aggregator.
CollectorWake ==
    /\ collector.pc = "sleep"
    /\ \E pc \in {"top", "report"} : collector' = [collector EXCEPT !.pc = pc]
    /\ UNCHANGED <<main, pending_signal, rtr, cfg, netvars, queuevars, running, working,
                   aggrvars, freed, submission, pending_router, histvars>>

CollectorReport(kind) ==
    /\ collector.kind = kind
    /\ collector.pc = "report"
    /\ collector' = [collector EXCEPT !.pc = "top"]
    /\ UNCHANGED <<main, pending_signal, rtr, cfg, netvars, queuevars, running, working,
                   aggrvars, freed, submission, pending_router, histvars>>

\* collector_runner sends its counts to the submission server, collector_writer
\* logs them.
RunnerReport == CollectorReport("runner")
WriterReport == CollectorReport("writer")

Exited == At("exited") /\ UNCHANGED vars

MainStep ==
    \/ ReadConfig \/ StartListening \/ StartCollector \/ StartServers
    \/ HandleSignal \/ ReadNewConfig \/ CloseListeners \/ ReloadCollector
    \/ ReloadAggregators \/ ReloadListeners \/ StopServers \/ TransplantQueues
    \/ RestartServers \/ ReloadWorkers \/ FreeOld
    \/ CloseAll \/ StopCollector \/ JoinCollector \/ StopAggregator \/ StopWorkers \/ Finish

CollectorStep == CollectorTop \/ CollectorWake \/ RunnerReport \/ WriterReport

Next ==
    \/ MainStep \/ CollectorStep \/ Exited
    \/ \E sig \in {"HUP", "USR1", "TERM"} : Signal(sig)

\* The threads of main() and the collector are scheduled.
Spec == Init /\ [][Next]_vars /\ WF_vars(MainStep) /\ WF_vars(CollectorStep)

----------------------------------------------------------------------------
(* Properties                                                              *)

\* The listener can be opened.
Bindable(l) ==
    /\ l.pem \notin BadPem
    /\ \A i \in DOMAIN Addrs[l.key] : Addrs[l.key][i] \notin Taken
    /\ \E i \in DOMAIN Addrs[l.key] : Addrs[l.key][i] \notin NoFamily

\* The certificate of the listener shows in what router_printconfig prints.
CertificateShows(c, l) ==
    \E i \in DOMAIN c.lsnrs : c.lsnrs[i] = l /\ PrintedListeners(c)[i] = l

\* Between reloads the listeners are those of the file as it was last read
\* (do_reload, router_printdiffs): each TCP or unix listener that can be opened
\* is in the array with all its sockets open, with TLS on the port answering
\* with the certificate of the file where a change of that is printed; and no
\* TCP or unix socket is open that belongs to no listener.
ListenersMatch ==
    At("loop") =>
        /\ \A l \in ToSet(seen.lsnrs) : (l.ctype # "udp" /\ Bindable(l)) =>
             \E m \in ToSet(cfg[rtr].lsnrs) :
                /\ m.key = l.key /\ m.ctype = l.ctype /\ m.trnsp = l.trnsp
                /\ <<rtr, m>> \in listeners
                /\ socks[rtr][m] \subseteq open
                /\ {s.addr : s \in socks[rtr][m]} = ToSet(Addrs[l.key]) \ NoFamily
                /\ (l.ctype = "tcp" /\ CertificateShows(seen, l)) =>
                       \A s \in socks[rtr][m] : s.crt = l.pem
        /\ \A s \in open : s.ctype # "udp" =>
             \E e \in listeners : e[1] = rtr /\ s \in socks[rtr][e[2]]

\* After a reload a server has the queue it had before, with the data in it, and
\* that queue still exists, when the server is in one cluster only and the new
\* configuration has a cluster of that name and type with it
\* (router_transplant_queues, router_free).
QueuesKept ==
    At("loop") => \A s \in DOMAIN kept : kept[s].alone =>
        squeue[rtr][s].q = kept[s].q /\ kept[s].q \notin destroyed

\* What runs uses nothing that was freed: the collector reporting on the
\* dispatchers, on the servers and aggregators of its router and through the
\* submission server, the servers' threads, the dispatchers, and until the
\* shutdown the expiry thread (do_reload, main).
FreedUnused ==
    /\ collector.pc = "report" =>
          /\ collector.rtr \notin freed \cup expired
          /\ working # None
          /\ collector.kind = "runner" => submission = "up"
    /\ running \cap freed = {}
    /\ working \notin freed
    /\ At("loop") => expiring \notin freed \cup expired

\* A SIGTERM ends the program and a SIGHUP or SIGUSR1 is seen to, unless the
\* program ends first: no reload waits forever for the collector (handle_signal,
\* collector_reloadcomplete, collector_stop).
SignalsServed ==
    /\ pending_signal = "TERM" ~> At("exited")
    /\ pending_signal \in {"HUP", "USR1"} ~> (pending_signal = "none" \/ At("exited"))

\* Every server that is in both configurations keeps its queue over a reload, as
\* router_transplant_queues is described; it does not when the server is in two
\* clusters.
IdenticalKept ==
    At("loop") => \A s \in DOMAIN kept :
        squeue[rtr][s].q = kept[s].q /\ kept[s].q \notin destroyed
=============================================================================
