----------------------------- MODULE Dispatcher -----------------------------
(***************************************************************************)
(* The dispatchers (dispatcher.c) and the thread of main() that reloads    *)
(* and stops them (relay.c).  A connection belongs to the event loop of    *)
(* one worker, whose callback resumes the destinations a full queue held   *)
(* up, reads, splits the buffer in lines, routes each one and hands it to  *)
(* its servers.  Meanwhile main() may hold the workers, expire the         *)
(* aggregator through a pipe the workers read, put a new router in place   *)
(* and free the old one.                                                   *)
(*                                                                         *)
(* The bytes of a connection are abstracted to positions in its stream.  A *)
(* line is two pieces, the second with the newline, so that position 2 * k *)
(* is the end of line k; sent, rd and done say how far the peer has        *)
(* written, the worker has read, and the lines have been split.  Running   *)
(* out of memory is left out, and so are the compressed and TLS streams.   *)
(***************************************************************************)
EXTENDS Integers, FiniteSets, SequencesExt

CONSTANTS
    workercnt,   \* the workers that serve connections
    Conns,       \* the connections
    Kinds,       \* their possible kinds: a set of functions from Conns
    Servers,     \* the servers, known by name to every router
    Lines,       \* the lines each peer sends at most
    Routes,      \* the servers each line is routed to, in order
    BufSize,     \* the pieces that fit in a connection's buffer
    PipeSize,    \* the pieces that fit in the aggregator's pipe
    MaxReloads   \* how often the configuration changes

ASSUME DispatcherAssumption ==
    /\ workercnt \in Nat \ {0}
    /\ Kinds \subseteq [Conns -> {"tcp", "udp", "aggr", "none"}]
    /\ Lines \in Nat
    /\ Routes \in [1 .. Lines -> Seq(Servers)]
    /\ BufSize \in Nat /\ BufSize >= 2
    /\ PipeSize \in Nat /\ PipeSize >= 2
    /\ MaxReloads \in Nat

Workers == 1 .. workercnt

\* The routers, numbered in the order main() reads them.
Routers == 1 .. MaxReloads + 1

VARIABLES
    kind,          \* what each connection is
    conn,          \* the connections
    connections,   \* how many connections each worker is counted to have
    job,           \* what each worker does
    running,       \* the workers whose event loop runs
    hold,          \* the workers told to serve aggregations only
    rtr,           \* the router each worker uses
    freed,         \* the routers that were freed, their servers with them
    main,          \* where main() is
    routed,        \* the lines of each connection that were routed
    handed         \* what each connection handed to the servers

vars == <<kind, conn, connections, job, running, hold, rtr, freed, main,
          routed, handed>>

\* The router main() holds.
Current == main.rtr

-----------------------------------------------------------------------------
(* Connections                                                             *)

isaggr(c) == kind[c] = "aggr"

isudp(c) == kind[c] = "udp"

\* UDP sockets and the aggregator's pipe have no idle timeout.
noexpire(c) == kind[c] \in {"udp", "aggr"}

Open(c) == conn[c].state = "open"

\* The descriptor of c would make its event fire.
Readable(c) == conn[c].rd < conn[c].sent \/ conn[c].eof

\* Pieces in the buffer, and the end of the line they begin with.
buflen(c) == conn[c].rd - conn[c].done

LineEnd(c) == 2 * (conn[c].done \div 2) + 2

\* Worker d has no callback in progress.
Idle == [pc |-> "idle"]

Free(d) == job[d].pc = "idle"

\* Worker d leaves its callback, and the connection is for the taking again.
Release(d, new) ==
    /\ conn' = [conn EXCEPT ![job[d].c] = [new EXCEPT !.takenby = 0]]
    /\ job' = [job EXCEPT ![d] = Idle]

\* The worker with the fewest connections, the first one of them.
LowConnections ==
    CHOOSE d \in Workers : \A o \in Workers :
        \/ connections[d] < connections[o]
        \/ connections[d] = connections[o] /\ d <= o

\* The listeners are open; the dispatcher that accepts is never held.
Listening == main.pc \notin {"close", "join", "stopped"}

\* dispatch_accept_cb and dispatch_addconnection.
AddConnection(c) ==
    /\ conn[c].state = "none"
    /\ kind[c] = "tcp"
    /\ Listening
    /\ LET d == LowConnections IN
           /\ conn' = [conn EXCEPT ![c].state = "open", ![c].d = d]
           /\ connections' = [connections EXCEPT ![d] = @ + 1]
    /\ UNCHANGED <<kind, job, running, hold, rtr, freed, main, routed, handed>>

\* No stream could be made for the socket: the count is taken back.
AddConnectionFails(c) ==
    /\ conn[c].state = "none"
    /\ kind[c] = "tcp"
    /\ Listening
    /\ conn' = [conn EXCEPT ![c].state = "refused"]
    /\ UNCHANGED <<kind, connections, job, running, hold, rtr, freed, main,
                   routed, handed>>

\* Mutant: the error path counts the close once more.
CloseCountsTwice(d, c, why) ==
    /\ conn' = [conn EXCEPT ![c].state = why]
    /\ connections' = [connections EXCEPT ![d] = @ - 2]

\* dispatch_closeconnection, called for worker d; why tells the callers apart.
CloseConnection(d, c, why) ==
    /\ conn' = [conn EXCEPT ![c].state = why]
    /\ connections' = [connections EXCEPT ![d] = @ - 1]

\* The peer writes: a datagram and the aggregator's metric are whole lines.
Send(c) ==
    /\ Open(c)
    /\ ~conn[c].eof
    /\ \E n \in 1 .. 2 * Lines - conn[c].sent :
           /\ noexpire(c) => n % 2 = 0
           /\ isaggr(c) => n = 2 /\ conn[c].sent + n - conn[c].rd <= PipeSize
           /\ conn' = [conn EXCEPT ![c].sent = @ + n]
    /\ UNCHANGED <<kind, connections, job, running, hold, rtr, freed, main,
                   routed, handed>>

\* The client closes its end.
Hangup(c) ==
    /\ Open(c)
    /\ kind[c] = "tcp"
    /\ ~conn[c].eof
    /\ conn' = [conn EXCEPT ![c].eof = TRUE]
    /\ UNCHANGED <<kind, connections, job, running, hold, rtr, freed, main,
                   routed, handed>>

\* maxsenddelay passes since lastwork, with destinations held up.
Age(c) ==
    /\ Open(c)
    /\ conn[c].dests # <<>>
    /\ ~conn[c].aged
    /\ conn' = [conn EXCEPT ![c].aged = TRUE]
    /\ UNCHANGED <<kind, connections, job, running, hold, rtr, freed, main,
                   routed, handed>>

-----------------------------------------------------------------------------
(* The callback of a connection, run by its worker                         *)

\* Mutant: a held worker serves nothing at all.
MayServeNone(d, c) == ~hold[d]

\* Only aggregations are served while the worker is held.
MayServe(d, c) == ~hold[d] \/ isaggr(c)

\* Mutant: a metric that waited is not forced.
ForceAggregations(c) == isaggr(c)

\* The metric must get in: an aggregation, or one that waited long enough.
Force(c) == isaggr(c) \/ conn[c].aged

\* Where dispatch_connection is with dests left to resume, and
\* dispatch_received_metrics with dests left of the line it routed.
AfterResume(dests) == IF dests = <<>> THEN "read" ELSE "resume"

AfterSend(dests) == IF dests = <<>> THEN "parse" ELSE "send"

\* dispatch_read_cb without a timeout.  A callback that only finds the
\* connection taken or its worker held changes nothing.
ReadCb(d, c) ==
    /\ d \in running
    /\ Free(d)
    /\ Open(c)
    /\ conn[c].d = d
    /\ Readable(c)
    /\ conn[c].takenby = 0
    /\ MayServe(d, c)
    /\ conn' = [conn EXCEPT ![c].takenby = d]
    /\ job' = [job EXCEPT ![d] = [pc |-> AfterResume(conn[c].dests),
                                  c |-> c, rtr |-> 0, force |-> Force(c)]]
    /\ UNCHANGED <<kind, connections, running, hold, rtr, freed, main, routed,
                   handed>>

\* dispatch_read_cb with a timeout: nothing arrived for IDLE_DISCONNECT_TIME.
Timeout(d, c) ==
    /\ d \in running
    /\ Free(d)
    /\ Open(c)
    /\ conn[c].d = d
    /\ ~noexpire(c)
    /\ ~Readable(c)
    /\ CloseConnection(d, c, "idle")
    /\ UNCHANGED <<kind, job, running, hold, rtr, freed, main, routed, handed>>

\* The router whose memory the worker uses next, 0 if none.
InUse(d) ==
    CASE job[d].pc \in {"resume", "send"} -> Head(conn[job[d].c].dests).rtr
      [] job[d].pc = "route" -> job[d].rtr
      [] OTHER -> 0

Sending(d) ==
    /\ job[d].pc \in {"resume", "send"}
    /\ InUse(d) \notin freed

\* Mutant: the destination that was served stays the first.
HandOverAgain(d) ==
    LET c == job[d].c IN
    /\ Sending(d)
    /\ LET e == Head(conn[c].dests) IN
           /\ handed' = [handed EXCEPT ![c] =
                            Append(@, [line |-> e.line, dest |-> e.dest])]
    /\ UNCHANGED <<kind, conn, connections, job, running, hold, rtr, freed, main,
                   routed>>

\* dispatch_process_dests: server_send takes the metric for the first
\* destination that is left; after the last one the metric is complete.
HandOver(d) ==
    LET c == job[d].c IN
    /\ Sending(d)
    /\ LET e == Head(conn[c].dests) IN
           /\ handed' = [handed EXCEPT ![c] =
                            Append(@, [line |-> e.line, dest |-> e.dest])]
           /\ conn' = [conn EXCEPT ![c].dests = Tail(@)]
           /\ job' = [job EXCEPT ![d].pc = IF @ = "resume"
                                           THEN AfterResume(conn'[c].dests)
                                           ELSE AfterSend(conn'[c].dests)]
    /\ UNCHANGED <<kind, connections, running, hold, rtr, freed, main, routed>>

\* What the end of dispatch_connection makes of k, the state of a connection
\* of which something was read or split: datagrams keep no rest.
Settled(c, k) ==
    IF isudp(c) THEN [k EXCEPT !.done = k.rd, !.needmore = TRUE] ELSE k

\* Mutant: the break leaves needmore set.
StallNeedsMore(d) ==
    LET c == job[d].c IN
    /\ Sending(d)
    /\ ~job[d].force
    /\ Release(d, IF job[d].pc = "resume" THEN conn[c]
                  ELSE Settled(c, [conn[c] EXCEPT !.needmore = TRUE]))
    /\ UNCHANGED <<kind, connections, running, hold, rtr, freed, main, routed,
                   handed>>

\* dispatch_process_dests: the queue of the first destination is full, and it
\* is too early to force the metric in.  What is left waits in dests.
Stall(d) ==
    LET c == job[d].c IN
    /\ Sending(d)
    /\ ~job[d].force
    /\ Release(d, IF job[d].pc = "resume" THEN conn[c]
                  ELSE Settled(c, [conn[c] EXCEPT !.needmore = FALSE]))
    /\ UNCHANGED <<kind, connections, running, hold, rtr, freed, main, routed,
                   handed>>

\* The buffer holds lines that were left when the metrics stalled.
HasLeft(c) == ~conn[c].needmore /\ buflen(c) > 0

\* dispatch_connection: read as much as there is and fits, unless HasLeft.
Read(d) ==
    LET c == job[d].c IN
    /\ job[d].pc = "read"
    /\ \/ HasLeft(c) /\ UNCHANGED conn
       \/ /\ ~HasLeft(c)
          /\ \E n \in 1 .. BufSize - buflen(c) :
                 /\ conn[c].rd + n <= conn[c].sent
                 /\ isudp(c) => n % 2 = 0
                 /\ conn' = [conn EXCEPT ![c].rd = @ + n]
    /\ job' = [job EXCEPT ![d].pc = "parse"]
    /\ UNCHANGED <<kind, connections, running, hold, rtr, freed, main, routed,
                   handed>>

\* dispatch_connection: strmread returns 0, for the client has closed.
ReadEof(d) ==
    LET c == job[d].c IN
    /\ job[d].pc = "read"
    /\ ~HasLeft(c)
    /\ conn[c].rd = conn[c].sent
    /\ conn[c].eof
    /\ CloseConnection(d, c, "eof")
    /\ job' = [job EXCEPT ![d] = Idle]
    /\ UNCHANGED <<kind, running, hold, rtr, freed, main, routed, handed>>

\* dispatch_received_metrics: a whole line; self->rtr is read for it.
Parse(d) ==
    LET c == job[d].c IN
    /\ job[d].pc = "parse"
    /\ LineEnd(c) <= conn[c].rd
    /\ job' = [job EXCEPT ![d].pc = "route", ![d].rtr = rtr[d]]
    /\ UNCHANGED <<kind, conn, connections, running, hold, rtr, freed, main,
                   routed, handed>>

\* Mutant: the line stays in the buffer.
RouteLineAgain(d) ==
    LET c == job[d].c
        k == LineEnd(c) \div 2 IN
    /\ job[d].pc = "route"
    /\ job[d].rtr \notin freed
    /\ Len(routed[c]) < 2 * Lines
    /\ conn' = [conn EXCEPT
                  ![c].aged = FALSE,
                  ![c].dests = [i \in DOMAIN Routes[k] |->
                      [line |-> k, dest |-> Routes[k][i], rtr |-> job[d].rtr]]]
    /\ routed' = [routed EXCEPT ![c] = Append(@, k)]
    /\ job' = [job EXCEPT ![d].pc = AfterSend(conn'[c].dests),
                          ![d].force = isaggr(c)]
    /\ UNCHANGED <<kind, connections, running, hold, rtr, freed, main, handed>>

\* dispatch_received_metrics: router_route finds the line's destinations.
RouteLine(d) ==
    LET c == job[d].c
        k == LineEnd(c) \div 2 IN
    /\ job[d].pc = "route"
    /\ job[d].rtr \notin freed
    /\ conn' = [conn EXCEPT
                  ![c].done = LineEnd(c),
                  ![c].aged = FALSE,
                  ![c].dests = [i \in DOMAIN Routes[k] |->
                      [line |-> k, dest |-> Routes[k][i], rtr |-> job[d].rtr]]]
    /\ routed' = [routed EXCEPT ![c] = Append(@, k)]
    /\ job' = [job EXCEPT ![d].pc = AfterSend(conn'[c].dests),
                          ![d].force = isaggr(c)]
    /\ UNCHANGED <<kind, connections, running, hold, rtr, freed, main, handed>>

\* dispatch_received_metrics: no whole line is left; the rest needs more.
ParseEnd(d) ==
    LET c == job[d].c IN
    /\ job[d].pc = "parse"
    /\ LineEnd(c) > conn[c].rd
    /\ Release(d, Settled(c, [conn[c] EXCEPT !.needmore = buflen(c) > 0]))
    /\ UNCHANGED <<kind, connections, running, hold, rtr, freed, main, routed,
                   handed>>

\* dispatch_runner: the event loop ends, between callbacks.
Exit(d) ==
    /\ main.pc = "join"
    /\ d \in running
    /\ Free(d)
    /\ running' = running \ {d}
    /\ UNCHANGED <<kind, conn, connections, job, hold, rtr, freed, main,
                   routed, handed>>

Callback(d) ==
    \/ \E c \in Conns : ReadCb(d, c)
    \/ HandOver(d)
    \/ Stall(d)
    \/ Read(d)
    \/ ReadEof(d)
    \/ Parse(d)
    \/ RouteLine(d)
    \/ ParseEnd(d)
    \/ Exit(d)

-----------------------------------------------------------------------------
(* The thread of main()                                                    *)

\* do_reload, with a configuration that differs: main() goes on to remove the
\* listeners that are gone.
Sighup ==
    /\ main.pc = "run"
    /\ Current <= MaxReloads
    /\ main' = [main EXCEPT !.pc = "remove"]
    /\ UNCHANGED <<kind, conn, connections, job, running, hold, rtr, freed,
                   routed, handed>>

\* __dispatch_removelistener of a UDP socket: freeing its event waits for a
\* callback, and the count taken down is that of the listener's dispatcher.
\* A reload does not transplant the socket, so a later router lacks it.
RemoveListener(c) ==
    /\ main.pc \in {"remove", "close"}
    /\ isudp(c)
    /\ Current = 1
    /\ Open(c)
    /\ conn[c].takenby = 0
    /\ CloseConnection(0, c, "removed")
    /\ UNCHANGED <<kind, job, running, hold, rtr, freed, main, routed, handed>>

\* All listeners were looked at.
Removed ==
    /\ main.pc = "remove"
    /\ main' = [main EXCEPT !.pc = "hold", !.id = 1]
    /\ UNCHANGED <<kind, conn, connections, job, running, hold, rtr, freed,
                   routed, handed>>

\* dispatchs_hold, one worker at a time.
Hold ==
    /\ main.pc = "hold"
    /\ hold' = [hold EXCEPT ![main.id] = TRUE]
    /\ main' = IF main.id < workercnt THEN [main EXCEPT !.id = @ + 1]
                                      ELSE [main EXCEPT !.pc = "expire"]
    /\ UNCHANGED <<kind, conn, connections, job, running, rtr, freed, routed,
                   handed>>

\* The aggregator has written all it had to its pipe.
AggregatorDone ==
    \A c \in Conns : isaggr(c) /\ Open(c) => conn[c].sent = 2 * Lines

\* aggregator_stop returns; then the listeners are transplanted and router_swap
\* changes the servers over.
Expired ==
    /\ main.pc = "expire"
    /\ AggregatorDone
    /\ main' = [main EXCEPT !.pc = "reload", !.id = 1]
    /\ UNCHANGED <<kind, conn, connections, job, running, hold, rtr, freed,
                   routed, handed>>

\* Mutant: the loop stops one worker early.
ReloadSkipsLast ==
    /\ main.pc = "reload"
    /\ rtr' = [rtr EXCEPT ![main.id] = Current + 1]
    /\ hold' = [hold EXCEPT ![main.id] = FALSE]
    /\ main' = IF main.id < workercnt - 1 THEN [main EXCEPT !.id = @ + 1]
                                          ELSE [main EXCEPT !.pc = "free"]
    /\ UNCHANGED <<kind, conn, connections, job, running, freed, routed,
                   handed>>

\* dispatchs_schedulereload: main() itself puts the router in place and
\* lifts the hold, one worker at a time.
Reload ==
    /\ main.pc = "reload"
    /\ rtr' = [rtr EXCEPT ![main.id] = Current + 1]
    /\ hold' = [hold EXCEPT ![main.id] = FALSE]
    /\ main' = IF main.id < workercnt THEN [main EXCEPT !.id = @ + 1]
                                      ELSE [main EXCEPT !.pc = "free"]
    /\ UNCHANGED <<kind, conn, connections, job, running, freed, routed,
                   handed>>

\* The wait for the reload is over at once; router_free of the old router.
FreeRouter ==
    /\ main.pc = "free"
    /\ freed' = freed \union {Current}
    /\ main' = [main EXCEPT !.pc = "run", !.rtr = @ + 1]
    /\ UNCHANGED <<kind, conn, connections, job, running, hold, rtr, routed,
                   handed>>

\* The end of main(): the listeners are closed.
Sigterm ==
    /\ main.pc = "run"
    /\ main' = [main EXCEPT !.pc = "close"]
    /\ UNCHANGED <<kind, conn, connections, job, running, hold, rtr, freed,
                   routed, handed>>

\* aggregator_stop has returned; the workers are told to stop.
StopWorkers ==
    /\ main.pc = "close"
    /\ \A c \in Conns : isudp(c) /\ Open(c) => Current > 1
    /\ AggregatorDone
    /\ main' = [main EXCEPT !.pc = "join"]
    /\ UNCHANGED <<kind, conn, connections, job, running, hold, rtr, freed,
                   routed, handed>>

\* dispatchs_free closes what is open, and the router is freed.
Stopped ==
    /\ main.pc = "join"
    /\ running = {}
    /\ conn' = [c \in Conns |->
                  IF Open(c) THEN [conn[c] EXCEPT !.state = "stopped"]
                             ELSE conn[c]]
    /\ connections' = [connections EXCEPT
                         ![0] = @ - Cardinality({c \in Conns : Open(c)})]
    /\ freed' = freed \union {Current}
    /\ main' = [main EXCEPT !.pc = "stopped"]
    /\ UNCHANGED <<kind, job, running, hold, rtr, routed, handed>>

Main ==
    \/ Removed
    \/ Hold
    \/ Expired
    \/ Reload
    \/ FreeRouter
    \/ \E c \in Conns : main.pc = "close" /\ RemoveListener(c)
    \/ StopWorkers
    \/ Stopped

-----------------------------------------------------------------------------
Init ==
    /\ kind \in Kinds
    /\ \E at \in [{c \in Conns : noexpire(c)} -> Workers] :
           LET count(d) == Cardinality({c \in DOMAIN at : at[c] = d}) IN
           /\ \A d, o \in Workers : count(d) <= count(o) + 1
           /\ conn = [c \in Conns |->
                 [state |-> IF noexpire(c) THEN "open" ELSE "none",
                  d |-> IF noexpire(c) THEN at[c] ELSE 0, takenby |-> 0,
                  sent |-> 0, rd |-> 0, done |-> 0, eof |-> FALSE,
                  needmore |-> FALSE, aged |-> FALSE, dests |-> <<>>]]
           /\ connections = [d \in 0 .. workercnt |-> count(d)]
    /\ job = [d \in Workers |-> Idle]
    /\ running = Workers
    /\ hold = [d \in Workers |-> FALSE]
    /\ rtr = [d \in Workers |-> 1]
    /\ freed = {}
    /\ main = [pc |-> "run", id |-> 1, rtr |-> 1]
    /\ routed = [c \in Conns |-> <<>>]
    /\ handed = [c \in Conns |-> <<>>]

Next ==
    \/ \E c \in Conns :
           \/ AddConnection(c)
           \/ AddConnectionFails(c)
           \/ Send(c)
           \/ Hangup(c)
           \/ Age(c)
           \/ RemoveListener(c)
    \/ \E d \in Workers :
           \/ Callback(d)
           \/ \E c \in Conns : Timeout(d, c)
    \/ Sighup
    \/ Sigterm
    \/ Main

Spec == Init /\ [][Next]_vars

\* Event loops run the callbacks of what is readable, time passes, main()
\* goes on, and the aggregator writes what it has to.  Nothing is assumed of
\* the clients, of the queues, or of the idle timeout.
Fairness ==
    /\ \A d \in Workers : WF_vars(Callback(d))
    /\ \A c \in Conns :
           /\ WF_vars(Age(c))
           /\ WF_vars(isaggr(c) /\ Send(c))
    /\ WF_vars(Main)

FairSpec == Spec /\ Fairness

-----------------------------------------------------------------------------
(* Properties                                                              *)

\* What the lines ls are to be handed over as.
Expand(ls) ==
    FlattenSeq([i \in DOMAIN ls |->
        [j \in DOMAIN Routes[ls[i]] |->
            [line |-> ls[i], dest |-> Routes[ls[i]][j]]]])

\* Every destination of every routed line gets it exactly once and in order,
\* however often dispatch_process_dests stalls half way and resumes: what was
\* handed over and what waits in dests is what the routed lines expand to.
ExactlyOnce ==
    \A c \in Conns :
        handed[c] \o [i \in DOMAIN conn[c].dests |->
                         [line |-> conn[c].dests[i].line,
                          dest |-> conn[c].dests[i].dest]] = Expand(routed[c])

\* dispatch_received_metrics routes the lines of a connection in the order
\* they arrived, each once, and skips none of a stream, however the reads cut
\* it up and wherever it was left when a queue was full.
InOrder ==
    \A c \in Conns :
        /\ \A i, j \in DOMAIN routed[c] : i < j => routed[c][i] < routed[c][j]
        /\ ~isudp(c) => Len(routed[c]) = conn[c].done \div 2

\* A client that closes its connection loses nothing: dispatch_connection only
\* sees the end of the stream once all whole lines were handed over.
EofDelivers ==
    \A c \in Conns : conn[c].state = "eof" =>
        handed[c] = Expand([i \in 1 .. conn[c].sent \div 2 |-> i])

\* A worker is never counted fewer connections than it has, so the count
\* dispatch_worker_with_low_connections goes by cannot wrap around.
NotUndercounted ==
    \A d \in Workers :
        connections[d] >= Cardinality({c \in Conns : Open(c) /\ conn[c].d = d})

\* When do_reload returns every worker uses the new router and is held no
\* more, and at no time does a worker have a router that was freed.
ReloadReachesAll ==
    \A d \in running :
        /\ rtr[d] \notin freed
        /\ main.pc = "run" => rtr[d] = Current /\ ~hold[d]

\* Worker d is about to use memory that was freed.
Broken == \E d \in Workers : InUse(d) \in freed

\* Once a client has closed, its connection is closed too: a full queue delays
\* that only until maxsenddelay has passed, a reload only until it is over.
EofIsServed ==
    \A c \in Conns : (Open(c) /\ conn[c].eof) ~> (~Open(c) \/ Broken)

\* A reload ends: the held workers still read the pipe the aggregator writes
\* its last metrics to, which main() waits for.
ReloadEnds == (main.pc = "hold") ~> (main.pc = "run")

\* Nothing refers to the servers of a router that was freed (the comment in
\* router_free).
FreedUnreferenced ==
    \A c \in Conns : Open(c) =>
        \A i \in DOMAIN conn[c].dests : conn[c].dests[i].rtr \notin freed

=============================================================================
