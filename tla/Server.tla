------------------------------- MODULE Server -------------------------------
(***************************************************************************)
(* The servers of one cluster (server.c): the reader threads that take     *)
(* batches of metrics from the queues and write them to their peers, the   *)
(* dispatchers that call server_send, and the shutdown of the cluster.     *)
(*                                                                         *)
(* A queue is the bounded FIFO that module Queue is shown to implement, so *)
(* a call into queue.c is one atomic update of a sequence.  The updates a  *)
(* thread makes to queues and shared counters are separate actions, as is  *)
(* every system call; a test that reads several of them is one action with *)
(* the first update that depends on it, unless an update of another thread *)
(* in between matters (SendCheck and Stall, PollTake and MarkAlive,        *)
(* RoundEnd and Decide).  What the network does is a choice among the      *)
(* results the system call can have: config.faults says which failures a   *)
(* peer may cause.                                                         *)
(*                                                                         *)
(* Left out: the counters nothing depends on (ticks, stalls, requeue), the *)
(* sizes of metrics (the stream buffer holds BufSize of them), compressed  *)
(* and TLS streams (same interface, same buffering), and time: a timeout   *)
(* that can expire is a choice.                                            *)
(***************************************************************************)
EXTENDS Integers, Sequences, FiniteSets, SequencesExt

CONSTANTS
  Metrics, Dispatchers,
  Servers, Conns,   \* the servers and connection numbers there can be
  NULL,             \* no metric, no server
  Configs,          \* the clusters to look at, see ServerAssumption
  BufSize,          \* metrics the buffer of a stream holds (METRIC_BUFSIZ)
  FAIL_WAIT_COUNT,
  Spread,           \* 4: batches a diverted metric's queue must have free in excess
  maxstalls,
  StallWrap         \* 2^8: stallseq is an unsigned char

Types == {"forward", "any_of", "failover", "lb"}
FaultKinds == {"refused", "timeout", "hangup", "broken", "slow"}

(* A configuration: the servers of the cluster in their order; the         *)
(* connections each has; the type ("forward" is also a plain hash,         *)
(* "any_of" a dynamic hash); for each server the failures its peer may     *)
(* cause; the servers that accept no connection; how many metrics there    *)
(* are to send (a bound of the model); the number of addresses a           *)
(* name resolves to; the capacity of a queue; the metrics taken from it at *)
(* once; the threshold of the command line, and those of the cluster       *)
(* (by default the same); whether connections have a ttl; whether the      *)
(* servers are stopped to hand over their queues; whether shutdown_timeout *)
(* may expire before the work is done; whether the threads created by      *)
(* server_start may still have to start.                                   *)
ASSUME ServerAssumption ==
  /\ \A c \in Configs :
       /\ c.members \in Seq(Servers) /\ Len(c.members) > 0
       /\ \A i, j \in 1..Len(c.members) : c.members[i] = c.members[j] => i = j
       /\ c.conns \subseteq Conns /\ c.conns # {}
       /\ c.type \in Types
       /\ c.faults \in [Servers -> SUBSET FaultKinds]
       /\ c.unreachable \subseteq Servers
       /\ {c.load, c.addresses, c.qsize, c.bsize} \subseteq Nat \ {0}
       /\ {c.queuefree_threshold_start, c.threshold_start, c.threshold_end} \subseteq Nat
       /\ {c.ttl, c.swap, c.expires, c.latestart} \subseteq BOOLEAN
  /\ {BufSize, FAIL_WAIT_COUNT, StallWrap} \subseteq Nat \ {0}
  /\ {Spread, maxstalls} \subseteq Nat
  /\ NULL \notin Metrics \cup Servers

SERVER_KEEP_RUNNING == 1
SERVER_STOP == 0
SERVER_STOP_FORCE == -1

Threads == Servers \X Conns

VARIABLES
  config,           \* the cluster: never changes
  queue,            \* entries of every queue, oldest first
  keep_running,     \* per server
  qfree_threshold,  \* per server: free entries below which it is overloaded
  stallseq,         \* per server: stalls since the queue had room
  dropped,          \* per server: metrics counted as dropped
  failure,          \* per connection: 0..FAIL_WAIT_COUNT
  alive, running,   \* per connection
  metrics,          \* per connection: metrics counted as sent
  pc, fd,           \* per connection: control state, and whether it is open
  broken,           \* per connection: its peer is gone, writes keep failing
  obuf,             \* per connection: metrics in the stream buffer
  batch,            \* per connection: metrics taken and not yet settled
  flushed, total,   \* per connection: metrics of the batch flushed, buffered
  qfree, shutdown,  \* per connection: values read earlier in the round
  sec,              \* per connection: secondary whose queue is sent, 0 for the own
  ret,              \* per connection: sign of server_queueread's result
  dpc, dmetric, ddest, dqueue,  \* per dispatcher: one call of server_send
  phase, next,      \* shutdown: what the main thread does, for which member
  mem,              \* per metric: "new", "live", or why it was freed
  delivered         \* metrics written to a socket

wire   == <<fd, broken, obuf, delivered>>
local  == <<pc, batch, flushed, total, qfree, shutdown, sec, ret>>
conns  == <<failure, alive, running, metrics>>
server == <<keep_running, qfree_threshold, stallseq, dropped>>
disp   == <<dpc, dmetric, ddest, dqueue>>
main   == <<phase, next>>
vars   == <<config, queue, mem, wire, local, conns, server, disp, main>>

-----------------------------------------------------------------------------
Members == config.members
Cluster == Range(Members)
QSize == config.qsize
bsize == config.bsize

(* router_add_cluster: every member of these clusters knows all members,   *)
(* and all but the first of a failover cluster stand by.                   *)
HasSecondaries == config.type # "forward"
failover(s) == config.type = "failover" /\ s # Members[1]

(* cluster_new: the members of a failover or lb cluster share its queue. *)
shared_queue == config.type \in {"failover", "lb"}
QueueOf(s) == IF shared_queue THEN Members[1] ELSE s

(* The server whose queue t is sending. *)
Source(t) == IF sec[t] = 0 THEN t[1] ELSE Members[sec[t]]

queue_free(s) == QSize - Len(queue[QueueOf(s)])
queue_len(s) == Len(queue[QueueOf(s)])

(* QUEUE_FREE_CRITICAL *)
Critical(s) == queue_free(s) < qfree_threshold[s]

(* 0 as soon as one connection works, else the largest failure count. *)
server_failed(s) ==
  LET counts == {failure[<<s, n>>] : n \in config.conns}
  IN IF 0 \in counts THEN 0 ELSE Max(counts)

server_alive(s) == \A n \in config.conns : alive[<<s, n>>] = 1

(* server_add_failure, on the value of the counter. *)
AddFailure(count) == IF count < FAIL_WAIT_COUNT THEN count + 1 ELSE count

MayFail(t, fault) == fault \in config.faults[t[1]]
Free(ms, why) == mem' = [m \in Metrics |-> IF m \in ms THEN why ELSE mem[m]]
Goto(t, label) == pc' = [pc EXCEPT ![t] = label]

(* server_queueread returns r. *)
Return(t, r) ==
  /\ Goto(t, "returned")
  /\ ret' = [ret EXCEPT ![t] = r]

-----------------------------------------------------------------------------
(* The threads of the cluster were created by server_start. *)
Created(t) == t[1] \in Cluster /\ t[2] \in config.conns
Started(t) == Created(t) /\ ~config.latestart

Init ==
  /\ config \in Configs
  /\ queue = [s \in Servers |-> <<>>]
  /\ keep_running = [s \in Servers |-> SERVER_KEEP_RUNNING]
  /\ qfree_threshold = [s \in Servers |-> config.queuefree_threshold_start]
  /\ stallseq = [s \in Servers |-> 0]
  /\ dropped = [s \in Servers |-> 0]
  /\ failure = [t \in Threads |-> 0]
  /\ alive = [t \in Threads |-> IF Started(t) THEN 1 ELSE 0]
  /\ running = [t \in Threads |-> IF Started(t) THEN 1 ELSE 0]
  /\ metrics = [t \in Threads |-> 0]
  /\ pc = [t \in Threads |-> IF ~Created(t) THEN "done"
                           ELSE IF Started(t) THEN "top" ELSE "created"]
  /\ fd = [t \in Threads |-> FALSE]
  /\ broken = [t \in Threads |-> FALSE]
  /\ obuf = [t \in Threads |-> <<>>]
  /\ batch = [t \in Threads |-> <<>>]
  /\ flushed = [t \in Threads |-> 0]
  /\ total = [t \in Threads |-> 0]
  /\ qfree = [t \in Threads |-> 0]
  /\ shutdown = [t \in Threads |-> SERVER_KEEP_RUNNING]
  /\ sec = [t \in Threads |-> 0]
  /\ ret = [t \in Threads |-> 0]
  /\ dpc = [d \in Dispatchers |-> "idle"]
  /\ dmetric = [d \in Dispatchers |-> NULL]
  /\ ddest = [d \in Dispatchers |-> NULL]
  /\ dqueue = [d \in Dispatchers |-> NULL]
  /\ phase = "running" /\ next = 1
  /\ mem = [m \in Metrics |-> "new"]
  /\ delivered = {}

-----------------------------------------------------------------------------
(* Dispatchers. *)

(* The member router_route picks: the first one with a shared queue, else  *)
(* any (forward sends a copy to each, the others take one by a hash).      *)
Destinations == IF shared_queue THEN {Members[1]} ELSE Cluster

(* A dispatcher has allocated a metric for s and calls server_send. *)
Dispatch(d, m, s) ==
  /\ phase = "running" /\ s \in Destinations
  /\ dpc[d] = "idle" /\ mem[m] = "new"
  /\ Cardinality({x \in Metrics : mem[x] # "new"}) < config.load
  /\ mem' = [mem EXCEPT ![m] = "live"]
  /\ dmetric' = [dmetric EXCEPT ![d] = m]
  /\ ddest' = [ddest EXCEPT ![d] = s]
  /\ dpc' = [dpc EXCEPT ![d] = "send"]
  /\ UNCHANGED <<queue, dqueue, wire, local, conns, server, main>>

(* The members an overloaded s may divert to, those with most room. *)
Diversions(s) ==
  LET roomy == {x \in Cluster \ {s} : /\ server_failed(s) = 0
                                      /\ keep_running[x] = SERVER_KEEP_RUNNING
                                      /\ queue_free(x) > queue_free(s) + Spread * bsize}
  IN {x \in roomy : \A y \in roomy : queue_free(y) <= queue_free(x)}

(* A metric for a full queue is dropped, not stalled: the server is down   *)
(* and nobody backs it up, or it was stalled too often.                    *)
DropsInstead(s, force) ==
  \/ /\ server_failed(s) > 0
     /\ force \/ ~HasSecondaries \/ \A x \in Cluster : server_failed(x) > 0
  \/ force
  \/ stallseq[s] = maxstalls

(* Mutant: a forced drop is not counted. *)
CountDropUnlessForced(s, force) ==
  dropped' = IF force THEN dropped ELSE [dropped EXCEPT ![s] = @ + 1]

CountDrop(s, force) == dropped' = [dropped EXCEPT ![s] = @ + 1]

(* server_send up to queue_enqueue, or up to the stall.  force is set when *)
(* the metric has waited too long, or comes from an aggregator.            *)
SendCheck(d, force) ==
  LET s == ddest[d]
      divert == /\ ~force /\ HasSecondaries
                /\ server_failed(s) > 0 \/ Critical(s)
                /\ Diversions(s) # {}
  IN /\ dpc[d] = "send" \/ (dpc[d] = "stalled" /\ phase = "running")
     /\ \/ /\ divert
           /\ \E x \in Diversions(s) : dqueue' = [dqueue EXCEPT ![d] = QueueOf(x)]
           /\ dpc' = [dpc EXCEPT ![d] = "enqueue"]
           /\ UNCHANGED <<stallseq, dropped>>
        \/ /\ ~divert /\ queue_free(s) = 0 /\ DropsInstead(s, force)
           /\ CountDrop(s, force)
           /\ dqueue' = [dqueue EXCEPT ![d] = QueueOf(s)]
           /\ dpc' = [dpc EXCEPT ![d] = "enqueue"]
           /\ UNCHANGED stallseq
        \/ /\ ~divert /\ queue_free(s) = 0 /\ ~DropsInstead(s, force)
           /\ dpc' = [dpc EXCEPT ![d] = "stall"]
           /\ UNCHANGED <<stallseq, dropped, dqueue>>
        \/ /\ ~divert /\ queue_free(s) > 0
           /\ stallseq' = [stallseq EXCEPT ![s] = 0]
           /\ dqueue' = [dqueue EXCEPT ![d] = QueueOf(s)]
           /\ dpc' = [dpc EXCEPT ![d] = "enqueue"]
           /\ UNCHANGED dropped
     /\ UNCHANGED <<queue, mem, dmetric, ddest, keep_running, qfree_threshold,
                    wire, local, conns, main>>

(* The stall is counted and the metric stays with the connection. *)
Stall(d) ==
  /\ dpc[d] = "stall"
  /\ stallseq' = [stallseq EXCEPT ![ddest[d]] = (@ + 1) % StallWrap]
  /\ dpc' = [dpc EXCEPT ![d] = "stalled"]
  /\ UNCHANGED <<queue, mem, dmetric, ddest, dqueue, keep_running, qfree_threshold,
                 dropped, wire, local, conns, main>>

(* queue_enqueue: a full queue frees its oldest entry. *)
Enqueue(d) ==
  LET q == dqueue[d]
      full == Len(queue[q]) = QSize
  IN /\ dpc[d] = "enqueue"
     /\ queue' = [queue EXCEPT ![q] = Append(IF full THEN Tail(@) ELSE @, dmetric[d])]
     /\ Free(IF full THEN {Head(queue[q])} ELSE {}, "overflow")
     /\ dpc' = [dpc EXCEPT ![d] = "idle"]
     /\ dmetric' = [dmetric EXCEPT ![d] = NULL]
     /\ ddest' = [ddest EXCEPT ![d] = NULL]
     /\ dqueue' = [dqueue EXCEPT ![d] = NULL]
     /\ UNCHANGED <<wire, local, conns, server, main>>

-----------------------------------------------------------------------------
(* Reader threads: server_queuereader and what it calls, thread t = <<s, n>>. *)

ReaderStart(t) ==
  /\ pc[t] = "created"
  /\ running' = [running EXCEPT ![t] = 1]
  /\ alive' = [alive EXCEPT ![t] = 1]
  /\ Goto(t, "top")
  /\ UNCHANGED <<queue, mem, wire, batch, flushed, total, qfree, shutdown, sec, ret,
                 failure, metrics, server, disp, main>>

(* A round starts by reading keep_running. *)
ReaderTop(t) ==
  /\ pc[t] = "top"
  /\ shutdown' = [shutdown EXCEPT ![t] = keep_running[t[1]]]
  /\ Goto(t, IF keep_running[t[1]] = SERVER_STOP_FORCE THEN "exit" ELSE "read")
  /\ UNCHANGED <<queue, mem, wire, batch, flushed, total, qfree, sec, ret,
                 conns, server, disp, main>>

(* Mutant: the test of the failure counts is inverted. *)
StandsByInverted(s) ==
  /\ failover(s) /\ ~Critical(s)
  /\ \E i \in 1..Len(Members) : /\ \A j \in 1..i : Members[j] # s
                                /\ server_failed(Members[i]) >= FAIL_WAIT_COUNT

(* A standby member does nothing while a member before it is not failed. *)
StandsBy(s) ==
  /\ failover(s) /\ ~Critical(s)
  /\ \E i \in 1..Len(Members) : /\ \A j \in 1..i : Members[j] # s
                                /\ server_failed(Members[i]) < FAIL_WAIT_COUNT

(* Another member whose queue is more than half full. *)
BusySecondary(s) == \E x \in Cluster \ {s} : queue_free(x) < queue_len(x)

(* server_queueread up to server_connect.  The idle timers never close the *)
(* connection: *idle++ moves the pointer to the counter, not the counter.  *)
QueueRead(t) ==
  LET s == t[1]
      empty == queue_free(s) = QSize
      nothing == empty /\ \/ ~HasSecondaries
                          \/ shutdown[t] # SERVER_KEEP_RUNNING /\ ~BusySecondary(s)
  IN /\ pc[t] = "read"
     /\ qfree' = [qfree EXCEPT ![t] = queue_free(s)]
     /\ qfree_threshold' =
          IF ~HasSecondaries THEN qfree_threshold
          ELSE IF Critical(s) /\ qfree_threshold[s] = config.threshold_start
            THEN [qfree_threshold EXCEPT ![s] = config.threshold_end]
          ELSE IF ~Critical(s) /\ qfree_threshold[s] = config.threshold_end
            THEN [qfree_threshold EXCEPT ![s] = config.threshold_start]
          ELSE qfree_threshold
     /\ IF StandsBy(s) \/ nothing
          THEN Return(t, 0)
          ELSE Goto(t, "connect") /\ UNCHANGED ret
     /\ UNCHANGED <<queue, mem, wire, batch, flushed, total, shutdown, sec,
                    conns, keep_running, stallseq, dropped, disp, main>>

(* The connection is there, or made: send from the own queue if it had     *)
(* something, else look at the secondaries.                                *)
Connected(t) ==
  /\ sec' = [sec EXCEPT ![t] = 0]
  /\ Goto(t, IF qfree[t] < QSize THEN "poll" ELSE "secondaries")
  /\ ret' = [ret EXCEPT ![t] = 0]
  /\ UNCHANGED <<queue, mem, delivered, batch, flushed, total, qfree, shutdown,
                 conns, server, disp, main>>

Reuse(t) ==
  /\ pc[t] = "connect" /\ fd[t]
  /\ Connected(t)
  /\ UNCHANGED <<fd, broken, obuf>>

Connect(t) ==
  /\ pc[t] = "connect" /\ ~fd[t] /\ t[1] \notin config.unreachable
  /\ fd' = [fd EXCEPT ![t] = TRUE]
  /\ broken' = [broken EXCEPT ![t] = FALSE]
  /\ obuf' = [obuf EXCEPT ![t] = <<>>]
  /\ Connected(t)

(* The failure is counted on the last address of the list only, but        *)
(* server_connect gives up on the first.  (Failures of fcntl and of the    *)
(* set-up of a compressed or TLS stream, always counted, are left out.)    *)
ConnectFails(t) ==
  /\ pc[t] = "connect" /\ ~fd[t]
  /\ t[1] \in config.unreachable \/ MayFail(t, "refused")
  /\ failure' = [failure EXCEPT ![t] = IF config.addresses = 1 THEN AddFailure(@) ELSE @]
  /\ Return(t, -1)
  /\ UNCHANGED <<queue, mem, wire, batch, flushed, total, qfree, shutdown, sec,
                 alive, running, metrics, server, disp, main>>

(* server_queuesend up to the write loop: wait until the socket accepts    *)
(* data, then take a batch.                                                *)
PollTake(t) ==
  LET q == QueueOf(Source(t))
      len == Min({bsize, Len(queue[q])})
  IN /\ pc[t] = "poll"
     /\ \/ /\ len = 0
           /\ Goto(t, "secondaries")
           /\ UNCHANGED <<queue, batch, flushed, total>>
        \/ /\ len > 0
           /\ batch' = [batch EXCEPT ![t] = SubSeq(queue[q], 1, len)]
           /\ queue' = [queue EXCEPT ![q] = SubSeq(@, len + 1, Len(@))]
           /\ flushed' = [flushed EXCEPT ![t] = 0]
           /\ total' = [total EXCEPT ![t] = 0]
           /\ Goto(t, "taken")
     /\ UNCHANGED <<mem, wire, qfree, shutdown, sec, ret, conns, server, disp, main>>

(* Only after the batch is taken is the connection marked alive. *)
MarkAlive(t) ==
  /\ pc[t] = "taken"
  /\ alive' = [alive EXCEPT ![t] = 1]
  /\ Goto(t, "write")
  /\ UNCHANGED <<queue, mem, wire, batch, flushed, total, qfree, shutdown, sec, ret,
                 failure, running, metrics, server, disp, main>>

(* server_poll returns -1: a timeout closes the connection, an event other *)
(* than POLLOUT only counts a failure.                                     *)
PollFails(t) ==
  \/ /\ MayFail(t, "timeout")
     /\ fd' = [fd EXCEPT ![t] = FALSE]
     /\ UNCHANGED failure
  \/ /\ MayFail(t, "hangup")
     /\ failure' = [failure EXCEPT ![t] = AddFailure(@)]
     /\ UNCHANGED fd

PollTakeFails(t) ==
  /\ pc[t] = "poll"
  /\ PollFails(t)
  /\ Return(t, -1)
  /\ UNCHANGED <<queue, mem, broken, obuf, delivered, batch, flushed, total, qfree,
                 shutdown, sec, alive, running, metrics, server, disp, main>>

(* strmwrite, until the batch is buffered or the buffer is full. *)
Write(t) ==
  LET n == Min({BufSize - Len(obuf[t]), Len(batch[t]) - total[t]})
  IN /\ pc[t] = "write"
     /\ obuf' = [obuf EXCEPT ![t] = @ \o SubSeq(batch[t], total[t] + 1, total[t] + n)]
     /\ total' = [total EXCEPT ![t] = @ + n]
     /\ Goto(t, IF total[t] + n < Len(batch[t]) THEN "flush" ELSE "last")
     /\ UNCHANGED <<queue, mem, fd, broken, delivered, batch, flushed, qfree, shutdown,
                    sec, ret, conns, server, disp, main>>

(* strmflush succeeds: the buffer went to the socket. *)
FlushOk(t) ==
  /\ ~broken[t]
  /\ delivered' = delivered \cup Range(obuf[t])
  /\ obuf' = [obuf EXCEPT ![t] = <<>>]
  /\ UNCHANGED broken

(* strmflush fails after writing some of the buffer, which it keeps: the   *)
(* peer is gone, or it did not take all of it in time.                     *)
FlushFails(t) ==
  /\ \/ /\ broken[t] \/ MayFail(t, "broken")
        /\ broken' = [broken EXCEPT ![t] = TRUE]
     \/ /\ ~broken[t] /\ MayFail(t, "slow")
        /\ UNCHANGED broken
  /\ \E sent \in Prefixes(obuf[t]) : delivered' = delivered \cup Range(sent)

(* Mutant: the whole batch is counted at its first flush. *)
NewlySentBatch(t) == Len(batch[t]) - flushed[t]

(* What a flush wrote of this batch. *)
NewlySent(t) == total[t] - flushed[t]

(* The buffer is full before the batch is done. *)
Flush(t) ==
  /\ pc[t] = "flush"
  /\ FlushOk(t)
  /\ metrics' = [metrics EXCEPT ![t] = @ + NewlySent(t)]
  /\ flushed' = [flushed EXCEPT ![t] = total[t]]
  /\ \/ Goto(t, "write") /\ UNCHANGED <<fd, failure>>
     \/ Goto(t, "last") /\ PollFails(t)
  /\ UNCHANGED <<queue, mem, batch, total, qfree, shutdown, sec, ret, alive, running,
                 server, disp, main>>

(* The write loop ends without closing the connection. *)
FlushGivesUp(t) ==
  /\ pc[t] = "flush"
  /\ FlushFails(t)
  /\ Goto(t, "last")
  /\ UNCHANGED <<queue, mem, fd, obuf, batch, flushed, total, qfree, shutdown, sec, ret,
                 conns, server, disp, main>>

(* The end of server_queuesend with an open connection: the batch counts   *)
(* as sent and is freed, f being the failure count so far.                 *)
SettleSent(t, f) ==
  /\ failure' = [failure EXCEPT ![t] = IF f > 0 THEN f - 1 ELSE f]
  /\ Free(Range(batch[t]), "sent")
  /\ batch' = [batch EXCEPT ![t] = <<>>]
  /\ ret' = [ret EXCEPT ![t] = 1]
  /\ Goto(t, "secondaries")

(* Mutant: what was only buffered is freed too. *)
SettleFailedBuffered(t, f) ==
  /\ failure' = [failure EXCEPT ![t] = f]
  /\ Free(Range(SubSeq(batch[t], 1, total[t])), "sent")
  /\ batch' = [batch EXCEPT ![t] = SubSeq(@, total[t] + 1, Len(@))]
  /\ obuf' = [obuf EXCEPT ![t] = <<>>]
  /\ ret' = [ret EXCEPT ![t] = -1]
  /\ Goto(t, IF total[t] < Len(batch[t]) THEN "putback" ELSE "returned")

(* The end of server_queuesend with a closed connection: free what was     *)
(* flushed before, then put the rest back.                                 *)
SettleFailed(t, f) ==
  /\ failure' = [failure EXCEPT ![t] = f]
  /\ Free(Range(SubSeq(batch[t], 1, flushed[t])), "sent")
  /\ batch' = [batch EXCEPT ![t] = SubSeq(@, flushed[t] + 1, Len(@))]
  /\ obuf' = [obuf EXCEPT ![t] = <<>>]
  /\ ret' = [ret EXCEPT ![t] = -1]
  /\ Goto(t, IF flushed[t] < Len(batch[t]) THEN "putback" ELSE "returned")

(* After the write loop: flush what is buffered of this batch, and settle. *)
LastFlush(t) ==
  /\ pc[t] = "last"
  /\ \/ flushed[t] = total[t] /\ fd[t] /\ SettleSent(t, failure[t]) /\ UNCHANGED wire
     \/ /\ flushed[t] = total[t] /\ ~fd[t]
        /\ SettleFailed(t, failure[t]) /\ UNCHANGED <<fd, broken, delivered>>
     \/ /\ flushed[t] < total[t]
        /\ \/ FlushOk(t) /\ SettleSent(t, failure[t]) /\ UNCHANGED fd
           \/ /\ MayFail(t, "hangup")
              /\ SettleSent(t, AddFailure(failure[t])) /\ UNCHANGED wire
           \/ /\ MayFail(t, "timeout")
              /\ fd' = [fd EXCEPT ![t] = FALSE]
              /\ SettleFailed(t, failure[t]) /\ UNCHANGED <<broken, delivered>>
           \/ /\ FlushFails(t)
              /\ fd' = [fd EXCEPT ![t] = FALSE]
              /\ SettleFailed(t, AddFailure(failure[t]))
  /\ UNCHANGED <<queue, flushed, total, qfree, shutdown, sec, alive, running, metrics,
                 server, disp, main>>

(* Mutant: the result of queue_putback is ignored. *)
PutBackUnchecked(t) ==
  LET q == QueueOf(Source(t))
      room == Len(queue[q]) < QSize
  IN /\ pc[t] = "putback"
     /\ queue' = [queue EXCEPT ![q] = IF room THEN <<Head(batch[t])>> \o @ ELSE @]
     /\ batch' = [batch EXCEPT ![t] = Tail(@)]
     /\ Goto(t, IF Len(batch[t]) > 1 THEN "putback" ELSE "returned")
     /\ UNCHANGED <<mem, wire, flushed, total, qfree, shutdown, sec, ret, conns,
                    server, disp, main>>

(* queue_putback of one metric; without room it is dropped and counted. *)
PutBack(t) ==
  LET q == QueueOf(Source(t))
      m == Head(batch[t])
  IN /\ pc[t] = "putback"
     /\ \/ /\ Len(queue[q]) < QSize
           /\ queue' = [queue EXCEPT ![q] = <<m>> \o @]
           /\ UNCHANGED <<mem, dropped>>
        \/ /\ Len(queue[q]) = QSize
           /\ Free({m}, "overflow")
           /\ dropped' = [dropped EXCEPT ![Source(t)] = @ + 1]
           /\ UNCHANGED queue
     /\ batch' = [batch EXCEPT ![t] = Tail(@)]
     /\ Goto(t, IF Len(batch[t]) > 1 THEN "putback" ELSE "returned")
     /\ UNCHANGED <<wire, flushed, total, qfree, shutdown, sec, ret, conns,
                    keep_running, qfree_threshold, stallseq, disp, main>>

(* Mutant: only overloaded secondaries are helped. *)
HelpsOverloaded(t, x) ==
  x # t[1] /\ queue_free(x) < qfree[t] /\ Critical(x)

(* Help a secondary whose queue is fuller than the own was, if it is       *)
(* overloaded or failed.                                                   *)
Helps(t, x) ==
  /\ x # t[1]
  /\ queue_free(x) < qfree[t]
  /\ Critical(x) \/ server_failed(x) > 0

(* One iteration of the loop over the secondaries. *)
Secondaries(t) ==
  LET i == sec[t] + 1
  IN /\ pc[t] = "secondaries"
     /\ IF shared_queue \/ ~HasSecondaries \/ i > Len(Members)
          THEN Goto(t, "returned") /\ UNCHANGED sec
          ELSE /\ Goto(t, IF Helps(t, Members[i]) THEN "poll" ELSE "secondaries")
               /\ sec' = [sec EXCEPT ![t] = i]
     /\ UNCHANGED <<queue, mem, wire, batch, flushed, total, qfree, shutdown, ret,
                    conns, server, disp, main>>

(* Whether a stopping reader may leave: without secondaries at once, else  *)
(* when no other member is busy.                                           *)
MayExit(s) ==
  HasSecondaries => \A x \in Cluster \ {s} :
                      ~(queue_free(x) < queue_len(x) \/ server_alive(x))

(* Mutant: once alive, a connection stays so. *)
AliveAlways(t) == 1

(* What a round leaves in alive: whether it did something. *)
AliveAfter(t) == IF ret[t] = 0 THEN 0 ELSE 1

(* server_queueread has returned: its locals are gone, and alive tells     *)
(* whether the round did something.                                        *)
RoundEnd(t) ==
  /\ pc[t] = "returned"
  /\ alive' = [alive EXCEPT ![t] = AliveAfter(t)]
  /\ ret' = [ret EXCEPT ![t] = 0]
  /\ qfree' = [qfree EXCEPT ![t] = 0]
  /\ sec' = [sec EXCEPT ![t] = 0]
  /\ flushed' = [flushed EXCEPT ![t] = 0]
  /\ total' = [total EXCEPT ![t] = 0]
  /\ Goto(t, "decide")
  /\ UNCHANGED <<queue, mem, wire, batch, shutdown, failure, running, metrics,
                 server, disp, main>>

(* shutdown_timeout may have passed since t noticed the shutdown. *)
ShutdownExpired(t) == config.expires

(* A stopping reader leaves when it may, or when the shutdown timeout has  *)
(* expired; a running one may have reached the ttl of its connection.      *)
Decide(t) ==
  /\ pc[t] = "decide"
  /\ IF shutdown[t] = SERVER_STOP
       THEN /\ \/ (ShutdownExpired(t) \/ MayExit(t[1])) /\ Goto(t, "exit")
               \/ ~MayExit(t[1]) /\ Goto(t, "top")
            /\ UNCHANGED fd
       ELSE /\ Goto(t, "top")
            /\ \/ UNCHANGED fd
               \/ config.ttl /\ fd' = [fd EXCEPT ![t] = FALSE]
  /\ UNCHANGED <<queue, mem, broken, obuf, delivered, batch, flushed, total, qfree,
                 shutdown, sec, ret, conns, server, disp, main>>

(* The thread ends: a last flush, disconnect, running is cleared. *)
ReaderExit(t) ==
  /\ pc[t] = "exit"
  /\ alive' = [alive EXCEPT ![t] = 0]
  /\ running' = [running EXCEPT ![t] = 0]
  /\ IF fd[t] THEN FlushOk(t) \/ (FlushFails(t) /\ UNCHANGED obuf)
              ELSE UNCHANGED <<broken, obuf, delivered>>
  /\ fd' = [fd EXCEPT ![t] = FALSE]
  /\ Goto(t, "done")
  /\ UNCHANGED <<queue, mem, batch, flushed, total, qfree, shutdown, sec, ret,
                 failure, metrics, server, disp, main>>

Reader(t) ==
  \/ ReaderStart(t) \/ ReaderTop(t) \/ QueueRead(t)
  \/ Reuse(t) \/ Connect(t) \/ ConnectFails(t)
  \/ PollTake(t) \/ PollTakeFails(t) \/ MarkAlive(t)
  \/ Write(t) \/ Flush(t) \/ FlushGivesUp(t)
  \/ LastFlush(t) \/ PutBack(t) \/ Secondaries(t) \/ RoundEnd(t) \/ Decide(t)
  \/ ReaderExit(t)

-----------------------------------------------------------------------------
(* The main thread: router_shutdown and router_free, for this cluster. *)

(* The dispatchers were stopped; none is inside server_send. *)
StopDispatchers ==
  /\ phase = "running"
  /\ \A d \in Dispatchers : dpc[d] \in {"idle", "stalled"}
  /\ phase' = "stopping" /\ next' = 1
  /\ UNCHANGED <<queue, mem, wire, local, conns, server, disp>>

(* Step to the next member, or to the next phase after the last. *)
NextMember(after) ==
  IF next < Len(Members) THEN next' = next + 1 /\ UNCHANGED phase
                         ELSE next' = 1 /\ phase' = after

server_shutdown ==
  /\ phase = "stopping"
  /\ keep_running' = [keep_running EXCEPT ![Members[next]] =
                         IF @ # SERVER_KEEP_RUNNING THEN @
                         ELSE IF config.swap THEN SERVER_STOP_FORCE ELSE SERVER_STOP]
  /\ NextMember("waiting")
  /\ UNCHANGED <<queue, mem, wire, local, conns, qfree_threshold, stallseq, dropped, disp>>

(* Mutants: the wait is for the threads of the first member only; there is *)
(* no wait.                                                                *)
WaitForFirst ==
  /\ phase = "waiting"
  /\ \A n \in config.conns : running[<<Members[next], n>>] = 0
  /\ phase' = "freeing" /\ next' = 1
  /\ UNCHANGED <<queue, mem, wire, local, conns, server, disp>>

NoWait ==
  /\ phase = "waiting"
  /\ phase' = "freeing" /\ next' = 1
  /\ UNCHANGED <<queue, mem, wire, local, conns, server, disp>>

(* server_shutdown_wait: all members with secondaries, else the own threads. *)
server_shutdown_wait ==
  /\ phase = "waiting"
  /\ \A s \in (IF HasSecondaries THEN Cluster ELSE {Members[next]}), n \in config.conns :
       running[<<s, n>>] = 0
  /\ NextMember("freeing")
  /\ UNCHANGED <<queue, mem, wire, local, conns, server, disp>>

(* server_free joins the threads of the member and destroys its queue, or  *)
(* the queue it got in exchange when the queues were handed over.          *)
server_free ==
  LET s == Members[next]
      destroyed == ~config.swap /\ (shared_queue => next = Len(Members))
  IN /\ phase = "freeing"
     /\ \A n \in config.conns : pc[<<s, n>>] = "done"
     /\ IF destroyed
          THEN /\ Free(Range(queue[QueueOf(s)]), "destroyed")
               /\ queue' = [queue EXCEPT ![QueueOf(s)] = <<>>]
          ELSE UNCHANGED <<queue, mem>>
     /\ NextMember("stopped")
     /\ UNCHANGED <<wire, local, conns, server, disp>>

Main == StopDispatchers \/ server_shutdown \/ server_shutdown_wait \/ server_free

Dispatcher(d) ==
  \/ \E m \in Metrics, s \in Servers : Dispatch(d, m, s)
  \/ \E force \in BOOLEAN : SendCheck(d, force)
  \/ Stall(d)
  \/ Enqueue(d)

(* Everything has ended. *)
Stopped ==
  /\ phase = "stopped"
  /\ UNCHANGED vars

Next ==
  /\ \/ \E d \in Dispatchers : Dispatcher(d)
     \/ \E t \in Threads : Reader(t)
     \/ Main
     \/ Stopped
  /\ UNCHANGED config

Spec == Init /\ [][Next]_vars

(* Threads that can run do; a dispatcher inside server_send goes on, and   *)
(* retries a stalled metric; the timeout of a shutdown does expire.        *)
Fairness ==
  /\ \A t \in Threads : WF_vars(Reader(t) /\ UNCHANGED config)
  /\ \A d \in Dispatchers :
       WF_vars(/\ (\E force \in BOOLEAN : SendCheck(d, force)) \/ Stall(d) \/ Enqueue(d)
               /\ UNCHANGED config)
  /\ WF_vars((server_shutdown \/ server_shutdown_wait \/ server_free) /\ UNCHANGED config)
  /\ \A t \in Threads :
       SF_vars(Decide(t) /\ config.expires /\ pc'[t] = "exit" /\ UNCHANGED config)

FairSpec == Spec /\ Fairness

-----------------------------------------------------------------------------
(* The places that refer to a metric and may still use or free it. *)
References(m) ==
  {<<q, i>> \in Servers \X (1..QSize) : i <= Len(queue[q]) /\ queue[q][i] = m}
    \cup {<<t, i>> \in Threads \X (1..bsize) : i <= Len(batch[t]) /\ batch[t][i] = m}
    \cup {d \in Dispatchers : dmetric[d] = m}

(* An allocated metric is referred to by exactly one queue slot, batch slot *)
(* or dispatcher, and a freed one by none: over all interleavings of       *)
(* server_send, server_queuesend with its requeueing, overflow and         *)
(* shutdown nothing is freed twice, used after it was freed, or leaked.    *)
OneOwner ==
  \A m \in Metrics : Cardinality(References(m)) = IF mem[m] = "live" THEN 1 ELSE 0

(* A metric the reader frees as sent was written to a socket, for peers    *)
(* that refuse, time out or break connections, but do not hang up or stay  *)
(* slow: server_queuesend puts back what it only buffered, over all        *)
(* failures in the middle of a batch and reconnects.                       *)
LostIsPutBack ==
  (\A s \in Cluster : config.faults[s] \cap {"hangup", "slow"} = {})
  => \A m \in Metrics : mem[m] = "sent" => m \in delivered

(* The metrics counted as sent were delivered: the counter is increased by *)
(* what each flush wrote of this batch, whatever is left in the buffer.    *)
SentNotOvercounted == SumFunction(metrics) <= Cardinality(delivered)

(* No peer of the cluster fails. *)
NoFaults == \A s \in Cluster : config.faults[s] = {} /\ s \notin config.unreachable

(* Every metric lost to a full queue is counted in dropped, though the     *)
(* count is made on a number of free slots read before queue_enqueue.  It  *)
(* takes one dispatcher and peers that do not fail: another dispatcher, or *)
(* a reader putting metrics back, can take the slot in between.            *)
DropsCounted ==
  NoFaults => Cardinality({m \in Metrics : mem[m] = "overflow"}) <= SumFunction(dropped)

(* The servers already freed by server_free. *)
Gone ==
  {Members[i] : i \in {j \in 1..Len(Members) :
                         phase = "stopped" \/ (phase = "freeing" /\ j < next)}}

(* The servers thread t uses in its next step: its own, and where it goes  *)
(* through the secondaries, theirs.                                        *)
Uses(t) ==
  IF pc[t] = "done" THEN {}
  ELSE IF HasSecondaries /\ pc[t] \in {"read", "secondaries", "decide"} THEN Cluster
  ELSE {t[1], Source(t)}

(* No thread uses a server after server_free: server_shutdown_wait must    *)
(* outlast every reader that may look at the member as its secondary.      *)
NoUseAfterFree == \A t \in Threads : Uses(t) \cap Gone = {}

(* When the queues are handed over or destroyed no reader holds a batch    *)
(* any more that it could still put back.                                  *)
NoBatchLeft == phase \in {"freeing", "stopped"} => \A t \in Threads : batch[t] = <<>>

(* A standby of a failover cluster opens no connection while all members   *)
(* work and the shared queue is not overloaded.                            *)
StandbyIdle ==
  NoFaults /\ qfree_threshold[Members[1]] = 0
  => \A t \in Threads : failover(t[1]) => ~fd[t]

(* Every metric accepted by a running cluster leaves it as long as one     *)
(* member works: that one takes over the queue of a member that is not     *)
(* reachable.                                                              *)
FailedMemberDrained ==
  \A m \in Metrics :
    /\ \E s \in Cluster : s \notin config.unreachable /\ config.faults[s] = {}
    /\ mem[m] = "live" /\ phase = "running"
    ~> mem[m] # "live" \/ phase # "running"

(* A shutdown ends: the readers agree that nobody is busy any more, or     *)
(* shutdown_timeout expires.                                               *)
ShutdownEnds == phase = "stopping" ~> phase = "stopped"
=============================================================================
