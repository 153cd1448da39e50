----------------------------- MODULE Aggregator -----------------------------
(***************************************************************************)
(* One aggregation (aggregator.c): the dispatchers that put values into    *)
(* the time buckets of an invocation, and the thread that emits buckets    *)
(* past their expiry time, moves them to the end and removes an invocation *)
(* that is not in use.                                                     *)
(*                                                                         *)
(* The model has one aggregator, one compute and one output name.  The     *)
(* computes of an aggregator do not share state; invocations of one        *)
(* compute share only its lock.  What is computed from a bucket is not     *)
(* modelled: the output is the set of values that went into it.            *)
(*                                                                         *)
(* compute.invlock is held from one action to another: readers are the     *)
(* threads that hold it shared, writer the dispatcher that holds it alone. *)
(* A critical section that is over within an action does not show.  Each   *)
(* access to a bucket's state or contents by a thread that only has the    *)
(* shared lock is an action of its own.                                    *)
(*                                                                         *)
(* Time moves in seconds.  Lag bounds how long after the start of a pass   *)
(* of the thread the next one starts; the code sleeps for 250 ms if there  *)
(* was nothing to do.                                                      *)
(***************************************************************************)
EXTENDS Integers, Sequences, FiniteSets

CONSTANTS
  Workers,          \* dispatchers that run aggregator_putmetric
  Values,           \* the values put, each at most once
  NULL,
  interval, expire, \* of the aggregator, in seconds
  CntWrap,          \* 2^8: bucketcnt is an unsigned char
  StartTime,        \* the time the relay is started
  MaxTime,          \* bound of the model: the clock stops here
  Epochs,           \* bound of the model: the timestamps of values
  Lag

expirer == "aggregator_expire"

ASSUME AggregatorAssumption ==
  /\ {interval, expire, CntWrap, StartTime, MaxTime, Lag} \subseteq Nat
  /\ Epochs \subseteq Nat
  /\ 0 < interval /\ interval < expire /\ expire <= StartTime
  /\ 0 < Lag /\ Lag <= interval
  /\ NULL \notin Values \cup Workers /\ expirer \notin Workers

VARIABLES
  now,           \* the clock
  keep_running,
  inv,           \* the invocation, NULL if there is none
  readers, writer,
  w,             \* for each dispatcher the call it is in
  e,             \* the thread aggregator_expire
  epoch,         \* history: the timestamp of each value put, NULL before
  drops,         \* history: the values counted as dropped, and when
  out,           \* history: the metrics written
  late,          \* history: values added after their bucket was expired or
                 \* the aggregator was stopped
  lost           \* history: values that left with a bucket, not written

vars == <<now, keep_running, inv, readers, writer, w, e, epoch, drops, out, late, lost>>
history == <<epoch, drops, out, late, lost>>


-----------------------------------------------------------------------------
(* The buckets of an invocation: at index i a period of interval seconds.  *)

BucketcntShort ==
  ((expire + (interval - 1)) \div interval + 1) % CntWrap

bucketcnt ==
  ((expire + (interval - 1)) \div interval + 1 + 1) % CntWrap

Align(t) == (t \div interval) * interval

Open(start) == [state |-> "A_OPEN", start |-> start, vals |-> {}]

Bucket == [state : {"A_OPEN", "A_EXPIRE"}, start : Int, vals : SUBSET Values]
Invocations == [expire : Nat, buckets : [1..bucketcnt -> Bucket]]

ASSUME NoInvocationAssumption == NULL \notin Invocations

InvocationUnaligned(t, splay) ==
  [expire |-> expire + splay,
   buckets |-> [i \in 1..bucketcnt |-> Open(t - expire + (i - 1) * interval)]]

(* A new invocation at time t, with its random splay. *)
Invocation(t, splay) ==
  [expire |-> expire + splay,
   buckets |-> [i \in 1..bucketcnt |-> Open(Align(t - expire) + (i - 1) * interval)]]

start0 == inv.buckets[1].start

(* The index of the bucket for a timestamp within the window. *)
BucketAfter(t) == IF (t - start0) \div interval + 2 <= bucketcnt
                    THEN (t - start0) \div interval + 2 ELSE bucketcnt

BucketOf(t) == (t - start0) \div interval + 1

LeadingOneMore(k) ==
  IF inv.buckets[1].state = "A_OPEN" THEN k = 0 ELSE
     /\ 0 < k
     /\ \A i \in 1..(k - 1) : inv.buckets[i].state = "A_EXPIRE"
     /\ k - 1 < bucketcnt => inv.buckets[k].state = "A_OPEN"

(* The loop that moves expired buckets to the end moves k of them. *)
Leading(k) ==
  /\ \A i \in 1..k : inv.buckets[i].state = "A_EXPIRE"
  /\ k < bucketcnt => inv.buckets[k + 1].state = "A_OPEN"

Held(k) == UNION {inv.buckets[i].vals : i \in 1..k}

(* The buckets after the first k are moved to the end. *)
Rotated(k) ==
  [i \in 1..bucketcnt |->
     IF i + k <= bucketcnt
       THEN inv.buckets[i + k]
       ELSE Open(inv.buckets[bucketcnt].start + (i + k - bucketcnt) * interval)]

Written == UNION {out[i].vals : i \in 1..Len(out)}

(* The thread's call has returned, and its memory is freed. *)
Freed == e.pc = "done"

-----------------------------------------------------------------------------
(* aggregator_putmetric, for one compute.  A call that is still running    *)
(* when the memory is freed has undefined behaviour and makes no step.     *)

Idle == [pc |-> "idle", v |-> NULL, b |-> 0]

At(x, pc) == w[x].pc = pc /\ ~Freed

Goto(x, pc) == w' = [w EXCEPT ![x].pc = pc]

Unlock(x) == /\ readers' = readers \ {x}
             /\ writer' = IF writer = x THEN NULL ELSE writer

(* A value arrives and the aggregator is not being stopped. *)
Put(x, v, t) ==
  /\ At(x, "idle") /\ keep_running
  /\ epoch[v] = NULL
  /\ epoch' = [epoch EXCEPT ![v] = t]
  /\ w' = [w EXCEPT ![x] = [pc |-> "search", v |-> v, b |-> 0]]
  /\ UNCHANGED <<now, keep_running, inv, readers, writer, e, drops, out, late, lost>>

(* The value of a metric that cannot be rewritten is skipped. *)
Skip(x) ==
  /\ At(x, "search")
  /\ w' = [w EXCEPT ![x] = Idle]
  /\ UNCHANGED <<now, keep_running, inv, readers, writer, e, history>>

(* Search with the shared lock, that is given up if there is no match. *)
Search(x) ==
  /\ At(x, "search") /\ writer = NULL
  /\ IF inv # NULL
       THEN readers' = readers \cup {x} /\ Goto(x, "locate")
       ELSE UNCHANGED readers /\ Goto(x, "add")
  /\ UNCHANGED <<now, keep_running, inv, writer, e, history>>

(* Search again with the exclusive lock, and add the invocation if it is   *)
(* still missing.  The lock is kept.                                       *)
AddInvocation(x) ==
  /\ At(x, "add") /\ writer = NULL /\ readers = {}
  /\ IF inv # NULL
       THEN UNCHANGED inv
       ELSE \E splay \in 0..(interval - 1) : inv' = Invocation(now, splay)
  /\ writer' = x /\ Goto(x, "locate")
  /\ UNCHANGED <<now, keep_running, readers, e, history>>

(* Out of memory: the value is skipped. *)
AddFails(x) ==
  /\ At(x, "add") /\ writer = NULL /\ readers = {} /\ inv = NULL
  /\ w' = [w EXCEPT ![x] = Idle]
  /\ UNCHANGED <<now, keep_running, inv, readers, writer, e, history>>

Fits(t) == start0 <= t /\ t < start0 + bucketcnt * interval

(* Find the bucket of the value; drop the value if there is none or the    *)
(* bucket is expired.                                                      *)
Locate(x) ==
  LET v == w[x].v  t == epoch[v] IN
  /\ At(x, "locate")
  /\ IF Fits(t) /\ inv.buckets[BucketOf(t)].state = "A_OPEN"
       THEN /\ w' = [w EXCEPT ![x].pc = "update", ![x].b = BucketOf(t)]
            /\ UNCHANGED <<readers, writer, drops>>
       ELSE /\ drops' = drops \cup {[v |-> v, at |-> now]}
            /\ w' = [w EXCEPT ![x] = Idle]
            /\ Unlock(x)
  /\ UNCHANGED <<now, keep_running, inv, e, epoch, out, late, lost>>

(* The update, under the bucket's mutex; the state is not looked at again. *)
Update(x) ==
  LET v == w[x].v  b == w[x].b IN
  /\ At(x, "update")
  /\ inv' = [inv EXCEPT !.buckets[b].vals = @ \cup {v}]
  /\ late' = IF inv.buckets[b].state = "A_EXPIRE" \/ ~keep_running
               THEN late \cup {v} ELSE late
  /\ w' = [w EXCEPT ![x] = Idle]
  /\ Unlock(x)
  /\ UNCHANGED <<now, keep_running, e, epoch, drops, out, lost>>

-----------------------------------------------------------------------------
(* aggregator_expire.  A pass has two parts: with the shared lock, expired *)
(* buckets are marked and written; with the exclusive lock they are moved. *)

ShiftTooFar == IF keep_running THEN 0 ELSE expire + interval

(* When stopped, the thread is this far ahead of the clock. *)
Shift == IF keep_running THEN 0 ELSE expire - interval

BeginPass ==
  /\ e.pc = "begin"
  /\ e' = [e EXCEPT !.pc = "lock", !.now = now + Shift, !.seen = now, !.work = FALSE]
  /\ UNCHANGED <<now, keep_running, inv, readers, writer, w, history>>

LockShared ==
  /\ e.pc = "lock" /\ writer = NULL
  /\ IF inv # NULL
       THEN /\ readers' = readers \cup {expirer}
            /\ e' = [e EXCEPT !.pc = "test", !.b = 1]
       ELSE /\ UNCHANGED readers
            /\ e' = [e EXCEPT !.pc = "cleanup"]
  /\ UNCHANGED <<now, keep_running, inv, writer, w, history>>

(* The condition of the loop over the buckets.  It does not end at the     *)
(* last one: past it, the loop reads memory that is not a bucket and makes *)
(* no step here.                                                           *)
Past(b) == b.start + (IF keep_running THEN inv.expire ELSE expire) < e.now

TestBucketUnmarked ==
  /\ e.pc = "test" /\ e.b <= bucketcnt
  /\ LET b == inv.buckets[e.b] IN
     \/ /\ Past(b) /\ b.state = "A_OPEN"
        /\ e' = [e EXCEPT !.pc = "count"]
        /\ UNCHANGED <<inv, readers>>
     \/ /\ ~Past(b)
        /\ e' = [e EXCEPT !.pc = "cleanup"]
        /\ readers' = readers \ {expirer}
        /\ UNCHANGED inv
  /\ UNCHANGED <<now, keep_running, writer, w, history>>

TestBucket ==
  /\ e.pc = "test" /\ e.b <= bucketcnt
  /\ LET b == inv.buckets[e.b] IN
     \/ /\ Past(b) /\ b.state = "A_OPEN"
        /\ inv' = [inv EXCEPT !.buckets[e.b].state = "A_EXPIRE"]
        /\ e' = [e EXCEPT !.pc = "count"]
        /\ UNCHANGED readers
     \/ /\ ~Past(b)
        /\ e' = [e EXCEPT !.pc = "cleanup"]
        /\ readers' = readers \ {expirer}
        /\ UNCHANGED inv
  /\ UNCHANGED <<now, keep_running, writer, w, history>>

NextBucket == e' = [e EXCEPT !.pc = "test", !.b = @ + 1, !.work = TRUE]

(* bucket.cnt is read without the bucket's mutex. *)
Count ==
  /\ e.pc = "count"
  /\ IF inv.buckets[e.b].vals = {}
       THEN NextBucket
       ELSE e' = [e EXCEPT !.pc = "write"]
  /\ UNCHANGED <<now, keep_running, inv, readers, writer, w, history>>

(* write_metric: the line is made under the bucket's mutex, the shared     *)
(* lock is given up and the line written to the pipe, or counted as        *)
(* dropped.                                                                *)
WriteMetric(written) ==
  /\ e.pc = "write"
  /\ LET b == inv.buckets[e.b] IN
     out' = Append(out, [start |-> b.start, vals |-> b.vals, sent |-> written])
  /\ readers' = readers \ {expirer}
  /\ e' = [e EXCEPT !.pc = "relock"]
  /\ UNCHANGED <<now, keep_running, inv, writer, w, epoch, drops, late, lost>>

Relock ==
  /\ e.pc = "relock" /\ writer = NULL
  /\ readers' = readers \cup {expirer}
  /\ NextBucket
  /\ UNCHANGED <<now, keep_running, inv, writer, w, history>>

(* Move the expired buckets to the end; free the invocation if no bucket   *)
(* is in use.                                                              *)
Cleanup ==
  /\ e.pc = "cleanup" /\ writer = NULL /\ readers = {}
  /\ \/ /\ inv = NULL
        /\ UNCHANGED <<inv, lost>>
     \/ /\ inv # NULL
        /\ \E k \in 0..bucketcnt :
             /\ Leading(k)
             /\ inv' = IF \E i \in 1..bucketcnt : Rotated(k)[i].vals # {}
                         THEN [inv EXCEPT !.buckets = Rotated(k)] ELSE NULL
             /\ lost' = lost \cup (Held(k) \ Written)
  /\ e' = [e EXCEPT !.pc = "end"]
  /\ UNCHANGED <<now, keep_running, readers, writer, w, epoch, drops, out, late>>

EndPassWhenEmpty ==
  /\ e.pc = "end"
  /\ IF ~e.work /\ ~keep_running /\ inv = NULL
       THEN /\ e' = [e EXCEPT !.pc = "done"]
            /\ UNCHANGED <<inv, lost>>
       ELSE /\ e' = [e EXCEPT !.pc = "begin"]
            /\ UNCHANGED <<inv, lost>>
  /\ UNCHANGED <<now, keep_running, readers, writer, w, epoch, drops, out, late>>

(* After a pass without work the thread ends if it has to, and frees all;  *)
(* or it sleeps, and starts the next pass.                                 *)
EndPass ==
  /\ e.pc = "end"
  /\ IF ~e.work /\ ~keep_running
       THEN /\ e' = [e EXCEPT !.pc = "done"]
            /\ inv' = NULL
            /\ lost' = IF inv = NULL THEN lost
                       ELSE lost \cup (Held(bucketcnt) \ Written)
       ELSE /\ e' = [e EXCEPT !.pc = "begin"]
            /\ UNCHANGED <<inv, lost>>
  /\ UNCHANGED <<now, keep_running, readers, writer, w, epoch, drops, out, late>>

-----------------------------------------------------------------------------
(* aggregator_stop, and the clock. *)

Stop ==
  /\ keep_running
  /\ keep_running' = FALSE
  /\ UNCHANGED <<now, inv, readers, writer, w, e, history>>

Tick ==
  /\ now < MaxTime /\ now < e.seen + Lag
  /\ now' = now + 1
  /\ UNCHANGED <<keep_running, inv, readers, writer, w, e, history>>

(* aggregator_start *)
Init ==
  /\ now = StartTime
  /\ keep_running = TRUE
  /\ inv = NULL
  /\ readers = {} /\ writer = NULL
  /\ w = [x \in Workers |-> Idle]
  /\ e = [pc |-> "begin", now |-> StartTime, seen |-> StartTime, b |-> 1, work |-> FALSE]
  /\ epoch = [v \in Values |-> NULL]
  /\ drops = {} /\ out = <<>> /\ late = {} /\ lost = {}

PutMetric(x) ==
  \/ \E v \in Values, t \in Epochs : Put(x, v, t)
  \/ Skip(x) \/ Search(x) \/ AddInvocation(x) \/ AddFails(x)
  \/ Locate(x) \/ Update(x)

Expire ==
  \/ BeginPass \/ LockShared \/ TestBucket \/ Count
  \/ \E written \in BOOLEAN : WriteMetric(written)
  \/ Relock \/ Cleanup \/ EndPass

Next ==
  \/ \E x \in Workers : PutMetric(x)
  \/ Expire
  \/ Stop \/ Tick

(* The scheduler lets the threads run, and a thread that waits for a lock  *)
(* that stays free gets it.  Nothing makes values arrive, the relay stop   *)
(* or the clock move.                                                      *)
Fairness ==
  /\ \A x \in Workers : WF_vars(Search(x) \/ AddInvocation(x) \/ Locate(x) \/ Update(x))
  /\ WF_vars(Expire)

Spec == Init /\ [][Next]_vars
FairSpec == Spec /\ Fairness

-----------------------------------------------------------------------------
Calls == [pc : {"idle", "search", "add", "locate", "update"},
          v : Values \cup {NULL}, b : Nat]

Passes == [pc : {"begin", "lock", "test", "count", "write", "relock",
                 "cleanup", "end", "done"},
           now : Int, seen : Nat, b : Nat, work : BOOLEAN]

(* The types of the variables. *)
TypeOK ==
  /\ now \in Nat /\ keep_running \in BOOLEAN
  /\ inv \in Invocations \cup {NULL}
  /\ readers \subseteq Workers \cup {expirer}
  /\ writer \in Workers \cup {NULL}
  /\ w \in [Workers -> Calls] /\ e \in Passes
  /\ epoch \in [Values -> Epochs \cup {NULL}]
  /\ drops \subseteq [v : Values, at : Nat]
  /\ out \in Seq([start : Int, vals : SUBSET Values, sent : BOOLEAN])
  /\ late \subseteq Values /\ lost \subseteq Values

(* The buckets of an invocation are consecutive periods that start at a    *)
(* multiple of the interval, whatever mixture of marking and moving they   *)
(* went through: the computation of the index in aggregator_putmetric      *)
(* depends on it.                                                          *)
BucketsAligned ==
  inv # NULL =>
    /\ start0 % interval = 0
    /\ \A i \in 2..bucketcnt :
         inv.buckets[i].start = inv.buckets[i - 1].start + interval

(* The loop over the buckets in aggregator_expire, which has no test for   *)
(* the end of the array, always finds a bucket that is not past its expiry *)
(* time: running, being stopped in the middle of a pass, and stopped.      *)
NoOverrun ==
  e.pc = "test" => e.b <= bucketcnt

(* A metric written by write_metric is made from values of its own period  *)
(* only, though dispatchers look for the bucket and update it while        *)
(* buckets are marked and moved.                                           *)
RightPeriod ==
  \A i \in 1..Len(out) : \A v \in out[i].vals :
    /\ epoch[v] # NULL
    /\ out[i].start <= epoch[v] /\ epoch[v] < out[i].start + interval

(* No value goes into two metrics, though a bucket is used again. *)
WrittenOnce ==
  \A i, j \in 1..Len(out) :
    i # j => out[i].vals \cap out[j].vals = {}

(* A value that was accepted and then left its bucket without being        *)
(* written was added in the gap between the test of the state in           *)
(* aggregator_putmetric and the update, the thread expiring the bucket in  *)
(* between; or the thread ended, and either its last pass had begun before *)
(* it was stopped (then the pass is not ahead of the clock), or the        *)
(* period of the value had not completed.                                  *)
LostWasLate ==
  \A v \in lost \ late :
    Freed /\ (e.now = e.seen \/ Align(epoch[v]) + interval >= e.seen)

(* Until the aggregator is stopped, a value is only counted as dropped if  *)
(* its period started more than expire seconds ago, or it is from the      *)
(* future: whatever the splay, the time the invocation was added and the   *)
(* moment between two passes, the buckets hold the past + future that      *)
(* aggregator_putmetric allocates them for.                                *)
DroppedOutOfTime ==
  keep_running => \A d \in drops :
    \/ Align(epoch[d.v]) + expire < d.at
    \/ epoch[d.v] > d.at

(* Once stopped, the thread ends and aggregator_stop returns. *)
StopReturns == ~keep_running ~> Freed
=============================================================================
