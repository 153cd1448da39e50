-------------------------- MODULE AggregatorProofs --------------------------
(***************************************************************************)
(* Proofs about the buckets of aggregator.c, for every interval and expiry *)
(* time, any number of dispatchers and values, and every time a pass may   *)
(* take up to the interval.                                                *)
(*                                                                         *)
(* The loop over the buckets has no bound, so that it stays within them    *)
(* rests on time: after a pass the last bucket starts after the time the   *)
(* pass saw (Ahead), hence at the next pass, at most an interval later, it *)
(* is not past its expiry even if the pass runs ahead of the clock because *)
(* the relay stops (NotPast).  To carry that over a pass, the invariant    *)
(* keeps which buckets are marked (Marked, Scanned), that they are         *)
(* consecutive (Consecutive) and which thread holds the lock (Locking).    *)
(***************************************************************************)
EXTENDS Aggregator, TLAPS

(* The number of buckets fits its unsigned char. *)
BucketcntFits == (expire + (interval - 1)) \div interval + 2 < CntWrap

last == inv.buckets[bucketcnt].start

InCall(x) == w[x].pc \in {"locate", "update"}
InScan == e.pc \in {"test", "count", "write", "relock"}

(* What a dispatcher has: the lock, a value with its timestamp, a bucket. *)
Holds(x) ==
  /\ InCall(x) /\ ~Freed => inv # NULL /\ (x \in readers \/ writer = x)
  /\ w[x].pc # "idle" => w[x].v \in Values /\ epoch[w[x].v] \in Epochs
  /\ w[x].pc = "update" => w[x].b \in 1..bucketcnt

Locking ==
  /\ \A x \in Workers : Holds(x)
  /\ writer # NULL => readers = {}
  /\ expirer \in readers <=> e.pc \in {"test", "count", "write"}
  /\ InScan => inv # NULL

Multiple(t) == \E q \in Int : t = q * interval

Consecutive ==
  inv # NULL =>
    /\ Multiple(start0)
    /\ \A i \in 1..bucketcnt : inv.buckets[i].start = start0 + (i - 1) * interval
    /\ inv.expire \in expire..(expire + interval - 1)

Clock ==
  /\ StartTime <= e.seen /\ e.seen <= now /\ now <= e.seen + Lag
  /\ e.seen <= e.now /\ e.now <= e.seen + expire - interval

Marked(k) == \A i \in 1..k : inv.buckets[i].state = "A_EXPIRE"

Ahead == e.pc \in {"end", "begin"} /\ inv # NULL => e.seen < last

NotPast == (InScan \/ e.pc = "lock") /\ inv # NULL => e.now <= last + expire

Scanned ==
  /\ e.pc = "test" => e.b \in 1..bucketcnt /\ Marked(e.b - 1)
  /\ e.pc \in {"count", "write", "relock"} => e.b \in 1..(bucketcnt - 1) /\ Marked(e.b)
  /\ e.pc = "cleanup" /\ inv # NULL =>
       \E k \in 0..bucketcnt :
         Marked(k) /\ e.seen < start0 + k * interval + (bucketcnt - 1) * interval

IInv == TypeOK /\ Locking /\ Consecutive /\ Clock /\ Ahead /\ NotPast /\ Scanned

-----------------------------------------------------------------------------
(* Arithmetic of the integer division in C. *)

LEMMA DivBounds ==
  ASSUME NEW a \in Nat, NEW d \in Nat \ {0}
  PROVE  /\ a \div d \in Nat
         /\ (a \div d) * d <= a
         /\ a < (a \div d) * d + d
OBVIOUS

LEMMA MultipleModulo ==
  ASSUME NEW q \in Int, NEW d \in Nat \ {0}
  PROVE  (q * d) % d = 0
OBVIOUS

(* The interval is a positive number of seconds. *)
LEMMA IntervalPositive == interval \in Nat \ {0}
BY AggregatorAssumption

(* There are buckets for the expiry time and two more. *)
LEMMA BucketcntBound ==
  ASSUME BucketcntFits
  PROVE  /\ bucketcnt \in Nat /\ 3 <= bucketcnt
         /\ expire <= bucketcnt * interval - 2 * interval
<1> DEFINE d == (expire + (interval - 1)) \div interval
<1>1. interval \in Nat \ {0} /\ expire \in Nat /\ interval < expire /\ CntWrap \in Nat
  BY AggregatorAssumption
<1>2. d \in Nat /\ expire + (interval - 1) < d * interval + interval
  BY <1>1, DivBounds
<1>3. 1 <= d
  BY <1>1, <1>2
<1>4. d + 2 < CntWrap
  BY DEF BucketcntFits
<1>5. bucketcnt = d + 2
  BY <1>1, <1>2, <1>4 DEF bucketcnt
<1> HIDE DEF d
<1>6. QED
  BY <1>1, <1>2, <1>3, <1>5

LEMMA AlignBounds ==
  ASSUME NEW t \in Nat
  PROVE  /\ Align(t) \in Int /\ Align(t) <= t /\ t < Align(t) + interval
         /\ Multiple(Align(t))
<1>1. interval \in Nat \ {0}
  BY AggregatorAssumption
<1>2. PICK q \in Int : /\ q = t \div interval
                       /\ q * interval <= t /\ t < q * interval + interval
  BY <1>1, DivBounds
<1>3. Align(t) = q * interval
  BY <1>2 DEF Align
<1>4. Multiple(Align(t))
  BY <1>3, Zenon DEF Multiple
<1>5. Align(t) \in Int /\ Align(t) <= t /\ t < Align(t) + interval
  BY <1>1, <1>2, <1>3
<1>6. QED
  BY <1>4, <1>5

LEMMA MultiplePlus ==
  ASSUME NEW t \in Int, Multiple(t), NEW k \in Int
  PROVE  Multiple(t + k * interval)
<1>1. interval \in Int
  BY AggregatorAssumption
<1>2. PICK q \in Int : t = q * interval
  BY DEF Multiple
<1>3. t + k * interval = (q + k) * interval /\ q + k \in Int
  BY <1>1, <1>2
<1>4. QED
  BY <1>3, Zenon DEF Multiple

-----------------------------------------------------------------------------
(* What the actions do to the buckets. *)

LEMMA NewInvocation ==
  ASSUME BucketcntFits, NEW t \in Nat, expire <= t, NEW splay \in 0..(interval - 1)
  PROVE  LET n == Invocation(t, splay) IN
         /\ n \in Invocations
         /\ n.expire = expire + splay
         /\ \A i \in 1..bucketcnt :
              /\ n.buckets[i].start = Align(t - expire) + (i - 1) * interval
              /\ n.buckets[i].state = "A_OPEN"
<1>1. interval \in Nat /\ expire \in Nat
  BY AggregatorAssumption
<1>2. t - expire \in Nat
  BY <1>1
<1>3. Align(t - expire) \in Int
  BY <1>2, AlignBounds
<1>4. bucketcnt \in Nat
  BY BucketcntBound
<1>5. \A i \in 1..bucketcnt : Align(t - expire) + (i - 1) * interval \in Int
  BY <1>1, <1>3, <1>4
<1>6. \A i \in 1..bucketcnt : Open(Align(t - expire) + (i - 1) * interval) \in Bucket
  BY <1>5 DEF Open, Bucket
<1>7. expire + splay \in Nat
  BY <1>1
<1>8. QED
  BY <1>6, <1>7 DEF Invocation, Invocations, Open

LEMMA UpdateEffect ==
  ASSUME TypeOK, inv # NULL, BucketcntFits, NEW b \in 1..bucketcnt, NEW v \in Values,
         inv' = [inv EXCEPT !.buckets[b].vals = @ \cup {v}]
  PROVE  /\ inv' \in Invocations
         /\ inv'.expire = inv.expire
         /\ \A i \in 1..bucketcnt : /\ inv'.buckets[i].start = inv.buckets[i].start
                                  /\ inv'.buckets[i].state = inv.buckets[i].state
<1>1. inv \in Invocations
  BY DEF TypeOK
<1>2. inv' = [inv EXCEPT !.buckets = [inv.buckets EXCEPT ![b] =
                [inv.buckets[b] EXCEPT !.vals = @ \cup {v}]]]
  BY <1>1 DEF Invocations, Bucket
<1>3. inv.buckets \in [1..bucketcnt -> Bucket] /\ inv.buckets[b] \in Bucket
  BY <1>1, ZenonT(60) DEF Invocations
<1>4. [inv.buckets[b] EXCEPT !.vals = @ \cup {v}] \in Bucket
  BY <1>3 DEF Bucket
<1>5. /\ inv'.expire = inv.expire
      /\ inv'.buckets = [inv.buckets EXCEPT ![b] = [inv.buckets[b] EXCEPT !.vals = @ \cup {v}]]
  BY <1>1, <1>2 DEF Invocations
<1>6. inv'.buckets \in [1..bucketcnt -> Bucket]
  BY <1>3, <1>4, <1>5
<1>7. inv' \in Invocations
  BY <1>1, <1>2, <1>5, <1>6, ZenonT(60) DEF Invocations
<1>8. ASSUME NEW i \in 1..bucketcnt, i # b
      PROVE  inv'.buckets[i] = inv.buckets[i]
  BY <1>3, <1>5, <1>8
<1>9. inv'.buckets[b] = [inv.buckets[b] EXCEPT !.vals = @ \cup {v}]
  BY <1>3, <1>5, ZenonT(60)
<1>10. /\ inv'.buckets[b].start = inv.buckets[b].start
       /\ inv'.buckets[b].state = inv.buckets[b].state
  BY <1>3, <1>9 DEF Bucket
<1>11. QED
  BY <1>5, <1>7, <1>8, <1>10, Zenon

LEMMA MarkEffect ==
  ASSUME TypeOK, inv # NULL, BucketcntFits, NEW b \in 1..bucketcnt,
         inv' = [inv EXCEPT !.buckets[b].state = "A_EXPIRE"]
  PROVE  /\ inv' \in Invocations
         /\ inv'.expire = inv.expire
         /\ \A i \in 1..bucketcnt : /\ inv'.buckets[i].start = inv.buckets[i].start
                                  /\ i # b => inv'.buckets[i].state = inv.buckets[i].state
         /\ inv'.buckets[b].state = "A_EXPIRE"
<1>1. inv \in Invocations
  BY DEF TypeOK
<1>2. inv' = [inv EXCEPT !.buckets = [inv.buckets EXCEPT ![b] =
                [inv.buckets[b] EXCEPT !.state = "A_EXPIRE"]]]
  BY <1>1 DEF Invocations, Bucket
<1>3. inv.buckets \in [1..bucketcnt -> Bucket] /\ inv.buckets[b] \in Bucket
  BY <1>1, ZenonT(60) DEF Invocations
<1>4. [inv.buckets[b] EXCEPT !.state = "A_EXPIRE"] \in Bucket
  BY <1>3 DEF Bucket
<1>5. /\ inv'.expire = inv.expire
      /\ inv'.buckets = [inv.buckets EXCEPT ![b] = [inv.buckets[b] EXCEPT !.state = "A_EXPIRE"]]
  BY <1>1, <1>2 DEF Invocations
<1>6. inv'.buckets \in [1..bucketcnt -> Bucket]
  BY <1>3, <1>4, <1>5
<1>7. inv' \in Invocations
  BY <1>1, <1>2, <1>5, <1>6, ZenonT(60) DEF Invocations
<1>8. ASSUME NEW i \in 1..bucketcnt, i # b
      PROVE  inv'.buckets[i] = inv.buckets[i]
  BY <1>3, <1>5, <1>8
<1>9. inv'.buckets[b] = [inv.buckets[b] EXCEPT !.state = "A_EXPIRE"]
  BY <1>3, <1>5, ZenonT(60)
<1>10. /\ inv'.buckets[b].start = inv.buckets[b].start
       /\ inv'.buckets[b].state = "A_EXPIRE"
  BY <1>3, <1>9 DEF Bucket
<1>11. QED
  BY <1>5, <1>7, <1>8, <1>10, Zenon

LEMMA RotateEffect ==
  ASSUME TypeOK, Consecutive, inv # NULL, BucketcntFits, NEW k \in 0..bucketcnt,
         inv' = [inv EXCEPT !.buckets = Rotated(k)]
  PROVE  /\ inv' \in Invocations
         /\ inv'.expire = inv.expire
         /\ \A i \in 1..bucketcnt :
              inv'.buckets[i].start = start0 + k * interval + (i - 1) * interval
<1>1. inv \in Invocations
  BY DEF TypeOK
<1>2. interval \in Nat /\ bucketcnt \in Nat /\ 3 <= bucketcnt
  BY AggregatorAssumption, BucketcntBound
<1>3. /\ inv.buckets \in [1..bucketcnt -> Bucket]
      /\ \A i \in 1..bucketcnt : inv.buckets[i].start \in Int
      /\ start0 \in Int
  BY <1>1, <1>2 DEF Invocations, Bucket, start0
<1>4. ASSUME NEW i \in 1..bucketcnt
      PROVE  /\ Rotated(k)[i] \in Bucket
             /\ Rotated(k)[i].start = start0 + k * interval + (i - 1) * interval
  <2>1. CASE i + k <= bucketcnt
    <3>1. Rotated(k)[i] = inv.buckets[i + k] /\ i + k \in 1..bucketcnt
      BY <2>1, <1>2 DEF Rotated
    <3>2. inv.buckets[i + k].start = start0 + ((i + k) - 1) * interval
      BY <3>1 DEF Consecutive
    <3>3. ((i + k) - 1) * interval = k * interval + (i - 1) * interval
      BY <1>2
    <3>4. k * interval \in Int /\ (i - 1) * interval \in Int
      BY <1>2
    <3>5. inv.buckets[i + k].start = start0 + k * interval + (i - 1) * interval
      BY <1>3, <3>2, <3>3, <3>4
    <3>6. inv.buckets[i + k] \in Bucket
      BY <1>3, <3>1, ZenonT(60)
    <3>7. QED
      BY <3>1, <3>5, <3>6
  <2>2. CASE ~(i + k <= bucketcnt)
    <3> DEFINE st == inv.buckets[bucketcnt].start + (i + k - bucketcnt) * interval
    <3>1. Rotated(k)[i] = Open(st)
      BY <2>2 DEF Rotated
    <3>2. inv.buckets[bucketcnt].start = start0 + (bucketcnt - 1) * interval
      BY <1>2 DEF Consecutive
    <3>3. (bucketcnt - 1) * interval + (i + k - bucketcnt) * interval
            = k * interval + (i - 1) * interval
      BY <1>2
    <3>4. /\ k * interval \in Int /\ (i - 1) * interval \in Int
          /\ (bucketcnt - 1) * interval \in Int /\ (i + k - bucketcnt) * interval \in Int
      BY <1>2
    <3>5. st = start0 + k * interval + (i - 1) * interval /\ st \in Int
      BY <1>3, <3>2, <3>3, <3>4, SMTT(60)
    <3>6. QED
      BY <3>1, <3>5 DEF Open, Bucket
  <2>3. QED
    BY <2>1, <2>2
<1>5. Rotated(k) \in [1..bucketcnt -> Bucket]
  BY <1>4 DEF Rotated
<1>6. inv'.buckets = Rotated(k) /\ inv'.expire = inv.expire
  BY <1>1 DEF Invocations
<1>7. inv' \in Invocations
  BY <1>1, <1>5 DEF Invocations
<1>8. QED
  BY <1>4, <1>6, <1>7

(* The index of the bucket of a timestamp that fits. *)
LEMMA BucketOfRange ==
  ASSUME TypeOK, inv # NULL, BucketcntFits, NEW t \in Nat, Fits(t)
  PROVE  BucketOf(t) \in 1..bucketcnt
<1>1. interval \in Nat \ {0} /\ bucketcnt \in Nat /\ 3 <= bucketcnt
  BY AggregatorAssumption, BucketcntBound
<1>2. start0 \in Int
  BY <1>1 DEF TypeOK, Invocations, Bucket, start0
<1>3. t - start0 \in Nat /\ t - start0 < bucketcnt * interval
  BY <1>1, <1>2 DEF Fits
<1>4. PICK q \in Nat : q = (t - start0) \div interval /\ q * interval <= t - start0
  BY <1>1, <1>3, DivBounds
<1>5. q < bucketcnt
  <2>1. SUFFICES ASSUME bucketcnt <= q PROVE FALSE
    BY <1>1
  <2>2. bucketcnt * interval <= q * interval
    BY <1>1, <2>1
  <2>3. q * interval \in Int /\ bucketcnt * interval \in Int
    BY <1>1
  <2>4. QED
    BY <1>3, <1>4, <2>2, <2>3
<1>6. QED
  BY <1>1, <1>4, <1>5 DEF BucketOf

-----------------------------------------------------------------------------
(* Each conjunct of the invariant is preserved by each action. *)

LEMMA GotoType ==
  ASSUME TypeOK, NEW x \in Workers, NEW pc \in {"idle", "search", "add", "locate", "update"},
         Goto(x, pc)
  PROVE  w' \in [Workers -> Calls]
<1>1. w[x] \in Calls
  BY DEF TypeOK
<1>2. [w[x] EXCEPT !.pc = pc] \in Calls
  BY <1>1 DEF Calls
<1>3. w' = [w EXCEPT ![x] = [w[x] EXCEPT !.pc = pc]]
  BY DEF Goto
<1>4. QED
  BY <1>2, <1>3 DEF TypeOK

LEMMA IdleType == Idle \in Calls
BY SMTT(60) DEF Idle, Calls

LEMMA PassType ==
  ASSUME e \in Passes, LockShared \/ Count \/ Relock
  PROVE  e' \in Passes
<1>1. ASSUME NEW n \in Nat
      PROVE  /\ [e EXCEPT !.pc = "test", !.b = n] \in Passes
             /\ [e EXCEPT !.pc = "test", !.b = n, !.work = TRUE] \in Passes
  BY ZenonT(60) DEF Passes
<1>2. /\ [e EXCEPT !.pc = "cleanup"] \in Passes
      /\ [e EXCEPT !.pc = "write"] \in Passes
  BY DEF Passes
<1>3. e.b + 1 \in Nat /\ 1 \in Nat
  BY DEF Passes
<1>4. NextBucket => e' \in Passes
  BY <1>1, <1>3, ZenonT(60) DEF NextBucket
<1>5. QED
  BY <1>1, <1>2, <1>3, <1>4, ZenonT(60) DEF LockShared, Count, Relock

LEMMA TypeStep ==
  ASSUME BucketcntFits, IInv, Next
  PROVE  TypeOK'
<1> USE DEF IInv, TypeOK
<1>0. bucketcnt \in Nat /\ 3 <= bucketcnt
  BY BucketcntBound
<1>1. ASSUME NEW x \in Workers, NEW v \in Values, NEW t \in Epochs, Put(x, v, t)
      PROVE  TypeOK'
  <2>1. [pc |-> "search", v |-> v, b |-> 0] \in Calls
    BY DEF Calls
  <2>2. QED
    BY <1>1, <2>1 DEF Put
<1>2. ASSUME NEW x \in Workers, Skip(x) \/ Search(x) \/ AddFails(x)
      PROVE  TypeOK'
  <2>1. CASE Skip(x) \/ AddFails(x)
    BY <2>1, IdleType DEF Skip, AddFails, history
  <2>2. CASE Search(x)
    <3>1. w' \in [Workers -> Calls]
      BY <2>2, GotoType DEF Search
    <3>2. QED
      BY <2>2, <3>1 DEF Search, history
  <2>3. QED
    BY <1>2, <2>1, <2>2
<1>3. ASSUME NEW x \in Workers, AddInvocation(x)
      PROVE  TypeOK'
  <2>1. inv' \in Invocations
    <3>1. CASE inv # NULL
      BY <1>3, <3>1 DEF AddInvocation
    <3>2. CASE inv = NULL
      <4>1. PICK splay \in 0..(interval - 1) : inv' = Invocation(now, splay)
        BY <1>3, <3>2 DEF AddInvocation
      <4>2. expire <= now
        BY AggregatorAssumption, SMTT(60) DEF Clock, Passes
      <4>3. QED
        BY <4>1, <4>2, NewInvocation
    <3>3. QED
      BY <3>1, <3>2
  <2>2. w' \in [Workers -> Calls]
    BY <1>3, GotoType DEF AddInvocation
  <2>3. QED
    BY <1>3, <2>1, <2>2 DEF AddInvocation, history
<1>4. ASSUME NEW x \in Workers, Locate(x)
      PROVE  TypeOK'
  <2>1. /\ inv # NULL /\ w[x].v \in Values /\ epoch[w[x].v] \in Nat
    BY <1>4, AggregatorAssumption DEF Locate, Locking, Holds, InCall, At
  <2> DEFINE t == epoch[w[x].v]
  <2>2. CASE Fits(t) /\ inv.buckets[BucketOf(t)].state = "A_OPEN"
    <3>1. BucketOf(t) \in Nat
      BY <2>1, <2>2, BucketOfRange
    <3>2. [w[x] EXCEPT !.pc = "update", !.b = BucketOf(t)] \in Calls
      BY <3>1, ZenonT(60) DEF Calls
    <3>3. w' = [w EXCEPT ![x] = [w[x] EXCEPT !.pc = "update", !.b = BucketOf(t)]]
      BY <1>4, <2>2, ZenonT(60) DEF Locate, Calls
    <3>4. QED
      BY <1>4, <2>2, <3>2, <3>3 DEF Locate
  <2>3. CASE ~(Fits(t) /\ inv.buckets[BucketOf(t)].state = "A_OPEN")
    BY <1>4, <2>1, <2>3, IdleType DEF Locate, Unlock
  <2>4. QED
    BY <2>2, <2>3
<1>5. ASSUME NEW x \in Workers, Update(x)
      PROVE  TypeOK'
  <2>1. /\ inv # NULL /\ w[x].v \in Values /\ w[x].b \in 1..bucketcnt
    BY <1>5 DEF Update, Locking, Holds, InCall, At
  <2>2. inv' \in Invocations
    BY <1>5, <2>1, UpdateEffect, ZenonT(60) DEF Update
  <2>3. QED
    BY <1>5, <2>1, <2>2, IdleType, SMTT(60) DEF Update, Unlock
<1>6. CASE BeginPass
  <2>1. now + Shift \in Int
    BY AggregatorAssumption DEF Shift
  <2>2. e' \in Passes
    BY <1>6, <2>1, ZenonT(60) DEF BeginPass, Passes
  <2>3. QED
    BY <1>6, <2>2 DEF BeginPass, history
<1>7. CASE LockShared \/ Count \/ Relock
  <2>1. e' \in Passes
    BY <1>7, PassType
  <2>2. readers' \subseteq Workers \cup {expirer}
    BY <1>7 DEF LockShared, Count, Relock
  <2>3. QED
    BY <1>7, <2>1, <2>2 DEF LockShared, Count, Relock, history
<1>8. CASE TestBucket
  <2>1. inv # NULL /\ e.b \in 1..bucketcnt
    BY <1>0, <1>8 DEF TestBucket, Locking, InScan, Scanned
  <2>2. inv' \in Invocations
    BY <1>8, <2>1, MarkEffect DEF TestBucket
  <2>3. e' \in Passes
    BY <1>8 DEF TestBucket, Passes
  <2>4. QED
    BY <1>8, <2>2, <2>3 DEF TestBucket, history
<1>9. ASSUME NEW written \in BOOLEAN, WriteMetric(written)
      PROVE  TypeOK'
  <2>1. inv # NULL /\ e.b \in 1..bucketcnt
    BY <1>0, <1>9 DEF WriteMetric, Locking, InScan, Scanned
  <2>2. inv.buckets[e.b].start \in Int /\ inv.buckets[e.b].vals \subseteq Values
    BY <2>1, ZenonT(60) DEF Invocations, Bucket
  <2>3. out' \in Seq([start : Int, vals : SUBSET Values, sent : BOOLEAN])
    BY <1>9, <2>2 DEF WriteMetric
  <2>4. e' \in Passes
    BY <1>9, ZenonT(60) DEF WriteMetric, Passes
  <2>5. QED
    BY <1>9, <2>3, <2>4 DEF WriteMetric
<1>10. CASE Cleanup
  <2>1. inv' \in Invocations \cup {NULL}
    <3>1. CASE inv = NULL
      BY <1>10, <3>1 DEF Cleanup
    <3>2. CASE inv # NULL
      BY <1>10, <3>2, RotateEffect DEF Cleanup
    <3>3. QED
      BY <3>1, <3>2
  <2>2. inv # NULL => \A k \in 0..bucketcnt : Held(k) \subseteq Values
    BY <1>0 DEF Held, Invocations, Bucket
  <2>3. lost' \subseteq Values
    BY <1>10, <2>2 DEF Cleanup
  <2>4. e' \in Passes
    BY <1>10 DEF Cleanup, Passes
  <2>5. QED
    BY <1>10, <2>1, <2>3, <2>4 DEF Cleanup
<1>11. CASE EndPass
  <2>1. inv # NULL => Held(bucketcnt) \subseteq Values
    BY <1>0 DEF Held, Invocations, Bucket
  <2>2. e' \in Passes
    BY <1>11, ZenonT(60) DEF EndPass, Passes
  <2>3. QED
    BY <1>11, <2>1, <2>2 DEF EndPass
<1>12. CASE Stop \/ Tick
  <2>1. now' \in Nat
    BY <1>12 DEF Stop, Tick
  <2>2. keep_running' \in BOOLEAN
    BY <1>12, Zenon DEF Stop, Tick
  <2>3. QED
    BY <1>12, <2>1, <2>2, Zenon DEF Stop, Tick, history
<1>13. QED
  BY <1>1, <1>2, <1>3, <1>4, <1>5, <1>6, <1>7, <1>8, <1>9, <1>10, <1>11, <1>12, ZenonT(60)
     DEF Next, PutMetric, Expire

(* A thread that has the lock keeps it until it lets go of it itself. *)
LEMMA StaysThere ==
  ASSUME BucketcntFits, IInv, NEW x \in Workers, PutMetric(x), inv # NULL
  PROVE  inv' # NULL
<1>1. CASE Update(x)
  <2>1. w[x].v \in Values /\ w[x].b \in 1..bucketcnt
    BY <1>1, SMTT(60) DEF Update, At, IInv, Locking, Holds
  <2>2. QED
    BY <1>1, <2>1, UpdateEffect, NoInvocationAssumption, ZenonT(60) DEF Update, IInv
<1>2. CASE ~Update(x)
  BY <1>2 DEF PutMetric, Put, Skip, Search, AddInvocation, AddFails, Locate
<1>3. QED
  BY <1>1, <1>2

LEMMA OthersHold ==
  ASSUME BucketcntFits, IInv, NEW x \in Workers, PutMetric(x), NEW y \in Workers, y # x
  PROVE  Holds(y)'
<1>1. w'[y] = w[y] /\ e' = e
  <2>1. e' = e
    BY ZenonT(60) DEF PutMetric, Put, Skip, Search, AddInvocation, AddFails, Locate, Update
  <2>2. QED
    BY <2>1, ZenonT(60) DEF IInv, TypeOK, PutMetric, Put, Skip, Search, AddInvocation, AddFails,
                Locate, Update, Goto
<1>2. y \in readers => y \in readers'
  BY ZenonT(60) DEF PutMetric, Put, Skip, Search, AddInvocation, AddFails, Locate, Update, Unlock
<1>3. writer = y => writer' = y
  BY AggregatorAssumption
     DEF PutMetric, Put, Skip, Search, AddInvocation, AddFails, Locate, Update, Unlock
<1>4. epoch[w[y].v] \in Epochs /\ w[y].v \in Values => epoch'[w[y].v] \in Epochs
  <2>1. ASSUME NEW v \in Values, NEW t \in Epochs, Put(x, v, t)
        PROVE  epoch[w[y].v] \in Epochs /\ w[y].v \in Values => epoch'[w[y].v] \in Epochs
    BY <2>1, SMTT(60) DEF Put, IInv, TypeOK
  <2>2. CASE ~\E v \in Values, t \in Epochs : Put(x, v, t)
    BY <2>2, ZenonT(60) DEF PutMetric, Skip, Search, AddInvocation, AddFails, Locate, Update, history
  <2>3. QED
    BY <2>1, <2>2
<1>5. QED
  BY <1>1, <1>2, <1>3, <1>4, StaysThere, SMTT(60) DEF Holds, InCall, Freed, IInv, Locking

LEMMA CallerHolds ==
  ASSUME BucketcntFits, IInv, NEW x \in Workers, PutMetric(x)
  PROVE  Holds(x)'
<1> USE DEF IInv, TypeOK
<1>1. ASSUME NEW v \in Values, NEW t \in Epochs, Put(x, v, t)
      PROVE  Holds(x)'
  BY <1>1 DEF Put, Holds, InCall
<1>2. CASE Skip(x) \/ AddFails(x) \/ Update(x)
  BY <1>2 DEF Skip, AddFails, Update, Idle, Holds, InCall
<1>3. CASE Search(x)
  <2>1. w[x].v \in Values /\ epoch'[w[x].v] \in Epochs
    BY <1>3 DEF Search, At, Locking, Holds, history
  <2>2. w'[x] = [w[x] EXCEPT !.pc = IF inv # NULL THEN "locate" ELSE "add"]
    BY <1>3, SMTT(60) DEF Search, Goto
  <2>3. QED
    BY <1>3, <2>1, <2>2 DEF Search, Holds, InCall, Calls
<1>4. CASE AddInvocation(x)
  <2>1. w[x].v \in Values /\ epoch'[w[x].v] \in Epochs
    BY <1>4 DEF AddInvocation, At, Locking, Holds, history
  <2>2. w'[x] = [w[x] EXCEPT !.pc = "locate"] /\ writer' = x
    BY <1>4 DEF AddInvocation, Goto
  <2>3. inv' # NULL
    <3>1. CASE inv # NULL
      BY <1>4, <3>1, SMTT(60) DEF AddInvocation
    <3>2. CASE inv = NULL
      <4>1. PICK splay \in 0..(interval - 1) : inv' = Invocation(now, splay)
        BY <1>4, <3>2 DEF AddInvocation
      <4>2. expire <= now
        BY AggregatorAssumption, SMTT(60) DEF Clock, Passes
      <4>3. QED
        BY <4>1, <4>2, NewInvocation, NoInvocationAssumption
    <3>3. QED
      BY <3>1, <3>2
  <2>4. QED
    BY <2>1, <2>2, <2>3 DEF Holds, InCall, Calls
<1>5. CASE Locate(x)
  <2>1. inv # NULL /\ w[x].v \in Values /\ epoch[w[x].v] \in Epochs
    BY <1>5 DEF Locate, Locking, Holds, InCall, At
  <2>2. x \in readers \/ writer = x
    BY <1>5 DEF Locate, Locking, Holds, InCall, At
  <2> DEFINE t == epoch[w[x].v]
  <2>3. CASE Fits(t) /\ inv.buckets[BucketOf(t)].state = "A_OPEN"
    <3>1. BucketOf(t) \in 1..bucketcnt
      BY <2>1, <2>3, BucketOfRange, AggregatorAssumption, ZenonT(60)
    <3>2. w'[x] = [w[x] EXCEPT !.pc = "update", !.b = BucketOf(t)]
      BY <1>5, <2>3, ZenonT(60) DEF Locate, Calls
    <3>3. QED
      BY <1>5, <2>1, <2>2, <2>3, <3>1, <3>2 DEF Locate, Holds, InCall, Calls
  <2>4. CASE ~(Fits(t) /\ inv.buckets[BucketOf(t)].state = "A_OPEN")
    BY <1>5, <2>4 DEF Locate, Idle, Holds, InCall
  <2>5. QED
    BY <2>3, <2>4
<1>6. QED
  BY <1>1, <1>2, <1>3, <1>4, <1>5 DEF PutMetric

LEMMA LockingStep ==
  ASSUME BucketcntFits, IInv, Next
  PROVE  Locking'
<1>1. ASSUME NEW x \in Workers, PutMetric(x)
      PROVE  Locking'
  <2>1. \A y \in Workers : Holds(y)'
    BY <1>1, OthersHold, CallerHolds, SMTT(60)
  <2>2. e' = e
    BY <1>1, ZenonT(60) DEF PutMetric, Put, Skip, Search, AddInvocation, AddFails, Locate, Update
  <2>3. (writer # NULL => readers = {})'
    BY <1>1, ZenonT(60) DEF IInv, Locking, PutMetric, Put, Skip, Search, AddInvocation, AddFails,
                Locate, Update, Unlock
  <2>4. expirer \in readers <=> expirer \in readers'
    BY <1>1, AggregatorAssumption, ZenonT(60) DEF PutMetric, Put, Skip, Search, AddInvocation, AddFails,
                Locate, Update, Unlock
  <2>5. QED
    BY <1>1, <2>1, <2>2, <2>3, <2>4, StaysThere DEF IInv, Locking, InScan
<1>2. ASSUME ~Freed, Expire
      PROVE  Locking'
  <2> USE DEF IInv, TypeOK, Locking
  <2>1. w' = w /\ epoch' = epoch /\ writer' = writer
    BY <1>2, ZenonT(60) DEF Expire, BeginPass, LockShared, TestBucket, Count, WriteMetric, Relock,
                Cleanup, EndPass, history
  <2>2. readers \ {expirer} \subseteq readers'
    BY <1>2, ZenonT(60) DEF Expire, BeginPass, LockShared, TestBucket, Count, WriteMetric, Relock,
                Cleanup, EndPass, history
  <2>0. TestBucket => inv' # NULL
    <3>1. TestBucket => inv # NULL /\ e.b \in 1..bucketcnt
      BY DEF TestBucket, InScan, Scanned
    <3>2. QED
      BY <3>1, MarkEffect, NoInvocationAssumption DEF TestBucket
  <2>3. inv # NULL => inv' # NULL \/ (readers = {} /\ writer = NULL) \/ Freed'
    BY <1>2, <2>0, ZenonT(60) DEF Expire, BeginPass, LockShared, Count, WriteMetric, Relock,
                Cleanup, EndPass, Freed, Passes
  <2>4. \A y \in Workers : Holds(y)'
    BY <1>2, <2>1, <2>2, <2>3, AggregatorAssumption DEF Holds, InCall, Freed
  <2>5. (writer # NULL => readers = {})'
    BY <1>2, ZenonT(60) DEF Expire, BeginPass, LockShared, TestBucket, Count, WriteMetric, Relock,
                Cleanup, EndPass
  <2>6. (expirer \in readers <=> e.pc \in {"test", "count", "write"})'
    BY <1>2, ZenonT(60) DEF Expire, BeginPass, LockShared, TestBucket, Count, WriteMetric, Relock,
                NextBucket, Cleanup, EndPass, Passes
  <2>7. (InScan => inv # NULL)'
    <3>1. CASE TestBucket
      BY <2>0, <3>1
    <3>2. CASE LockShared \/ Count \/ Relock \/ \E written \in BOOLEAN : WriteMetric(written)
      BY <3>2, ZenonT(60) DEF LockShared, Count, WriteMetric, Relock, Passes, InScan
    <3>3. CASE BeginPass \/ Cleanup \/ EndPass
      BY <3>3, ZenonT(60) DEF BeginPass, Cleanup, EndPass, Passes, InScan
    <3>4. QED
      BY <1>2, <3>1, <3>2, <3>3 DEF Expire
  <2>8. QED
    BY <2>4, <2>5, <2>6, <2>7, SMTT(60)
<1>3. CASE Stop \/ Tick
  BY <1>3 DEF Stop, Tick, history, IInv, Locking, Holds, InCall, InScan, Freed
<1>4. QED
  BY <1>1, <1>2, <1>3, ZenonT(60) DEF Next, Expire, Freed, BeginPass, LockShared, TestBucket, Count,
     WriteMetric, Relock, Cleanup, EndPass

(* Buckets stay consecutive: their starts only change together. *)
LEMMA SameStarts ==
  ASSUME BucketcntFits, IInv, inv # NULL, inv'.expire = inv.expire,
         \A i \in 1..bucketcnt : inv'.buckets[i].start = inv.buckets[i].start
  PROVE  Consecutive'
<1>1. 1 \in 1..bucketcnt
  BY BucketcntBound
<1>2. QED
  BY <1>1 DEF IInv, Consecutive, start0

LEMMA ConsecutiveStep ==
  ASSUME BucketcntFits, IInv, Next
  PROVE  Consecutive'
<1> USE DEF IInv
<1>0. 1 \in 1..bucketcnt /\ interval \in Nat /\ expire \in Nat
  BY BucketcntBound, AggregatorAssumption
<1>1. ASSUME NEW x \in Workers, AddInvocation(x), inv = NULL
      PROVE  Consecutive'
  <2>1. PICK splay \in 0..(interval - 1) : inv' = Invocation(now, splay)
    BY <1>1 DEF AddInvocation
  <2>2. now \in Nat /\ expire <= now
    BY AggregatorAssumption, SMTT(60) DEF TypeOK, Clock, Passes
  <2>3. /\ inv'.expire = expire + splay
        /\ \A i \in 1..bucketcnt :
             inv'.buckets[i].start = Align(now - expire) + (i - 1) * interval
    BY <2>1, <2>2, NewInvocation
  <2>4. now - expire \in Nat
    BY <1>0, <2>2
  <2>5. Align(now - expire) \in Int /\ Multiple(Align(now - expire))
    BY <2>4, AlignBounds
  <2>6. inv'.buckets[1].start = Align(now - expire)
    <3>1. inv'.buckets[1].start = Align(now - expire) + (1 - 1) * interval
      BY <1>0, <2>3
    <3>2. QED
      BY <1>0, <2>5, <3>1
  <2>7. inv'.expire \in expire..(expire + interval - 1)
    BY <1>0, <2>3, SMTT(60)
  <2>8. QED
    BY <2>3, <2>5, <2>6, <2>7 DEF Consecutive, start0
<1>2. ASSUME NEW x \in Workers, Update(x)
      PROVE  Consecutive'
  <2>1. inv # NULL /\ w[x].v \in Values /\ w[x].b \in 1..bucketcnt
    BY <1>2 DEF Update, Locking, Holds, InCall, At
  <2>2. QED
    BY <1>2, <2>1, UpdateEffect, SameStarts, ZenonT(60) DEF Update
<1>3. CASE TestBucket
  <2>1. inv # NULL /\ e.b \in 1..bucketcnt
    BY <1>3 DEF TestBucket, Locking, InScan, Scanned
  <2>2. CASE inv' = [inv EXCEPT !.buckets[e.b].state = "A_EXPIRE"]
    BY <2>1, <2>2, MarkEffect, SameStarts
  <2>3. CASE inv' = inv
    BY <2>3 DEF Consecutive, start0
  <2>4. QED
    BY <1>3, <2>2, <2>3 DEF TestBucket
<1>4. CASE Cleanup
  <2>1. CASE inv' = inv \/ inv' = NULL
    BY <2>1 DEF Consecutive, start0
  <2>2. ASSUME NEW k \in 0..bucketcnt, inv # NULL, inv' = [inv EXCEPT !.buckets = Rotated(k)]
        PROVE  Consecutive'
    <3>1. /\ inv'.expire = inv.expire
          /\ \A i \in 1..bucketcnt :
               inv'.buckets[i].start = start0 + k * interval + (i - 1) * interval
      BY <2>2, RotateEffect
    <3>2. start0 \in Int
      BY <1>0, <2>2, ZenonT(60) DEF TypeOK, Invocations, Bucket, start0
    <3>3. inv'.buckets[1].start = start0 + k * interval
      <4>1. inv'.buckets[1].start = start0 + k * interval + (1 - 1) * interval
        BY <1>0, <3>1
      <4>2. k * interval \in Int
        BY <1>0
      <4>3. QED
        BY <1>0, <3>2, <4>1, <4>2
    <3>4. Multiple(start0 + k * interval)
      BY <2>2, <3>2, MultiplePlus DEF Consecutive
    <3>5. QED
      BY <2>2, <3>1, <3>3, <3>4 DEF Consecutive, start0
  <2>3. QED
    BY <1>4, <2>1, <2>2 DEF Cleanup
<1>5. CASE inv' = inv \/ inv' = NULL
  BY <1>5 DEF Consecutive, start0
<1>6. QED
  BY <1>1, <1>2, <1>3, <1>4, <1>5, ZenonT(60)
     DEF Next, PutMetric, Expire, Put, Skip, Search, AddInvocation, AddFails, Locate,
         BeginPass, LockShared, Count, WriteMetric, Relock, EndPass, Stop, Tick

-----------------------------------------------------------------------------
(* The last bucket is ahead of the thread. *)

LEMMA LastStart ==
  ASSUME BucketcntFits, IInv, inv # NULL
  PROVE  /\ start0 \in Int /\ last \in Int /\ (bucketcnt - 1) * interval \in Int
         /\ last = start0 + (bucketcnt - 1) * interval
<1>1. interval \in Nat /\ bucketcnt \in Nat /\ 3 <= bucketcnt
  BY AggregatorAssumption, BucketcntBound
<1>2. start0 \in Int /\ last \in Int
  BY <1>1 DEF IInv, TypeOK, Invocations, Bucket, start0, last
<1>3. QED
  BY <1>1, <1>2 DEF IInv, Consecutive, last

LEMMA NewIsAhead ==
  ASSUME BucketcntFits, IInv, NEW x \in Workers, AddInvocation(x), inv = NULL
  PROVE  /\ start0' \in Int /\ last' \in Int /\ now < last'
         /\ last' = start0' + (bucketcnt - 1) * interval
<1>1. /\ interval \in Nat \ {0} /\ expire \in Nat
      /\ bucketcnt \in Nat /\ 3 <= bucketcnt
      /\ expire <= bucketcnt * interval - 2 * interval
  BY AggregatorAssumption, BucketcntBound
<1>2. PICK splay \in 0..(interval - 1) : inv' = Invocation(now, splay)
  BY DEF AddInvocation
<1>3. now \in Nat /\ expire <= now
  BY AggregatorAssumption, SMTT(60) DEF IInv, TypeOK, Clock, Passes
<1>4. /\ last' = Align(now - expire) + (bucketcnt - 1) * interval
      /\ start0' = Align(now - expire) + (1 - 1) * interval
  <2>1. \A i \in 1..bucketcnt :
          inv'.buckets[i].start = Align(now - expire) + (i - 1) * interval
    BY <1>2, <1>3, NewInvocation
  <2>2. 1 \in 1..bucketcnt /\ bucketcnt \in 1..bucketcnt
    BY <1>1
  <2>3. QED
    BY <2>1, <2>2, Zenon DEF last, start0
<1>5. /\ Align(now - expire) \in Int
      /\ now - expire < Align(now - expire) + interval
  BY <1>1, <1>3, AlignBounds
<1>6. /\ (bucketcnt - 1) * interval = bucketcnt * interval - interval
      /\ bucketcnt * interval \in Int /\ (1 - 1) * interval = 0
  BY <1>1, SMTT(60)
<1>7. QED
  BY <1>1, <1>3, <1>4, <1>5, <1>6

LEMMA WorkersAreInTime ==
  ASSUME BucketcntFits, IInv, NEW x \in Workers, PutMetric(x)
  PROVE  Ahead' /\ NotPast' /\ Scanned'
<1>1. e' = e
  BY DEF PutMetric, Put, Skip, Search, AddInvocation, AddFails, Locate, Update
<1>2. interval \in Nat /\ expire \in Nat /\ interval < expire /\ bucketcnt \in Nat /\ 3 <= bucketcnt
  BY AggregatorAssumption, BucketcntBound
<1>3. e.seen \in Int /\ e.now \in Int /\ now \in Int
  BY DEF IInv, TypeOK, Passes
<1>4. CASE inv' = inv
  BY <1>1, <1>4 DEF IInv, Ahead, NotPast, Scanned, Marked, InScan, last, start0
<1>5. CASE AddInvocation(x) /\ inv = NULL
  <2>1. /\ start0' \in Int /\ last' \in Int /\ now < last'
        /\ last' = start0' + (bucketcnt - 1) * interval
    BY <1>5, NewIsAhead
  <2>2. e.seen < last' /\ e.now <= last' + expire
    <3>1. e.seen <= now /\ e.now <= e.seen + expire - interval
      BY DEF IInv, Clock
    <3>2. last' \in Int /\ now < last'
      BY <2>1
    <3>3. QED
      BY <1>2, <1>3, <3>1, <3>2
  <2>3. Ahead' /\ NotPast'
    BY <1>1, <2>2 DEF Ahead, NotPast
  <2>4. Marked(0)' /\ e.seen < start0' + 0 * interval + (bucketcnt - 1) * interval
    BY <1>2, <2>1, <2>2 DEF Marked
  <2>5. ~InScan
    BY <1>5, SMTT(60) DEF IInv, Locking
  <2>6. QED
    BY <1>1, <1>2, <2>3, <2>4, <2>5 DEF Scanned, InScan
<1>6. CASE Update(x)
  <2>1. inv # NULL /\ w[x].v \in Values /\ w[x].b \in 1..bucketcnt
    BY <1>6, SMTT(60) DEF Update, IInv, Locking, Holds, InCall, At
  <2>2. \A i \in 1..bucketcnt : /\ inv'.buckets[i].start = inv.buckets[i].start
                              /\ inv'.buckets[i].state = inv.buckets[i].state
    BY <1>6, <2>1, UpdateEffect, ZenonT(60) DEF Update, IInv
  <2>3. last' = last /\ start0' = start0
    <3>1. 1 \in 1..bucketcnt /\ bucketcnt \in 1..bucketcnt
      BY <1>2
    <3>2. QED
      BY <2>2, <3>1, ZenonT(60) DEF last, start0
  <2>4. ASSUME NEW k \in 0..bucketcnt
        PROVE  Marked(k)' = Marked(k)
    <3>1. \A i \in 1..k : i \in 1..bucketcnt
      BY <1>2
    <3>2. QED
      BY <2>2, <3>1, ZenonT(60) DEF Marked
  <2>5. Ahead' /\ NotPast'
    BY <1>1, <2>1, <2>3 DEF IInv, Ahead, NotPast, InScan
  <2>6. QED
    BY <1>1, <1>2, <2>1, <2>3, <2>4, <2>5, SMTT(60) DEF IInv, Scanned
<1>7. QED
  BY <1>4, <1>5, <1>6, ZenonT(60) DEF PutMetric, Put, Skip, Search, AddInvocation, AddFails, Locate

LEMMA ClockStep ==
  ASSUME IInv, Next
  PROVE  Clock'
<1>1. /\ interval \in Nat /\ expire \in Nat /\ interval < expire
      /\ Lag \in Nat /\ StartTime \in Nat
  BY AggregatorAssumption
<1>2. e \in Passes /\ now \in Nat /\ Clock
  BY DEF IInv, TypeOK
<1>3. CASE BeginPass
  <2>1. Shift \in 0..(expire - interval)
    BY <1>1 DEF Shift
  <2>2. e'.seen = now /\ e'.now = now + Shift /\ now' = now
    BY <1>2, <1>3 DEF BeginPass, Passes
  <2>3. QED
    BY <1>1, <1>2, <2>1, <2>2 DEF Clock, Passes
<1>4. CASE Tick
  BY <1>1, <1>2, <1>4 DEF Tick, Clock, Passes
<1>5. CASE e'.seen = e.seen /\ e'.now = e.now /\ now' = now
  BY <1>2, <1>5 DEF Clock
<1>6. QED
  <2>1. ASSUME NEW x \in Workers, PutMetric(x)
        PROVE  Clock'
    BY <1>5, <2>1 DEF PutMetric, Put, Skip, Search, AddInvocation, AddFails, Locate, Update
  <2>2. CASE Stop
    BY <1>5, <2>2 DEF Stop
  <2>3. CASE Expire
    BY <1>2, <1>3, <1>5, <2>3, ZenonT(60) DEF Expire, LockShared, TestBucket, Count, WriteMetric,
       Relock, NextBucket, Cleanup, EndPass, Passes
  <2>4. QED
    BY <1>4, <2>1, <2>2, <2>3, ZenonT(60) DEF Next

(* A pass starts at most an interval after the one before. *)
LEMMA BeginInTime ==
  ASSUME BucketcntFits, IInv, BeginPass
  PROVE  Ahead' /\ NotPast' /\ Scanned'
<1>1. /\ interval \in Nat /\ expire \in Nat /\ interval < expire
      /\ Lag \in Nat /\ Lag <= interval
  BY AggregatorAssumption
<1>2. e \in Passes /\ now \in Nat
  BY DEF IInv, TypeOK
<1>3. Shift \in 0..(expire - interval)
  BY <1>1 DEF Shift
<1>4. e'.pc = "lock" /\ e'.now = now + Shift /\ inv' = inv
  BY <1>2 DEF BeginPass, Passes
<1>5. inv # NULL => last \in Int /\ e.seen < last
  BY LastStart DEF IInv, Ahead, BeginPass
<1>6. now <= e.seen + Lag
  BY DEF IInv, Clock
<1>7. inv # NULL => now + Shift <= last + expire
  BY <1>1, <1>2, <1>3, <1>5, <1>6 DEF Passes
<1>8. QED
  BY <1>4, <1>7, SMTT(60) DEF Ahead, NotPast, Scanned, InScan, last

(* The scan ends at a bucket that is not past its expiry, and marks all    *)
(* before it.                                                              *)
LEMMA TestInTime ==
  ASSUME BucketcntFits, IInv, TestBucket
  PROVE  Ahead' /\ NotPast' /\ Scanned'
<1>1. /\ interval \in Nat /\ expire \in Nat /\ interval < expire
      /\ bucketcnt \in Nat /\ 3 <= bucketcnt
      /\ expire <= bucketcnt * interval - 2 * interval
  BY AggregatorAssumption, BucketcntBound
<1>2. /\ e.pc = "test" /\ inv # NULL /\ e.b \in 1..bucketcnt /\ Marked(e.b - 1)
      /\ e \in Passes /\ e.now <= last + expire
  BY DEF TestBucket, IInv, TypeOK, Locking, InScan, Scanned, NotPast
<1>3. /\ start0 \in Int /\ last \in Int
      /\ last = start0 + (bucketcnt - 1) * interval
      /\ inv.expire \in expire..(expire + interval - 1)
      /\ inv.buckets[e.b].start = start0 + (e.b - 1) * interval
  BY <1>2, LastStart DEF IInv, Consecutive
<1> DEFINE st == inv.buckets[e.b].start
<1>4. st \in Int
  BY <1>2, ZenonT(60) DEF IInv, TypeOK, Invocations, Bucket
<1>5. CASE /\ Past(inv.buckets[e.b])
           /\ inv' = [inv EXCEPT !.buckets[e.b].state = "A_EXPIRE"]
           /\ e' = [e EXCEPT !.pc = "count"]
  <2>1. /\ \A i \in 1..bucketcnt : inv'.buckets[i].start = inv.buckets[i].start
        /\ \A i \in 1..bucketcnt : i # e.b => inv'.buckets[i].state = inv.buckets[i].state
        /\ inv'.buckets[e.b].state = "A_EXPIRE"
    BY <1>2, <1>5, MarkEffect DEF IInv
  <2>2. st + expire < e.now
    BY <1>1, <1>2, <1>3, <1>4, <1>5 DEF Past, Passes
  <2>3. e.b # bucketcnt
    BY <1>1, <1>2, <1>3, <2>2 DEF last, Passes
  <2>4. Marked(e.b)'
    BY <1>1, <1>2, <1>5, <2>1 DEF Marked, Passes
  <2>5. e'.pc = "count" /\ e'.b = e.b /\ e'.now = e.now /\ e'.seen = e.seen
    BY <1>2, <1>5 DEF Passes
  <2>6. last' = last
    BY <1>1, <2>1 DEF last
  <2>7. e'.b \in 1..(bucketcnt - 1)
    BY <1>1, <1>2, <2>3, <2>5
  <2>8. QED
    BY <1>2, <2>4, <2>5, <2>6, <2>7, SMTT(60) DEF Ahead, NotPast, Scanned, InScan
<1>6. CASE ~Past(inv.buckets[e.b]) /\ inv' = inv /\ e' = [e EXCEPT !.pc = "cleanup"]
  <2>1. e.now <= st + expire + interval - 1
    BY <1>1, <1>2, <1>3, <1>4, <1>6 DEF Past, Passes
  <2>2. PICK k \in 0..bucketcnt : k = e.b - 1
    BY <1>1, <1>2
  <2>3. e.seen <= e.now
    BY DEF IInv, Clock
  <2>4. /\ k * interval \in Int /\ bucketcnt * interval \in Int
        /\ (bucketcnt - 1) * interval = bucketcnt * interval - interval
    BY <1>1, <2>2
  <2>5. st = start0 + k * interval
    BY <1>3, <2>2
  <2>6. e.seen < start0 + k * interval + (bucketcnt - 1) * interval
    BY <1>1, <1>2, <1>3, <2>1, <2>3, <2>4, <2>5 DEF Passes
  <2>7. e'.pc = "cleanup" /\ e'.seen = e.seen /\ start0' = start0 /\ Marked(k)'
    BY <1>2, <1>6, <2>2 DEF Passes, start0, Marked
  <2>8. QED
    BY <2>6, <2>7 DEF Ahead, NotPast, Scanned, InScan
<1>7. QED
  BY <1>5, <1>6, SMTT(60) DEF TestBucket

(* Moving the marked buckets puts the last one ahead of the pass. *)
LEMMA CleanupInTime ==
  ASSUME BucketcntFits, IInv, Cleanup
  PROVE  Ahead' /\ NotPast' /\ Scanned'
<1>1. interval \in Nat /\ bucketcnt \in Nat /\ 3 <= bucketcnt
  BY AggregatorAssumption, BucketcntBound
<1>2. e \in Passes /\ e.pc = "cleanup" /\ e' = [e EXCEPT !.pc = "end"]
  BY DEF Cleanup, IInv, TypeOK
<1>3. e'.pc = "end" /\ e'.seen = e.seen
  BY <1>2 DEF Passes
<1>4. NotPast' /\ Scanned'
  BY <1>3 DEF NotPast, Scanned, InScan
<1>5. CASE inv' = NULL
  BY <1>4, <1>5 DEF Ahead
<1>6. ASSUME NEW k \in 0..bucketcnt, inv # NULL, Leading(k),
             inv' = [inv EXCEPT !.buckets = Rotated(k)]
      PROVE  Ahead'
  <2>1. PICK m \in 0..bucketcnt :
          Marked(m) /\ e.seen < start0 + m * interval + (bucketcnt - 1) * interval
    BY <1>2, <1>6 DEF IInv, Scanned
  <2>2. m <= k
    <3>1. SUFFICES ASSUME k < m PROVE FALSE
      OBVIOUS
    <3>2. k + 1 \in 1..m /\ k < bucketcnt
      BY <1>1, <3>1
    <3>3. inv.buckets[k + 1].state = "A_EXPIRE" /\ inv.buckets[k + 1].state = "A_OPEN"
      BY <1>6, <2>1, <3>2 DEF Marked, Leading
    <3>4. QED
      BY <3>3
  <2>3. last' = start0 + k * interval + (bucketcnt - 1) * interval
    <3>1. bucketcnt \in 1..bucketcnt
      BY <1>1
    <3>2. \A i \in 1..bucketcnt :
            inv'.buckets[i].start = start0 + k * interval + (i - 1) * interval
      BY <1>6, RotateEffect DEF IInv
    <3>3. QED
      BY <3>1, <3>2, Zenon DEF last
  <2>4. m * interval <= k * interval
    BY <1>1, <2>2
  <2>5. /\ start0 \in Int /\ (bucketcnt - 1) * interval \in Int
        /\ m * interval \in Int /\ k * interval \in Int
    BY <1>1, <1>6, LastStart
  <2>6. e.seen < last'
    BY <1>2, <2>1, <2>3, <2>4, <2>5 DEF Passes
  <2>7. QED
    BY <1>3, <2>6 DEF Ahead
<1>7. QED
  BY <1>4, <1>5, <1>6 DEF Cleanup, Ahead

(* The other steps of a pass keep the buckets. *)
LEMMA PassInTime ==
  ASSUME BucketcntFits, IInv, LockShared \/ Count \/ Relock \/ EndPass
           \/ \E written \in BOOLEAN : WriteMetric(written)
  PROVE  Ahead' /\ NotPast' /\ Scanned'
<1>1. bucketcnt \in Nat /\ 3 <= bucketcnt /\ e \in Passes
  BY BucketcntBound DEF IInv, TypeOK
<1>2. CASE LockShared
  <2>1. inv' = inv /\ e'.now = e.now /\ e'.seen = e.seen
    BY <1>1, <1>2, ZenonT(60) DEF LockShared, Passes
  <2>2. \/ inv # NULL /\ e'.pc = "test" /\ e'.b = 1
        \/ inv = NULL /\ e'.pc = "cleanup"
    BY <1>1, <1>2, ZenonT(60) DEF LockShared, Passes
  <2>3. e'.b = 1 => Marked(e.b - 1)'
    BY DEF Marked
  <2>4. QED
    BY <1>1, <1>2, <2>1, <2>2, <2>3
       DEF IInv, LockShared, Ahead, NotPast, Scanned, InScan, last
<1>3. CASE Count \/ Relock \/ \E written \in BOOLEAN : WriteMetric(written)
  <2>1. /\ e.pc \in {"count", "write", "relock"} /\ inv' = inv
        /\ e'.now = e.now /\ e'.seen = e.seen
    BY <1>1, <1>3, ZenonT(60) DEF Count, Relock, NextBucket, WriteMetric, Passes
  <2>2. \/ e'.pc = "test" /\ e'.b = e.b + 1
        \/ e'.pc \in {"write", "relock"} /\ e'.b = e.b
    BY <1>1, <1>3, ZenonT(60) DEF Count, Relock, NextBucket, WriteMetric, Passes
  <2>3. e.b \in 1..(bucketcnt - 1) /\ Marked(e.b)
    BY <2>1 DEF IInv, Scanned
  <2>4. CASE e'.pc = "test" /\ e'.b = e.b + 1
    <3>1. e'.b \in 1..bucketcnt /\ e'.b - 1 = e.b
      BY <1>1, <2>3, <2>4
    <3>2. Marked(e.b - 1)'
      BY <2>1, <2>3, <3>1, SMTT(60) DEF Marked
    <3>3. QED
      BY <2>1, <2>4, <3>1, <3>2 DEF IInv, Ahead, NotPast, Scanned, InScan, last
  <2>5. CASE e'.pc \in {"write", "relock"} /\ e'.b = e.b
    <3>1. Marked(e.b)'
      BY <2>1, <2>3, <2>5 DEF Marked
    <3>2. QED
      BY <2>1, <2>3, <2>5, <3>1 DEF IInv, Ahead, NotPast, Scanned, InScan, last
  <2>6. QED
    BY <2>2, <2>4, <2>5
<1>4. CASE EndPass
  <2>1. e'.pc \in {"done", "begin"} /\ e'.seen = e.seen /\ (inv' = NULL \/ inv' = inv)
    BY <1>1, <1>4 DEF EndPass, Passes
  <2>2. QED
    BY <1>4, <2>1 DEF EndPass, IInv, Ahead, NotPast, Scanned, InScan, last
<1>5. QED
  BY <1>2, <1>3, <1>4

LEMMA TimeStep ==
  ASSUME BucketcntFits, IInv, Next
  PROVE  Ahead' /\ NotPast' /\ Scanned'
<1>1. CASE Stop \/ Tick
  BY <1>1 DEF Stop, Tick, IInv, Ahead, NotPast, Scanned, Marked, InScan, last, start0
<1>2. QED
  BY <1>1, WorkersAreInTime, BeginInTime, TestInTime, CleanupInTime, PassInTime, ZenonT(60)
     DEF Next, Expire

-----------------------------------------------------------------------------
LEMMA Initially ==
  ASSUME BucketcntFits, Init
  PROVE  IInv
<1>1. TypeOK
  BY AggregatorAssumption, IdleType, SMTT(60) DEF Init, TypeOK, Passes
<1>2. Locking /\ Consecutive /\ Ahead /\ NotPast /\ Scanned
  BY SMTT(60) DEF Init, Locking, Holds, InCall, InScan, Idle, Consecutive, Ahead, NotPast, Scanned
<1>3. Clock
  BY AggregatorAssumption, SMTT(60) DEF Init, Clock
<1>4. QED
  BY <1>1, <1>2, <1>3, ZenonT(60) DEF IInv

LEMMA Stutters ==
  ASSUME IInv, UNCHANGED vars
  PROVE  IInv'
BY DEF vars, IInv, TypeOK, Locking, Holds, InCall, InScan, Freed, Consecutive, Clock,
       Ahead, NotPast, Scanned, Marked, last, start0

(* The inductive invariant, for every interval, expiry time and number of  *)
(* threads.                                                                *)
THEOREM AggregatorInvariant ==
  ASSUME BucketcntFits
  PROVE  Spec => []IInv
<1>1. Init => IInv
  BY Initially
<1>2. IInv /\ [Next]_vars => IInv'
  <2>1. IInv /\ Next => IInv'
    BY TypeStep, LockingStep, ConsecutiveStep, ClockStep, TimeStep DEF IInv
  <2>2. QED
    BY <2>1, Stutters
<1>3. QED
  BY <1>1, <1>2, PTL DEF Spec

(* The variables of the aggregator stay within their types. *)
THEOREM AggregatorTypeCorrect ==
  ASSUME BucketcntFits
  PROVE  Spec => []TypeOK
<1>1. IInv => TypeOK
  BY DEF IInv
<1>2. QED
  BY <1>1, AggregatorInvariant, PTL

(* The buckets of an invocation stay consecutive and aligned to the        *)
(* interval, whatever is marked, moved and added.                          *)
THEOREM AggregatorBucketsAligned ==
  ASSUME BucketcntFits
  PROVE  Spec => []BucketsAligned
<1>1. IInv => BucketsAligned
  <2> SUFFICES ASSUME IInv, inv # NULL
               PROVE  /\ start0 % interval = 0
                      /\ \A i \in 2..bucketcnt :
                           inv.buckets[i].start = inv.buckets[i - 1].start + interval
    BY ZenonT(60) DEF BucketsAligned
  <2>1. interval \in Nat \ {0} /\ bucketcnt \in Nat /\ start0 \in Int
    <3>1. interval \in Nat \ {0}
      BY IntervalPositive, ZenonT(60)
    <3>2. bucketcnt \in Nat
      BY BucketcntBound, ZenonT(60)
    <3>3. start0 \in Int
      BY LastStart, ZenonT(60)
    <3>4. QED
      BY <3>1, <3>2, <3>3, ZenonT(60)
  <2>2. start0 % interval = 0
    BY <2>1, MultipleModulo DEF IInv, Consecutive, Multiple
  <2>3. ASSUME NEW i \in 2..bucketcnt
        PROVE  inv.buckets[i].start = inv.buckets[i - 1].start + interval
    <3>1. i \in 1..bucketcnt /\ i - 1 \in 1..bucketcnt
      BY <2>1
    <3>2. /\ inv.buckets[i].start = start0 + (i - 1) * interval
          /\ inv.buckets[i - 1].start = start0 + ((i - 1) - 1) * interval
      BY <3>1 DEF IInv, Consecutive
    <3>3. (i - 1) * interval = ((i - 1) - 1) * interval + interval
      BY <2>1
    <3>4. ((i - 1) - 1) * interval \in Int
      BY <2>1
    <3>5. QED
      BY <2>1, <3>2, <3>3, <3>4
  <2>4. QED
    BY <2>2, <2>3
<1>2. QED
  BY <1>1, AggregatorInvariant, PTL

(* The loop over the buckets in aggregator_expire stays within them, if a  *)
(* pass follows the one before it within the interval.                     *)
THEOREM AggregatorNoOverrun ==
  ASSUME BucketcntFits
  PROVE  Spec => []NoOverrun
<1>1. IInv => NoOverrun
  BY BucketcntBound DEF IInv, Scanned, NoOverrun
<1>2. QED
  BY <1>1, AggregatorInvariant, PTL

=============================================================================
