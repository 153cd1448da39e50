---------------------------- MODULE QueueProofs ----------------------------
(***************************************************************************)
(* Proofs about the ring buffer of queue.c, for every capacity, every set  *)
(* of pointers and every vector size.  The inductive invariant is the      *)
(* conjunction of the three invariants TLC checks and of what queue_new    *)
(* relies on.  None of them is inductive alone: which slots form the       *)
(* window depends on the indices, and what may be freed on the window.     *)
(***************************************************************************)
EXTENDS Queue, SequenceTheorems, TLAPS

DestroyedIsEmpty == live \/ len = 0

IInv == TypeOK /\ IndicesAgree /\ OwnsItsEntries /\ DestroyedIsEmpty

(* The slots a window position can refer to. *)
LEMMA SlotRange ==
  ASSUME TypeOK, NEW i \in 0..end-1
  PROVE  Wrap(Wrap(read) + i) \in 0..end-1
BY QueueAssumption DEF TypeOK, Wrap

(* Distinct window positions are distinct slots. *)
LEMMA SlotInjective ==
  ASSUME TypeOK, NEW i \in 0..end-1, NEW j \in 0..end-1,
         Wrap(Wrap(read) + i) = Wrap(Wrap(read) + j)
  PROVE  i = j
BY QueueAssumption DEF TypeOK, Wrap

(* Advancing an index by n moves the window by n entries. *)
LEMMA WrapAdvance ==
  ASSUME NEW r \in 0..end, NEW n \in 0..end, NEW i \in 0..end-1, n + i < end
  PROVE  /\ Advance(r, n) \in 0..end
         /\ Wrap(Wrap(Advance(r, n)) + i) = Wrap(Wrap(r) + (n + i))
BY QueueAssumption DEF Advance, Wrap

-----------------------------------------------------------------------------
(* What each operation does to the entries of the window. *)

(* An entry stored in a queue with room becomes the youngest. *)
LEMMA EnqueueRoom ==
  ASSUME IInv, NEW p \in Pointers, queue_enqueue(p), len # end
  PROVE  /\ TypeOK' /\ IndicesAgree'
         /\ len' = len + 1
         /\ owner' = [owner EXCEPT ![p] = "queue"]
         /\ \A i \in 0..len : Entry(i)' = IF i < len THEN Entry(i) ELSE p
<1> USE QueueAssumption DEF IInv, TypeOK
<1>1. /\ read' = read /\ len' = len + 1
      /\ owner' = [owner EXCEPT ![p] = "queue"]
      /\ queue' = [queue EXCEPT ![Wrap(write)] = p]
      /\ write' = Advance(write, 1)
      /\ live' = live /\ ret' = ret
  BY DEF queue_enqueue, Store
<1>2. Wrap(write) = Wrap(Wrap(read) + len)
  BY DEF IndicesAgree
<1>3. TypeOK'
  <2>1. Wrap(write) \in 0..end-1 /\ Advance(write, 1) \in 0..end
    BY DEF Wrap, Advance
  <2>2. QED
    BY <1>1, <2>1 DEF Owners
<1>4. IndicesAgree'
  BY <1>1, <1>2 DEF IndicesAgree, Wrap, Advance
<1>5. ASSUME NEW i \in 0..len-1
      PROVE  Entry(i)' = Entry(i)
  <2>1. Wrap(Wrap(read) + i) # Wrap(write) /\ Wrap(Wrap(read) + i) \in 0..end-1
    BY <1>2, SlotInjective, SlotRange, SMTT(60)
  <2>2. QED
    BY <1>1, <2>1 DEF Entry, Wrap
<1>6. ASSUME NEW i \in {len}
      PROVE  Entry(i)' = p
  <2>1. Wrap(Wrap(read) + len) \in 0..end-1
    BY SlotRange
  <2>2. QED
    BY <1>1, <1>2, <2>1 DEF Entry, Wrap
<1>7. QED
  BY <1>1, <1>3, <1>4, <1>5, <1>6, SMTT(60)

(* An entry stored in a full queue replaces the oldest. *)
LEMMA EnqueueFull ==
  ASSUME IInv, NEW p \in Pointers, queue_enqueue(p), len = end
  PROVE  /\ TypeOK' /\ IndicesAgree'
         /\ len' = len
         /\ owner' = [owner EXCEPT ![p] = "queue", ![Entry(0)] = "nobody"]
         /\ \A i \in 0..len-1 : Entry(i)' = IF i < len - 1 THEN Entry(i + 1) ELSE p
<1> USE QueueAssumption DEF IInv, TypeOK
<1>1. /\ read' = Advance(read, 1) /\ len' = len
      /\ owner' = [owner EXCEPT ![p] = "queue", ![Entry(0)] = "nobody"]
      /\ queue' = [queue EXCEPT ![Wrap(write)] = p]
      /\ write' = Advance(write, 1)
      /\ live' = live /\ ret' = ret
  BY DEF queue_enqueue, Store
<1>2. Wrap(write) = Wrap(Wrap(read) + 0)
  BY DEF IndicesAgree
<1>3. TypeOK'
  <2>1. /\ Wrap(write) \in 0..end-1
        /\ Advance(write, 1) \in 0..end
        /\ Advance(read, 1) \in 0..end
    BY DEF Wrap, Advance
  <2>2. QED
    BY <1>1, <2>1, ZenonT(60) DEF Owners
<1>4. IndicesAgree'
  BY <1>1, <1>2 DEF IndicesAgree, Wrap, Advance
<1>5. ASSUME NEW i \in 0..len-2
      PROVE  Entry(i)' = Entry(i + 1)
  <2>1. Wrap(Wrap(read) + (i + 1)) # Wrap(write)
        /\ Wrap(Wrap(read) + (i + 1)) \in 0..end-1
    BY <1>2, SlotInjective, SlotRange, SMTT(60)
  <2>2. Wrap(Wrap(read') + i) = Wrap(Wrap(read) + (i + 1))
    BY <1>1 DEF Wrap, Advance
  <2>3. QED
    BY <1>1, <2>1, <2>2 DEF Entry, Wrap
<1>6. ASSUME NEW i \in {len - 1}
      PROVE  Entry(i)' = p
  <2>1. Wrap(Wrap(read') + (len - 1)) = Wrap(write) /\ Wrap(write) \in 0..end-1
    BY <1>1, <1>2 DEF Wrap, Advance
  <2>2. QED
    BY <1>1, <2>1 DEF Entry, Wrap
<1>7. ASSUME NEW i \in 0..len-1
      PROVE  Entry(i)' = IF i < len - 1 THEN Entry(i + 1) ELSE p
  <2>1. CASE i < len - 1
    BY <1>5, <2>1
  <2>2. CASE ~ i < len - 1
    BY <1>6, <2>2
  <2>3. QED
    BY <2>1, <2>2
<1>8. QED
  BY <1>1, <1>3, <1>4, <1>7, SMTT(60)

(* An entry put back becomes the oldest. *)
LEMMA PutBackEntries ==
  ASSUME IInv, NEW p \in Pointers, queue_putback(p)
  PROVE  /\ TypeOK' /\ IndicesAgree'
         /\ len # end /\ len' = len + 1
         /\ owner' = [owner EXCEPT ![p] = "queue"]
         /\ \A i \in 0..len : Entry(i)' = IF i = 0 THEN p ELSE Entry(i - 1)
<1> USE QueueAssumption DEF IInv, TypeOK
<1>1. /\ read' = (IF read = 0 THEN end ELSE read) - 1
      /\ len # end /\ len' = len + 1
      /\ owner' = [owner EXCEPT ![p] = "queue"]
      /\ queue' = [queue EXCEPT ![read'] = p]
      /\ write' = write /\ live' = live /\ ret' = ret
  BY DEF queue_putback
<1>2. read' \in 0..end-1
  BY <1>1
<1>3. TypeOK'
  BY <1>1, <1>2 DEF Owners
<1>4. IndicesAgree'
  BY <1>1 DEF IndicesAgree, Wrap
<1>5. ASSUME NEW i \in 1..len
      PROVE  Entry(i)' = Entry(i - 1)
  <2>1. Wrap(Wrap(read') + i) = Wrap(Wrap(read) + (i - 1))
    BY <1>1 DEF Wrap
  <2>2. Wrap(Wrap(read') + i) # read'
    BY <1>1, <1>2 DEF Wrap
  <2>3. Wrap(Wrap(read) + (i - 1)) \in 0..end-1
    BY SlotRange
  <2>4. QED
    BY <1>1, <2>1, <2>2, <2>3 DEF Entry, Wrap
<1>6. ASSUME NEW i \in {0}
      PROVE  Entry(i)' = p
  <2>1. Wrap(Wrap(read') + 0) = read'
    BY <1>2 DEF Wrap
  <2>2. QED
    BY <1>1, <1>2, <2>1 DEF Entry, Wrap
<1>7. QED
  BY <1>1, <1>3, <1>4, <1>5, <1>6, SMTT(60)

(* Taking n entries leaves the others, which become the oldest. *)
LEMMA TakeEntries ==
  ASSUME IInv, NEW n \in 0..len, NEW o \in Owners, Take(n, o),
         queue' = queue, write' = write
  PROVE  /\ read' \in 0..end /\ len' \in 0..end
         /\ owner' \in [Pointers -> Owners]
         /\ IndicesAgree'
         /\ len' = len - n
         /\ \A i \in 0..len-n-1 : Entry(i)' = Entry(n + i)
<1> USE QueueAssumption DEF IInv, TypeOK
<1>1. read' = Advance(read, n) /\ len' = len - n
  BY DEF Take
<1>2. read' \in 0..end /\ len' \in 0..end
  BY <1>1 DEF Advance
<1>3. owner' \in [Pointers -> Owners]
  BY DEF Take
<1>4. IndicesAgree'
  BY <1>1 DEF IndicesAgree, Wrap, Advance
<1>5. ASSUME NEW i \in 0..len-n-1
      PROVE  Entry(i)' = Entry(n + i)
  <2>1. Wrap(Wrap(read') + i) = Wrap(Wrap(read) + (n + i))
    BY <1>1, WrapAdvance
  <2>2. QED
    BY <2>1 DEF Entry, Wrap
<1>6. QED
  BY <1>1, <1>2, <1>3, <1>4, <1>5

(* Taking entries keeps the queue owner of exactly the rest. *)
LEMMA TakeOwns ==
  ASSUME IInv, NEW n \in 0..len, NEW o \in Owners \ {"queue"}, Take(n, o),
         queue' = queue, write' = write
  PROVE  OwnsItsEntries'
<1> USE QueueAssumption DEF IInv, TypeOK
<1>0. owner' = [p \in Pointers |-> IF \E i \in 0..n-1 : Entry(i) = p THEN o ELSE owner[p]]
  BY DEF Take
<1>1. len' = len - n /\ \A i \in 0..len-n-1 : Entry(i)' = Entry(n + i)
  BY TakeEntries
<1>2. \A i \in 0..len'-1 : n + i \in 0..len-1 /\ n + i \notin 0..n-1
  BY <1>1
<1>3. ASSUME NEW i \in 0..len'-1
      PROVE  Entry(i)' \in Pointers /\ owner'[Entry(i)'] = "queue"
  <2>1. Entry(n + i) \in Pointers /\ owner[Entry(n + i)] = "queue"
    BY <1>2 DEF OwnsItsEntries
  <2>2. \A j \in 0..n-1 : Entry(j) # Entry(n + i)
    BY <1>2 DEF OwnsItsEntries
  <2>3. Entry(i)' = Entry(n + i)
    BY <1>1
  <2>4. QED
    BY <1>0, <2>1, <2>2, <2>3
<1>4. ASSUME NEW i \in 0..len'-1, NEW j \in 0..len'-1, Entry(i)' = Entry(j)'
      PROVE  i = j
  <2>1. n + i = n + j
    BY <1>1, <1>2, <1>4 DEF OwnsItsEntries
  <2>2. QED
    BY <1>1, <2>1
<1>5. ASSUME NEW p \in Pointers, owner'[p] = "queue"
      PROVE  \E i \in 0..len'-1 : Entry(i)' = p
  <2>1. owner[p] = "queue" /\ ~ \E i \in 0..n-1 : Entry(i) = p
    BY <1>0, <1>5
  <2>2. PICK i \in 0..len-1 : Entry(i) = p
    BY <2>1 DEF OwnsItsEntries
  <2>3. i - n \in 0..len'-1 /\ n + (i - n) = i
    BY <1>1, <2>1, <2>2
  <2>4. Entry(i - n)' = p
    BY <1>1, <2>2, <2>3
  <2>5. QED
    BY <2>3, <2>4
<1>6. QED
  BY <1>3, <1>4, <1>5 DEF OwnsItsEntries

-----------------------------------------------------------------------------
(* The initial queue is empty and owns nothing. *)
LEMMA InitIInv == Init => IInv
BY QueueAssumption DEF Init, IInv, DestroyedIsEmpty, TypeOK, IndicesAgree, OwnsItsEntries, Wrap, Owners

(* queue_enqueue keeps the invariant, whether or not it drops the oldest. *)
LEMMA EnqueueIInv ==
  ASSUME IInv, NEW p \in Pointers, queue_enqueue(p)
  PROVE  IInv'
<1> USE QueueAssumption DEF IInv, TypeOK
<1>1. owner[p] = "caller" /\ live'
  BY DEF queue_enqueue
<1>2. CASE len # end
  <2>1. /\ TypeOK' /\ IndicesAgree' /\ len' = len + 1
        /\ owner' = [owner EXCEPT ![p] = "queue"]
        /\ \A i \in 0..len : Entry(i)' = IF i < len THEN Entry(i) ELSE p
    BY <1>2, EnqueueRoom
  <2>2. \A i \in 0..len-1 : Entry(i) # p
    BY <1>1 DEF OwnsItsEntries
  <2>3. OwnsItsEntries'
    <3>1. ASSUME NEW i \in 0..len'-1
          PROVE  Entry(i)' \in Pointers /\ owner'[Entry(i)'] = "queue"
      <4>1. CASE i < len
        <5>1. Entry(i)' = Entry(i) /\ Entry(i) # p
          BY <2>1, <2>2, <4>1, SMTT(60)
        <5>2. Entry(i) \in Pointers /\ owner[Entry(i)] = "queue"
          BY <4>1 DEF OwnsItsEntries
        <5>3. QED
          BY <2>1, <5>1, <5>2
      <4>2. CASE ~ i < len
        BY <2>1, <4>2
      <4>3. QED
        BY <4>1, <4>2
    <3>2. ASSUME NEW i \in 0..len'-1, NEW j \in 0..len'-1, Entry(i)' = Entry(j)'
          PROVE  i = j
      BY <2>1, <2>2, <3>2 DEF OwnsItsEntries
    <3>3. ASSUME NEW q \in Pointers, owner'[q] = "queue"
          PROVE  \E i \in 0..len'-1 : Entry(i)' = q
      <4>1. CASE q = p
        <5>1. len \in 0..len'-1 
          BY <2>1
        <5>2. \A i \in {len} : Entry(i)' = p
          BY <2>1
        <5>3. QED
          BY <4>1, <5>1, <5>2
      <4>2. CASE q # p
        <5>1. PICK i \in 0..len-1 : Entry(i) = q
          BY <2>1, <3>3, <4>2 DEF OwnsItsEntries
        <5>2. i \in 0..len'-1 /\ Entry(i)' = q
          BY <2>1, <5>1
        <5>3. QED
          BY <5>2
      <4>3. QED
        BY <4>1, <4>2
    <3>4. QED
      BY <3>1, <3>2, <3>3 DEF OwnsItsEntries
  <2>4. QED
    BY <1>1, <2>1, <2>3 DEF DestroyedIsEmpty
<1>3. CASE len = end
  <2>1. /\ TypeOK' /\ IndicesAgree' /\ len' = len
        /\ owner' = [owner EXCEPT ![p] = "queue", ![Entry(0)] = "nobody"]
        /\ \A i \in 0..len-1 : Entry(i)' = IF i < len - 1 THEN Entry(i + 1) ELSE p
    BY <1>3, EnqueueFull
  <2>2. \A i \in 0..len-1 : Entry(i) \in Pointers /\ Entry(i) # p
    BY <1>1 DEF OwnsItsEntries
  <2>3. \A i \in 1..len-1 : Entry(i) # Entry(0)
    BY <1>3 DEF OwnsItsEntries
  <2>4. ASSUME NEW i \in 0..len'-1
        PROVE  Entry(i)' \in Pointers /\ owner'[Entry(i)'] = "queue"
    <3>1. CASE i < len - 1
      <4>1. i + 1 \in 1..len-1 /\ Entry(i)' = Entry(i + 1)
        BY <2>1, <3>1
      <4>2. owner[Entry(i + 1)] = "queue"
        BY <4>1 DEF OwnsItsEntries
      <4>3. QED
        BY <2>1, <2>2, <2>3, <4>1, <4>2
    <3>2. CASE ~(i < len - 1)
      <4>1. Entry(i)' = p /\ 0 \in 0..len-1
        BY <1>3, <2>1, <3>2
      <4>2. QED
        BY <2>1, <2>2, <4>1
    <3>3. QED
      BY <3>1, <3>2
  <2>5. ASSUME NEW i \in 0..len'-1, NEW j \in 0..len'-1, Entry(i)' = Entry(j)'
        PROVE  i = j
    BY <1>3, <2>1, <2>2, <2>5, SMTT(60) DEF OwnsItsEntries
  <2>6. ASSUME NEW q \in Pointers, owner'[q] = "queue"
        PROVE  \E i \in 0..len'-1 : Entry(i)' = q
    <3>1. CASE q = p
      BY <1>3, <2>1, <3>1
    <3>2. CASE q # p
      <4>1. owner[q] = "queue" /\ q # Entry(0)
        BY <2>1, <2>6, <3>2
      <4>2. PICK i \in 0..len-1 : Entry(i) = q
        BY <4>1 DEF OwnsItsEntries
      <4>3. i - 1 \in 0..len'-1 /\ i - 1 < len - 1 /\ (i - 1) + 1 = i
        BY <2>1, <4>1, <4>2
      <4>4. Entry(i - 1)' = q
        BY <2>1, <4>2, <4>3
      <4>5. QED
        BY <4>3, <4>4
    <3>3. QED
      BY <3>1, <3>2
  <2>7. OwnsItsEntries'
    BY <2>4, <2>5, <2>6 DEF OwnsItsEntries
  <2>8. QED
    BY <1>1, <2>1, <2>7 DEF DestroyedIsEmpty
<1>4. QED
  BY <1>2, <1>3

(* queue_putback keeps the invariant. *)
LEMMA PutBackIInv ==
  ASSUME IInv, NEW p \in Pointers, queue_putback(p)
  PROVE  IInv'
<1> USE QueueAssumption DEF IInv, TypeOK
<1>1. owner[p] = "caller" /\ live'
  BY DEF queue_putback
<1>2. /\ TypeOK' /\ IndicesAgree' /\ len' = len + 1
      /\ owner' = [owner EXCEPT ![p] = "queue"]
      /\ \A i \in 0..len : Entry(i)' = IF i = 0 THEN p ELSE Entry(i - 1)
  BY PutBackEntries
<1>3. \A i \in 0..len-1 : Entry(i) # p
  BY <1>1 DEF OwnsItsEntries
<1>4. ASSUME NEW i \in 0..len'-1
      PROVE  Entry(i)' \in Pointers /\ owner'[Entry(i)'] = "queue"
  BY <1>2 DEF OwnsItsEntries
<1>5. ASSUME NEW i \in 0..len'-1, NEW j \in 0..len'-1, Entry(i)' = Entry(j)'
      PROVE  i = j
  BY <1>2, <1>3, <1>5 DEF OwnsItsEntries
<1>6. ASSUME NEW q \in Pointers, owner'[q] = "queue"
      PROVE  \E i \in 0..len'-1 : Entry(i)' = q
  <2>1. CASE q = p
    BY <1>2, <2>1
  <2>2. CASE q # p
    <3>1. PICK i \in 0..len-1 : Entry(i) = q
      BY <1>2, <1>6, <2>2 DEF OwnsItsEntries
    <3>2. i + 1 \in 0..len'-1 /\ i + 1 # 0 /\ (i + 1) - 1 = i
      BY <1>2
    <3>3. Entry(i + 1)' = q
      BY <1>2, <3>1, <3>2
    <3>4. QED
      BY <3>2, <3>3
  <2>3. QED
    BY <2>1, <2>2
<1>7. OwnsItsEntries'
  BY <1>4, <1>5, <1>6 DEF OwnsItsEntries
<1>8. QED
  BY <1>1, <1>2, <1>7 DEF DestroyedIsEmpty

(* Handing out k entries at once is what both dequeue functions do. *)
LEMMA DequeueIInv ==
  ASSUME IInv, NEW k \in 0..len, Take(k, "caller"),
         ret' = [i \in 1..k |-> Entry(i - 1)],
         live' = live, queue' = queue, write' = write
  PROVE  IInv'
<1> USE QueueAssumption DEF IInv, TypeOK, Owners
<1>1. OwnsItsEntries'
  BY TakeOwns
<1>2. IndicesAgree' /\ read' \in 0..end /\ len' \in 0..end /\ owner' \in [Pointers -> Owners]
  BY TakeEntries
<1>3. ret' \in Seq(Pointers)
  <2>1. \A i \in 1..k : Entry(i - 1) \in Pointers
    BY DEF OwnsItsEntries
  <2>2. QED
    BY <2>1
<1>4. DestroyedIsEmpty'
  BY TakeEntries, SMTT(60) DEF DestroyedIsEmpty
<1>5. QED
  BY <1>1, <1>2, <1>3, <1>4

(* Every step keeps the invariant: one case per function of queue.c. *)
LEMMA NextIInv == IInv /\ [Next]_vars => IInv'
<1> USE QueueAssumption DEF IInv, TypeOK, Owners
<1> SUFFICES ASSUME IInv, [Next]_vars PROVE IInv'
  OBVIOUS
<1>1. ASSUME NEW p \in Pointers, Malloc(p) PROVE IInv'
  BY <1>1, ZenonT(60) DEF Malloc, DestroyedIsEmpty, IndicesAgree, OwnsItsEntries, Entry, Wrap
<1>2. ASSUME NEW p \in Pointers, Free(p) PROVE IInv'
  BY <1>2, ZenonT(60) DEF Free, DestroyedIsEmpty, IndicesAgree, OwnsItsEntries, Entry, Wrap
<1>3. ASSUME NEW p \in Pointers, queue_enqueue(p) PROVE IInv'
  BY <1>3, EnqueueIInv
<1>4. ASSUME NEW p \in Pointers, queue_putback(p) PROVE IInv'
  BY <1>4, PutBackIInv, SMTT(60)
<1>5. CASE len = 0 /\ ret' = <<>> /\ UNCHANGED <<live, queue, write, read, len, owner>>
  BY <1>5 DEF DestroyedIsEmpty, IndicesAgree, OwnsItsEntries, Entry, Wrap
<1>6. CASE queue_dequeue
  <2>1. CASE len = 0
    BY <1>5, <1>6, <2>1 DEF queue_dequeue
  <2>2. CASE len # 0
    <3>1. /\ Take(1, "caller") /\ ret' = [i \in 1..1 |-> Entry(i - 1)]
          /\ live' = live /\ queue' = queue /\ write' = write
      BY <1>6, <2>2 DEF queue_dequeue
    <3>2. QED
      BY <2>2, <3>1, DequeueIInv, SMTT(60)
  <2>3. QED
    BY <2>1, <2>2
<1>7. ASSUME NEW n \in 1..MaxVector, queue_dequeue_vector(n) PROVE IInv'
  <2>1. CASE len = 0
    BY <1>5, <1>7, <2>1 DEF queue_dequeue_vector
  <2>2. CASE len # 0
    <3> DEFINE k == IF n > len THEN len ELSE n
    <3>1. /\ Take(k, "caller") /\ ret' = [i \in 1..k |-> Entry(i - 1)]
          /\ live' = live /\ queue' = queue /\ write' = write
      BY <1>7, <2>2 DEF queue_dequeue_vector
    <3>2. k \in 0..len
      OBVIOUS
    <3> HIDE DEF k
    <3>3. QED
      BY <3>1, <3>2, DequeueIInv
  <2>3. QED
    BY <2>1, <2>2
<1>8. CASE queue_destroy
  <2>1. Take(len, "nobody") /\ live' = FALSE /\ queue' = queue /\ write' = write /\ ret' = ret
    BY <1>8 DEF queue_destroy
  <2>2. len \in 0..len
    OBVIOUS
  <2>3. OwnsItsEntries'
    BY <2>1, <2>2, TakeOwns
  <2>4. /\ IndicesAgree' /\ len' = 0
        /\ read' \in 0..end /\ owner' \in [Pointers -> Owners]
    BY <2>1, <2>2, TakeEntries
  <2>5. QED
    BY <2>1, <2>3, <2>4, SMTT(60) DEF DestroyedIsEmpty
<1>9. CASE queue_new
  <2>1. TypeOK' /\ DestroyedIsEmpty'
    BY <1>9, SMTT(60) DEF queue_new, DestroyedIsEmpty
  <2>2. IndicesAgree'
    BY <1>9, SMTT(60) DEF queue_new, IndicesAgree, Wrap
  <2>3. OwnsItsEntries'
    BY <1>9, SMTT(60) DEF queue_new, OwnsItsEntries, DestroyedIsEmpty
  <2>4. QED
    BY <2>1, <2>2, <2>3
<1>10. CASE UNCHANGED vars
  BY <1>10, ZenonT(60) DEF vars, DestroyedIsEmpty, IndicesAgree, OwnsItsEntries, Entry, Wrap
<1>11. QED
  BY <1>1, <1>2, <1>3, <1>4, <1>6, <1>7, <1>8, <1>9, <1>10, SMTT(60) DEF Next

(* THEOREM: for every capacity, the indices stay in range, agree with the  *)
(* number of entries, and the window holds exactly the pointers the queue  *)
(* owns, each once.                                                        *)
THEOREM QueueInvariant == Spec => []IInv
<1>1. QED
  BY InitIInv, NextIInv, PTL DEF Spec

(* THEOREM: no operation of queue.c uses an index outside the slots. *)
THEOREM QueueTypeCorrect == Spec => []TypeOK
BY QueueInvariant, PTL DEF IInv

(* THEOREM: the window holds exactly the pointers the queue has to free,   *)
(* each once, so no sequence of calls of queue.c frees a metric twice,     *)
(* leaks one, or hands out a freed one.                                    *)
THEOREM QueueOwnsItsEntries == Spec => []OwnsItsEntries
BY QueueInvariant, PTL DEF IInv

-----------------------------------------------------------------------------
(* The refinement: one lemma per operation on what happens to Window. *)

LEMMA WindowSeq ==
  ASSUME IInv
  PROVE  /\ Window \in Seq(Pointers) /\ Len(Window) = len /\ len \in Nat
         /\ \A i \in 1..len : Window[i] = Entry(i - 1)
<1>1. len \in Nat
  BY QueueAssumption DEF IInv, TypeOK
<1>2. \A i \in 1..len : Entry(i - 1) \in Pointers
  BY <1>1 DEF IInv, OwnsItsEntries
<1>3. QED
  BY <1>1, <1>2 DEF Window

LEMMA AppendAsFunction ==
  ASSUME NEW S, NEW s \in Seq(S), NEW e \in S
  PROVE  Append(s, e) = [i \in 1..Len(s)+1 |-> IF i <= Len(s) THEN s[i] ELSE e]
<1> DEFINE t == [i \in 1..Len(s)+1 |-> IF i <= Len(s) THEN s[i] ELSE e]
<1>1. t \in Seq(S) /\ Len(t) = Len(s) + 1
  OBVIOUS
<1>2. Append(s, e) \in Seq(S) /\ Len(Append(s, e)) = Len(s) + 1
  OBVIOUS
<1>3. \A i \in 1..Len(s)+1 : Append(s, e)[i] = t[i]
  OBVIOUS
<1> HIDE DEF t
<1>4. Append(s, e) = t
  BY <1>1, <1>2, <1>3, SeqEqual
<1>5. QED
  BY <1>4 DEF t

LEMMA EnqueueRoomWindow ==
  ASSUME IInv, NEW p \in Pointers, queue_enqueue(p), len # end
  PROVE  Window' = Append(Window, p)
<1>1. /\ Window \in Seq(Pointers) /\ Len(Window) = len /\ len \in Nat
      /\ \A i \in 1..len : Window[i] = Entry(i - 1)
  BY WindowSeq
<1>2. len' = len + 1 /\ \A i \in 0..len : Entry(i)' = IF i < len THEN Entry(i) ELSE p
  BY EnqueueRoom
<1>3. Window' = [i \in 1..len+1 |-> IF i <= len THEN Window[i] ELSE p]
  BY <1>1, <1>2 DEF Window
<1>4. QED
  BY <1>1, <1>3, AppendAsFunction, SMTT(60)

LEMMA EnqueueFullWindow ==
  ASSUME IInv, NEW p \in Pointers, queue_enqueue(p), len = end
  PROVE  Window' = Append(Tail(Window), p) /\ Head(Window) = Entry(0)
<1>1. /\ Window \in Seq(Pointers) /\ Len(Window) = len /\ len \in Nat \ {0}
      /\ \A i \in 1..len : Window[i] = Entry(i - 1)
  BY WindowSeq, QueueAssumption
<1>2. len' = len /\ \A i \in 0..len-1 : Entry(i)' = IF i < len - 1 THEN Entry(i + 1) ELSE p
  BY EnqueueFull
<1>3. Window' = [i \in 1..len |-> IF i < len THEN Window[i + 1] ELSE p]
  BY <1>1, <1>2 DEF Window
<1>4. /\ Tail(Window) \in Seq(Pointers) /\ Len(Tail(Window)) = len - 1
      /\ \A i \in 1..len-1 : Tail(Window)[i] = Window[i + 1]
      /\ Head(Window) = Window[1]
  BY <1>1
<1>5. \A t \in Seq(Pointers) : Len(t) = len - 1 =>
        Append(t, p) = [i \in 1..len |-> IF i <= len - 1 THEN t[i] ELSE p]
  <2>1. ASSUME NEW t \in Seq(Pointers), Len(t) = len - 1
        PROVE  Append(t, p) = [i \in 1..len |-> IF i <= len - 1 THEN t[i] ELSE p]
    <3>1. Append(t, p) = [i \in 1..Len(t)+1 |-> IF i <= Len(t) THEN t[i] ELSE p]
      BY AppendAsFunction
    <3>2. Len(t) + 1 = len
      BY <1>1, <2>1
    <3>3. QED
      BY <2>1, <3>1, <3>2
  <2>2. QED
    BY <2>1
<1>6. Append(Tail(Window), p)
        = [i \in 1..len |-> IF i <= len - 1 THEN Tail(Window)[i] ELSE p]
  BY <1>4, <1>5, Zenon
<1>7. \A i \in 1..len : (IF i <= len - 1 THEN Tail(Window)[i] ELSE p)
                        = (IF i < len THEN Window[i + 1] ELSE p)
  BY <1>1, <1>4
<1>8. Window' = Append(Tail(Window), p)
  BY <1>3, <1>6, <1>7, Zenon
<1>9. QED
  BY <1>1, <1>4, <1>8

LEMMA PutBackWindow ==
  ASSUME IInv, NEW p \in Pointers, queue_putback(p)
  PROVE  Window' = <<p>> \o Window
<1>1. /\ Window \in Seq(Pointers) /\ Len(Window) = len /\ len \in Nat
      /\ \A i \in 1..len : Window[i] = Entry(i - 1)
  BY WindowSeq
<1>2. len' = len + 1 /\ \A i \in 0..len : Entry(i)' = IF i = 0 THEN p ELSE Entry(i - 1)
  BY PutBackEntries
<1>3. Window' = [i \in 1..len+1 |-> IF i = 1 THEN p ELSE Window[i - 1]]
  BY <1>1, <1>2 DEF Window
<1>4. QED
  BY <1>1, <1>3

LEMMA TakeWindow ==
  ASSUME IInv, NEW n \in 0..len, NEW o \in Owners, Take(n, o),
         queue' = queue, write' = write
  PROVE  /\ Window' = SubSeq(Window, n + 1, len)
         /\ SubSeq(Window, 1, n) = [i \in 1..n |-> Entry(i - 1)]
         /\ owner' = Fifo!Give(owner, SubSeq(Window, 1, n), o)
<1>1. /\ Window \in Seq(Pointers) /\ Len(Window) = len /\ len \in Nat
      /\ \A i \in 1..len : Window[i] = Entry(i - 1)
  BY WindowSeq
<1>2. len' = len - n /\ \A i \in 0..len-n-1 : Entry(i)' = Entry(n + i)
  BY TakeEntries
<1>3. Window' = [i \in 1..len-n |-> Window[n + i]]
  BY <1>1, <1>2 DEF Window
<1>4. Window' = SubSeq(Window, n + 1, len)
  BY <1>1, <1>3
<1>5. SubSeq(Window, 1, n) = [i \in 1..n |-> Entry(i - 1)]
  BY <1>1
<1>6. owner' = Fifo!Give(owner, SubSeq(Window, 1, n), o)
  <2> DEFINE s == SubSeq(Window, 1, n)
  <2>1. Len(s) = n /\ \A i \in 1..n : s[i] = Entry(i - 1)
    BY <1>5, <1>1
  <2> HIDE DEF s
  <2>2. ASSUME NEW p \in Pointers
        PROVE  (\E i \in 0..n-1 : Entry(i) = p) <=> (\E i \in 1..Len(s) : s[i] = p)
    <3>1. ASSUME NEW i \in 0..n-1, Entry(i) = p PROVE \E j \in 1..Len(s) : s[j] = p
      <4>1. i + 1 \in 1..n /\ (i + 1) - 1 = i
        OBVIOUS
      <4>2. QED
        BY <2>1, <3>1, <4>1, ZenonT(60)
    <3>2. ASSUME NEW i \in 1..Len(s), s[i] = p PROVE \E j \in 0..n-1 : Entry(j) = p
      BY <2>1, <3>2
    <3>3. QED
      BY <3>1, <3>2
  <2>3. owner' = Fifo!Give(owner, s, o)
    BY <2>2 DEF Take, Fifo!Give
  <2>4. QED
    BY <2>3 DEF s
<1>7. QED
  BY <1>4, <1>5, <1>6

(* The two dequeue functions are the abstract Dequeue. *)
LEMMA DequeueStep ==
  ASSUME IInv, NEW n \in Nat \ {0}, live,
         \/ len = 0 /\ ret' = <<>> /\ UNCHANGED <<read, len, owner>>
         \/ /\ len # 0
            /\ LET k == IF n > len THEN len ELSE n
               IN ret' = [i \in 1..k |-> Entry(i - 1)] /\ Take(k, "caller"),
         live' = live, queue' = queue, write' = write
  PROVE  Fifo!Dequeue(n)
<1> DEFINE k == IF n > len THEN len ELSE n
<1>0. /\ Window \in Seq(Pointers) /\ Len(Window) = len /\ len \in Nat
      /\ owner \in [Pointers -> Owners]
  BY WindowSeq DEF IInv, TypeOK
<1>1. CASE len = 0
  <2>1. Window = <<>> /\ ret' = <<>> /\ owner' = owner
    BY <1>0, <1>1
  <2>2. Window' = Window
    BY <1>1 DEF Window, Entry, Wrap
  <2>3. SubSeq(Window, 1, 0) = <<>>
    BY <2>1
  <2>4. owner' = Fifo!Give(owner, <<>>, "caller")
    BY <1>0, <2>1 DEF Fifo!Give
  <2>5. QED
    BY <1>0, <1>1, <2>1, <2>2, <2>3, <2>4 DEF Fifo!Dequeue
<1>2. CASE len # 0
  <2>1. k \in 0..len /\ ret' = [i \in 1..k |-> Entry(i - 1)] /\ Take(k, "caller")
    BY <1>0, <1>2
  <2> HIDE DEF k
  <2>2. /\ Window' = SubSeq(Window, k + 1, len)
        /\ SubSeq(Window, 1, k) = [i \in 1..k |-> Entry(i - 1)]
        /\ owner' = Fifo!Give(owner, SubSeq(Window, 1, k), "caller")
    BY <2>1, TakeWindow DEF Owners
  <2>3. ret' = SubSeq(Window, 1, k)
    BY <2>1, <2>2
  <2>4. k = IF n > Len(Window) THEN Len(Window) ELSE n
    BY <1>0 DEF k
  <2>5. QED
    BY <1>0, <2>2, <2>3, <2>4 DEF Fifo!Dequeue
<1>3. QED
  BY <1>1, <1>2

(* Every step of the ring is a step of the FIFO or leaves it unchanged. *)
LEMMA NextRefines == IInv /\ [Next]_vars => [Fifo!Next]_(Fifo!vars)
<1> SUFFICES ASSUME IInv, [Next]_vars PROVE [Fifo!Next]_(Fifo!vars)
  OBVIOUS
<1>0. /\ Window \in Seq(Pointers) /\ Len(Window) = len /\ len \in 0..end
      /\ owner \in [Pointers -> Owners]
  BY WindowSeq DEF IInv, TypeOK
<1>1. ASSUME NEW p \in Pointers, Malloc(p) PROVE Fifo!Malloc(p)
  BY <1>1 DEF Malloc, Fifo!Malloc, Window, Entry, Wrap
<1>2. ASSUME NEW p \in Pointers, Free(p) PROVE Fifo!Free(p)
  BY <1>2 DEF Free, Fifo!Free, Window, Entry, Wrap
<1>3. ASSUME NEW p \in Pointers, queue_enqueue(p) PROVE Fifo!Enqueue(p)
  <2>1. CASE len # end
    <3>1. Window' = Append(Window, p)
      BY <1>3, <2>1, EnqueueRoomWindow
    <3>2. Len(Window) < end
      BY <1>0, <2>1, QueueAssumption
    <3>3. QED
      BY <1>3, <2>1, <3>1, <3>2 DEF queue_enqueue, Fifo!Enqueue
  <2>2. CASE len = end
    <3>1. Window' = Append(Tail(Window), p) /\ Head(Window) = Entry(0)
      BY <1>3, <2>2, EnqueueFullWindow
    <3>2. QED
      BY <1>0, <1>3, <2>2, <3>1 DEF queue_enqueue, Fifo!Enqueue
  <2>3. QED
    BY <2>1, <2>2
<1>4. ASSUME NEW p \in Pointers, queue_putback(p) PROVE Fifo!PutBack(p)
  <2>1. Window' = <<p>> \o Window
    BY <1>4, PutBackWindow
  <2>2. Len(Window) < end
    BY <1>0, <1>4, QueueAssumption DEF queue_putback
  <2>3. QED
    BY <1>4, <2>1, <2>2 DEF queue_putback, Fifo!PutBack
<1>5. ASSUME queue_dequeue PROVE Fifo!Dequeue(1)
  <2>1. CASE len = 0
    BY <1>5, <2>1, DequeueStep DEF queue_dequeue
  <2>2. CASE len # 0
    <3>1. (IF 1 > len THEN len ELSE 1) = 1
      BY <1>0, <2>2, QueueAssumption
    <3>2. <<Entry(0)>> = [i \in 1..1 |-> Entry(i - 1)]
      OBVIOUS
    <3>3. /\ live /\ live' = live /\ queue' = queue /\ write' = write
          /\ ret' = [i \in 1..1 |-> Entry(i - 1)] /\ Take(1, "caller")
      BY <1>5, <2>2, <3>2 DEF queue_dequeue
    <3>4. LET k == IF 1 > len THEN len ELSE 1
          IN ret' = [i \in 1..k |-> Entry(i - 1)] /\ Take(k, "caller")
      BY <3>1, <3>3
    <3>5. QED
      BY <2>2, <3>3, <3>4, DequeueStep
  <2>3. QED
    BY <2>1, <2>2
<1>6. ASSUME NEW n \in 1..MaxVector, queue_dequeue_vector(n) PROVE Fifo!Dequeue(n)
  BY <1>6, DequeueStep, QueueAssumption DEF queue_dequeue_vector
<1>7. ASSUME queue_destroy PROVE Fifo!Destroy
  <2>1. len \in 0..len /\ Take(len, "nobody") /\ queue' = queue /\ write' = write
    BY <1>0, <1>7 DEF queue_destroy
  <2>2. /\ Window' = SubSeq(Window, len + 1, len)
        /\ owner' = Fifo!Give(owner, SubSeq(Window, 1, len), "nobody")
    BY <2>1, TakeWindow DEF Owners
  <2>3. SubSeq(Window, 1, len) = Window /\ SubSeq(Window, len + 1, len) = <<>>
    BY <1>0
  <2>4. QED
    BY <1>7, <2>2, <2>3, ZenonT(60) DEF queue_destroy, Fifo!Destroy
<1>8. ASSUME queue_new PROVE Fifo!Create
  <2>1. len = 0 /\ len' = 0
    BY <1>8 DEF queue_new, IInv, DestroyedIsEmpty
  <2>2. Window' = Window
    BY <2>1 DEF Window
  <2>3. QED
    BY <1>8, <2>2 DEF queue_new, Fifo!Create
<1>9. ASSUME UNCHANGED vars PROVE UNCHANGED Fifo!vars
  BY <1>9 DEF vars, Fifo!vars, Window, Entry, Wrap
<1>10. 1 \in 1..MaxVector
  BY QueueAssumption
<1>11. QED
  BY <1>1, <1>2, <1>3, <1>4, <1>5, <1>6, <1>7, <1>8, <1>9, <1>10 DEF Next, Fifo!Next

(* THEOREM: the ring buffer of queue.c implements the bounded FIFO that    *)
(* drops its oldest entry when full, for every capacity.                   *)
THEOREM QueueImplementsFifo == Spec => ImplementsFifo
<1>1. Init => Fifo!Init
  BY DEF Init, Fifo!Init, Window
<1>2. QED
  BY <1>1, QueueInvariant, NextRefines, PTL DEF Spec, ImplementsFifo, Fifo!Spec
=============================================================================
