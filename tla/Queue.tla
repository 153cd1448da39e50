------------------------------- MODULE Queue -------------------------------
(***************************************************************************)
(* The ring buffer of queue.c.  Every function of queue.c takes the        *)
(* queue's mutex for its whole body, so each is one atomic action.  The    *)
(* indices read and write run over 0..end: an index equal to end is only   *)
(* wrapped to 0 by the next operation that uses it.  Slots outside the     *)
(* window of len entries that starts at read keep the pointers they had    *)
(* (dangling once freed), as in the code.                                  *)
(*                                                                         *)
(* owner is a history variable for the heap: who has to free the metric a  *)
(* pointer refers to.  The clients (Malloc, Free) own what they allocated  *)
(* or dequeued, and only pass pointers they own.                           *)
(***************************************************************************)
EXTENDS Integers, Sequences

CONSTANTS
  Pointers,    \* the metrics that can be allocated
  NULL,        \* content of a slot that was never written
  end,         \* size given to queue_new
  MaxVector    \* largest vector a client asks queue_dequeue_vector for

ASSUME QueueAssumption ==
  /\ end \in Nat \ {0}
  /\ MaxVector \in Nat \ {0}
  /\ NULL \notin Pointers

VARIABLES
  live,        \* between queue_new and queue_destroy
  queue,       \* the slots
  write,       \* where the next entry goes
  read,        \* where the oldest entry is
  len,         \* number of entries
  owner,       \* heap ownership of every pointer
  ret          \* what the last dequeue stored in its result, in order

vars == <<live, queue, write, read, len, owner, ret>>

Owners == {"nobody", "caller", "queue"}

(* An index after n uses: each wraps to 0 first when the index is end. *)
Advance(pos, n) == IF pos + n > end THEN pos + n - end ELSE pos + n

(* The slot an index refers to once it is wrapped. *)
Wrap(pos) == IF pos >= end THEN pos - end ELSE pos

(* The i-th oldest entry, counted from 0. *)
Entry(i) == queue[Wrap(Wrap(read) + i)]

Init ==
  /\ live = TRUE
  /\ queue = [i \in 0..end-1 |-> NULL]
  /\ write = 0 /\ read = 0 /\ len = 0
  /\ owner = [p \in Pointers |-> "nobody"]
  /\ ret = <<>>

(* A client allocates the metric it will enqueue (router_route does). *)
Malloc(p) ==
  /\ owner[p] = "nobody"
  /\ owner' = [owner EXCEPT ![p] = "caller"]
  /\ UNCHANGED <<live, queue, write, read, len, ret>>

(* A client frees a metric it dequeued or could not put back. *)
Free(p) ==
  /\ owner[p] = "caller"
  /\ owner' = [owner EXCEPT ![p] = "nobody"]
  /\ UNCHANGED <<live, queue, write, read, len, ret>>

(* Store p at the write index. *)
Store(p) ==
  /\ queue' = [queue EXCEPT ![Wrap(write)] = p]
  /\ write' = Advance(write, 1)

queue_enqueue(p) ==
  /\ live
  /\ owner[p] = "caller"
  /\ Store(p)
  /\ \/ /\ len # end
        /\ len' = len + 1
        /\ owner' = [owner EXCEPT ![p] = "queue"]
        /\ UNCHANGED read
     \/ /\ len = end
        /\ read' = Advance(read, 1)
        /\ owner' = [owner EXCEPT ![p] = "queue", ![Entry(0)] = "nobody"]
        /\ UNCHANGED len
  /\ UNCHANGED <<live, ret>>

(* n entries leave at the read index and go to o. *)
Take(n, o) ==
  /\ read' = Advance(read, n)
  /\ len' = len - n
  /\ owner' = [p \in Pointers |->
                 IF \E i \in 0..n-1 : Entry(i) = p THEN o ELSE owner[p]]

queue_dequeue ==
  /\ live
  /\ \/ len = 0 /\ ret' = <<>> /\ UNCHANGED <<read, len, owner>>
     \/ len # 0 /\ ret' = <<Entry(0)>> /\ Take(1, "caller")
  /\ UNCHANGED <<live, queue, write>>

(* Mutant: the entries are stored in the wrong order. *)
DequeueVectorReversed(n) ==
  /\ live
  /\ LET k == IF n > len THEN len ELSE n
     IN ret' = [i \in 1..k |-> Entry(k - i)] /\ Take(k, "caller")
  /\ UNCHANGED <<live, queue, write>>

queue_dequeue_vector(n) ==
  /\ live
  /\ \/ len = 0 /\ ret' = <<>> /\ UNCHANGED <<read, len, owner>>
     \/ /\ len # 0
        /\ LET k == IF n > len THEN len ELSE n
           IN ret' = [i \in 1..k |-> Entry(i - 1)] /\ Take(k, "caller")
  /\ UNCHANGED <<live, queue, write>>

(* Mutant: the entry is stored before read is moved. *)
PutbackOverwrites(p) ==
  /\ live
  /\ owner[p] = "caller"
  /\ len # end
  /\ read' = (IF read = 0 THEN end ELSE read) - 1
  /\ queue' = [queue EXCEPT ![Wrap(read)] = p]
  /\ len' = len + 1
  /\ owner' = [owner EXCEPT ![p] = "queue"]
  /\ UNCHANGED <<live, write, ret>>

(* When the queue is full nothing changes and p stays the caller's. *)
queue_putback(p) ==
  /\ live
  /\ owner[p] = "caller"
  /\ len # end
  /\ read' = (IF read = 0 THEN end ELSE read) - 1
  /\ queue' = [queue EXCEPT ![read'] = p]
  /\ len' = len + 1
  /\ owner' = [owner EXCEPT ![p] = "queue"]
  /\ UNCHANGED <<live, write, ret>>

(* Dequeues and frees every entry, then frees the queue itself. *)
queue_destroy ==
  /\ live
  /\ live' = FALSE
  /\ Take(len, "nobody")
  /\ UNCHANGED <<queue, write, ret>>

queue_new ==
  /\ ~live
  /\ live' = TRUE
  /\ queue' = [i \in 0..end-1 |-> NULL]
  /\ write' = 0 /\ read' = 0 /\ len' = 0
  /\ UNCHANGED <<owner, ret>>

Next ==
  \/ \E p \in Pointers : Malloc(p) \/ Free(p) \/ queue_enqueue(p) \/ queue_putback(p)
  \/ queue_dequeue
  \/ \E n \in 1..MaxVector : queue_dequeue_vector(n)
  \/ queue_destroy
  \/ queue_new

Spec == Init /\ [][Next]_vars

-----------------------------------------------------------------------------
(* Every variable keeps its range: in particular both indices stay within  *)
(* 0..end and the count within the capacity, so no operation of queue.c    *)
(* touches memory outside the slots.                                       *)
TypeOK ==
  /\ live \in BOOLEAN
  /\ queue \in [0..end-1 -> Pointers \cup {NULL}]
  /\ write \in 0..end
  /\ read \in 0..end
  /\ len \in 0..end
  /\ owner \in [Pointers -> Owners]
  /\ ret \in Seq(Pointers)

(* write is where the entry after the youngest one belongs: it is len      *)
(* slots after read modulo the capacity, whichever of the two indices has  *)
(* not been wrapped yet.  queue_putback moves read backwards and a full    *)
(* queue_enqueue moves both, which is what could break it.                 *)
IndicesAgree == Wrap(write) = Wrap(Wrap(read) + (IF len = end THEN 0 ELSE len))

(* The entries between read and write are exactly the pointers the queue   *)
(* must free, each of them once: no entry handed out, dropped or destroyed *)
(* is still reachable (double free), none was overwritten (leak), and no   *)
(* stale slot is inside the window.                                        *)
OwnsItsEntries ==
  /\ \A i \in 0..len-1 : Entry(i) \in Pointers /\ owner[Entry(i)] = "queue"
  /\ \A i, j \in 0..len-1 : Entry(i) = Entry(j) => i = j
  /\ \A p \in Pointers : owner[p] = "queue" => \E i \in 0..len-1 : Entry(i) = p

(* Refinement: the window of the ring, read from its oldest entry, behaves *)
(* as the bounded FIFO the comments of queue.c promise.                    *)
Window == [i \in 1..len |-> Entry(i - 1)]

Fifo == INSTANCE BoundedFifo WITH Capacity <- end, fifo <- Window

ImplementsFifo == Fifo!Spec
=============================================================================
