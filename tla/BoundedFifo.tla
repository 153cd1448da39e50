---------------------------- MODULE BoundedFifo ----------------------------
(***************************************************************************)
(* What a queue of carbon-c-relay promises its clients (the comments of    *)
(* queue.c, read as a specification): a FIFO of at most Capacity pointers  *)
(* to metrics.  Enqueueing into a full FIFO frees the oldest entry,        *)
(* dequeueing hands the oldest entries to the caller, and an entry may be  *)
(* put back at the front while there is room.                              *)
(*                                                                         *)
(* owner[p] says who must free the memory p points to: the queue, the      *)
(* caller, or nobody because it is not allocated.                          *)
(***************************************************************************)
EXTENDS Naturals, Sequences

CONSTANTS
  Pointers,   \* the metrics that can be allocated
  Capacity,   \* number of entries the queue can hold
  MaxVector   \* largest number of entries a client asks for at once

VARIABLES
  live,       \* whether the queue exists
  fifo,       \* its entries, oldest first
  owner,      \* owner of the memory of every pointer
  ret         \* what the last dequeue returned, in order

vars == <<live, fifo, owner, ret>>

Owners == {"nobody", "caller", "queue"}

(* The owner function after the pointers of sequence s went to o. *)
Give(own, s, o) ==
  [p \in Pointers |-> IF \E i \in 1..Len(s) : s[i] = p THEN o ELSE own[p]]

Init ==
  /\ live = TRUE
  /\ fifo = <<>>
  /\ owner = [p \in Pointers |-> "nobody"]
  /\ ret = <<>>

Malloc(p) ==
  /\ owner[p] = "nobody"
  /\ owner' = [owner EXCEPT ![p] = "caller"]
  /\ UNCHANGED <<live, fifo, ret>>

Free(p) ==
  /\ owner[p] = "caller"
  /\ owner' = [owner EXCEPT ![p] = "nobody"]
  /\ UNCHANGED <<live, fifo, ret>>

Enqueue(p) ==
  /\ live
  /\ owner[p] = "caller"
  /\ \/ /\ Len(fifo) < Capacity
        /\ fifo' = Append(fifo, p)
        /\ owner' = [owner EXCEPT ![p] = "queue"]
     \/ /\ Len(fifo) = Capacity
        /\ fifo' = Append(Tail(fifo), p)
        /\ owner' = [owner EXCEPT ![p] = "queue", ![Head(fifo)] = "nobody"]
  /\ UNCHANGED <<live, ret>>

Dequeue(n) ==
  /\ live
  /\ LET k == IF n > Len(fifo) THEN Len(fifo) ELSE n
     IN /\ ret' = SubSeq(fifo, 1, k)
        /\ fifo' = SubSeq(fifo, k + 1, Len(fifo))
        /\ owner' = Give(owner, ret', "caller")
  /\ UNCHANGED live

PutBack(p) ==
  /\ live
  /\ owner[p] = "caller"
  /\ Len(fifo) < Capacity
  /\ fifo' = <<p>> \o fifo
  /\ owner' = [owner EXCEPT ![p] = "queue"]
  /\ UNCHANGED <<live, ret>>

Destroy ==
  /\ live
  /\ live' = FALSE
  /\ fifo' = <<>>
  /\ owner' = Give(owner, fifo, "nobody")
  /\ UNCHANGED ret

Create ==
  /\ ~live
  /\ live' = TRUE
  /\ UNCHANGED <<fifo, owner, ret>>

Next ==
  \/ \E p \in Pointers : Malloc(p) \/ Free(p) \/ Enqueue(p) \/ PutBack(p)
  \/ \E n \in 1..MaxVector : Dequeue(n)
  \/ Destroy
  \/ Create

Spec == Init /\ [][Next]_vars
=============================================================================
