------------------------------ MODULE MCServer ------------------------------
(* Instances of Server for TLC: the clusters each run looks at. *)
EXTENDS Server, TLC

CONSTANTS s1, s2

All(faults) == [s \in Servers |-> faults]

(* One server with one connection and a peer that never fails. *)
Base == [members |-> <<s1>>, conns |-> {1}, type |-> "forward", faults |-> All({}),
         unreachable |-> {}, load |-> 3, addresses |-> 1, qsize |-> 2, bsize |-> 2,
         queuefree_threshold_start |-> 0, threshold_start |-> 0, threshold_end |-> 0,
         ttl |-> FALSE, swap |-> FALSE, expires |-> FALSE, latestart |-> FALSE]

(* Two members. *)
Pair(type) == [Base EXCEPT !.members = <<s1, s2>>, !.type = type]

(* The peer may fail in every way; in two of the ways that close the       *)
(* connection, with two connections and two addresses; the queue is so     *)
(* small that it overflows.                                                *)
Faulty == [Base EXCEPT !.faults = All(FaultKinds), !.ttl = TRUE, !.expires = TRUE]
Reconnecting == [Base EXCEPT !.conns = {1, 2}, !.load = 2,
                             !.addresses = 2, !.faults = All({"broken", "refused"})]
Overflowing == [Base EXCEPT !.qsize = 1]

(* Members that divert to and take over from each other; that are stopped  *)
(* to hand over their queue; of which one stands by.                       *)
Diverting == [Pair("any_of") EXCEPT !.bsize = 1, !.queuefree_threshold_start = 1,
                !.threshold_start = 1, !.threshold_end = 2, !.faults[s1] = {"timeout"}]
HandingOver == [Pair("lb") EXCEPT !.swap = TRUE, !.latestart = TRUE,
                                  !.load = 2, !.faults = All({"timeout"})]
Standby == Pair("failover")

SafetyConfigs == {Faulty, Reconnecting, Overflowing, Diverting, HandingOver, Standby}

(* One member is unreachable; writes may all time out. *)
FirstDown(type) == [Pair(type) EXCEPT !.unreachable = {s1}]
Struggling == [Pair("failover") EXCEPT !.qsize = 1, !.expires = TRUE,
                                       !.faults = All({"timeout"})]

LivenessConfigs == {FirstDown("failover"), FirstDown("any_of"), Struggling}

SymmetricMetrics == Permutations(Metrics)
=============================================================================
