---------------------------- MODULE MCDispatcher ----------------------------
(***************************************************************************)
(* Instances of Dispatcher for TLC.                                        *)
(***************************************************************************)
EXTENDS Dispatcher

CONSTANTS c1, c2, s1, s2

\* A client alone, and a UDP socket beside the aggregator's pipe.
MCKinds == {[c \in Conns |-> IF c = c1 THEN "tcp" ELSE "none"],
            [c \in Conns |-> IF c = c1 THEN "udp" ELSE "aggr"]}

\* A client alone.
MCClient == {[c \in Conns |-> IF c = c1 THEN "tcp" ELSE "none"]}

\* The first line goes to both servers, the second to one.
MCRoutes == <<<<s1, s2>>, <<s2>>>>

=============================================================================
