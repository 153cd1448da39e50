---------------------------- MODULE MCAggregator ----------------------------
(* Instances of Aggregator for TLC. *)
EXTENDS Aggregator, TLC

SymmetricThreads == Permutations(Workers)
SymmetricValues == Permutations(Values)
Symmetry == SymmetricThreads \cup SymmetricValues
=============================================================================
