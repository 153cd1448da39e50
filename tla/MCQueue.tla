------------------------------ MODULE MCQueue ------------------------------
(* Queue for TLC: pointers are interchangeable model values. *)
EXTENDS Queue, TLC

Symmetry == Permutations(Pointers)
=============================================================================
