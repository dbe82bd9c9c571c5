----------------------------- MODULE MCNightly -----------------------------
(* Small instances of Nightly for TLC. *)
EXTENDS Nightly, TLC

CONSTANTS r1

Weekly == [r \in Rule |-> "weekly"]
Afternoon == [r \in Rule |-> 2]

Symmetry == Permutations(Job) \cup Permutations(Run)
=============================================================================
