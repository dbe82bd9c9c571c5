----------------------------- MODULE MCPayments -----------------------------
(* Small instances of Payments for TLC. *)
EXTENDS Payments, TLC

CONSTANTS card, wallet, cash, u1

OneOwner == [p \in Payment |-> u1]
Two == [p \in Payment |-> 2]
ByName == [p \in Payment |-> IF p = card THEN "card" ELSE IF p = wallet THEN "wallet" ELSE "cash"]

Symmetry == Permutations(Worker)
=============================================================================
