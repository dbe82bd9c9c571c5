----------------------------- MODULE MCLoyalty ------------------------------
(* A small instance of Loyalty for TLC: ann, whom bob has referred, pays for
   two bookings; bob, whom cat has referred, for a shop order. *)
EXTENDS Loyalty, TLC

CONSTANTS b1, b2, o1, ann, bob, cat, r1, r2

Owners == [p \in Payment |-> IF p \in Booked THEN ann ELSE bob]
Amounts == [p \in Payment |-> IF p = b1 THEN 1 ELSE 2]
Cards == [p \in Payment |-> "card"]
By == [r \in Referral |-> IF r = r1 THEN bob ELSE cat]
Of == [r \in Referral |-> IF r = r1 THEN ann ELSE bob]

Symmetry == Permutations(Worker)
=============================================================================
