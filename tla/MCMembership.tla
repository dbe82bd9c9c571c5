--------------------------- MODULE MCMembership ----------------------------
(* A small instance of Membership for TLC. *)
EXTENDS Membership, TLC
=============================================================================
