------------------------------- MODULE MCShop -------------------------------
(* Small instances of Shop for TLC. *)
EXTENDS Shop, TLC

CONSTANTS p1, p2, u1, o1

(* One piece of each product. *)
OneEach == [p \in Product |-> 1]

(* Two customers have put the same products into their carts, in opposite
   orders. *)
Crossed ==
    [u \in User |-> [NoCart EXCEPT !.exists = TRUE, !.quantity = [p \in Product |-> 1],
                                   !.lines = IF u = u1 THEN <<p1, p2>> ELSE <<p2, p1>>]]

(* The customer asks for a second intent of one order. *)
TwoForFirst == [o \in Order |-> IF o = o1 THEN 2 ELSE 1]

Symmetry == Permutations(Worker)
=============================================================================
