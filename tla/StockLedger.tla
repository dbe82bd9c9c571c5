---------------------------- MODULE StockLedger ----------------------------
(***************************************************************************)
(* What the shop promises about its stock: every paid order draws what it  *)
(* sold in one step, once unless an administrator reopens it, and nothing  *)
(* but orders and counts by an administrator changes the shelves ("Stock   *)
(* is decremented ONLY when the payment succeeds", shop/services.py).  An  *)
(* order that asks for more than there is empties the shelf.  No rows,     *)
(* locks or carts: Shop implements this with all of them.                  *)
(***************************************************************************)
EXTENDS Naturals

CONSTANTS Product, Tracked, Order, Opening

VARIABLES
    shelf,   \* shelf[p]: pieces of p in stock
    basket,  \* basket[o]: how many pieces of each product order o sold
    drawn    \* the orders whose pieces have been taken since they were
             \* placed or reopened

vars == <<shelf, basket, drawn>>

Nothing == [p \in Product |-> 0]

TakeAway(have, want) == IF want <= have THEN have - want ELSE 0

Init ==
    /\ shelf = Opening
    /\ basket = [o \in Order |-> Nothing]
    /\ drawn = {}

(* An order is placed; it holds nothing on the shelf. *)
Place(o) ==
    /\ o \notin drawn
    /\ basket[o] = Nothing
    /\ basket'[o] \in [Product -> Nat]
    /\ basket' = [basket EXCEPT ![o] = basket'[o]]
    /\ UNCHANGED <<shelf, drawn>>

(* A placed order takes all its pieces at once. *)
Draw(o) ==
    /\ basket[o] # Nothing
    /\ o \notin drawn
    /\ drawn' = drawn \cup {o}
    /\ shelf' = [p \in Product |->
                    IF p \in Tracked THEN TakeAway(shelf[p], basket[o][p]) ELSE shelf[p]]
    /\ UNCHANGED basket

(* An administrator reopens o, its pieces are not put back. *)
Reopen(o) ==
    /\ o \in drawn
    /\ drawn' = drawn \ {o}
    /\ UNCHANGED <<shelf, basket>>

(* An administrator counts product p. *)
Count(p) ==
    /\ shelf'[p] \in Nat
    /\ shelf' = [shelf EXCEPT ![p] = shelf'[p]]
    /\ UNCHANGED <<basket, drawn>>

Next ==
    \/ \E o \in Order : Place(o) \/ Draw(o) \/ Reopen(o)
    \/ \E p \in Product : Count(p)

Spec == Init /\ [][Next]_vars
=============================================================================
