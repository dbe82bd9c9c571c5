----------------------------- MODULE SlotLedger -----------------------------
(***************************************************************************)
(* What the scheduling service promises its callers: a ledger of seats.    *)
(* Every slot has a fixed number of seats; a booking takes one seat, may   *)
(* move to another slot while it holds a seat, and gives the seat up for   *)
(* good when it is cancelled.  Each of the three happens in one step, and  *)
(* a seat is taken only in a slot that has one left ("Critical invariant:  *)
(* no slot oversell, ever", scheduling/services.py).  There are no rows,   *)
(* locks or counters here: Scheduling implements this with all of them.    *)
(***************************************************************************)
EXTENDS Naturals, FiniteSets

CONSTANTS
    Slot,       \* the bookable slots
    Capacity,   \* Capacity[s]: how many bookings slot s may hold
    BookingId,  \* the identities bookings are given
    NotBooked,  \* seat of a booking that has not been made
    GivenUp     \* seat of a booking that was cancelled

VARIABLE seat   \* seat[b]: the slot in which booking b holds a seat

Occupants(s) == {b \in BookingId : seat[b] = s}

HasSeatLeft(s) == Cardinality(Occupants(s)) < Capacity[s]

Init == seat = [b \in BookingId |-> NotBooked]

(* A new booking takes a seat of s. *)
Reserve(b, s) ==
    /\ seat[b] = NotBooked
    /\ HasSeatLeft(s)
    /\ seat' = [seat EXCEPT ![b] = s]

(* A booking gives its seat back and takes one of another slot. *)
Move(b, s) ==
    /\ seat[b] \in Slot \ {s}
    /\ HasSeatLeft(s)
    /\ seat' = [seat EXCEPT ![b] = s]

(* A booking gives its seat back; it never holds one again. *)
Release(b) ==
    /\ seat[b] \in Slot
    /\ seat' = [seat EXCEPT ![b] = GivenUp]

Next ==
    \E b \in BookingId :
        \/ Release(b)
        \/ \E s \in Slot : Reserve(b, s) \/ Move(b, s)

Spec == Init /\ [][Next]_seat
=============================================================================
