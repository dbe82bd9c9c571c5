---------------------------- MODULE MCScheduling ----------------------------
(* Small instances of Scheduling for TLC. *)
EXTENDS Scheduling, TLC

CONSTANTS s1, s2, closed

(* Two seats in every slot: three bookings can oversell one, and two
   bookings in different slots can each want a seat of the other's. *)
TwoSeats == [s \in Slot |-> 2]

Symmetry == Permutations(BookingId) \cup Permutations(Worker) \cup Permutations(Key)
=============================================================================
