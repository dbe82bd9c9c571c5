------------------------- MODULE MCBookingLifecycle -------------------------
(* Small instances of BookingLifecycle for TLC. *)
EXTENDS BookingLifecycle, TLC

OneSeat == [s \in Slot |-> 1]

Symmetry == Permutations(BookingId) \cup Permutations(Worker) \cup Permutations(Staff)
=============================================================================
