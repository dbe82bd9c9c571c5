---------------------------- MODULE MCReminders ----------------------------
(* Small instances of Reminders for TLC. *)
EXTENDS Reminders, TLC

CONSTANTS u1

BornFirstDay == [u \in User |-> 0]

(* The last two days of the period begin at the second day's end. *)
EndsSoon == [u \in User |-> 4 * DayLength]

Symmetry == Permutations(Process)
=============================================================================
