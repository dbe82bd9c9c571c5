----------------------------- MODULE MCTracking -----------------------------
(* Small instances of Tracking for TLC. *)
EXTENDS Tracking, TLC

CONSTANTS phone, desk, app, m1, boss, ann

(* The assigned staff member's phone, an admin's desk and the customer. *)
Users == (phone :> m1) @@ (desk :> boss) @@ (app :> ann)
=============================================================================
