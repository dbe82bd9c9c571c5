-------------------------- MODULE BookingLifecycle --------------------------
(***************************************************************************)
(* A booking after it is made: Scheduling composed with the staff service  *)
(* (apps/staff/services.py) and with the Stripe webhook, the two other     *)
(* writers of Booking.status.                                              *)
(*                                                                         *)
(* An administrator assigns a staff member, who accepts the job and takes  *)
(* it to en_route, in_progress and completed; every step is mirrored to    *)
(* the booking.  assign_staff_to_booking locks the booking and then writes *)
(* the assignment, update_job_status locks the assignment and then writes  *)
(* the booking, with an UPDATE that does not look at its status.  So does  *)
(* the webhook when a card payment succeeds, whenever that is.  The status *)
(* of the payment has two more writers that do not look at it: the webhook *)
(* when an attempt was declined, and a request for a PaymentIntent that    *)
(* read the row before it called Stripe.                                   *)
(***************************************************************************)
EXTENDS Scheduling

CONSTANTS
    Staff,        \* users with role "staff"
    NoStaff,
    CardBooking   \* primary keys of the bookings that are paid by card

ASSUME LifecycleAssumption ==
    /\ CardBooking \subseteq BookingId
    /\ NoStaff \notin Staff

VARIABLES
    job,      \* job[b]: the JobAssignment row of booking b
    jobLock,  \* jobLock[b]: the worker whose transaction locks that row
    duty,     \* duty[w]: the staff or assign request worker w is running
    asking,   \* bookings with an intent request between its read and its save
    card,     \* card[b]: how far the PaymentIntent of card booking b is
    reopened  \* history: bookings the webhook confirmed after they completed

cardVars == <<asking, card, reopened>>

staffVars == <<job, jobLock, duty, cardVars>>

lifecycleVars == <<vars, staffVars>>

-----------------------------------------------------------------------------

JobStatus == {"pending", "accepted", "en_route", "in_progress", "completed"}

NoJob == [status |-> "none", staff |-> NoStaff]

JobRow == [status : JobStatus, staff : Staff]

(* TRANSITIONS of update_job_status: what follows a status, if anything. *)
Transitions ==
    [accepted |-> "en_route", en_route |-> "in_progress",
     in_progress |-> "completed"]

OffDuty == [pc |-> "idle", id |-> NoBooking, staff |-> NoStaff, next |-> "none"]

Duty == [pc : {"idle", "assign", "advance"}, id : BookingId \cup {NoBooking},
         staff : Staff \cup {NoStaff}, next : JobStatus \cup {"none"}]

(* No intent, one to be paid, one that was paid, one whose payment the
   webhook has handled (an event is handled once). *)
CardStage == {"none", "open", "captured", "handled"}

Free(w) == txn[w].pc = "idle" /\ duty[w].pc = "idle"

(* Mutant: objects.get instead of select_for_update on the assignment. *)
ReadJobWithoutLock(w, b) == TRUE

CanLockJob(w, b) == jobLock[b] \in {NoWorker, w}

(* Mutant: the answer is sent and the assignment row stays locked. *)
EndDutyKeepingJob(w) ==
    /\ EndTxn(w)
    /\ duty' = [duty EXCEPT ![w] = OffDuty]
    /\ UNCHANGED jobLock

(* The transaction of a staff or assign request ends: its locks go. *)
EndDuty(w) ==
    /\ EndTxn(w)
    /\ jobLock' = [b \in BookingId |-> IF jobLock[b] = w THEN NoWorker ELSE jobLock[b]]
    /\ duty' = [duty EXCEPT ![w] = OffDuty]

LifecycleInit ==
    /\ Init
    /\ job = [b \in BookingId |-> NoJob]
    /\ jobLock = [b \in BookingId |-> NoWorker]
    /\ duty = [w \in Worker |-> OffDuty]
    /\ asking = {} /\ reopened = {}
    /\ card = [b \in CardBooking |-> "none"]

-----------------------------------------------------------------------------
(* assign_staff_to_booking *)

BeginAssign(w, b, m) ==
    /\ Free(w)
    /\ CanLockBooking(w, b)
    /\ booking[b].status \in {"confirmed", "pending"}
    /\ bookingLock' = [bookingLock EXCEPT ![b] = w]
    /\ duty' = [duty EXCEPT ![w] = [OffDuty EXCEPT !.pc = "assign", !.id = b, !.staff = m]]
    /\ UNCHANGED <<left, booking, payment, slotLock, txn, leaked, job, jobLock, cardVars>>

(* Mutant: a reassignment changes the staff member and keeps the status. *)
ReassignKeepingStatus(w) ==
    LET b == duty[w].id IN
    /\ duty[w].pc = "assign"
    /\ CanLockJob(w, b)
    /\ job' = [job EXCEPT ![b] =
                [status |-> IF @ = NoJob THEN "pending" ELSE @.status, staff |-> duty[w].staff]]
    /\ booking' = [booking EXCEPT ![b].status = "assigned"]
    /\ EndDuty(w)
    /\ UNCHANGED <<left, payment, leaked, cardVars>>

(* The assignment is created as pending, or the one there is goes back to
   pending (its UPDATE waits for the row's lock); the booking is assigned. *)
CommitAssign(w) ==
    LET b == duty[w].id IN
    /\ duty[w].pc = "assign"
    /\ CanLockJob(w, b)
    /\ job' = [job EXCEPT ![b] = [status |-> "pending", staff |-> duty[w].staff]]
    /\ booking' = [booking EXCEPT ![b].status = "assigned"]
    /\ EndDuty(w)
    /\ UNCHANGED <<left, payment, leaked, cardVars>>

-----------------------------------------------------------------------------
(* accept_job and update_job_status; the assignment must be the caller's *)

AcceptJob(w, b) ==
    /\ Free(w)
    /\ CanLockJob(w, b)
    /\ job[b].status = "pending"
    /\ job' = [job EXCEPT ![b].status = "accepted"]
    /\ UNCHANGED <<vars, jobLock, duty, cardVars>>

BeginAdvance(w, b) ==
    /\ Free(w)
    /\ CanLockJob(w, b)
    /\ job[b].status \in DOMAIN Transitions
    /\ jobLock' = [jobLock EXCEPT ![b] = w]
    /\ duty' = [duty EXCEPT ![w] = [OffDuty EXCEPT !.pc = "advance", !.id = b,
                    !.staff = job[b].staff, !.next = Transitions[job[b].status]]]
    /\ UNCHANGED <<vars, job, cardVars>>

(* The assignment is saved and its status mirrored to the booking. *)
CommitAdvance(w) ==
    LET b == duty[w].id IN
    /\ duty[w].pc = "advance"
    /\ CanLockBooking(w, b)
    /\ job' = [job EXCEPT ![b].status = duty[w].next]
    /\ booking' = [booking EXCEPT ![b].status = duty[w].next]
    /\ EndDuty(w)
    /\ UNCHANGED <<left, payment, leaked, cardVars>>

-----------------------------------------------------------------------------
(* Two staff transactions that wait for each other, and failures *)

WaitsForJob(w, v) ==
    duty[w].pc = "assign" /\ jobLock[duty[w].id] = v /\ v # w

WaitsForBooking(w, v) ==
    duty[w].pc = "advance" /\ bookingLock[duty[w].id] = v /\ v # w

Crossed(w) ==
    \E v \in Worker :
        \/ WaitsForJob(w, v) /\ WaitsForBooking(v, w)
        \/ WaitsForBooking(w, v) /\ WaitsForJob(v, w)

RollbackDuty(w) ==
    /\ EndDuty(w)
    /\ UNCHANGED <<left, booking, payment, leaked, job, cardVars>>

CrossedVictim(w) == Crossed(w) /\ RollbackDuty(w)

AbortDuty(w) == duty[w].pc # "idle" /\ RollbackDuty(w)

-----------------------------------------------------------------------------
(* Card payments *)

bookingVars == <<left, booking, slotLock, bookingLock, txn, leaked>>

(* The customer asks for a PaymentIntent: the row is read without a lock,
   and while it says nothing of an intent the request goes on to Stripe. *)
RequestIntent(b) ==
    /\ payment[b] \in {"pending", "requires_action"}
    /\ card[b] = "none"
    /\ asking' = asking \cup {b}
    /\ UNCHANGED <<vars, job, jobLock, duty, card, reopened>>

(* Stripe has answered, all requests of a payment with one intent, and the
   request saves id and status over whatever the row says by now.  Others
   may still be on their way. *)
SaveIntent(b) ==
    /\ b \in asking
    /\ payment' = [payment EXCEPT ![b] = "requires_action"]
    /\ card' = [card EXCEPT ![b] = IF @ = "none" THEN "open" ELSE @]
    /\ asking' \in {asking, asking \ {b}}
    /\ UNCHANGED <<bookingVars, job, jobLock, duty, reopened>>

(* The customer pays in the app, perhaps after attempts that were refused,
   and Stripe captures the money, once. *)
Capture(b) ==
    /\ card[b] = "open"
    /\ card' = [card EXCEPT ![b] = "captured"]
    /\ UNCHANGED <<vars, job, jobLock, duty, asking, reopened>>

(* payment_intent.payment_failed arrives, of an attempt that was refused while
   the intent was open: at any time after that, and once for each attempt. *)
WebhookDeclines(b) ==
    /\ card[b] # "none"
    /\ payment' = [payment EXCEPT ![b] = "failed"]
    /\ UNCHANGED <<bookingVars, job, jobLock, duty, asking, card, reopened>>

(* payment_intent.succeeded arrives.  Booking.status is written without a
   look at what it was; the UPDATE only waits for the row. *)
WebhookConfirms(b) ==
    /\ card[b] = "captured"
    /\ payment[b] # "succeeded"
    /\ bookingLock[b] = NoWorker
    /\ payment' = [payment EXCEPT ![b] = "succeeded"]
    /\ booking' = [booking EXCEPT ![b].status = "confirmed"]
    /\ card' = [card EXCEPT ![b] = "handled"]
    /\ reopened' = IF booking[b].status = "completed"
                   THEN reopened \cup {b} ELSE reopened
    /\ UNCHANGED <<left, slotLock, bookingLock, txn, leaked,
                   job, jobLock, duty, asking>>

CardStep(b) ==
    \/ RequestIntent(b)
    \/ SaveIntent(b)
    \/ Capture(b)
    \/ WebhookDeclines(b)
    \/ WebhookConfirms(b)

-----------------------------------------------------------------------------

(* A step of the booking service; a worker runs one request at a time. *)
BookingStep(w) ==
    /\ \/ duty[w].pc = "idle" /\ Begin(w)
       \/ Proceed(w)
       \/ DeadlockVictim(w)
       \/ Abort(w)
    /\ UNCHANGED staffVars

BeginDuty(w) ==
    \E b \in BookingId :
        \/ \E m \in Staff : BeginAssign(w, b, m)
        \/ AcceptJob(w, b)
        \/ BeginAdvance(w, b)

ProceedDuty(w) == CommitAssign(w) \/ CommitAdvance(w)

LifecycleNext ==
    \/ \E w \in Worker :
        \/ BookingStep(w)
        \/ BeginDuty(w)
        \/ ProceedDuty(w)
        \/ CrossedVictim(w)
        \/ AbortDuty(w)
    \/ \E b \in CardBooking : CardStep(b)

LifecycleSpec == LifecycleInit /\ [][LifecycleNext]_lifecycleVars

(* As in Scheduling: the request a worker runs goes on, victims are picked. *)
LifecycleFairness ==
    /\ \A w \in Worker :
        SF_lifecycleVars((Proceed(w) /\ UNCHANGED staffVars) \/ ProceedDuty(w))
    /\ WF_lifecycleVars(\E w \in Worker :
            (DeadlockVictim(w) /\ UNCHANGED staffVars) \/ CrossedVictim(w))

FairLifecycle == LifecycleSpec /\ LifecycleFairness

-----------------------------------------------------------------------------
(* Properties *)

(* Rows, locks and requests of both services have their declared shape. *)
LifecycleTypeOK ==
    /\ TypeOK
    /\ job \in [BookingId -> JobRow \cup {NoJob}]
    /\ jobLock \in [BookingId -> Worker \cup {NoWorker}]
    /\ duty \in [Worker -> Duty]
    /\ asking \subseteq CardBooking
    /\ card \in [CardBooking -> CardStage]
    /\ reopened \subseteq CardBooking

(* What a staff transaction decided on still holds when it writes: the
   booking it assigns may be assigned, the job it advances is its caller's
   and has not moved. *)
DutyReadsStayFresh ==
    \A w \in Worker : LET d == duty[w] IN
        /\ d.pc = "assign" => booking[d.id].status \in {"confirmed", "pending"}
        /\ d.pc = "advance" =>
            /\ job[d.id].staff = d.staff
            /\ job[d.id].status \in DOMAIN Transitions
            /\ d.next = Transitions[job[d.id].status]

(* Whatever a booking says of the work on it is what its assignment says:
   both rows change together, in update_job_status and in assign, although
   the two lock them in opposite orders and cancellations, payments and
   reassignments come in between. *)
BookingMirrorsJob ==
    \A b \in BookingId :
        /\ booking[b].status = "assigned" => job[b].status \in {"pending", "accepted"}
        /\ booking[b].status \in {"en_route", "in_progress", "completed"}
                => job[b].status = booking[b].status

(* A finished wash stays finished: the booking of a completed job is
   completed, nobody cancels or moves it, and whatever becomes of its payment,
   a card payment that is late (the event that pays it arrives after the end
   of the wash, at most once) is the only thing that reopens it. *)
FinishedStaysFinished ==
    \A b \in BookingId :
        job[b].status = "completed" /\ b \notin reopened
            => booking[b].status = "completed"

(* Jobs only move forward along TRANSITIONS; only a new assignment sends one
   back, and then the booking says so in the same step. *)
JobsMoveForward ==
    [][\A b \in BookingId :
        \/ job'[b].status = job[b].status
        \/ job[b].status = "pending" /\ job'[b].status = "accepted"
        \/ /\ job[b].status \in DOMAIN Transitions
           /\ job'[b].status = Transitions[job[b].status]
        \/ job'[b].status = "pending" /\ booking'[b].status = "assigned"]_job

(* The column capacity_left stays within the slot's capacity even when a
   cancelled booking is brought back to life and cancelled once more. *)
LeftWithinCapacity == \A s \in Slot : left[s] \in 0 .. Capacity[s]

(* Every staff request is answered, although assigning and advancing the
   same job lock its two rows in opposite orders. *)
EveryDutyAnswered ==
    \A w \in Worker : duty[w].pc # "idle" ~> duty[w].pc = "idle"
=============================================================================
