----------------------------- MODULE Scheduling -----------------------------
(***************************************************************************)
(* The booking service of apps/scheduling/services.py on PostgreSQL.       *)
(*                                                                         *)
(* Web workers run create_booking, cancel_booking and reschedule_booking,  *)
(* each inside a database transaction (TenantMiddleware opens it, the      *)
(* service nests a savepoint in it).  The isolation level is READ          *)
(* COMMITTED: a plain read sees the last committed row, select_for_update  *)
(* waits for the row's lock and then reads the committed row, a lock is    *)
(* kept until the transaction ends, and nobody sees a write before its     *)
(* transaction commits.  A transaction is cut at the points where another  *)
(* one can interfere: before each lock it takes and before it commits.     *)
(* The writes that follow the last lock are one step with the commit.      *)
(***************************************************************************)
EXTENDS Integers, FiniteSets

CONSTANTS
    Slot,        \* primary keys of BookingSlot rows
    ActiveSlot,  \* the slots whose is_active column is true
    Capacity,    \* Capacity[s]: the capacity_total column of slot s
    BookingId,   \* primary keys Booking rows are given
    Customer,    \* users with role "customer"
    Admin,       \* users with role "admin"
    Key,         \* Idempotency-Key header values
    Worker,      \* web workers: each runs one request at a time
    NoSlot, NoBooking, NoUser, NoKey, NoWorker,
    GivenUp      \* what the ledger says of the seat of a cancelled booking

User == Customer \cup Admin

ASSUME SchedulingAssumption ==
    /\ ActiveSlot \subseteq Slot
    /\ Capacity \in [Slot -> Nat]
    /\ IsFiniteSet(BookingId)
    /\ NoSlot \notin Slot
    /\ GivenUp \notin Slot \cup {NoSlot}
    /\ NoBooking \notin BookingId
    /\ NoWorker \notin Worker

VARIABLES
    left,        \* left[s]: the capacity_left column of slot s
    booking,     \* booking[b]: the Booking row with primary key b
    payment,     \* payment[b]: status of the Payment row created with b
    slotLock,    \* slotLock[s]: the worker whose transaction locks row s
    bookingLock, \* bookingLock[b]: the worker whose transaction locks row b
    txn,         \* txn[w]: the request worker w is running
    leaked       \* leaked[s]: history, reschedules of s onto s itself

vars == <<left, booking, payment, slotLock, bookingLock, txn, leaked>>

-----------------------------------------------------------------------------
(* Rows *)

Status == {"pending", "confirmed", "assigned", "en_route", "in_progress",
           "completed", "cancelled", "no_show"}

(* Mutant: a completed booking may be cancelled. *)
TerminalWithoutCompleted == {"cancelled", "no_show"}

Terminal == {"completed", "cancelled", "no_show"}

PaymentStatus == {"pending", "requires_action", "succeeded", "failed",
                  "refunded", "partially_refunded", "cancelled"}

(* A primary key that has not been used: there is no such row yet. *)
NoRow == [status |-> "none", slot |-> NoSlot, user |-> NoUser, key |-> NoKey]

BookingRow == [status : Status, slot : Slot, user : User, key : Key \cup {NoKey}]

Unused == {b \in BookingId : booking[b].status = "none"}

(* Bookings that hold a seat of slot s: a cancellation and a no-show give
   the seat back, a completed wash has used it. *)
Holds(b, s) ==
    /\ booking[b].slot = s
    /\ booking[b].status \in Status \ {"cancelled", "no_show"}

Holders(s) == {b \in BookingId : Holds(b, s)}

-----------------------------------------------------------------------------
(* Transactions *)

Pc == {"idle",        \* no request
       "createLock",  \* create: past the idempotency check, wants the slot
       "createWrite", \* create: has the slot, will insert and commit
       "cancel",      \* cancel: has the booking, wants its slot
       "moveNew",     \* reschedule: has the booking, wants the new slot
       "moveOld"}     \* reschedule: has the new slot, wants the old one

Idle == [pc |-> "idle", user |-> NoUser, slot |-> NoSlot, key |-> NoKey,
         id |-> NoBooking, seen |-> 0]

Txn == [pc : Pc, user : User \cup {NoUser}, slot : Slot \cup {NoSlot},
        key : Key \cup {NoKey}, id : BookingId \cup {NoBooking}, seen : Nat]

(* Mutant: objects.get instead of select_for_update on the slot. *)
ReadSlotWithoutLock(w, s) == TRUE

CanLockSlot(w, s) == slotLock[s] \in {NoWorker, w}

(* Mutant: objects.get instead of select_for_update on the booking. *)
ReadBookingWithoutLock(w, b) == TRUE

CanLockBooking(w, b) == bookingLock[b] \in {NoWorker, w}

(* The transaction of w ends, by commit or rollback: its locks go. *)
EndTxn(w) ==
    /\ slotLock' = [s \in Slot |->
                        IF slotLock[s] = w THEN NoWorker ELSE slotLock[s]]
    /\ bookingLock' = [b \in BookingId |->
                        IF bookingLock[b] = w THEN NoWorker ELSE bookingLock[b]]
    /\ txn' = [txn EXCEPT ![w] = Idle]

(* Mutant: the worker answers the request and leaves its transaction open. *)
LeaveTxnOpen(w) ==
    /\ txn' = [txn EXCEPT ![w] = Idle]
    /\ UNCHANGED <<left, booking, payment, slotLock, bookingLock, leaked>>

Rollback(w) ==
    /\ EndTxn(w)
    /\ UNCHANGED <<left, booking, payment, leaked>>

Init ==
    /\ left = Capacity
    /\ booking = [b \in BookingId |-> NoRow]
    /\ payment = [b \in BookingId |-> "none"]
    /\ slotLock = [s \in Slot |-> NoWorker]
    /\ bookingLock = [b \in BookingId |-> NoWorker]
    /\ txn = [w \in Worker |-> Idle]
    /\ leaked = [s \in Slot |-> 0]

(* Mutant: refuses a slot only when it is already oversold. *)
NotOverfull(s) == left[s] >= 0

HasSeat(s) == left[s] > 0

-----------------------------------------------------------------------------
(* create_booking *)

(* The bound of the model: a create is only sent while a primary key is left
   for it and for every create already in progress. *)
KeysSuffice ==
    Cardinality({w \in Worker : txn[w].pc \in {"createLock", "createWrite"}})
        < Cardinality(Unused)

(* The request arrives and its idempotency key, if it has one, matches no
   committed booking.  (A key that matches is answered with that booking
   and changes nothing.)  The read takes no lock. *)
BeginCreate(w, u, s, k) ==
    /\ txn[w].pc = "idle"
    /\ KeysSuffice
    /\ k # NoKey => \A b \in BookingId : booking[b].key # k
    /\ txn' = [txn EXCEPT ![w] =
                [Idle EXCEPT !.pc = "createLock", !.user = u, !.slot = s, !.key = k]]
    /\ UNCHANGED <<left, booking, payment, slotLock, bookingLock, leaked>>

LockSlotForCreate(w) ==
    LET s == txn[w].slot IN
    /\ txn[w].pc = "createLock"
    /\ s \in ActiveSlot
    /\ CanLockSlot(w, s)
    /\ HasSeat(s)
    /\ slotLock' = [slotLock EXCEPT ![s] = w]
    /\ txn' = [txn EXCEPT ![w].pc = "createWrite", ![w].seen = left[s]]
    /\ UNCHANGED <<left, booking, payment, bookingLock, leaked>>

(* "Slot not found." and "This time slot is fully booked." *)
RejectCreate(w) ==
    LET s == txn[w].slot IN
    /\ txn[w].pc = "createLock"
    /\ \/ s \notin ActiveSlot
       \/ CanLockSlot(w, s) /\ ~HasSeat(s)
    /\ Rollback(w)

(* The seat is taken, the Payment row is inserted as pending and the
   Booking row as confirmed, whatever the payment method. *)
CommitCreate(w) ==
    LET t == txn[w] IN
    /\ t.pc = "createWrite"
    /\ \E b \in Unused :
        /\ booking' = [booking EXCEPT ![b] =
                        [status |-> "confirmed", slot |-> t.slot,
                         user |-> t.user, key |-> t.key]]
        /\ payment' = [payment EXCEPT ![b] = "pending"]
    /\ left' = [left EXCEPT ![t.slot] = t.seen - 1]
    /\ EndTxn(w)
    /\ UNCHANGED leaked

-----------------------------------------------------------------------------
(* cancel_booking *)

OwnerOrAdmin(u, b) == u = booking[b].user \/ u \in Admin

(* Lock the booking, check who asks and that it is not in a terminal
   status.  (A refused request ends here and changes nothing.) *)
BeginCancel(w, u, b) ==
    /\ txn[w].pc = "idle"
    /\ booking[b].status # "none"
    /\ CanLockBooking(w, b)
    /\ OwnerOrAdmin(u, b)
    /\ booking[b].status \notin Terminal
    /\ bookingLock' = [bookingLock EXCEPT ![b] = w]
    /\ txn' = [txn EXCEPT ![w] =
                [Idle EXCEPT !.pc = "cancel", !.user = u, !.id = b]]
    /\ UNCHANGED <<left, booking, payment, slotLock, leaked>>

(* Mutant: without the min() with the slot's capacity. *)
UncappedSeatBack(s) == left[s] + 1

SeatBack(s) == IF left[s] + 1 <= Capacity[s] THEN left[s] + 1 ELSE Capacity[s]

(* Lock the slot, give the seat back, mark the booking.  The payment is
   left as it is. *)
CommitCancel(w) ==
    LET b == txn[w].id
        s == booking[b].slot IN
    /\ txn[w].pc = "cancel"
    /\ CanLockSlot(w, s)
    /\ left' = [left EXCEPT ![s] = SeatBack(s)]
    /\ booking' = [booking EXCEPT ![b].status = "cancelled"]
    /\ EndTxn(w)
    /\ UNCHANGED <<payment, leaked>>

-----------------------------------------------------------------------------
(* reschedule_booking *)

BeginReschedule(w, u, b, s) ==
    /\ txn[w].pc = "idle"
    /\ booking[b].status # "none"
    /\ CanLockBooking(w, b)
    /\ OwnerOrAdmin(u, b)
    /\ booking[b].status \in {"pending", "confirmed"}
    /\ bookingLock' = [bookingLock EXCEPT ![b] = w]
    /\ txn' = [txn EXCEPT ![w] =
                [Idle EXCEPT !.pc = "moveNew", !.user = u, !.id = b, !.slot = s]]
    /\ UNCHANGED <<left, booking, payment, slotLock, leaked>>

(* Mutant: the new slot is read, but the lock is not kept to the commit. *)
ReadNewSlot(w) ==
    LET s == txn[w].slot IN
    /\ txn[w].pc = "moveNew"
    /\ s \in ActiveSlot
    /\ CanLockSlot(w, s)
    /\ HasSeat(s)
    /\ txn' = [txn EXCEPT ![w].pc = "moveOld", ![w].seen = left[s]]
    /\ UNCHANGED <<left, booking, payment, slotLock, bookingLock, leaked>>

LockNewSlot(w) ==
    LET s == txn[w].slot IN
    /\ txn[w].pc = "moveNew"
    /\ s \in ActiveSlot
    /\ CanLockSlot(w, s)
    /\ HasSeat(s)
    /\ slotLock' = [slotLock EXCEPT ![s] = w]
    /\ txn' = [txn EXCEPT ![w].pc = "moveOld", ![w].seen = left[s]]
    /\ UNCHANGED <<left, booking, payment, bookingLock, leaked>>

(* "Slot not found." and "New slot is fully booked." *)
RejectReschedule(w) ==
    LET s == txn[w].slot IN
    /\ txn[w].pc = "moveNew"
    /\ \/ s \notin ActiveSlot
       \/ CanLockSlot(w, s) /\ ~HasSeat(s)
    /\ Rollback(w)

(* Lock the old slot and save three rows in the code's order: the old slot
   with a seat more than it has, then the new one with a seat less than was
   read when it was locked, then the booking.  When both slots are the same
   row, the second save overwrites the first. *)
CommitReschedule(w) ==
    LET b   == txn[w].id
        new == txn[w].slot
        old == booking[b].slot IN
    /\ txn[w].pc = "moveOld"
    /\ CanLockSlot(w, old)
    /\ left' = [left EXCEPT ![old] = SeatBack(old), ![new] = txn[w].seen - 1]
    /\ booking' = [booking EXCEPT ![b].slot = new]
    /\ leaked' = IF old = new THEN [leaked EXCEPT ![old] = @ + 1] ELSE leaked
    /\ EndTxn(w)
    /\ UNCHANGED payment

-----------------------------------------------------------------------------
(* Transactions that do not commit *)

(* The slot row the transaction of w asks to lock next. *)
WantedSlot(w) ==
    CASE txn[w].pc \in {"createLock", "moveNew"} -> txn[w].slot
      [] txn[w].pc \in {"cancel", "moveOld"}     -> booking[txn[w].id].slot
      [] OTHER                                   -> NoSlot

WaitsFor(w, v) ==
    /\ WantedSlot(w) # NoSlot
    /\ slotLock[WantedSlot(w)] = v
    /\ v # w

(* Every worker of some set that contains w waits for another of the set. *)
Deadlocked(w) ==
    \E D \in SUBSET Worker :
        /\ w \in D
        /\ \A x \in D : \E y \in D : WaitsFor(x, y)

(* PostgreSQL's deadlock detector picks a victim and rolls it back. *)
DeadlockVictim(w) == Deadlocked(w) /\ Rollback(w)

(* Any other end without commit: the vehicle or the address of the request
   is not found, a statement fails, the worker or its connection dies. *)
Abort(w) == txn[w].pc # "idle" /\ Rollback(w)

-----------------------------------------------------------------------------

Begin(w) ==
    \E u \in User :
        \/ \E s \in Slot, k \in Key \cup {NoKey} : BeginCreate(w, u, s, k)
        \/ \E b \in BookingId : BeginCancel(w, u, b)
        \/ \E b \in BookingId, s \in Slot : BeginReschedule(w, u, b, s)

Proceed(w) ==
    \/ LockSlotForCreate(w)
    \/ RejectCreate(w)
    \/ CommitCreate(w)
    \/ CommitCancel(w)
    \/ LockNewSlot(w)
    \/ RejectReschedule(w)
    \/ CommitReschedule(w)

Next ==
    \E w \in Worker :
        \/ Begin(w)
        \/ Proceed(w)
        \/ DeadlockVictim(w)
        \/ Abort(w)

Spec == Init /\ [][Next]_vars

(* A request in progress is not abandoned: the worker goes on as soon as it
   can (PostgreSQL grants a row lock to its waiters in turn, so a waiter is
   not passed over for ever) and the deadlock detector runs.  Nobody has to
   send a request, and nothing has to fail. *)
Fairness ==
    \A w \in Worker : SF_vars(Proceed(w)) /\ WF_vars(DeadlockVictim(w))

FairSpec == Spec /\ Fairness

-----------------------------------------------------------------------------
(* Properties *)

(* Rows, locks and requests have the shape the models declare. *)
TypeOK ==
    /\ left \in [Slot -> Nat]
    /\ booking \in [BookingId -> BookingRow \cup {NoRow}]
    /\ payment \in [BookingId -> PaymentStatus \cup {"none"}]
    /\ slotLock \in [Slot -> Worker \cup {NoWorker}]
    /\ bookingLock \in [BookingId -> Worker \cup {NoWorker}]
    /\ txn \in [Worker -> Txn]
    /\ leaked \in [Slot -> Nat]

(* What the transaction of w read is still what the rows hold: the seats it
   saw left in a slot, and that its booking holds a seat. *)
Fresh(w) ==
    LET t == txn[w] IN
    /\ t.pc # "idle" => t.user \in User
    /\ t.pc \notin {"idle", "cancel"} => t.slot \in Slot
    /\ t.pc \in {"createWrite", "moveOld"} =>
            /\ slotLock[t.slot] = w
            /\ t.seen = left[t.slot]
            /\ t.seen > 0
    /\ t.pc \in {"cancel", "moveNew", "moveOld"} =>
            /\ t.id \in BookingId
            /\ bookingLock[t.id] = w
            /\ booking[t.id].status \in Status \ Terminal

(* No transaction decides on a stale value: everything the service checked
   under a lock still holds when it writes. *)
ReadsStayFresh == \A w \in Worker : Fresh(w)

(* "No slot oversell, ever" (services.py): under any interleaving of
   requests, rollbacks and deadlocks, the bookings that hold a seat of a
   slot are never more than its capacity. *)
NoOversell == \A s \in Slot : Cardinality(Holders(s)) <= Capacity[s]

(* No update of capacity_left is ever lost: the column, the bookings that
   hold a seat and the reschedules of a booking onto its own slot (each of
   which burns a seat) add up to the capacity, whatever ran concurrently. *)
SeatsAccounted ==
    \A s \in Slot : left[s] + Cardinality(Holders(s)) + leaked[s] = Capacity[s]

(* What the ledger of seats says of a booking. *)
SeatOf(b) ==
    IF booking[b].status = "none" THEN NoSlot
    ELSE IF booking[b].status \in {"cancelled", "no_show"} THEN GivenUp
    ELSE booking[b].slot

Seats == [b \in BookingId |-> SeatOf(b)]

Ledger == INSTANCE SlotLedger WITH seat <- Seats, NotBooked <- NoSlot

(* Creating, cancelling and moving a booking each look atomic to every other
   transaction: the service implements the ledger of seats. *)
RefinesLedger == Ledger!Spec

(* Every request is answered, although two crossing reschedules lock their
   slots in opposite orders. *)
EveryRequestAnswered ==
    \A w \in Worker : txn[w].pc # "idle" ~> txn[w].pc = "idle"

(* What the docs say and the code does not do; README.md tells how TLC
   refutes each. *)

(* reschedule_booking "Returns capacity to the old slot and claims it from
   the new one": a seat is either left or held. *)
SeatsReturned ==
    \A s \in Slot : left[s] + Cardinality(Holders(s)) = Capacity[s]

(* "Same Idempotency-Key -> same booking returned" (FRONTEND_INTEGRATION):
   a key names at most one booking. *)
OneBookingPerKey ==
    \A b, c \in BookingId :
        booking[b].key # NoKey /\ booking[b].key = booking[c].key => b = c
=============================================================================
