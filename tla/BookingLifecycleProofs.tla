----------------------- MODULE BookingLifecycleProofs -----------------------
(***************************************************************************)
(* Proofs about Scheduling and BookingLifecycle, for any slots,            *)
(* capacities, users, keys, staff, number of workers and finite set of     *)
(* booking ids.                                                            *)
(*                                                                         *)
(* The argument for Scheduling: a transaction that has locked a slot is    *)
(* the only one that can change its capacity_left until it ends, so the    *)
(* value it read is the value it overwrites (ReadsStayFresh), so no update *)
(* is lost (SeatsAccounted), so no slot is oversold.                       *)
(*                                                                         *)
(* For BookingLifecycle: the staff service and the webhook write a booking *)
(* only when no other transaction has it locked, so the booking service's  *)
(* reads survive them; and a staff request owns the lock of the row it     *)
(* read, so that row has not changed when it writes both.                  *)
(***************************************************************************)
EXTENDS BookingLifecycle, FiniteSetTheorems, TLAPS

(***************************************************************************)
(* Scheduling                                                              *)
(***************************************************************************)

(* The strengthening of NoOversell that every step preserves. *)
IInv == TypeOK /\ ReadsStayFresh /\ SeatsAccounted

-----------------------------------------------------------------------------
(* Bookings that hold a seat of a slot *)

LEMMA HoldersFinite ==
    ASSUME NEW s
    PROVE  IsFiniteSet(Holders(s)) /\ Cardinality(Holders(s)) \in Nat
  BY FS_Subset, FS_CardinalityType, SchedulingAssumption DEF Holders

(* A step that makes b hold a seat of s adds one to the holders of s. *)
LEMMA HoldersGrow ==
    ASSUME NEW s, NEW b \in BookingId,
           b \notin Holders(s), Holders(s)' = Holders(s) \cup {b}
    PROVE  Cardinality(Holders(s))' = Cardinality(Holders(s)) + 1
  BY HoldersFinite, FS_AddElement

(* A step that makes b give up its seat of s takes one from them, and s had
   one to take. *)
LEMMA HoldersShrink ==
    ASSUME NEW s, NEW b \in BookingId,
           b \in Holders(s), Holders(s)' = Holders(s) \ {b}
    PROVE  /\ Cardinality(Holders(s))' = Cardinality(Holders(s)) - 1
           /\ Cardinality(Holders(s)) > 0
  BY HoldersFinite, FS_RemoveElement, FS_EmptySet

(* A slot in which a booking holds a seat has fewer seats left than its
   capacity, so the cap on the seat given back never bites. *)
LEMMA SeatBackAddsOne ==
    ASSUME TypeOK, SeatsAccounted, NEW s \in Slot, Holders(s) # {}
    PROVE  SeatBack(s) = left[s] + 1
  <1>1. Cardinality(Holders(s)) > 0
    BY HoldersFinite, FS_EmptySet
  <1>2. /\ left[s] + Cardinality(Holders(s)) + leaked[s] = Capacity[s]
        /\ left[s] \in Nat /\ leaked[s] \in Nat /\ Capacity[s] \in Nat
    BY SchedulingAssumption DEF TypeOK, SeatsAccounted
  <1>. QED
    BY <1>1, <1>2, HoldersFinite DEF SeatBack

-----------------------------------------------------------------------------
(* Types *)

LEMMA SeatBackType ==
    ASSUME TypeOK, NEW s \in Slot
    PROVE  SeatBack(s) \in Nat
  BY SchedulingAssumption DEF TypeOK, SeatBack

LEMMA InitTypeOK == Init => TypeOK
  BY SchedulingAssumption DEF Init, TypeOK, Idle, Txn, Pc, NoRow

LEMMA RollbackTypeOK ==
    ASSUME TypeOK, NEW w \in Worker, Rollback(w)
    PROVE  TypeOK'
  BY DEF TypeOK, Rollback, EndTxn, Idle, Txn, Pc

LEMMA StepTypeOK ==
    ASSUME TypeOK, ReadsStayFresh, [Next]_vars
    PROVE  TypeOK'
  <1>1. ASSUME NEW w \in Worker, NEW u \in User, NEW s \in Slot,
               NEW k \in Key \cup {NoKey}, BeginCreate(w, u, s, k)
        PROVE  TypeOK'
    BY <1>1 DEF TypeOK, BeginCreate, Idle, Txn, Pc
  <1>2. ASSUME NEW w \in Worker, NEW u \in User, NEW b \in BookingId,
               BeginCancel(w, u, b)
        PROVE  TypeOK'
    BY <1>2 DEF TypeOK, BeginCancel, Idle, Txn, Pc
  <1>3. ASSUME NEW w \in Worker, NEW u \in User, NEW b \in BookingId,
               NEW s \in Slot, BeginReschedule(w, u, b, s)
        PROVE  TypeOK'
    BY <1>3 DEF TypeOK, BeginReschedule, Idle, Txn, Pc
  <1>4. ASSUME NEW w \in Worker, LockSlotForCreate(w)
        PROVE  TypeOK'
    <2>1. /\ txn[w] \in Txn /\ txn[w].slot \in Slot
          /\ left[txn[w].slot] \in Nat
      BY <1>4, SchedulingAssumption DEF LockSlotForCreate, TypeOK
    <2>2. [txn[w] EXCEPT !.pc = "createWrite", !.seen = left[txn[w].slot]] \in Txn
      BY <2>1 DEF Txn, Pc
    <2>3. txn' = [txn EXCEPT ![w] = [txn[w] EXCEPT !.pc = "createWrite",
                                       !.seen = left[txn[w].slot]]]
      BY <1>4 DEF LockSlotForCreate, TypeOK
    <2>. QED
      BY <1>4, <2>1, <2>2, <2>3 DEF LockSlotForCreate, TypeOK
  <1>5. ASSUME NEW w \in Worker, LockNewSlot(w)
        PROVE  TypeOK'
    <2>1. /\ txn[w] \in Txn /\ txn[w].slot \in Slot
          /\ left[txn[w].slot] \in Nat
      BY <1>5, SchedulingAssumption DEF LockNewSlot, TypeOK
    <2>2. [txn[w] EXCEPT !.pc = "moveOld", !.seen = left[txn[w].slot]] \in Txn
      BY <2>1 DEF Txn, Pc
    <2>3. txn' = [txn EXCEPT ![w] = [txn[w] EXCEPT !.pc = "moveOld",
                                       !.seen = left[txn[w].slot]]]
      BY <1>5 DEF LockNewSlot, TypeOK
    <2>. QED
      BY <1>5, <2>1, <2>2, <2>3 DEF LockNewSlot, TypeOK
  <1>6. ASSUME NEW w \in Worker, CommitCreate(w)
        PROVE  TypeOK'
    <2>1. /\ txn[w].slot \in Slot /\ txn[w].user \in User
          /\ txn[w].key \in Key \cup {NoKey} /\ txn[w].seen - 1 \in Nat
      BY <1>6 DEF CommitCreate, ReadsStayFresh, Fresh, TypeOK, Txn
    <2>2. /\ left' \in [Slot -> Nat] /\ leaked' \in [Slot -> Nat]
      BY <1>6, <2>1 DEF CommitCreate, TypeOK
    <2>3. /\ booking' \in [BookingId -> BookingRow \cup {NoRow}]
          /\ payment' \in [BookingId -> PaymentStatus \cup {"none"}]
      BY <1>6, <2>1
      DEF CommitCreate, TypeOK, BookingRow, Status, PaymentStatus, Unused
    <2>4. /\ slotLock' \in [Slot -> Worker \cup {NoWorker}]
          /\ bookingLock' \in [BookingId -> Worker \cup {NoWorker}]
          /\ txn' \in [Worker -> Txn]
      BY <1>6 DEF CommitCreate, EndTxn, TypeOK, Idle, Txn, Pc
    <2>. QED
      BY <2>2, <2>3, <2>4 DEF TypeOK
  <1>7. ASSUME NEW w \in Worker, CommitCancel(w)
        PROVE  TypeOK'
    <2>1. /\ txn[w].id \in BookingId
          /\ booking[txn[w].id].status \in Status
      BY <1>7 DEF CommitCancel, ReadsStayFresh, Fresh
    <2>2. booking[txn[w].id] \in BookingRow /\ booking[txn[w].id].slot \in Slot
      BY <2>1 DEF TypeOK, NoRow, Status, BookingRow
    <2>3. left' \in [Slot -> Nat]
      BY <1>7, <2>2, SeatBackType DEF CommitCancel, TypeOK
    <2>4. booking' \in [BookingId -> BookingRow \cup {NoRow}]
      BY <1>7, <2>1, <2>2 DEF CommitCancel, TypeOK, BookingRow, Status
    <2>5. /\ slotLock' \in [Slot -> Worker \cup {NoWorker}]
          /\ bookingLock' \in [BookingId -> Worker \cup {NoWorker}]
          /\ txn' \in [Worker -> Txn]
      BY <1>7 DEF CommitCancel, EndTxn, TypeOK, Idle, Txn, Pc
    <2>. QED
      BY <1>7, <2>3, <2>4, <2>5 DEF CommitCancel, TypeOK
  <1>8. ASSUME NEW w \in Worker, CommitReschedule(w)
        PROVE  TypeOK'
    <2>1. /\ txn[w].id \in BookingId /\ txn[w].slot \in Slot
          /\ booking[txn[w].id].status \in Status
          /\ txn[w].seen - 1 \in Nat
      BY <1>8 DEF CommitReschedule, ReadsStayFresh, Fresh, TypeOK, Txn
    <2>2. booking[txn[w].id] \in BookingRow /\ booking[txn[w].id].slot \in Slot
      BY <2>1 DEF TypeOK, NoRow, Status, BookingRow
    <2>3. left' \in [Slot -> Nat]
      BY <1>8, <2>1, <2>2, SeatBackType DEF CommitReschedule, TypeOK
    <2>4. booking' \in [BookingId -> BookingRow \cup {NoRow}]
      BY <1>8, <2>1, <2>2 DEF CommitReschedule, TypeOK, BookingRow
    <2>5. /\ slotLock' \in [Slot -> Worker \cup {NoWorker}]
          /\ bookingLock' \in [BookingId -> Worker \cup {NoWorker}]
          /\ txn' \in [Worker -> Txn]
      BY <1>8 DEF CommitReschedule, EndTxn, TypeOK, Idle, Txn, Pc
    <2>6. leaked' \in [Slot -> Nat]
      BY <1>8, <2>2 DEF CommitReschedule, TypeOK
    <2>. QED
      BY <1>8, <2>3, <2>4, <2>5, <2>6 DEF CommitReschedule, TypeOK
  <1>9. CASE UNCHANGED vars
    BY <1>9 DEF TypeOK, vars
  <1>. QED
    BY <1>1, <1>2, <1>3, <1>4, <1>5, <1>6, <1>7, <1>8, <1>9, RollbackTypeOK
    DEF Next, Begin, Proceed, RejectCreate, RejectReschedule, DeadlockVictim, Abort

-----------------------------------------------------------------------------
(* What a transaction read stays fresh *)

LEMMA InitFresh == Init => ReadsStayFresh
  BY DEF Init, ReadsStayFresh, Fresh, Idle

(* The end of a transaction releases no lock of another. *)
LEMMA EndTxnKeepsLocks ==
    ASSUME TypeOK, NEW w \in Worker, NEW x \in Worker \ {w}, EndTxn(w), Fresh(x)
    PROVE  /\ txn'[x] = txn[x]
           /\ \A s \in Slot : slotLock[s] = x => slotLock'[s] = x
           /\ \A b \in BookingId : bookingLock[b] = x => bookingLock'[b] = x
  BY DEF TypeOK, EndTxn

LEMMA EndedIsFresh ==
    ASSUME TypeOK, NEW w \in Worker, EndTxn(w)
    PROVE  Fresh(w)'
  BY DEF TypeOK, EndTxn, Fresh, Idle

LEMMA RollbackFresh ==
    ASSUME TypeOK, ReadsStayFresh, NEW w \in Worker, Rollback(w)
    PROVE  ReadsStayFresh'
  <1>. SUFFICES ASSUME NEW x \in Worker PROVE Fresh(x)'
    BY DEF ReadsStayFresh
  <1>1. CASE x = w
    BY <1>1, EndedIsFresh DEF Rollback
  <1>2. CASE x # w
    BY <1>2, EndTxnKeepsLocks DEF Rollback, ReadsStayFresh, Fresh
  <1>. QED
    BY <1>1, <1>2

LEMMA StepFresh ==
    ASSUME TypeOK, ReadsStayFresh, [Next]_vars
    PROVE  ReadsStayFresh'
  <1>. USE DEF ReadsStayFresh
  <1>1. ASSUME NEW w \in Worker, NEW u \in User, NEW s \in Slot,
               NEW k \in Key \cup {NoKey}, BeginCreate(w, u, s, k)
        PROVE  ReadsStayFresh'
    BY <1>1 DEF TypeOK, BeginCreate, Fresh, Idle
  <1>2. ASSUME NEW w \in Worker, NEW u \in User, NEW b \in BookingId,
               BeginCancel(w, u, b)
        PROVE  ReadsStayFresh'
    <2>1. Fresh(w)'
      BY <1>2 DEF TypeOK, BeginCancel, Fresh, Idle, BookingRow, NoRow
    <2>2. ASSUME NEW x \in Worker \ {w} PROVE Fresh(x)'
      BY <1>2, <2>2, SchedulingAssumption
      DEF TypeOK, BeginCancel, CanLockBooking, Fresh
    <2>. QED
      BY <2>1, <2>2
  <1>3. ASSUME NEW w \in Worker, NEW u \in User, NEW b \in BookingId,
               NEW s \in Slot, BeginReschedule(w, u, b, s)
        PROVE  ReadsStayFresh'
    <2>1. Fresh(w)'
      BY <1>3 DEF TypeOK, BeginReschedule, Fresh, Idle, Status, Terminal
    <2>2. ASSUME NEW x \in Worker \ {w} PROVE Fresh(x)'
      BY <1>3, <2>2, SchedulingAssumption
      DEF TypeOK, BeginReschedule, CanLockBooking, Fresh
    <2>. QED
      BY <2>1, <2>2
  <1>4. ASSUME NEW w \in Worker, LockSlotForCreate(w)
        PROVE  ReadsStayFresh'
    <2>1. Fresh(w)'
      BY <1>4, SchedulingAssumption DEF TypeOK, LockSlotForCreate, Fresh, HasSeat
    <2>2. ASSUME NEW x \in Worker \ {w} PROVE Fresh(x)'
      BY <1>4, <2>2, SchedulingAssumption
      DEF TypeOK, LockSlotForCreate, CanLockSlot, Fresh
    <2>. QED
      BY <2>1, <2>2
  <1>5. ASSUME NEW w \in Worker, LockNewSlot(w)
        PROVE  ReadsStayFresh'
    <2>1. Fresh(w)'
      BY <1>5, SchedulingAssumption DEF TypeOK, LockNewSlot, Fresh, HasSeat
    <2>2. ASSUME NEW x \in Worker \ {w} PROVE Fresh(x)'
      BY <1>5, <2>2, SchedulingAssumption
      DEF TypeOK, LockNewSlot, CanLockSlot, Fresh
    <2>. QED
      BY <2>1, <2>2
  <1>6. ASSUME NEW w \in Worker, CommitCreate(w)
        PROVE  ReadsStayFresh'
    <2>1. Fresh(w)'
      BY <1>6, EndedIsFresh DEF CommitCreate
    <2>2. ASSUME NEW x \in Worker \ {w} PROVE Fresh(x)'
      <3>1. /\ slotLock[txn[w].slot] = w
            /\ left' = [left EXCEPT ![txn[w].slot] = txn[w].seen - 1]
        BY <1>6 DEF CommitCreate, Fresh
      <3>2. PICK b \in Unused : booking' = [booking EXCEPT ![b] =
                        [status |-> "confirmed", slot |-> txn[w].slot,
                         user |-> txn[w].user, key |-> txn[w].key]]
        BY <1>6 DEF CommitCreate
      <3>3. Fresh(x)
        BY <2>2
      <3>. QED
        BY <1>6, <2>2, <3>1, <3>2, <3>3, EndTxnKeepsLocks
        DEF TypeOK, CommitCreate, Fresh, Unused, Status
    <2>. QED
      BY <2>1, <2>2
  <1>7. ASSUME NEW w \in Worker, CommitCancel(w)
        PROVE  ReadsStayFresh'
    <2>1. Fresh(w)'
      BY <1>7, EndedIsFresh DEF CommitCancel
    <2>2. ASSUME NEW x \in Worker \ {w} PROVE Fresh(x)'
      <3>1. /\ bookingLock[txn[w].id] = w
            /\ slotLock[booking[txn[w].id].slot] \in {NoWorker, w}
        BY <1>7 DEF CommitCancel, CanLockSlot, Fresh
      <3>2. Fresh(x)
        BY <2>2
      <3>. QED
        BY <1>7, <2>2, <3>1, <3>2, EndTxnKeepsLocks, SchedulingAssumption
        DEF TypeOK, CommitCancel, Fresh
    <2>. QED
      BY <2>1, <2>2
  <1>8. ASSUME NEW w \in Worker, CommitReschedule(w)
        PROVE  ReadsStayFresh'
    <2>1. Fresh(w)'
      BY <1>8, EndedIsFresh DEF CommitReschedule
    <2>2. ASSUME NEW x \in Worker \ {w} PROVE Fresh(x)'
      <3>1. /\ bookingLock[txn[w].id] = w
            /\ slotLock[txn[w].slot] = w
            /\ slotLock[booking[txn[w].id].slot] \in {NoWorker, w}
        BY <1>8 DEF CommitReschedule, CanLockSlot, Fresh
      <3>2. Fresh(x)
        BY <2>2
      <3>3. /\ txn'[x] = txn[x]
            /\ \A s \in Slot : slotLock[s] = x => slotLock'[s] = x
            /\ \A b \in BookingId : bookingLock[b] = x => bookingLock'[b] = x
        BY <1>8, <3>2, EndTxnKeepsLocks DEF CommitReschedule
      <3>4. /\ \A s \in Slot : slotLock[s] = x => left'[s] = left[s]
            /\ \A b \in BookingId : bookingLock[b] = x => booking'[b] = booking[b]
        BY <1>8, <3>1, SchedulingAssumption DEF TypeOK, CommitReschedule
      <3>. QED
        BY <3>2, <3>3, <3>4, SchedulingAssumption DEF TypeOK, Fresh
    <2>. QED
      BY <2>1, <2>2
  <1>9. CASE UNCHANGED vars
    BY <1>9 DEF Fresh, vars
  <1>. QED
    BY <1>1, <1>2, <1>3, <1>4, <1>5, <1>6, <1>7, <1>8, <1>9, RollbackFresh
    DEF Next, Begin, Proceed, RejectCreate, RejectReschedule, DeadlockVictim, Abort

-----------------------------------------------------------------------------
(* No seat is lost *)

LEMMA InitSeats == Init => SeatsAccounted
  <1>. SUFFICES ASSUME Init, NEW s \in Slot
                PROVE  left[s] + Cardinality(Holders(s)) + leaked[s] = Capacity[s]
    BY DEF SeatsAccounted
  <1>1. Holders(s) = {}
    BY DEF Init, Holders, Holds, NoRow, Status
  <1>. QED
    BY <1>1, FS_EmptySet, SchedulingAssumption DEF Init

LEMMA SameSeats ==
    ASSUME SeatsAccounted, UNCHANGED <<left, booking, leaked>>
    PROVE  SeatsAccounted'
  BY DEF SeatsAccounted, Holders, Holds

(* A create adds a holder to one slot and takes the seat it saw there. *)
LEMMA CreateSeats ==
    ASSUME IInv, NEW w \in Worker, CommitCreate(w)
    PROVE  SeatsAccounted'
  <1>. USE DEF IInv
  <1>. DEFINE new == txn[w].slot
  <1>1. /\ new \in Slot /\ txn[w].seen = left[new]
        /\ left' = [left EXCEPT ![new] = left[new] - 1]
        /\ leaked' = leaked
    BY DEF ReadsStayFresh, Fresh, CommitCreate
  <1>2. PICK b \in Unused : booking' = [booking EXCEPT ![b] =
                [status |-> "confirmed", slot |-> new,
                 user |-> txn[w].user, key |-> txn[w].key]]
    BY DEF CommitCreate
  <1>3. b \in BookingId /\ booking[b].status = "none"
    BY DEF Unused
  <1>4. ASSUME NEW s \in Slot
        PROVE  left'[s] + Cardinality(Holders(s))' + leaked'[s] = Capacity[s]
    <2>1. /\ left[s] + Cardinality(Holders(s)) + leaked[s] = Capacity[s]
          /\ left[s] \in Nat /\ leaked[s] \in Nat /\ Cardinality(Holders(s)) \in Nat
      BY HoldersFinite DEF SeatsAccounted, TypeOK
    <2>2. b \notin Holders(s)
      BY <1>3 DEF Holders, Holds, Status
    <2>3. CASE s = new
      <3>1. Holders(s)' = Holders(s) \cup {b}
        BY <1>2, <1>3, <2>3 DEF TypeOK, Holders, Holds, Status
      <3>2. left'[s] = left[s] - 1
        BY <1>1, <2>3 DEF TypeOK
      <3>. QED
        <4>1. Cardinality(Holders(s))' = Cardinality(Holders(s)) + 1
          BY <1>3, <2>2, <3>1, HoldersGrow
        <4>. QED
          BY <1>1, <2>1, <3>2, <4>1
    <2>4. CASE s # new
      <3>1. Holders(s)' = Holders(s)
        BY <1>2, <1>3, <2>4 DEF TypeOK, Holders, Holds, Status
      <3>2. left'[s] = left[s]
        BY <1>1, <2>4 DEF TypeOK
      <3>. QED
        BY <1>1, <2>1, <3>1, <3>2
    <2>. QED
      BY <2>3, <2>4
  <1>. QED
    BY <1>4 DEF SeatsAccounted

(* A cancellation takes one holder from a slot and gives its seat back. *)
LEMMA CancelSeats ==
    ASSUME IInv, NEW w \in Worker, CommitCancel(w)
    PROVE  SeatsAccounted'
  <1>. USE DEF IInv
  <1>. DEFINE b == txn[w].id
              old == booking[b].slot
  <1>1. /\ b \in BookingId /\ booking[b].status \in Status \ Terminal
        /\ left' = [left EXCEPT ![old] = SeatBack(old)]
        /\ leaked' = leaked
        /\ booking' = [booking EXCEPT ![b].status = "cancelled"]
    BY DEF ReadsStayFresh, Fresh, CommitCancel
  <1>2. old \in Slot
    BY <1>1 DEF TypeOK, BookingRow, NoRow, Status
  <1>3. b \in Holders(old)
    BY <1>1 DEF Holders, Holds, Terminal
  <1>4. SeatBack(old) = left[old] + 1
    BY <1>2, <1>3, SeatBackAddsOne
  <1>5. ASSUME NEW s \in Slot
        PROVE  left'[s] + Cardinality(Holders(s))' + leaked'[s] = Capacity[s]
    <2>1. /\ left[s] + Cardinality(Holders(s)) + leaked[s] = Capacity[s]
          /\ left[s] \in Nat /\ leaked[s] \in Nat /\ Cardinality(Holders(s)) \in Nat
      BY HoldersFinite DEF SeatsAccounted, TypeOK
    <2>2. CASE s = old
      <3>1. Holders(s)' = Holders(s) \ {b}
        BY <1>1, <2>2 DEF TypeOK, Holders, Holds, Status
      <3>2. left'[s] = left[s] + 1
        BY <1>1, <1>4, <2>2 DEF TypeOK
      <3>. QED
        <4>1. Cardinality(Holders(s))' = Cardinality(Holders(s)) - 1
          BY <1>1, <1>3, <2>2, <3>1, HoldersShrink
        <4>. QED
          BY <1>1, <2>1, <3>2, <4>1
    <2>3. CASE s # old
      <3>1. Holders(s)' = Holders(s)
        BY <1>1, <2>3 DEF TypeOK, Holders, Holds, Status
      <3>2. left'[s] = left[s]
        BY <1>1, <2>3 DEF TypeOK
      <3>. QED
        BY <1>1, <2>1, <3>1, <3>2
    <2>. QED
      BY <2>2, <2>3
  <1>. QED
    BY <1>5 DEF SeatsAccounted

(* A reschedule moves one holder; onto its own slot it burns a seat. *)
LEMMA RescheduleSeats ==
    ASSUME IInv, NEW w \in Worker, CommitReschedule(w)
    PROVE  SeatsAccounted'
  <1>. USE DEF IInv
  <1>. DEFINE b == txn[w].id
              new == txn[w].slot
              old == booking[b].slot
  <1>1. /\ b \in BookingId /\ booking[b].status \in Status \ Terminal
        /\ new \in Slot /\ txn[w].seen = left[new]
        /\ left' = [left EXCEPT ![old] = SeatBack(old), ![new] = left[new] - 1]
        /\ leaked' = IF old = new THEN [leaked EXCEPT ![old] = @ + 1] ELSE leaked
        /\ booking' = [booking EXCEPT ![b].slot = new]
    BY DEF ReadsStayFresh, Fresh, CommitReschedule
  <1>2. old \in Slot
    BY <1>1 DEF TypeOK, BookingRow, NoRow, Status
  <1>3. b \in Holders(old)
    BY <1>1 DEF Holders, Holds, Terminal
  <1>4. SeatBack(old) = left[old] + 1
    BY <1>2, <1>3, SeatBackAddsOne
  <1>5. ASSUME NEW s \in Slot
        PROVE  left'[s] + Cardinality(Holders(s))' + leaked'[s] = Capacity[s]
    <2>1. /\ left[s] + Cardinality(Holders(s)) + leaked[s] = Capacity[s]
          /\ left[s] \in Nat /\ leaked[s] \in Nat /\ Cardinality(Holders(s)) \in Nat
      BY HoldersFinite DEF SeatsAccounted, TypeOK
    <2>2. CASE s = old /\ s = new
      <3>1. Holders(s)' = Holders(s)
        <4>1. \A c \in BookingId : /\ booking'[c].status = booking[c].status
                                   /\ booking'[c].slot = booking[c].slot
          <5>1. booking[b] \in BookingRow /\ booking[b].slot = new
            BY <1>1, <2>2 DEF TypeOK, NoRow, Status
          <5>2. /\ booking'[b].status = booking[b].status
                /\ booking'[b].slot = new
            BY <1>1, <5>1 DEF TypeOK, BookingRow
          <5>3. \A c \in BookingId \ {b} : booking'[c] = booking[c]
            BY <1>1 DEF TypeOK
          <5>. QED
            BY <5>1, <5>2, <5>3
        <4>. QED
          BY <4>1 DEF Holders, Holds
      <3>2. left'[s] = left[s] - 1 /\ leaked'[s] = leaked[s] + 1
        BY <1>1, <2>2 DEF TypeOK
      <3>. QED
        BY <2>1, <3>1, <3>2
    <2>3. CASE s = old /\ s # new
      <3>1. Holders(s)' = Holders(s) \ {b}
        BY <1>1, <2>3 DEF TypeOK, Holders, Holds, Status
      <3>2. left'[s] = left[s] + 1 /\ leaked'[s] = leaked[s]
        BY <1>1, <1>4, <2>3 DEF TypeOK
      <3>. QED
        <4>1. Cardinality(Holders(s))' = Cardinality(Holders(s)) - 1
          BY <1>1, <1>3, <2>3, <3>1, HoldersShrink
        <4>. QED
          BY <2>1, <3>2, <4>1
    <2>4. CASE s # old /\ s = new
      <3>1. b \notin Holders(s) /\ Holders(s)' = Holders(s) \cup {b}
        BY <1>1, <2>4 DEF TypeOK, Holders, Holds, Status, Terminal
      <3>2. left'[s] = left[s] - 1 /\ leaked'[s] = leaked[s]
        BY <1>1, <2>4 DEF TypeOK
      <3>. QED
        <4>1. Cardinality(Holders(s))' = Cardinality(Holders(s)) + 1
          BY <1>1, <3>1, HoldersGrow
        <4>. QED
          BY <2>1, <3>2, <4>1
    <2>5. CASE s # old /\ s # new
      <3>1. Holders(s)' = Holders(s)
        BY <1>1, <2>5 DEF TypeOK, Holders, Holds, Status
      <3>2. left'[s] = left[s] /\ leaked'[s] = leaked[s]
        BY <1>1, <2>5 DEF TypeOK
      <3>. QED
        BY <2>1, <3>1, <3>2
    <2>. QED
      BY <2>2, <2>3, <2>4, <2>5
  <1>. QED
    BY <1>5 DEF SeatsAccounted

LEMMA StepSeats ==
    ASSUME IInv, [Next]_vars
    PROVE  SeatsAccounted'
  <1>1. ASSUME NEW w \in Worker, Begin(w) PROVE SeatsAccounted'
    BY <1>1, SameSeats DEF IInv, Begin, BeginCreate, BeginCancel, BeginReschedule
  <1>2. ASSUME NEW w \in Worker, Proceed(w) PROVE SeatsAccounted'
    BY <1>2, SameSeats, CreateSeats, CancelSeats, RescheduleSeats
    DEF IInv, Proceed, LockSlotForCreate, LockNewSlot, RejectCreate,
        RejectReschedule, Rollback
  <1>3. ASSUME NEW w \in Worker, Rollback(w) PROVE SeatsAccounted'
    BY <1>3, SameSeats DEF IInv, Rollback
  <1>4. CASE UNCHANGED vars
    BY <1>4, SameSeats DEF IInv, vars
  <1>. QED
    BY <1>1, <1>2, <1>3, <1>4 DEF Next, DeadlockVictim, Abort

-----------------------------------------------------------------------------
(* Who can block whom on a slot *)

(* A locked slot belongs to a create that will now write, or to a reschedule
   that has its new slot: nobody else keeps a slot's lock between two steps. *)
SlotLocksOwned ==
    \A s \in Slot : slotLock[s] # NoWorker =>
        /\ txn[slotLock[s]].pc \in {"createWrite", "moveOld"}
        /\ txn[slotLock[s]].slot = s

(* Requests that wait for each other in a circle come down to reschedules that
   hold their new slot and wait for the old one: a create or a cancellation
   holds no slot that closes the circle, so it is never its cause. *)
OnlyReschedulesDeadlock ==
    \A w \in Worker : Deadlocked(w) =>
        \E D \in SUBSET Worker :
            /\ D # {}
            /\ \A x \in D : txn[x].pc = "moveOld" /\ \E y \in D : WaitsFor(x, y)

(* Everybody's locks and requests but those of w stay. *)
LEMMA OthersOwn ==
    ASSUME TypeOK, SlotLocksOwned, NEW w \in Worker,
           \A x \in Worker \ {w} : txn'[x] = txn[x],
           \A s \in Slot : slotLock'[s] # NoWorker /\ slotLock'[s] # w =>
                slotLock'[s] = slotLock[s],
           \A s \in Slot : slotLock'[s] = w =>
                txn'[w].pc \in {"createWrite", "moveOld"} /\ txn'[w].slot = s
    PROVE  SlotLocksOwned'
  <1>. SUFFICES ASSUME NEW s \in Slot, slotLock'[s] # NoWorker
                PROVE  /\ txn'[slotLock'[s]].pc \in {"createWrite", "moveOld"}
                       /\ txn'[slotLock'[s]].slot = s
    BY DEF SlotLocksOwned
  <1>1. CASE slotLock'[s] = w
    BY <1>1
  <1>2. CASE slotLock'[s] # w
    <2>1. slotLock'[s] = slotLock[s] /\ slotLock[s] \in Worker \ {w}
      BY <1>2 DEF TypeOK
    <2>. QED
      BY <2>1 DEF SlotLocksOwned
  <1>. QED
    BY <1>1, <1>2

LEMMA EndTxnOwns ==
    ASSUME TypeOK, SlotLocksOwned, NEW w \in Worker, EndTxn(w)
    PROVE  SlotLocksOwned'
  <1>1. \A s \in Slot : slotLock'[s] # w
    BY SchedulingAssumption DEF EndTxn
  <1>2. /\ \A x \in Worker \ {w} : txn'[x] = txn[x]
        /\ \A s \in Slot : slotLock'[s] # NoWorker => slotLock'[s] = slotLock[s]
    BY DEF TypeOK, EndTxn
  <1>. QED
    BY <1>1, <1>2, OthersOwn

LEMMA StepOwns ==
    ASSUME IInv, SlotLocksOwned, [Next]_vars
    PROVE  SlotLocksOwned'
  <1>. USE DEF IInv
  <1>1. ASSUME NEW w \in Worker, Begin(w) PROVE SlotLocksOwned'
    <2>1. /\ txn[w].pc = "idle"
          /\ slotLock' = slotLock
          /\ \A x \in Worker \ {w} : txn'[x] = txn[x]
      BY <1>1 DEF TypeOK, Begin, BeginCreate, BeginCancel, BeginReschedule
    <2>2. \A s \in Slot : slotLock[s] # w
      BY <2>1, SchedulingAssumption DEF SlotLocksOwned
    <2>. QED
      BY <2>1, <2>2, OthersOwn
  <1>2. ASSUME NEW w \in Worker, LockSlotForCreate(w) \/ LockNewSlot(w)
        PROVE  SlotLocksOwned'
    <2>1. /\ txn[w] \in Txn /\ txn[w].pc \in {"createLock", "moveNew"}
          /\ txn[w].slot \in Slot
      BY <1>2 DEF TypeOK, LockSlotForCreate, LockNewSlot, ReadsStayFresh, Fresh
    <2>2. \A s \in Slot : slotLock[s] # w
      BY <2>1, SchedulingAssumption DEF SlotLocksOwned
    <2>3. /\ txn'[w].pc \in {"createWrite", "moveOld"}
          /\ txn'[w].slot = txn[w].slot
          /\ \A x \in Worker \ {w} : txn'[x] = txn[x]
      BY <1>2, <2>1 DEF TypeOK, Txn, LockSlotForCreate, LockNewSlot
    <2>4. \A s \in Slot : slotLock'[s] =
                IF s = txn[w].slot THEN w ELSE slotLock[s]
      BY <1>2, <2>1 DEF TypeOK, LockSlotForCreate, LockNewSlot
    <2>. QED
      BY <2>2, <2>3, <2>4, OthersOwn
  <1>3. ASSUME NEW w \in Worker, EndTxn(w) PROVE SlotLocksOwned'
    BY <1>3, EndTxnOwns
  <1>4. CASE UNCHANGED vars
    BY <1>4 DEF vars, SlotLocksOwned
  <1>5. ASSUME NEW w \in Worker, Proceed(w)
        PROVE  LockSlotForCreate(w) \/ LockNewSlot(w) \/ EndTxn(w)
    BY <1>5 DEF Proceed, CommitCreate, CommitCancel, CommitReschedule, RejectCreate,
                RejectReschedule, Rollback
  <1>. QED
    BY <1>1, <1>2, <1>3, <1>4, <1>5 DEF Next, DeadlockVictim, Abort, Rollback

LEMMA CirclesOfReschedules ==
    ASSUME IInv, SlotLocksOwned
    PROVE  OnlyReschedulesDeadlock
  <1>1. ASSUME NEW x \in Worker, NEW y \in Worker, WaitsFor(x, y),
               WantedSlot(y) # NoSlot
        PROVE  txn[y].pc = "moveOld"
    <2>. PICK s : s = WantedSlot(x)
      OBVIOUS
    <2>1. s \in Slot /\ slotLock[s] = y
      <3>1. txn[x].pc \in {"createLock", "moveNew", "cancel", "moveOld"} /\ Fresh(x)
        BY <1>1 DEF WaitsFor, WantedSlot, IInv, ReadsStayFresh
      <3>2. CASE txn[x].pc \in {"createLock", "moveNew"}
        BY <1>1, <3>1, <3>2 DEF WaitsFor, WantedSlot, Fresh
      <3>3. CASE txn[x].pc \in {"cancel", "moveOld"}
        <4>1. txn[x].id \in BookingId /\ booking[txn[x].id].status # "none"
          BY <3>1, <3>3 DEF Fresh, Status
        <4>2. booking[txn[x].id].slot \in Slot
          BY <4>1 DEF IInv, TypeOK, BookingRow, NoRow
        <4>. QED
          BY <1>1, <3>3, <4>2 DEF WaitsFor, WantedSlot
      <3>. QED
        BY <3>1, <3>2, <3>3
    <2>2. txn[y].pc \in {"createWrite", "moveOld"}
      BY <2>1, SchedulingAssumption DEF SlotLocksOwned
    <2>. QED
      BY <1>1, <2>2 DEF WantedSlot
  <1>. SUFFICES ASSUME NEW w \in Worker, Deadlocked(w)
                PROVE  \E E \in SUBSET Worker :
                          /\ E # {}
                          /\ \A x \in E : /\ txn[x].pc = "moveOld"
                                          /\ \E y \in E : WaitsFor(x, y)
    BY DEF OnlyReschedulesDeadlock
  <1>2. PICK D \in SUBSET Worker : w \in D /\ \A x \in D : \E y \in D : WaitsFor(x, y)
    BY DEF Deadlocked
  <1>. DEFINE E == {y \in D : \E x \in D : WaitsFor(x, y)}
  <1>3. E \in SUBSET Worker /\ E # {}
    BY <1>2
  <1>4. \A x \in E : \E y \in E : WaitsFor(x, y)
    BY <1>2
  <1>5. \A y \in E : txn[y].pc = "moveOld"
    <2>. SUFFICES ASSUME NEW y \in E PROVE txn[y].pc = "moveOld"
      OBVIOUS
    <2>1. PICK x \in D : WaitsFor(x, y)
      OBVIOUS
    <2>2. WantedSlot(y) # NoSlot
      BY <1>2 DEF WaitsFor
    <2>. QED
      BY <1>1, <1>2, <2>1, <2>2
  <1>. QED
    BY <1>3, <1>4, <1>5

-----------------------------------------------------------------------------
(* Theorems *)

THEOREM Invariance == Spec => []IInv
  <1>1. Init => IInv
    BY InitTypeOK, InitFresh, InitSeats DEF IInv
  <1>2. IInv /\ [Next]_vars => IInv'
    BY StepTypeOK, StepFresh, StepSeats DEF IInv
  <1>. QED
    BY <1>1, <1>2, PTL DEF Spec

(* Rows, locks and requests keep their types in every run of the service. *)
THEOREM TypeCorrect == Spec => []TypeOK
  BY Invariance, PTL DEF IInv

(* No transaction of scheduling/services.py writes on a stale read. *)
THEOREM FreshReads == Spec => []ReadsStayFresh
  BY Invariance, PTL DEF IInv

(* capacity_left, the bookings that hold a seat and the seats burnt by
   reschedules onto the same slot always add up to the capacity. *)
THEOREM SeatAccounting == Spec => []SeatsAccounted
  BY Invariance, PTL DEF IInv

(* Among creates, cancellations and reschedules only reschedules can block each
   other on slots for good, each holding a slot another one wants to leave: the
   order in which reschedule_booking locks its two slots is the one cause. *)
THEOREM DeadlocksAreReschedules == Spec => []OnlyReschedulesDeadlock
  <1>1. Init => SlotLocksOwned
    BY DEF Init, SlotLocksOwned
  <1>2. IInv /\ SlotLocksOwned /\ [Next]_vars => SlotLocksOwned'
    BY StepOwns
  <1>3. IInv /\ SlotLocksOwned => OnlyReschedulesDeadlock
    BY CirclesOfReschedules
  <1>. QED
    BY <1>1, <1>2, <1>3, Invariance, PTL DEF Spec

(* "No slot oversell, ever": for any number of slots, workers and bookings,
   however create, cancel and reschedule interleave, fail or deadlock. *)
THEOREM NeverOversold == Spec => []NoOversell
  <1>1. IInv => NoOversell
    <2>. SUFFICES ASSUME IInv, NEW s \in Slot
                  PROVE  Cardinality(Holders(s)) <= Capacity[s]
      BY DEF NoOversell
    <2>. QED
      BY HoldersFinite DEF IInv, SeatsAccounted, TypeOK
  <1>. QED
    BY <1>1, Invariance, PTL

-----------------------------------------------------------------------------
(* The service implements the ledger *)

(* Whoever the ledger lists in a slot is a booking that holds a seat of it. *)
LEMMA OccupantsAreHolders ==
    ASSUME TypeOK, NEW s \in Slot
    PROVE  Ledger!Occupants(s) = Holders(s)
  BY SchedulingAssumption
  DEF Ledger!Occupants, Holders, Holds, Seats, SeatOf, TypeOK, BookingRow, NoRow, Status

(* A slot with seats left has room in the ledger. *)
LEMMA LeftIsRoom ==
    ASSUME IInv, NEW s \in Slot, left[s] > 0
    PROVE  Ledger!HasSeatLeft(s)
  <1>1. /\ left[s] + Cardinality(Holders(s)) + leaked[s] = Capacity[s]
        /\ left[s] \in Nat /\ leaked[s] \in Nat /\ Cardinality(Holders(s)) \in Nat
    BY HoldersFinite DEF IInv, SeatsAccounted, TypeOK
  <1>2. Ledger!Occupants(s) = Holders(s)
    BY OccupantsAreHolders DEF IInv
  <1>. QED
    BY <1>1, <1>2 DEF Ledger!HasSeatLeft, Ledger!Cardinality, Cardinality

LEMMA SameLedger ==
    ASSUME UNCHANGED booking
    PROVE  UNCHANGED Seats
  BY DEF Seats, SeatOf

LEMMA CreateReserves ==
    ASSUME IInv, NEW w \in Worker, CommitCreate(w)
    PROVE  \E b \in BookingId, s \in Slot : Ledger!Reserve(b, s)
  <1>. DEFINE s == txn[w].slot
  <1>1. s \in Slot /\ left[s] > 0
    BY DEF IInv, ReadsStayFresh, Fresh, CommitCreate
  <1>2. PICK b \in Unused : booking' = [booking EXCEPT ![b] =
                [status |-> "confirmed", slot |-> s,
                 user |-> txn[w].user, key |-> txn[w].key]]
    BY DEF CommitCreate
  <1>3. b \in BookingId /\ Seats[b] = NoSlot
    BY <1>2 DEF Unused, Seats, SeatOf
  <1>4. Seats' = [Seats EXCEPT ![b] = s]
    BY <1>2, <1>3 DEF IInv, TypeOK, Seats, SeatOf
  <1>. QED
    BY <1>1, <1>3, <1>4, LeftIsRoom DEF Ledger!Reserve

LEMMA CancelReleases ==
    ASSUME IInv, NEW w \in Worker, CommitCancel(w)
    PROVE  \E b \in BookingId : Ledger!Release(b)
  <1>1. PICK b \in BookingId :
            /\ booking[b].status \in Status \ Terminal
            /\ booking' = [booking EXCEPT ![b].status = "cancelled"]
    BY DEF IInv, ReadsStayFresh, Fresh, CommitCancel
  <1>2. booking[b] \in BookingRow
    BY <1>1 DEF IInv, TypeOK, NoRow, Status
  <1>3. Seats[b] \in Slot
    BY <1>1, <1>2 DEF Seats, SeatOf, BookingRow, Status, Terminal
  <1>4. SeatOf(b)' = GivenUp
    BY <1>1, <1>2 DEF IInv, TypeOK, SeatOf, BookingRow
  <1>5. \A c \in BookingId \ {b} : SeatOf(c)' = SeatOf(c)
    BY <1>1 DEF IInv, TypeOK, SeatOf
  <1>6. Seats' = [Seats EXCEPT ![b] = GivenUp]
    BY <1>4, <1>5 DEF Seats
  <1>. QED
    BY <1>3, <1>6 DEF Ledger!Release

LEMMA RescheduleMoves ==
    ASSUME IInv, NEW w \in Worker, CommitReschedule(w)
    PROVE  \/ \E b \in BookingId, s \in Slot : Ledger!Move(b, s)
           \/ UNCHANGED Seats
  <1>1. PICK b \in BookingId, new \in Slot :
            /\ booking[b].status \in Status \ Terminal
            /\ left[new] > 0
            /\ booking' = [booking EXCEPT ![b].slot = new]
    BY DEF IInv, ReadsStayFresh, Fresh, CommitReschedule
  <1>2. booking[b] \in BookingRow
    BY <1>1 DEF IInv, TypeOK, NoRow, Status
  <1>3. Seats[b] = booking[b].slot /\ Seats[b] \in Slot
    BY <1>1, <1>2 DEF Seats, SeatOf, BookingRow, Status, Terminal
  <1>4. SeatOf(b)' = new
    BY <1>1, <1>2 DEF IInv, TypeOK, SeatOf, BookingRow, Status, Terminal
  <1>5. \A c \in BookingId \ {b} : SeatOf(c)' = SeatOf(c)
    BY <1>1 DEF IInv, TypeOK, SeatOf
  <1>6. Seats' = [Seats EXCEPT ![b] = new]
    BY <1>4, <1>5 DEF Seats
  <1>7. CASE Seats[b] = new
    BY <1>6, <1>7 DEF Seats
  <1>8. CASE Seats[b] # new
    BY <1>1, <1>3, <1>6, <1>8, LeftIsRoom DEF Ledger!Move
  <1>. QED
    BY <1>7, <1>8

(* Every run of the booking service, however its transactions interleave, is
   a run of the ledger in which each booking is made, moved and cancelled in
   one step. *)
THEOREM ImplementsLedger == Spec => RefinesLedger
  <1>1. Init => Ledger!Init
    BY DEF Init, Ledger!Init, Seats, SeatOf, NoRow
  <1>2. IInv /\ [Next]_vars => [Ledger!Next]_Seats
    <2>. SUFFICES ASSUME IInv, [Next]_vars PROVE [Ledger!Next]_Seats
      OBVIOUS
    <2>1. ASSUME NEW w \in Worker, Begin(w) PROVE UNCHANGED Seats
      BY <2>1, SameLedger DEF Begin, BeginCreate, BeginCancel, BeginReschedule
    <2>2. ASSUME NEW w \in Worker, Rollback(w) PROVE UNCHANGED Seats
      BY <2>2, SameLedger DEF Rollback
    <2>3. ASSUME NEW w \in Worker, LockSlotForCreate(w) \/ LockNewSlot(w)
          PROVE  UNCHANGED Seats
      BY <2>3, SameLedger DEF LockSlotForCreate, LockNewSlot
    <2>4. ASSUME NEW w \in Worker, CommitCreate(w) PROVE Ledger!Next
      BY <2>4, CreateReserves DEF Ledger!Next
    <2>5. ASSUME NEW w \in Worker, CommitCancel(w) PROVE Ledger!Next
      BY <2>5, CancelReleases DEF Ledger!Next
    <2>6. ASSUME NEW w \in Worker, CommitReschedule(w) PROVE [Ledger!Next]_Seats
      BY <2>6, RescheduleMoves DEF Ledger!Next
    <2>7. CASE UNCHANGED vars
      BY <2>7, SameLedger DEF vars
    <2>. QED
      BY <2>1, <2>2, <2>3, <2>4, <2>5, <2>6, <2>7
      DEF Next, Proceed, RejectCreate, RejectReschedule, DeadlockVictim, Abort
  <1>. QED
    BY <1>1, <1>2, Invariance, PTL DEF Spec, RefinesLedger, Ledger!Spec

(***************************************************************************)
(* BookingLifecycle                                                        *)
(***************************************************************************)

(* What the request a staff worker runs owns. *)
Holding(w) ==
    LET d == duty[w] IN
    /\ d.pc # "idle" => txn[w].pc = "idle" /\ d.id \in BookingId
    /\ d.pc = "assign" => bookingLock[d.id] = w /\ d.staff \in Staff
    /\ d.pc = "advance" => jobLock[d.id] = w

DutiesHold == \A w \in Worker : Holding(w)

(* DutyReadsStayFresh, a worker at a time. *)
DutyFresh(w) ==
    LET d == duty[w] IN
    /\ d.pc = "assign" => booking[d.id].status \in {"confirmed", "pending"}
    /\ d.pc = "advance" =>
        /\ job[d.id].staff = d.staff
        /\ job[d.id].status \in DOMAIN Transitions
        /\ d.next = Transitions[job[d.id].status]

(* A payment is inserted with its booking and an intent asked for after that;
   only an existing booking is assigned. *)
RowsHaveBookings ==
    \A b \in BookingId :
        booking[b].status = "none" =>
            /\ payment[b] = "none" /\ b \notin asking /\ job[b] = NoJob
            /\ b \in CardBooking => card[b] = "none"

Base == LifecycleTypeOK /\ ReadsStayFresh

(* Base, what duties own and read, and the properties it is needed for. *)
LifecycleInv ==
    /\ Base
    /\ DutiesHold
    /\ DutyReadsStayFresh
    /\ RowsHaveBookings
    /\ BookingMirrorsJob
    /\ FinishedStaysFinished
    /\ LeftWithinCapacity

(* The steps of a card payment but the one that confirms the booking. *)
PaymentOnly(b) ==
    \/ RequestIntent(b)
    \/ SaveIntent(b)
    \/ Capture(b)
    \/ WebhookDeclines(b)

(* The steps of the booking service, for worker w. *)
ServiceStep(w) == Begin(w) \/ Proceed(w) \/ DeadlockVictim(w) \/ Abort(w)

-----------------------------------------------------------------------------
(* What a step of the booking service does to bookings it has not locked *)

LEMMA ServiceStepIsNext ==
    ASSUME NEW w \in Worker, ServiceStep(w)
    PROVE  Next
  BY DEF ServiceStep, Next

LEMMA BookingStepIsServiceStep ==
    ASSUME NEW w \in Worker, BookingStep(w)
    PROVE  ServiceStep(w) /\ UNCHANGED staffVars
  BY DEF BookingStep, ServiceStep

(* A booking of which the status changes is either new or cancelled under
   the worker's own lock. *)
LEMMA ServiceStepEffect ==
    ASSUME TypeOK, ReadsStayFresh, NEW w \in Worker, ServiceStep(w),
           NEW b \in BookingId
    PROVE  \/ booking'[b].status = booking[b].status /\ payment'[b] = payment[b]
           \/ /\ booking[b].status = "none"
              /\ booking'[b].status = "confirmed"
              /\ payment'[b] = "pending"
           \/ /\ bookingLock[b] = w
              /\ booking[b].status \in Status \ Terminal
              /\ booking'[b].status = "cancelled"
              /\ payment'[b] = payment[b]
  <1>1. CASE Begin(w)
    BY <1>1 DEF Begin, BeginCreate, BeginCancel, BeginReschedule
  <1>2. CASE CommitCreate(w)
    <2>1. PICK c \in Unused :
            /\ booking' = [booking EXCEPT ![c] =
                            [status |-> "confirmed", slot |-> txn[w].slot,
                             user |-> txn[w].user, key |-> txn[w].key]]
            /\ payment' = [payment EXCEPT ![c] = "pending"]
      BY <1>2 DEF CommitCreate
    <2>. QED
      BY <2>1 DEF TypeOK, Unused
  <1>3. CASE CommitCancel(w)
    <2>1. Fresh(w)
      BY DEF ReadsStayFresh
    <2>. QED
      BY <1>3, <2>1 DEF CommitCancel, Fresh, TypeOK
  <1>4. CASE CommitReschedule(w)
    BY <1>4 DEF CommitReschedule, TypeOK
  <1>5. CASE LockSlotForCreate(w) \/ LockNewSlot(w)
    BY <1>5 DEF LockSlotForCreate, LockNewSlot
  <1>6. CASE Rollback(w)
    BY <1>6 DEF Rollback
  <1>. QED
    BY <1>1, <1>2, <1>3, <1>4, <1>5, <1>6
    DEF ServiceStep, Proceed, RejectCreate, RejectReschedule, DeadlockVictim, Abort

(* The transactions and the booking locks of other workers are untouched. *)
LEMMA ServiceStepLeavesOthers ==
    ASSUME TypeOK, NEW w \in Worker, ServiceStep(w), NEW x \in Worker \ {w}
    PROVE  /\ txn'[x] = txn[x]
           /\ \A b \in BookingId : bookingLock[b] = x => bookingLock'[b] = x
  <1>1. CASE Begin(w)
    BY <1>1, SchedulingAssumption
    DEF Begin, BeginCreate, BeginCancel, BeginReschedule, CanLockBooking, TypeOK
  <1>2. CASE EndTxn(w)
    BY <1>2 DEF EndTxn, TypeOK
  <1>3. CASE LockSlotForCreate(w) \/ LockNewSlot(w)
    BY <1>3 DEF LockSlotForCreate, LockNewSlot, TypeOK
  <1>. QED
    BY <1>1, <1>2, <1>3
    DEF ServiceStep, Proceed, CommitCreate, CommitCancel, CommitReschedule,
        RejectCreate, RejectReschedule, DeadlockVictim, Abort, Rollback

(* A worker without a transaction takes no step of one but the first. *)
LEMMA IdleOnlyBegins ==
    ASSUME NEW w \in Worker, txn[w].pc = "idle", ServiceStep(w)
    PROVE  Begin(w)
  <1>1. ~ Proceed(w)
    BY DEF Proceed, LockSlotForCreate, RejectCreate, CommitCreate, CommitCancel,
           LockNewSlot, RejectReschedule, CommitReschedule
  <1>2. WantedSlot(w) = NoSlot
    BY DEF WantedSlot
  <1>3. ~ DeadlockVictim(w)
    BY <1>2 DEF DeadlockVictim, Deadlocked, WaitsFor
  <1>. QED
    BY <1>1, <1>3 DEF ServiceStep, Abort

(* The step writes capacity_left within the capacity. *)
LEMMA ServiceStepWithinCapacity ==
    ASSUME TypeOK, ReadsStayFresh, LeftWithinCapacity,
           NEW w \in Worker, ServiceStep(w)
    PROVE  LeftWithinCapacity'
  <1>0. \A s \in Slot : /\ Capacity[s] \in Nat /\ left[s] \in Nat
                        /\ left[s] <= Capacity[s]
                        /\ SeatBack(s) \in 0 .. Capacity[s]
    BY SchedulingAssumption DEF TypeOK, LeftWithinCapacity, SeatBack
  <1>1. CASE UNCHANGED left
    BY <1>1 DEF LeftWithinCapacity
  <1>2. CASE CommitCreate(w)
    <2>1. /\ txn[w].slot \in Slot /\ txn[w].seen = left[txn[w].slot]
          /\ txn[w].seen > 0
      BY <1>2 DEF CommitCreate, ReadsStayFresh, Fresh
    <2>2. left' = [left EXCEPT ![txn[w].slot] = txn[w].seen - 1]
      BY <1>2 DEF CommitCreate
    <2>. QED
      BY <1>0, <2>1, <2>2 DEF TypeOK, LeftWithinCapacity
  <1>3. CASE CommitCancel(w)
    <2>1. left' = [left EXCEPT ![booking[txn[w].id].slot] =
                        SeatBack(booking[txn[w].id].slot)]
      BY <1>3 DEF CommitCancel
    <2>. QED
      BY <1>0, <2>1 DEF TypeOK, LeftWithinCapacity
  <1>4. CASE CommitReschedule(w)
    <2>1. /\ txn[w].slot \in Slot /\ txn[w].seen = left[txn[w].slot]
          /\ txn[w].seen > 0
      BY <1>4 DEF CommitReschedule, ReadsStayFresh, Fresh
    <2>2. left' = [left EXCEPT ![booking[txn[w].id].slot] =
                                    SeatBack(booking[txn[w].id].slot),
                               ![txn[w].slot] = txn[w].seen - 1]
      BY <1>4 DEF CommitReschedule
    <2>. QED
      BY <1>0, <2>1, <2>2 DEF TypeOK, LeftWithinCapacity
  <1>. QED
    BY <1>1, <1>2, <1>3, <1>4
    DEF ServiceStep, Begin, BeginCreate, BeginCancel, BeginReschedule, Proceed,
        LockSlotForCreate, LockNewSlot, RejectCreate, RejectReschedule,
        DeadlockVictim, Abort, Rollback

-----------------------------------------------------------------------------
(* Types, and the reads of the booking service *)

LEMMA OffDutyType == OffDuty \in Duty /\ OffDuty.pc = "idle"
  BY DEF OffDuty, Duty

LEMMA EndDutyTypes ==
    ASSUME LifecycleTypeOK, NEW w \in Worker, EndDuty(w)
    PROVE  /\ slotLock' \in [Slot -> Worker \cup {NoWorker}]
           /\ bookingLock' \in [BookingId -> Worker \cup {NoWorker}]
           /\ txn' \in [Worker -> Txn]
           /\ jobLock' \in [BookingId -> Worker \cup {NoWorker}]
           /\ duty' \in [Worker -> Duty]
  BY OffDutyType DEF LifecycleTypeOK, TypeOK, EndDuty, EndTxn, Idle, Txn, Pc

LEMMA InitBase == LifecycleInit => Base
  BY InitTypeOK, InitFresh, OffDutyType DEF LifecycleInit, Base, LifecycleTypeOK, CardStage

(* A status written to an existing booking leaves a row. *)
LEMMA StatusWritten ==
    ASSUME TypeOK, NEW b \in BookingId, booking[b].status # "none",
           NEW st \in Status,
           booking' = [booking EXCEPT ![b].status = st]
    PROVE  booking' \in [BookingId -> BookingRow \cup {NoRow}]
  <1>1. booking[b] \in BookingRow
    BY DEF TypeOK, NoRow
  <1>2. [booking[b] EXCEPT !.status = st] \in BookingRow
    BY <1>1 DEF BookingRow
  <1>. QED
    BY <1>2 DEF TypeOK

(* Such a step writes the payment of an existing booking and no other row. *)
LEMMA OnlyThePayment ==
    ASSUME LifecycleInv, NEW b \in CardBooking, PaymentOnly(b)
    PROVE  /\ UNCHANGED <<bookingVars, job, jobLock, duty, reopened>>
           /\ booking[b].status # "none"
           /\ \/ UNCHANGED payment
              \/ payment' = [payment EXCEPT ![b] = "requires_action"]
              \/ payment' = [payment EXCEPT ![b] = "failed"]
  <1>1. b \in BookingId
    BY LifecycleAssumption
  <1>2. booking[b].status # "none"
    BY <1>1
    DEF PaymentOnly, RequestIntent, SaveIntent, Capture, WebhookDeclines,
        LifecycleInv, RowsHaveBookings
  <1>3. UNCHANGED <<bookingVars, job, jobLock, duty, reopened>>
    BY DEF PaymentOnly, RequestIntent, SaveIntent, Capture, WebhookDeclines,
           vars, bookingVars
  <1>. QED
    BY <1>2, <1>3
    DEF PaymentOnly, RequestIntent, SaveIntent, Capture, WebhookDeclines, vars

LEMMA StepTypes ==
    ASSUME LifecycleInv, LifecycleNext
    PROVE  LifecycleTypeOK'
  <1>. USE DEF LifecycleInv, Base, cardVars
  <1>1. ASSUME NEW w \in Worker, BookingStep(w)
        PROVE  LifecycleTypeOK'
    <2>1. TypeOK'
      BY <1>1, BookingStepIsServiceStep, ServiceStepIsNext, StepTypeOK
      DEF LifecycleTypeOK
    <2>. QED
      BY <1>1, <2>1 DEF BookingStep, staffVars, LifecycleTypeOK
  <1>2. ASSUME NEW w \in Worker, NEW b \in BookingId, NEW m \in Staff,
               BeginAssign(w, b, m)
        PROVE  LifecycleTypeOK'
    <2>1. [OffDuty EXCEPT !.pc = "assign", !.id = b, !.staff = m] \in Duty
      BY DEF OffDuty, Duty
    <2>. QED
      BY <1>2, <2>1 DEF BeginAssign, LifecycleTypeOK, TypeOK
  <1>3. ASSUME NEW w \in Worker, NEW b \in BookingId, AcceptJob(w, b)
        PROVE  LifecycleTypeOK'
    <2>1. job[b] \in JobRow
      BY <1>3 DEF AcceptJob, LifecycleTypeOK, NoJob
    <2>2. [job[b] EXCEPT !.status = "accepted"] \in JobRow
      BY <2>1 DEF JobRow, JobStatus
    <2>. QED
      BY <1>3, <2>2 DEF AcceptJob, LifecycleTypeOK, TypeOK, vars
  <1>4. ASSUME NEW w \in Worker, NEW b \in BookingId, BeginAdvance(w, b)
        PROVE  LifecycleTypeOK'
    <2>1. job[b] \in JobRow
      BY <1>4 DEF BeginAdvance, LifecycleTypeOK, NoJob, Transitions
    <2>2. Transitions[job[b].status] \in JobStatus
      BY <1>4 DEF BeginAdvance, Transitions, JobStatus
    <2>3. [OffDuty EXCEPT !.pc = "advance", !.id = b, !.staff = job[b].staff,
                !.next = Transitions[job[b].status]] \in Duty
      BY <2>1, <2>2 DEF OffDuty, Duty, JobRow
    <2>. QED
      BY <1>4, <2>3 DEF BeginAdvance, LifecycleTypeOK, TypeOK, vars
  <1>5. ASSUME NEW w \in Worker, CommitAssign(w)
        PROVE  LifecycleTypeOK'
    <2>1. /\ duty[w].id \in BookingId /\ duty[w].staff \in Staff
          /\ booking[duty[w].id].status # "none"
      BY <1>5 DEF CommitAssign, DutiesHold, Holding, DutyReadsStayFresh
    <2>2. job' \in [BookingId -> JobRow \cup {NoJob}]
      BY <1>5, <2>1 DEF CommitAssign, LifecycleTypeOK, JobRow, JobStatus
    <2>3. booking' \in [BookingId -> BookingRow \cup {NoRow}]
      BY <1>5, <2>1, StatusWritten DEF CommitAssign, Status, LifecycleTypeOK
    <2>. QED
      BY <1>5, <2>2, <2>3, EndDutyTypes DEF CommitAssign, LifecycleTypeOK, TypeOK
  <1>6. ASSUME NEW w \in Worker, CommitAdvance(w)
        PROVE  LifecycleTypeOK'
    <2>. DEFINE b == duty[w].id
    <2>1. /\ b \in BookingId /\ job[b].status \in DOMAIN Transitions
          /\ duty[w].next = Transitions[job[b].status]
      BY <1>6 DEF CommitAdvance, DutiesHold, Holding, DutyReadsStayFresh
    <2>2. /\ duty[w].next \in JobStatus /\ duty[w].next \in Status
          /\ job[b] \in JobRow
      BY <2>1 DEF Transitions, JobStatus, Status, LifecycleTypeOK, NoJob
    <2>3. [job[b] EXCEPT !.status = duty[w].next] \in JobRow
      BY <2>2 DEF JobRow
    <2>4. job' \in [BookingId -> JobRow \cup {NoJob}]
      BY <1>6, <2>1, <2>3 DEF CommitAdvance, LifecycleTypeOK
    <2>5. booking' \in [BookingId -> BookingRow \cup {NoRow}]
      <3>1. booking[b].status # "none"
        BY <2>1 DEF RowsHaveBookings, NoJob, Transitions
      <3>. QED
        BY <1>6, <2>1, <2>2, <3>1, StatusWritten DEF CommitAdvance, LifecycleTypeOK
    <2>. QED
      BY <1>6, <2>4, <2>5, EndDutyTypes DEF CommitAdvance, LifecycleTypeOK, TypeOK
  <1>7. ASSUME NEW w \in Worker, RollbackDuty(w)
        PROVE  LifecycleTypeOK'
    BY <1>7, EndDutyTypes DEF RollbackDuty, LifecycleTypeOK, TypeOK
  <1>8. ASSUME NEW b \in CardBooking, PaymentOnly(b)
        PROVE  LifecycleTypeOK'
    <2>1. asking' \subseteq CardBooking /\ card' \in [CardBooking -> CardStage]
      BY <1>8
      DEF PaymentOnly, RequestIntent, SaveIntent, Capture, WebhookDeclines,
          LifecycleTypeOK, CardStage
    <2>2. payment' \in [BookingId -> PaymentStatus \cup {"none"}]
      BY <1>8, OnlyThePayment DEF LifecycleTypeOK, TypeOK, PaymentStatus
    <2>. QED
      BY <1>8, <2>1, <2>2, OnlyThePayment
      DEF bookingVars, LifecycleTypeOK, TypeOK
  <1>9. ASSUME NEW b \in CardBooking, WebhookConfirms(b)
        PROVE  LifecycleTypeOK'
    <2>0. b \in BookingId
      BY LifecycleAssumption
    <2>1. booking[b].status # "none"
      BY <1>9, <2>0 DEF WebhookConfirms, RowsHaveBookings
    <2>2. booking' \in [BookingId -> BookingRow \cup {NoRow}]
      BY <1>9, <2>0, <2>1, StatusWritten DEF WebhookConfirms, Status, LifecycleTypeOK
    <2>3. payment' \in [BookingId -> PaymentStatus \cup {"none"}]
      BY <1>9 DEF WebhookConfirms, LifecycleTypeOK, TypeOK, PaymentStatus
    <2>4. card' \in [CardBooking -> CardStage] /\ reopened' \subseteq CardBooking
      BY <1>9 DEF WebhookConfirms, LifecycleTypeOK, CardStage
    <2>. QED
      BY <1>9, <2>2, <2>3, <2>4 DEF WebhookConfirms, LifecycleTypeOK, TypeOK
  <1>. QED
    BY <1>1, <1>2, <1>3, <1>4, <1>5, <1>6, <1>7, <1>8, <1>9
    DEF LifecycleNext, CardStep, PaymentOnly, BeginDuty, ProceedDuty,
        CrossedVictim, AbortDuty

(* A worker that owns no row of x leaves what x read as it was. *)
LEMMA EndDutyFresh ==
    ASSUME TypeOK, NEW w \in Worker, NEW x \in Worker, Fresh(x), EndDuty(w),
           UNCHANGED left,
           \A b \in BookingId : bookingLock[b] = x => booking'[b] = booking[b]
    PROVE  x = w \/ Fresh(x)'
  <1>. SUFFICES ASSUME x # w PROVE Fresh(x)'
    OBVIOUS
  <1>1. /\ txn'[x] = txn[x]
        /\ \A s \in Slot : slotLock[s] = x => slotLock'[s] = x
        /\ \A b \in BookingId : bookingLock[b] = x => bookingLock'[b] = x
    BY EndTxnKeepsLocks DEF EndDuty
  <1>. QED
    BY <1>1 DEF Fresh, TypeOK

LEMMA DutyStepFresh ==
    ASSUME TypeOK, ReadsStayFresh, NEW w \in Worker, EndDuty(w), UNCHANGED left,
           \A x \in Worker \ {w} : \A b \in BookingId :
                bookingLock[b] = x => booking'[b] = booking[b]
    PROVE  ReadsStayFresh'
  <1>. SUFFICES ASSUME NEW x \in Worker PROVE Fresh(x)'
    BY DEF ReadsStayFresh
  <1>1. CASE x = w
    BY <1>1, EndedIsFresh DEF EndDuty
  <1>2. CASE x # w
    BY <1>2, EndDutyFresh DEF ReadsStayFresh
  <1>. QED
    BY <1>1, <1>2

LEMMA StepReads ==
    ASSUME LifecycleInv, LifecycleNext
    PROVE  ReadsStayFresh'
  <1>. USE DEF LifecycleInv, Base, LifecycleTypeOK
  <1>1. ASSUME NEW w \in Worker, BookingStep(w)
        PROVE  ReadsStayFresh'
    BY <1>1, BookingStepIsServiceStep, ServiceStepIsNext, StepFresh
  <1>2. ASSUME NEW w \in Worker, NEW b \in BookingId, NEW m \in Staff,
               BeginAssign(w, b, m)
        PROVE  ReadsStayFresh'
    <2>. SUFFICES ASSUME NEW x \in Worker PROVE Fresh(x)'
      BY DEF ReadsStayFresh
    <2>1. CASE x = w
      BY <1>2, <2>1 DEF BeginAssign, Free, Fresh
    <2>2. CASE x # w
      <3>1. Fresh(x) /\ bookingLock[b] # x
        BY <1>2, <2>2, SchedulingAssumption
        DEF BeginAssign, CanLockBooking, ReadsStayFresh
      <3>. QED
        BY <1>2, <3>1 DEF BeginAssign, Fresh, TypeOK
    <2>. QED
      BY <2>1, <2>2
  <1>3. ASSUME NEW w \in Worker, NEW b \in BookingId,
               AcceptJob(w, b) \/ BeginAdvance(w, b)
        PROVE  ReadsStayFresh'
    BY <1>3 DEF AcceptJob, BeginAdvance, vars, ReadsStayFresh, Fresh
  <1>4. ASSUME NEW w \in Worker, CommitAssign(w)
        PROVE  ReadsStayFresh'
    <2>1. /\ duty[w].id \in BookingId /\ bookingLock[duty[w].id] = w
          /\ booking' = [booking EXCEPT ![duty[w].id].status = "assigned"]
      BY <1>4 DEF CommitAssign, DutiesHold, Holding
    <2>2. \A x \in Worker \ {w} : \A b \in BookingId :
                bookingLock[b] = x => booking'[b] = booking[b]
      BY <2>1 DEF TypeOK
    <2>. QED
      BY <1>4, <2>2, DutyStepFresh DEF CommitAssign
  <1>5. ASSUME NEW w \in Worker, CommitAdvance(w)
        PROVE  ReadsStayFresh'
    <2>1. /\ duty[w].id \in BookingId
          /\ bookingLock[duty[w].id] \in {NoWorker, w}
          /\ booking' = [booking EXCEPT ![duty[w].id].status = duty[w].next]
      BY <1>5 DEF CommitAdvance, CanLockBooking, DutiesHold, Holding
    <2>2. \A x \in Worker \ {w} : \A b \in BookingId :
                bookingLock[b] = x => booking'[b] = booking[b]
      BY <2>1, SchedulingAssumption DEF TypeOK
    <2>. QED
      BY <1>5, <2>2, DutyStepFresh DEF CommitAdvance
  <1>6. ASSUME NEW w \in Worker, RollbackDuty(w)
        PROVE  ReadsStayFresh'
    BY <1>6, DutyStepFresh DEF RollbackDuty
  <1>7. ASSUME NEW b \in CardBooking, PaymentOnly(b)
        PROVE  ReadsStayFresh'
    BY <1>7, OnlyThePayment DEF bookingVars, ReadsStayFresh, Fresh
  <1>8. ASSUME NEW b \in CardBooking, WebhookConfirms(b)
        PROVE  ReadsStayFresh'
    <2>. SUFFICES ASSUME NEW x \in Worker PROVE Fresh(x)'
      BY DEF ReadsStayFresh
    <2>1. Fresh(x) /\ bookingLock[b] # x
      BY <1>8, SchedulingAssumption DEF WebhookConfirms, ReadsStayFresh
    <2>. QED
      BY <1>8, <2>1 DEF WebhookConfirms, Fresh, TypeOK
  <1>. QED
    BY <1>1, <1>2, <1>3, <1>4, <1>5, <1>6, <1>7, <1>8
    DEF LifecycleNext, CardStep, PaymentOnly, BeginDuty, ProceedDuty,
        CrossedVictim, AbortDuty

-----------------------------------------------------------------------------
(* What a staff request read stays fresh *)

DutyInv == DutiesHold /\ DutyReadsStayFresh

LEMMA InitDuties == LifecycleInit => DutyInv
  BY OffDutyType
  DEF LifecycleInit, DutyInv, DutiesHold, Holding, DutyReadsStayFresh

(* A request that ends releases no lock of another and changes no row that
   another has locked. *)
LEMMA EndDutyKeeps ==
    ASSUME LifecycleTypeOK, NEW w \in Worker, EndDuty(w), NEW x \in Worker,
           Holding(x), DutyFresh(x),
           \A b \in BookingId : bookingLock[b] = x => booking'[b] = booking[b],
           \A b \in BookingId : jobLock[b] = x => job'[b] = job[b]
    PROVE  x = w \/ (Holding(x) /\ DutyFresh(x))'
  <1>. SUFFICES ASSUME x # w PROVE (Holding(x) /\ DutyFresh(x))'
    OBVIOUS
  <1>1. /\ duty'[x] = duty[x] /\ txn'[x] = txn[x]
        /\ \A b \in BookingId : bookingLock[b] = x => bookingLock'[b] = x
        /\ \A b \in BookingId : jobLock[b] = x => jobLock'[b] = x
    BY DEF EndDuty, EndTxn, LifecycleTypeOK, TypeOK
  <1>2. Holding(x)'
    BY <1>1 DEF Holding
  <1>3. DutyFresh(x)'
    BY <1>1 DEF Holding, DutyFresh
  <1>. QED
    BY <1>2, <1>3

LEMMA EndDutyEnds ==
    ASSUME LifecycleTypeOK, NEW w \in Worker, EndDuty(w)
    PROVE  (Holding(w) /\ DutyFresh(w))'
  BY OffDutyType DEF LifecycleTypeOK, EndDuty, Holding, DutyFresh

LEMMA EndDutyInv ==
    ASSUME LifecycleTypeOK, DutyInv, NEW w \in Worker, EndDuty(w),
           \A x \in Worker \ {w} : \A b \in BookingId :
                /\ bookingLock[b] = x => booking'[b] = booking[b]
                /\ jobLock[b] = x => job'[b] = job[b]
    PROVE  DutyInv'
  <1>. SUFFICES ASSUME NEW x \in Worker PROVE (Holding(x) /\ DutyFresh(x))'
    BY DEF DutyInv, DutiesHold, DutyReadsStayFresh, DutyFresh
  <1>1. CASE x = w
    BY <1>1, EndDutyEnds
  <1>2. CASE x # w
    <2>1. Holding(x) /\ DutyFresh(x)
      BY DEF DutyInv, DutiesHold, DutyReadsStayFresh, DutyFresh
    <2>. QED
      BY <1>2, <2>1, EndDutyKeeps
  <1>. QED
    BY <1>1, <1>2

LEMMA StepDuties ==
    ASSUME LifecycleInv, LifecycleNext
    PROVE  DutyInv'
  <1>. USE DEF LifecycleInv, Base
  <1>0. DutyInv /\ \A x \in Worker : Holding(x) /\ DutyFresh(x)
    BY DEF DutyInv, DutiesHold, DutyReadsStayFresh, DutyFresh
  <1>1. ASSUME NEW w \in Worker, BookingStep(w)
        PROVE  DutyInv'
    <2>. SUFFICES ASSUME NEW x \in Worker PROVE (Holding(x) /\ DutyFresh(x))'
      BY DEF DutyInv, DutiesHold, DutyReadsStayFresh, DutyFresh
    <2>1. ServiceStep(w) /\ UNCHANGED <<job, jobLock, duty>>
      BY <1>1, BookingStepIsServiceStep DEF staffVars
    <2>2. CASE x = w
      <3>1. duty[w].pc = "idle"
        <4>. SUFFICES ASSUME duty[w].pc # "idle" PROVE FALSE
          OBVIOUS
        <4>1. txn[w].pc = "idle"
          BY <1>0 DEF Holding
        <4>2. Begin(w)
          BY <2>1, <4>1, IdleOnlyBegins
        <4>3. ~ Proceed(w) /\ ~ Abort(w)
          BY <4>1 DEF Proceed, Abort, LockSlotForCreate, RejectCreate,
                      CommitCreate, CommitCancel, LockNewSlot, RejectReschedule,
                      CommitReschedule
        <4>4. ~ DeadlockVictim(w)
          BY <4>1 DEF DeadlockVictim, Deadlocked, WaitsFor, WantedSlot
        <4>. QED
          BY <1>1, <4>3, <4>4 DEF BookingStep
      <3>. QED
        BY <2>1, <2>2, <3>1 DEF Holding, DutyFresh
    <2>3. CASE x # w
      <3>1. /\ txn'[x] = txn[x]
            /\ \A b \in BookingId : bookingLock[b] = x => bookingLock'[b] = x
        BY <2>1, <2>3, ServiceStepLeavesOthers DEF LifecycleTypeOK
      <3>2. Holding(x)'
        BY <1>0, <2>1, <3>1 DEF Holding
      <3>3. ASSUME duty[x].pc = "assign"
            PROVE  booking'[duty[x].id].status = booking[duty[x].id].status
        <4>1. /\ duty[x].id \in BookingId /\ bookingLock[duty[x].id] = x
              /\ booking[duty[x].id].status # "none"
          BY <1>0, <3>3 DEF Holding, DutyFresh
        <4>. QED
          BY <2>1, <2>3, <4>1, ServiceStepEffect DEF LifecycleTypeOK
      <3>4. DutyFresh(x)'
        BY <1>0, <2>1, <3>3 DEF DutyFresh
      <3>. QED
        BY <3>2, <3>4
    <2>. QED
      BY <2>2, <2>3
  <1>2. ASSUME NEW w \in Worker, NEW b \in BookingId, NEW m \in Staff,
               BeginAssign(w, b, m)
        PROVE  DutyInv'
    <2>. SUFFICES ASSUME NEW x \in Worker PROVE (Holding(x) /\ DutyFresh(x))'
      BY DEF DutyInv, DutiesHold, DutyReadsStayFresh, DutyFresh
    <2>1. CASE x = w
      BY <1>2, <2>1
      DEF BeginAssign, Free, OffDuty, Holding, DutyFresh, LifecycleTypeOK, TypeOK
    <2>2. CASE x # w
      <3>1. bookingLock[b] # x
        BY <1>2, <2>2, SchedulingAssumption DEF BeginAssign, CanLockBooking
      <3>. QED
        BY <1>0, <1>2, <2>2, <3>1
        DEF BeginAssign, Holding, DutyFresh, LifecycleTypeOK, TypeOK
    <2>. QED
      BY <2>1, <2>2
  <1>3. ASSUME NEW w \in Worker, NEW b \in BookingId, AcceptJob(w, b)
        PROVE  DutyInv'
    <2>. SUFFICES ASSUME NEW x \in Worker PROVE (Holding(x) /\ DutyFresh(x))'
      BY DEF DutyInv, DutiesHold, DutyReadsStayFresh, DutyFresh
    <2>1. job[b].status = "pending" /\ "pending" \notin DOMAIN Transitions
      BY <1>3 DEF AcceptJob, Transitions
    <2>2. /\ job' = [job EXCEPT ![b].status = "accepted"]
          /\ UNCHANGED <<vars, jobLock, duty>>
      BY <1>3 DEF AcceptJob
    <2>3. duty[x].pc = "advance" => duty[x].id # b
      BY <1>0, <2>1 DEF DutyFresh
    <2>. QED
      BY <1>0, <2>2, <2>3 DEF vars, Holding, DutyFresh, LifecycleTypeOK
  <1>4. ASSUME NEW w \in Worker, NEW b \in BookingId, BeginAdvance(w, b)
        PROVE  DutyInv'
    <2>. SUFFICES ASSUME NEW x \in Worker PROVE (Holding(x) /\ DutyFresh(x))'
      BY DEF DutyInv, DutiesHold, DutyReadsStayFresh, DutyFresh
    <2>1. CASE x = w
      BY <1>4, <2>1
      DEF BeginAdvance, vars, Free, OffDuty, Holding, DutyFresh, LifecycleTypeOK
    <2>2. CASE x # w
      <3>1. jobLock[b] # x
        BY <1>4, <2>2, SchedulingAssumption DEF BeginAdvance, CanLockJob
      <3>. QED
        BY <1>0, <1>4, <2>2, <3>1
        DEF BeginAdvance, vars, Holding, DutyFresh, LifecycleTypeOK
    <2>. QED
      BY <2>1, <2>2
  <1>5. ASSUME NEW w \in Worker, CommitAssign(w)
        PROVE  DutyInv'
    <2>1. /\ bookingLock[duty[w].id] = w
          /\ jobLock[duty[w].id] \in {NoWorker, w}
          /\ booking' = [booking EXCEPT ![duty[w].id].status = "assigned"]
          /\ job' = [job EXCEPT ![duty[w].id] =
                        [status |-> "pending", staff |-> duty[w].staff]]
      BY <1>0, <1>5 DEF CommitAssign, CanLockJob, Holding
    <2>2. \A x \in Worker \ {w} : \A b \in BookingId :
                /\ bookingLock[b] = x => booking'[b] = booking[b]
                /\ jobLock[b] = x => job'[b] = job[b]
      BY <2>1, SchedulingAssumption DEF LifecycleTypeOK, TypeOK
    <2>. QED
      BY <1>0, <1>5, <2>2, EndDutyInv DEF CommitAssign
  <1>6. ASSUME NEW w \in Worker, CommitAdvance(w)
        PROVE  DutyInv'
    <2>1. /\ bookingLock[duty[w].id] \in {NoWorker, w}
          /\ jobLock[duty[w].id] = w
          /\ booking' = [booking EXCEPT ![duty[w].id].status = duty[w].next]
          /\ job' = [job EXCEPT ![duty[w].id].status = duty[w].next]
      BY <1>0, <1>6 DEF CommitAdvance, CanLockBooking, Holding
    <2>2. \A x \in Worker \ {w} : \A b \in BookingId :
                /\ bookingLock[b] = x => booking'[b] = booking[b]
                /\ jobLock[b] = x => job'[b] = job[b]
      BY <2>1, SchedulingAssumption DEF LifecycleTypeOK, TypeOK
    <2>. QED
      BY <1>0, <1>6, <2>2, EndDutyInv DEF CommitAdvance
  <1>7. ASSUME NEW w \in Worker, RollbackDuty(w)
        PROVE  DutyInv'
    BY <1>0, <1>7, EndDutyInv DEF RollbackDuty
  <1>8. ASSUME NEW b \in CardBooking, PaymentOnly(b)
        PROVE  DutyInv'
    BY <1>8, OnlyThePayment
    DEF bookingVars, DutyInv, DutiesHold, Holding, DutyReadsStayFresh
  <1>9. ASSUME NEW b \in CardBooking, WebhookConfirms(b)
        PROVE  DutyInv'
    <2>. SUFFICES ASSUME NEW x \in Worker PROVE (Holding(x) /\ DutyFresh(x))'
      BY DEF DutyInv, DutiesHold, DutyReadsStayFresh, DutyFresh
    <2>. QED
      BY <1>0, <1>9
      DEF WebhookConfirms, staffVars, Holding, DutyFresh, LifecycleTypeOK, TypeOK
  <1>. QED
    BY <1>1, <1>2, <1>3, <1>4, <1>5, <1>6, <1>7, <1>8, <1>9
    DEF LifecycleNext, CardStep, PaymentOnly, BeginDuty, ProceedDuty,
        CrossedVictim, AbortDuty

-----------------------------------------------------------------------------
(* The booking and its assignment agree *)

(* RowsHaveBookings, BookingMirrorsJob and FinishedStaysFinished, for one
   booking. *)
Agrees(b) ==
    /\ booking[b].status = "none" =>
            /\ payment[b] = "none" /\ b \notin asking /\ job[b] = NoJob
            /\ b \in CardBooking => card[b] = "none"
    /\ booking[b].status = "assigned" => job[b].status \in {"pending", "accepted"}
    /\ booking[b].status \in {"en_route", "in_progress", "completed"}
            => job[b].status = booking[b].status
    /\ job[b].status = "completed" /\ b \notin reopened
            => booking[b].status = "completed"

LEMMA AgreeingRows ==
    (RowsHaveBookings /\ BookingMirrorsJob /\ FinishedStaysFinished)
        <=> \A b \in BookingId : Agrees(b)
  BY DEF RowsHaveBookings, BookingMirrorsJob, FinishedStaysFinished, Agrees

LEMMA InitAgrees == LifecycleInit => \A b \in BookingId : Agrees(b)
  BY DEF LifecycleInit, Init, NoRow, NoJob, Agrees

(* A step that leaves the rows of b alone. *)
LEMMA SameRowsAgree ==
    ASSUME NEW b \in BookingId, Agrees(b),
           booking'[b].status = booking[b].status, payment'[b] = payment[b],
           job'[b] = job[b], UNCHANGED cardVars
    PROVE  Agrees(b)'
  BY DEF Agrees, cardVars

LEMMA StepAgrees ==
    ASSUME LifecycleInv, LifecycleNext, NEW b \in BookingId
    PROVE  Agrees(b)'
  <1>. USE DEF LifecycleInv, Base, cardVars
  <1>0. Agrees(b) /\ LifecycleTypeOK /\ TypeOK
    BY AgreeingRows DEF LifecycleTypeOK
  <1>1. ASSUME NEW w \in Worker, BookingStep(w)
        PROVE  Agrees(b)'
    <2>1. ServiceStep(w) /\ UNCHANGED <<job, cardVars>>
      BY <1>1, BookingStepIsServiceStep DEF staffVars
    <2>2. CASE booking'[b].status = booking[b].status /\ payment'[b] = payment[b]
      BY <1>0, <2>1, <2>2, SameRowsAgree
    <2>3. CASE /\ booking[b].status = "none"
               /\ booking'[b].status = "confirmed"
               /\ payment'[b] = "pending"
      BY <1>0, <2>1, <2>3 DEF Agrees, NoJob
    <2>4. CASE /\ booking[b].status \in Status \ Terminal
               /\ booking'[b].status = "cancelled"
               /\ payment'[b] = payment[b]
      BY <1>0, <2>1, <2>4 DEF Agrees, Terminal
    <2>. QED
      BY <1>0, <2>1, <2>2, <2>3, <2>4, ServiceStepEffect
  <1>2. ASSUME NEW w \in Worker, NEW c \in BookingId,
               \/ \E m \in Staff : BeginAssign(w, c, m)
               \/ BeginAdvance(w, c)
        PROVE  Agrees(b)'
    BY <1>0, <1>2, SameRowsAgree DEF BeginAssign, BeginAdvance, vars
  <1>3. ASSUME NEW w \in Worker, NEW c \in BookingId, AcceptJob(w, c)
        PROVE  Agrees(b)'
    <2>1. /\ job[c].status = "pending"
          /\ job' = [job EXCEPT ![c].status = "accepted"]
          /\ UNCHANGED <<booking, payment, cardVars>>
      BY <1>3 DEF AcceptJob, vars
    <2>2. CASE b = c
      BY <1>0, <2>1, <2>2 DEF Agrees, NoJob, LifecycleTypeOK
    <2>3. CASE b # c
      BY <1>0, <2>1, <2>3, SameRowsAgree DEF LifecycleTypeOK
    <2>. QED
      BY <2>2, <2>3
  <1>4. ASSUME NEW w \in Worker, CommitAssign(w)
        PROVE  Agrees(b)'
    <2>1. /\ duty[w].id \in BookingId
          /\ booking[duty[w].id].status \in {"confirmed", "pending"}
          /\ job' = [job EXCEPT ![duty[w].id] =
                        [status |-> "pending", staff |-> duty[w].staff]]
          /\ booking' = [booking EXCEPT ![duty[w].id].status = "assigned"]
          /\ UNCHANGED <<payment, cardVars>>
      BY <1>4 DEF CommitAssign, DutiesHold, Holding, DutyReadsStayFresh
    <2>2. CASE b = duty[w].id
      BY <1>0, <2>1, <2>2 DEF Agrees, LifecycleTypeOK, TypeOK
    <2>3. CASE b # duty[w].id
      BY <1>0, <2>1, <2>3, SameRowsAgree DEF LifecycleTypeOK, TypeOK
    <2>. QED
      BY <2>2, <2>3
  <1>5. ASSUME NEW w \in Worker, CommitAdvance(w)
        PROVE  Agrees(b)'
    <2>1. /\ duty[w].id \in BookingId
          /\ duty[w].next \in {"en_route", "in_progress", "completed"}
          /\ job' = [job EXCEPT ![duty[w].id].status = duty[w].next]
          /\ booking' = [booking EXCEPT ![duty[w].id].status = duty[w].next]
          /\ UNCHANGED <<payment, cardVars>>
      BY <1>5
      DEF CommitAdvance, DutiesHold, Holding, DutyReadsStayFresh, Transitions
    <2>2. CASE b = duty[w].id
      <3>1. booking'[b].status = duty[w].next /\ job'[b].status = duty[w].next
        BY <1>0, <2>1, <2>2 DEF LifecycleTypeOK, TypeOK, JobRow, NoJob
      <3>. QED
        BY <2>1, <3>1 DEF Agrees
    <2>3. CASE b # duty[w].id
      BY <1>0, <2>1, <2>3, SameRowsAgree DEF LifecycleTypeOK, TypeOK
    <2>. QED
      BY <2>2, <2>3
  <1>6. ASSUME NEW w \in Worker, RollbackDuty(w)
        PROVE  Agrees(b)'
    BY <1>0, <1>6, SameRowsAgree DEF RollbackDuty
  <1>7. ASSUME NEW c \in CardBooking, PaymentOnly(c)
        PROVE  Agrees(b)'
    <2>1. /\ booking[c].status # "none" /\ UNCHANGED <<booking, job, reopened>>
          /\ \A d \in BookingId \ {c} : payment'[d] = payment[d]
      BY <1>7, OnlyThePayment DEF bookingVars, LifecycleTypeOK, TypeOK
    <2>2. /\ asking' \subseteq asking \cup {c}
          /\ \A d \in CardBooking \ {c} : card'[d] = card[d]
      BY <1>7
      DEF PaymentOnly, RequestIntent, SaveIntent, Capture, WebhookDeclines,
          LifecycleTypeOK
    <2>. QED
      BY <1>0, <2>1, <2>2 DEF Agrees
  <1>8. ASSUME NEW c \in CardBooking, WebhookConfirms(c)
        PROVE  Agrees(b)'
    BY <1>0, <1>8
    DEF WebhookConfirms, Agrees, LifecycleTypeOK, TypeOK
  <1>. QED
    BY <1>1, <1>2, <1>3, <1>4, <1>5, <1>6, <1>7, <1>8
    DEF LifecycleNext, CardStep, PaymentOnly, BeginDuty, ProceedDuty,
        CrossedVictim, AbortDuty

-----------------------------------------------------------------------------
(* The invariant *)

LEMMA StepWithinCapacity ==
    ASSUME LifecycleInv, LifecycleNext
    PROVE  LeftWithinCapacity'
  <1>1. ASSUME NEW w \in Worker, BookingStep(w)
        PROVE  LeftWithinCapacity'
    BY <1>1, BookingStepIsServiceStep, ServiceStepWithinCapacity
    DEF LifecycleInv, Base, LifecycleTypeOK
  <1>2. ASSUME UNCHANGED left
        PROVE  LeftWithinCapacity'
    BY <1>2 DEF LifecycleInv, LeftWithinCapacity
  <1>. QED
    BY <1>1, <1>2
    DEF LifecycleNext, BeginDuty, BeginAssign, AcceptJob, BeginAdvance, vars,
        ProceedDuty, CommitAssign, CommitAdvance, CrossedVictim, AbortDuty,
        RollbackDuty, CardStep, RequestIntent, SaveIntent, Capture,
        WebhookDeclines, WebhookConfirms, bookingVars

LEMMA LifecycleInvInit == LifecycleInit => LifecycleInv
  <1>. SUFFICES ASSUME LifecycleInit PROVE LifecycleInv
    OBVIOUS
  <1>1. Base /\ DutyInv /\ \A b \in BookingId : Agrees(b)
    BY InitBase, InitDuties, InitAgrees
  <1>2. LeftWithinCapacity
    BY SchedulingAssumption DEF LifecycleInit, Init, LeftWithinCapacity
  <1>. QED
    BY <1>1, <1>2, AgreeingRows DEF LifecycleInv, DutyInv

LEMMA LifecycleInvStep ==
    LifecycleInv /\ [LifecycleNext]_lifecycleVars => LifecycleInv'
  <1>1. ASSUME LifecycleInv, LifecycleNext
        PROVE  LifecycleInv'
    <2>1. Base' /\ DutyInv' /\ LeftWithinCapacity'
      BY <1>1, StepTypes, StepReads, StepDuties, StepWithinCapacity DEF Base
    <2>2. \A b \in BookingId : Agrees(b)'
      BY <1>1, StepAgrees
    <2>3. (RowsHaveBookings /\ BookingMirrorsJob /\ FinishedStaysFinished)'
      BY <2>2 DEF RowsHaveBookings, BookingMirrorsJob, FinishedStaysFinished, Agrees
    <2>. QED
      BY <2>1, <2>3 DEF LifecycleInv, DutyInv
  <1>2. ASSUME LifecycleInv, UNCHANGED lifecycleVars
        PROVE  LifecycleInv'
    BY <1>2
    DEF lifecycleVars, vars, staffVars, cardVars, LifecycleInv, Base, LifecycleTypeOK,
        TypeOK, ReadsStayFresh, Fresh, DutiesHold, Holding, DutyReadsStayFresh,
        RowsHaveBookings, BookingMirrorsJob, FinishedStaysFinished,
        LeftWithinCapacity
  <1>. QED
    BY <1>1, <1>2

LEMMA LifecycleInvariant == LifecycleSpec => []LifecycleInv
  BY LifecycleInvInit, LifecycleInvStep, PTL DEF LifecycleSpec

-----------------------------------------------------------------------------
(* Theorems *)

(* Rows, locks and requests of the booking service and of the staff service
   keep their types; no write of a status makes a row out of nothing. *)
THEOREM LifecycleTypeCorrect == LifecycleSpec => []LifecycleTypeOK
  BY LifecycleInvariant, PTL DEF LifecycleInv, Base

(* What a request of either service read under its lock still holds when it
   writes, with the webhook writing bookings in between. *)
THEOREM FreshDuties ==
    LifecycleSpec => [](ReadsStayFresh /\ DutyReadsStayFresh)
  BY LifecycleInvariant, PTL DEF LifecycleInv, Base

(* The booking mirrors the progress of its assignment, however cancellations,
   reassignments, late captures and crossed transactions interleave. *)
THEOREM MirroredJobs == LifecycleSpec => []BookingMirrorsJob
  BY LifecycleInvariant, PTL DEF LifecycleInv

(* A completed job has a completed booking unless the webhook has reopened it,
   whatever late declines and intents make of the status of its payment. *)
THEOREM FinishedForGood == LifecycleSpec => []FinishedStaysFinished
  BY LifecycleInvariant, PTL DEF LifecycleInv

(* capacity_left stays between zero and the capacity, although the webhook
   revives cancelled bookings: the cap of cancel_booking is what keeps it. *)
THEOREM CapacityRespected == LifecycleSpec => []LeftWithinCapacity
  BY LifecycleInvariant, PTL DEF LifecycleInv

(* What a step may do to the assignment of b. *)
Forward(b) ==
    \/ job'[b].status = job[b].status
    \/ job[b].status = "pending" /\ job'[b].status = "accepted"
    \/ /\ job[b].status \in DOMAIN Transitions
       /\ job'[b].status = Transitions[job[b].status]
    \/ job'[b].status = "pending" /\ booking'[b].status = "assigned"

LEMMA StepForward ==
    ASSUME LifecycleInv, LifecycleNext, NEW b \in BookingId
    PROVE  Forward(b)
  <1>. USE DEF LifecycleInv, Base
  <1>1. CASE UNCHANGED job
    BY <1>1 DEF Forward
  <1>2. ASSUME NEW w \in Worker, NEW c \in BookingId, AcceptJob(w, c)
        PROVE  Forward(b)
    BY <1>2 DEF AcceptJob, Forward, LifecycleTypeOK, JobRow, NoJob
  <1>3. ASSUME NEW w \in Worker, CommitAssign(w)
        PROVE  Forward(b)
    <2>1. /\ duty[w].id \in BookingId
          /\ booking[duty[w].id].status # "none"
          /\ job' = [job EXCEPT ![duty[w].id] =
                        [status |-> "pending", staff |-> duty[w].staff]]
          /\ booking' = [booking EXCEPT ![duty[w].id].status = "assigned"]
      BY <1>3 DEF CommitAssign, DutiesHold, Holding, DutyReadsStayFresh
    <2>. QED
      BY <2>1 DEF Forward, LifecycleTypeOK, TypeOK
  <1>4. ASSUME NEW w \in Worker, CommitAdvance(w)
        PROVE  Forward(b)
    <2>1. /\ duty[w].id \in BookingId
          /\ job[duty[w].id].status \in DOMAIN Transitions
          /\ duty[w].next = Transitions[job[duty[w].id].status]
          /\ job' = [job EXCEPT ![duty[w].id].status = duty[w].next]
      BY <1>4 DEF CommitAdvance, DutiesHold, Holding, DutyReadsStayFresh
    <2>. QED
      BY <2>1 DEF Forward, LifecycleTypeOK, JobRow, NoJob
  <1>. QED
    BY <1>1, <1>2, <1>3, <1>4
    DEF LifecycleNext, BookingStep, BeginDuty, BeginAssign, BeginAdvance,
        ProceedDuty, CrossedVictim, AbortDuty, RollbackDuty, CardStep,
        RequestIntent, SaveIntent, Capture, WebhookDeclines,
        WebhookConfirms, staffVars, vars

(* No step takes a job back, or skips one of TRANSITIONS, but a new
   assignment, which says so in the booking. *)
THEOREM OnlyForward == LifecycleSpec => JobsMoveForward
  <1>1. LifecycleInv /\ [LifecycleNext]_lifecycleVars
            => [\A b \in BookingId : Forward(b)]_job
    <2>1. ASSUME LifecycleInv, LifecycleNext
          PROVE  \A b \in BookingId : Forward(b)
      BY <2>1, StepForward
    <2>. QED
      BY <2>1 DEF lifecycleVars, staffVars
  <1>. QED
    BY <1>1, LifecycleInvariant, PTL DEF LifecycleSpec, JobsMoveForward, Forward
=============================================================================
