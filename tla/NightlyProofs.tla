---------------------------- MODULE NightlyProofs ----------------------------
(***************************************************************************)
(* Proofs about the module Nightly.  NightInv is the inductive invariant:  *)
(* the slots a generation has passed are there (GenerationInv), every      *)
(* booking has its slot row and holds one of its seats (SeatInv), and      *)
(* executions keep off each other's slots and look forward only (RuleInv). *)
(***************************************************************************)
EXTENDS Nightly, FiniteSetTheorems, TLAPS

(* A generation under way has left no hole behind it. *)
Reached(j) ==
    job[j].pc # "idle" =>
        /\ job[j].from \in 1 .. today
        /\ job[j].todo \subseteq Wanted(job[j].from)
        /\ \A k \in Wanted(job[j].from) \ job[j].todo : rows[k] # <<>>

(* Until two generations meet one is under way at most, and what it has read
   as missing is still missing when it inserts. *)
OneGeneration ==
    met \/ \A i, j \in Job : job[i].pc # "idle" /\ job[j].pc # "idle" => i = j

InsertsMissing(j) ==
    met \/ (job[j].pc = "insert" => \A k \in SlotKey : Comes(j, k) => rows[k] = <<>>)

GenerationInv ==
    /\ EveryOpenDayHasSlots
    /\ OneGeneration
    /\ \A j \in Job : Reached(j) /\ InsertsMissing(j)

KeyOf(i) == <<booking[i].date, booking[i].start>>

(* The slot row of a booking is there. *)
BookingsHaveSlots == \A i \in DOMAIN booking : booking[i].slot \in 1 .. Len(rows[KeyOf(i)])

SeatInv == BookingsHaveSlots /\ SeatsMatchBookings

(* Booking i is one that rule r has made. *)
Made(i, r) ==
    /\ booking[i].user = r /\ booking[i].by = "rule"
    /\ booking[i].status \notin {"failed", "undone"}

Alive(i, r) == Made(i, r) /\ booking[i].status = "booked"

(* An execution holds the lock of every slot it has taken a seat of. *)
OwnBookings ==
    \A e \in Run : \A i \in run[e].mine :
        /\ i \in DOMAIN booking
        /\ booking[i].user \in Rule /\ booking[i].by = "rule"
        /\ booking[i].status \in {"booked", "failed"}
        /\ SlotOf(booking[i]) \in run[e].held
        /\ run[e].plan[booking[i].user] # {}

(* An execution works on the rules it has plans for. *)
Plans ==
    \A e \in Run, r \in Rule :
        /\ run[e].todo[r] \subseteq run[e].plan[r]
        /\ run[e].plan[r] = {} =>
                run[e].saved[r] = 0 /\ \A d \in Day : <<r, d>> \notin run[e].saving

(* Two executions share no lock, and no rule they have not crossed over. *)
Apart ==
    \A e, f \in Run : e # f =>
        /\ run[e].held \cap run[f].held = {}
        /\ \A r \in Rule \ crossed : run[e].plan[r] = {} \/ run[f].plan[r] = {}

(* RuleBooksOnce, two bookings at a time. *)
OnceAlive ==
    \A r \in Rule : \A i, j \in DOMAIN booking :
        Alive(i, r) /\ Alive(j, r) /\ booking[i].date = booking[j].date /\ i # j =>
            r \in crossed /\ SlotOf(booking[i]) # SlotOf(booking[j])

(* The rules whose last_booking_date every execution has known. *)
Known == Rule \ (crossed \cup forgot)

OnceEver ==
    \A r \in Known : \A i, j \in DOMAIN booking :
        Made(i, r) /\ Made(j, r) /\ booking[i].date = booking[j].date => i = j

Saves(e, r) == \E d \in Day : <<r, d>> \in run[e].saving

(* Booking i of rule r lies behind what execution e has still to do, and the
   day e is about to save or has saved last does not fall behind it. *)
Behind(i, e, r) ==
    /\ \A d \in run[e].todo[r] : booking[i].date < d
    /\ \A d \in Day : <<r, d>> \in run[e].saving => booking[i].date <= d
    /\ run[e].saved[r] # 0 => booking[i].date <= run[e].saved[r] \/ Saves(e, r)
    /\ i \in run[e].mine => run[e].saved[r] # 0 \/ Saves(e, r)

(* A known rule looks forward only. *)
LooksForward ==
    \A r \in Known : \A i \in DOMAIN booking : Made(i, r) =>
        /\ booking[i].date <= rule[r].last \/ Unseen(i)
        /\ \A e \in Run : Behind(i, e, r)

RuleInv == OwnBookings /\ Plans /\ Apart /\ OnceAlive /\ OnceEver /\ LooksForward

NightInv == TypeOK /\ GenerationInv /\ SeatInv /\ RuleInv

-----------------------------------------------------------------------------
(* Constants, numbers, sequences *)

LEMMA Bounds ==
    /\ Week \in Nat \ {0} /\ DaysAhead \in Nat \ {0} /\ LastDay \in Nat \ {0}
    /\ Seats \in Nat \ {0} /\ LeadDays \in Nat
    /\ MaxByHand \in Nat /\ MaxAsked \in Nat
    /\ Horizon \in Nat /\ LastDay + DaysAhead <= Horizon
    /\ \A d \in Day : d \in Nat /\ 1 <= d /\ d <= Horizon
  BY NightlyAssumption DEF Horizon, Day

(* A number of a set that no other one exceeds is its largest. *)
LEMMA MaxFrom ==
    ASSUME NEW S, NEW x \in S, \A y \in S : x >= y
    PROVE  Max(S) \in S /\ \A y \in S : Max(S) >= y
  BY DEF Max

LEMMA MaxOfTwo ==
    ASSUME NEW a \in Int, NEW b \in Int
    PROVE  Max({a, b}) = IF a >= b THEN a ELSE b
  <1>1. CASE a >= b
    <2>1. Max({a, b}) \in {a, b} /\ \A y \in {a, b} : Max({a, b}) >= y
      BY <1>1, MaxFrom
    <2>. QED
      BY <1>1, <2>1
  <1>2. CASE ~(a >= b)
    <2>1. Max({a, b}) \in {a, b} /\ \A y \in {a, b} : Max({a, b}) >= y
      BY <1>2, MaxFrom
    <2>. QED
      BY <1>2, <2>1
  <1>. QED
    BY <1>1, <1>2

LEMMA MinOfTwo ==
    ASSUME NEW a \in Int, NEW b \in Int
    PROVE  Min({a, b}) = IF a <= b THEN a ELSE b
  <1>1. \E x \in {a, b} : \A y \in {a, b} : x <= y
    OBVIOUS
  <1>2. Min({a, b}) \in {a, b} /\ \A y \in {a, b} : Min({a, b}) <= y
    BY <1>1 DEF Min
  <1>. QED
    BY <1>2

LEMMA Elements ==
    ASSUME NEW S, NEW s \in Seq(S)
    PROVE  /\ Len(s) \in Nat /\ DOMAIN s = 1 .. Len(s)
           /\ s = <<>> <=> Len(s) = 0
           /\ \A i \in 1 .. Len(s) : s[i] \in S
  OBVIOUS

LEMMA OneMore ==
    ASSUME NEW S, NEW s \in Seq(S), NEW e \in S
    PROVE  /\ Append(s, e) \in Seq(S) /\ Len(s) \in Nat
           /\ Len(Append(s, e)) = Len(s) + 1
           /\ Append(s, e)[Len(s) + 1] = e
           /\ \A i \in 1 .. Len(s) : Append(s, e)[i] = s[i]
  OBVIOUS

LEMMA IsRow ==
    ASSUME NEW S, NEW n \in Nat, NEW f \in [1 .. n -> S]
    PROVE  f \in Seq(S) /\ Len(f) = n
  OBVIOUS

-----------------------------------------------------------------------------
(* Slots and bookings *)

LEMMA SlotRowsAre ==
    ASSUME NEW s \in SlotRows
    PROVE  /\ s[1] \in SlotKey /\ s[2] \in 1 .. Len(rows[s[1]])
           /\ s = <<s[1], s[2]>> /\ s[1] = <<s[1][1], s[1][2]>>
           /\ s[1][1] \in Day /\ s[1][2] \in Starts
  <1>1. PICK k \in SlotKey : s \in {k} \X (1 .. Len(rows[k]))
    BY DEF SlotRows
  <1>. QED
    BY <1>1 DEF SlotKey

LEMMA RowsAreSlots ==
    ASSUME NEW k \in SlotKey, NEW i \in 1 .. Len(rows[k])
    PROVE  <<k, i>> \in SlotRows
  <1>1. <<k, i>> \in {k} \X (1 .. Len(rows[k]))
    OBVIOUS
  <1>. QED
    BY <1>1 DEF SlotRows

LEMMA RowLength ==
    ASSUME TypeOK, NEW k \in SlotKey
    PROVE  /\ rows[k] \in Seq(0 .. Seats) /\ Len(rows[k]) \in Nat
           /\ rows[k] = <<>> <=> Len(rows[k]) = 0
           /\ \A i \in 1 .. Len(rows[k]) : rows[k][i] \in 0 .. Seats
  <1>1. rows[k] \in Seq(0 .. Seats)
    BY DEF TypeOK
  <1>. QED
    BY <1>1, Elements

LEMMA BookingsAre ==
    ASSUME TypeOK
    PROVE  /\ DOMAIN booking = 1 .. Len(booking) /\ Len(booking) \in Nat
           /\ booking \in Seq(BookingRow)
  BY DEF TypeOK

LEMMA BookingIs ==
    ASSUME TypeOK, NEW i \in DOMAIN booking
    PROVE  /\ booking[i] \in BookingRow /\ i \in 1 .. Len(booking)
           /\ booking[i].date \in Day /\ booking[i].start \in Starts
           /\ booking[i].user \in Customer
           /\ booking[i].slot \in Nat \ {0} /\ KeyOf(i) \in SlotKey
           /\ booking[i].status \in Status
           /\ SlotOf(booking[i]) = <<KeyOf(i), booking[i].slot>>
  <1>1. i \in 1 .. Len(booking)
    BY BookingsAre
  <1>2. booking[i] \in BookingRow
    BY <1>1, BookingsAre
  <1>. PICK b \in BookingRow : b = booking[i]
    BY <1>2
  <1>3. /\ b.date \in Day /\ b.start \in Starts /\ b.user \in Customer
        /\ b.slot \in Nat \ {0} /\ b.status \in Status
    BY DEF BookingRow
  <1>. QED
    BY <1>1, <1>3 DEF KeyOf, SlotKey, SlotOf

LEMMA NewBookingIs ==
    ASSUME NEW c \in Customer, NEW s \in SlotRows, TypeOK, NEW st \in Status,
           NEW by \in {"rule", "hand"}
    PROVE  /\ NewBooking(c, s, st, by) \in BookingRow
           /\ NewBooking(c, s, st, by).user = c
           /\ NewBooking(c, s, st, by).date = s[1][1]
           /\ NewBooking(c, s, st, by).start = s[1][2]
           /\ NewBooking(c, s, st, by).slot = s[2]
           /\ NewBooking(c, s, st, by).status = st
           /\ NewBooking(c, s, st, by).by = by
  <1>1. s[1] \in SlotKey /\ s[1][1] \in Day /\ s[1][2] \in Starts /\ s[2] \in Nat \ {0}
    BY SlotRowsAre, RowLength
  <1>. QED
    BY <1>1 DEF NewBooking, BookingRow

LEMMA HoldersFinite ==
    ASSUME TypeOK, NEW s
    PROVE  IsFiniteSet(HoldersOf(s)) /\ Cardinality(HoldersOf(s)) \in Nat
  <1>1. IsFiniteSet(DOMAIN booking)
    BY BookingsAre, FS_Interval
  <1>2. IsFiniteSet(HoldersOf(s))
    BY <1>1, FS_Subset DEF HoldersOf
  <1>. QED
    BY <1>2, FS_CardinalityType

-----------------------------------------------------------------------------
(* Types *)

LEMMA NoRuleIs == NoRule \in RuleRow
  BY Bounds DEF NoRule, RuleRow

LEMMA InitTypes == Init => TypeOK
  <1>. SUFFICES ASSUME Init PROVE TypeOK
    OBVIOUS
  <1>1. today \in 1 .. LastDay /\ asked \in 0 .. MaxAsked /\ filled \in 0 .. Horizon
    BY Bounds DEF Init
  <1>2. rows \in [SlotKey -> Seq(0 .. Seats)] /\ booking \in Seq(BookingRow)
    BY DEF Init
  <1>3. rule \in [Rule -> RuleRow] /\ edit \in [Rule -> RuleRow]
    BY NoRuleIs DEF Init
  <1>4. run \in [Run -> RunRow]
    BY Bounds DEF Init, NoRun, RunRow
  <1>5. job \in [Job -> [pc : {"idle", "get", "insert"}, from : 0 .. LastDay,
                         todo : SUBSET SlotKey]]
    BY Bounds DEF Init, Resting
  <1>6. met \in BOOLEAN /\ forgot \subseteq Rule /\ crossed \subseteq Rule
    BY DEF Init
  <1>. QED
    BY <1>1, <1>2, <1>3, <1>4, <1>5, <1>6 DEF TypeOK

JobRow == [pc : {"idle", "get", "insert"}, from : 0 .. LastDay, todo : SUBSET SlotKey]

LEMMA JobIs ==
    ASSUME TypeOK, NEW j \in Job
    PROVE  /\ job \in [Job -> JobRow] /\ job[j].pc \in {"idle", "get", "insert"}
           /\ job[j].from \in 0 .. LastDay /\ job[j].todo \in SUBSET SlotKey
           /\ Resting \in JobRow
           /\ job[j] = [pc |-> job[j].pc, from |-> job[j].from, todo |-> job[j].todo]
  <1>1. job \in [Job -> JobRow]
    BY DEF TypeOK, JobRow
  <1>2. Resting \in JobRow
    BY Bounds DEF Resting, JobRow
  <1>. PICK g \in JobRow : g = job[j]
    BY <1>1
  <1>3. g.pc \in {"idle", "get", "insert"} /\ g.from \in 0 .. LastDay /\ g.todo \in SUBSET SlotKey
        /\ g = [pc |-> g.pc, from |-> g.from, todo |-> g.todo]
    BY DEF JobRow
  <1>. QED
    BY <1>1, <1>2, <1>3

LEMMA GenerationTypes ==
    ASSUME TypeOK, NEW j \in Job, Generate(j)
    PROVE  TypeOK'
  <1>1. job' \in [Job -> JobRow]
    <2>1. CASE BeginGeneration(j)
      <3>1. [pc |-> "get", from |-> today, todo |-> Wanted(today)] \in JobRow
        BY DEF JobRow, TypeOK, Wanted
      <3>. QED
        BY <2>1, <3>1, JobIs DEF BeginGeneration
    <2>2. CASE GetSlot(j)
      <3>1. PICK k \in SlotKey :
                \/ job' = [job EXCEPT ![j].pc = "insert"]
                \/ job' = [job EXCEPT ![j].todo = @ \ {k}]
        BY <2>2 DEF GetSlot
      <3>. PICK g \in JobRow : g = job[j]
        BY JobIs
      <3>2. [g EXCEPT !.pc = "insert"] \in JobRow /\ [g EXCEPT !.todo = @ \ {k}] \in JobRow
        BY DEF JobRow
      <3>. QED
        BY <3>1, <3>2, JobIs
    <2>3. CASE InsertSlot(j)
      <3>1. PICK k \in SlotKey : job' = [job EXCEPT ![j].pc = "get", ![j].todo = @ \ {k}]
        BY <2>3 DEF InsertSlot
      <3>. QED
        BY <3>1, JobIs DEF JobRow
    <2>4. CASE FailGeneration(j) \/ EndGeneration(j) \/ KillGeneration(j)
      BY <2>4, JobIs DEF FailGeneration, EndGeneration, KillGeneration
    <2>. QED
      BY <2>1, <2>2, <2>3, <2>4 DEF Generate
  <1>2. rows' \in [SlotKey -> Seq(0 .. Seats)]
    <2>1. CASE InsertSlot(j)
      <3>1. PICK k \in SlotKey :
                rows' = IF Refused(k) THEN rows ELSE [rows EXCEPT ![k] = Append(@, Seats)]
        BY <2>1 DEF InsertSlot
      <3>2. Append(rows[k], Seats) \in Seq(0 .. Seats)
        <4>1. Seats \in 0 .. Seats
          BY Bounds
        <4>. QED
          BY <4>1, RowLength, OneMore
      <3>. QED
        BY <3>1, <3>2 DEF TypeOK
    <2>2. CASE ~InsertSlot(j)
      <3>1. rows' = rows
        BY <2>2 DEF Generate, BeginGeneration, GetSlot, FailGeneration, EndGeneration,
            KillGeneration, LeftAsItIs
      <3>. QED
        BY <3>1 DEF TypeOK
    <2>. QED
      BY <2>1, <2>2
  <1>3. asked' \in 0 .. MaxAsked /\ met' \in BOOLEAN
    <2>1. CASE BeginGeneration(j)
      BY <2>1, Bounds DEF BeginGeneration, TypeOK
    <2>2. CASE ~BeginGeneration(j)
      BY <2>2 DEF Generate, GetSlot, InsertSlot, FailGeneration, EndGeneration,
          KillGeneration, TypeOK
    <2>. QED
      BY <2>1, <2>2
  <1>4. filled' \in 0 .. Horizon
    <2>1. CASE EndGeneration(j)
      <3>0. job[j].from \in 0 .. LastDay
        BY JobIs
      <3>1. PICK b \in Int : b = job[j].from + DaysAhead
        BY <3>0, Bounds
      <3>2. b \in 0 .. Horizon /\ filled \in 0 .. Horizon
        BY <3>0, <3>1, Bounds DEF TypeOK
      <3>3. filled' = IF filled >= b THEN filled ELSE b
        BY <2>1, <3>1, <3>2, MaxOfTwo DEF EndGeneration
      <3>. QED
        BY <3>2, <3>3
    <2>2. CASE ~EndGeneration(j)
      BY <2>2 DEF Generate, BeginGeneration, GetSlot, InsertSlot, FailGeneration,
          KillGeneration, TypeOK
    <2>. QED
      BY <2>1, <2>2
  <1>5. /\ UNCHANGED <<today, booking, rule, edit, run, forgot, crossed>>
    BY DEF Generate, BeginGeneration, GetSlot, InsertSlot, FailGeneration, EndGeneration,
        KillGeneration, ruleVars
  <1>. QED
    BY <1>1, <1>2, <1>3, <1>4, <1>5 DEF TypeOK, JobRow

(* The rows after the seats of the slot row s change. *)
LEMMA OneSeat ==
    ASSUME TypeOK, NEW s \in SlotRows, NEW v \in 0 .. Seats,
           rows' = [rows EXCEPT ![s[1]][s[2]] = v]
    PROVE  /\ rows' \in [SlotKey -> Seq(0 .. Seats)]
           /\ \A l \in SlotKey : Len(rows'[l]) = Len(rows[l])
           /\ rows'[s[1]][s[2]] = v
           /\ \A x \in SlotRows : x # s => rows'[x[1]][x[2]] = rows[x[1]][x[2]]
  <1>. PICK k \in SlotKey : k = s[1]
    BY SlotRowsAre
  <1>. PICK i \in 1 .. Len(rows[k]) : i = s[2]
    BY SlotRowsAre
  <1>. PICK q \in Seq(0 .. Seats) : q = rows[k]
    BY RowLength
  <1>1. rows' = [rows EXCEPT ![k] = [q EXCEPT ![i] = v]]
    BY DEF TypeOK
  <1>2. rows'[k] = [q EXCEPT ![i] = v] /\ \A l \in SlotKey \ {k} : rows'[l] = rows[l]
    BY <1>1 DEF TypeOK
  <1>3. /\ [q EXCEPT ![i] = v] \in Seq(0 .. Seats) /\ Len([q EXCEPT ![i] = v]) = Len(q)
        /\ [q EXCEPT ![i] = v][i] = v
        /\ \A h \in 1 .. Len(q) : h # i => [q EXCEPT ![i] = v][h] = q[h]
    OBVIOUS
  <1>4. rows' \in [SlotKey -> Seq(0 .. Seats)]
    BY <1>1, <1>3 DEF TypeOK
  <1>5. \A l \in SlotKey : Len(rows'[l]) = Len(rows[l])
    BY <1>2, <1>3
  <1>6. \A x \in SlotRows : x # s => rows'[x[1]][x[2]] = rows[x[1]][x[2]]
    <2>. SUFFICES ASSUME NEW x \in SlotRows, x # s
                  PROVE  rows'[x[1]][x[2]] = rows[x[1]][x[2]]
      OBVIOUS
    <2>1. /\ x[1] \in SlotKey /\ x[2] \in 1 .. Len(rows[x[1]])
          /\ x = <<x[1], x[2]>> /\ s = <<k, i>>
      BY SlotRowsAre
    <2>2. CASE x[1] # k
      BY <1>2, <2>1, <2>2
    <2>3. CASE x[1] = k
      <3>1. x[2] # i /\ x[2] \in 1 .. Len(q)
        BY <2>1, <2>3
      <3>. QED
        BY <1>2, <1>3, <2>3, <3>1
    <2>. QED
      BY <2>2, <2>3
  <1>. QED
    BY <1>2, <1>3, <1>4, <1>5, <1>6

LEMMA BookingStatus ==
    ASSUME TypeOK, NEW i \in DOMAIN booking, NEW st \in {"completed", "cancelled"},
           booking' = [booking EXCEPT ![i].status = st]
    PROVE  /\ booking' \in Seq(BookingRow) /\ DOMAIN booking' = DOMAIN booking
           /\ booking'[i] = [booking[i] EXCEPT !.status = st]
           /\ \A h \in DOMAIN booking : h # i => booking'[h] = booking[h]
           /\ booking'[i].status = st
           /\ \A h \in DOMAIN booking :
                /\ booking'[h].user = booking[h].user /\ booking'[h].by = booking[h].by
                /\ booking'[h].date = booking[h].date /\ booking'[h].start = booking[h].start
                /\ booking'[h].slot = booking[h].slot
  <1>. PICK b \in BookingRow : b = booking[i]
    BY BookingIs
  <1>. PICK e : e = [b EXCEPT !.status = st]
    OBVIOUS
  <1>1. /\ e \in BookingRow /\ e.status = st /\ e.user = b.user /\ e.by = b.by
        /\ e.date = b.date /\ e.start = b.start /\ e.slot = b.slot
    BY DEF BookingRow, Status
  <1>2. booking' = [booking EXCEPT ![i] = e]
    BY DEF TypeOK
  <1>3. /\ booking' \in Seq(BookingRow) /\ DOMAIN booking' = DOMAIN booking /\ booking'[i] = e
        /\ \A h \in DOMAIN booking : h # i => booking'[h] = booking[h]
    BY <1>1, <1>2, BookingsAre
  <1>. QED
    BY <1>1, <1>3

-----------------------------------------------------------------------------
(* Generations *)

(* What a generation needs to know of the slots: no row goes away. *)
LEMMA GenerationStutters ==
    ASSUME TypeOK, TypeOK', GenerationInv, UNCHANGED <<job, filled, met>>, today' >= today,
           \A k \in SlotKey : Len(rows'[k]) = Len(rows[k])
    PROVE  GenerationInv'
  <1>1. \A k \in SlotKey : rows'[k] = <<>> <=> rows[k] = <<>>
    BY RowLength, Elements DEF TypeOK
  <1>2. EveryOpenDayHasSlots'
    BY <1>1 DEF GenerationInv, EveryOpenDayHasSlots
  <1>3. OneGeneration'
    BY DEF GenerationInv, OneGeneration
  <1>4. ASSUME NEW j \in Job PROVE Reached(j)' /\ InsertsMissing(j)'
    <2>1. Reached(j) /\ InsertsMissing(j)
      BY DEF GenerationInv
    <2>2. job'[j].pc # "idle" => job'[j].from \in 1 .. today'
      BY <2>1, JobIs DEF Reached, TypeOK
    <2>3. Reached(j)'
      BY <1>1, <2>1, <2>2 DEF Reached, Wanted
    <2>4. InsertsMissing(j)'
      BY <1>1, <2>1 DEF InsertsMissing, Comes
    <2>. QED
      BY <2>3, <2>4
  <1>. QED
    BY <1>2, <1>3, <1>4 DEF GenerationInv

(* Of the slots left one comes next. *)
LEMMA OneComes ==
    ASSUME TypeOK, NEW j \in Job, NEW k \in SlotKey, Comes(j, k), NEW l \in SlotKey, Comes(j, l)
    PROVE  k = l
  <1>1. ASSUME NEW q \in SlotKey
        PROVE  q[1] \in Nat /\ q[2] \in Nat /\ q = <<q[1], q[2]>>
    <2>1. q[1] \in Day /\ q[2] \in Starts /\ q = <<q[1], q[2]>>
      BY DEF SlotKey
    <2>2. q[1] \in Nat
      BY <2>1, Bounds
    <2>. QED
      BY <2>1, <2>2, NightlyAssumption
  <1>2. /\ k[1] < l[1] \/ (k[1] = l[1] /\ k[2] <= l[2])
        /\ l[1] < k[1] \/ (l[1] = k[1] /\ l[2] <= k[2])
    BY DEF Comes
  <1>. QED
    BY <1>1, <1>2

(* A step of one generation that leaves the others and takes no row away. *)
LEMMA OthersGoOn ==
    ASSUME TypeOK, GenerationInv, NEW j \in Job, NEW i \in Job, i # j,
           UNCHANGED <<today, met>>, job'[i] = job[i],
           job'[j].pc # "idle" => job[j].pc # "idle",
           \A k \in SlotKey : rows[k] # <<>> => rows'[k] # <<>>,
           job[j].pc = "idle" => rows' = rows
    PROVE  Reached(i)' /\ InsertsMissing(i)'
  <1>1. Reached(i) /\ InsertsMissing(i)
    BY DEF GenerationInv
  <1>2. Reached(i)'
    BY <1>1 DEF Reached, Wanted
  <1>3. InsertsMissing(i)'
    <2>1. CASE met
      BY <2>1 DEF InsertsMissing
    <2>2. CASE ~met /\ job[j].pc = "idle"
      BY <1>1, <2>2 DEF InsertsMissing, Comes
    <2>3. CASE ~met /\ job[j].pc # "idle"
      <3>1. job[i].pc = "idle"
        BY <2>3 DEF GenerationInv, OneGeneration
      <3>. QED
        BY <3>1 DEF InsertsMissing
    <2>. QED
      BY <2>1, <2>2, <2>3
  <1>. QED
    BY <1>2, <1>3

LEMMA StillOne ==
    ASSUME GenerationInv, NEW j \in Job, UNCHANGED met,
           \A i \in Job : i # j => job'[i] = job[i],
           job'[j].pc # "idle" => job[j].pc # "idle"
    PROVE  OneGeneration'
  BY DEF GenerationInv, OneGeneration

LEMMA BeginGenerationInv ==
    ASSUME TypeOK, GenerationInv, NEW j \in Job, BeginGeneration(j)
    PROVE  GenerationInv'
  <1>1. /\ UNCHANGED <<today, rows, filled>> /\ job[j].pc = "idle"
        /\ job' = [job EXCEPT ![j] = [pc |-> "get", from |-> today, todo |-> Wanted(today)]]
        /\ met' = (met \/ \E i \in Job : job[i].pc # "idle")
    BY DEF BeginGeneration
  <1>2. /\ job'[j] = [pc |-> "get", from |-> today, todo |-> Wanted(today)]
        /\ \A i \in Job : i # j => job'[i] = job[i]
    BY <1>1, JobIs
  <1>3. EveryOpenDayHasSlots'
    BY <1>1 DEF GenerationInv, EveryOpenDayHasSlots
  <1>4. OneGeneration'
    BY <1>1, <1>2 DEF OneGeneration
  <1>5. Reached(j)' /\ InsertsMissing(j)'
    <2>1. today \in 1 .. today
      BY DEF TypeOK
    <2>. QED
      BY <1>1, <1>2, <2>1 DEF Reached, InsertsMissing, Wanted
  <1>6. ASSUME NEW i \in Job, i # j PROVE Reached(i)' /\ InsertsMissing(i)'
    <2>1. Reached(i) /\ InsertsMissing(i) /\ job'[i] = job[i]
      BY <1>2, <1>6 DEF GenerationInv
    <2>2. Reached(i)'
      BY <1>1, <2>1 DEF Reached, Wanted
    <2>3. InsertsMissing(i)'
      BY <1>1, <2>1 DEF InsertsMissing, Comes
    <2>. QED
      BY <2>2, <2>3
  <1>. QED
    BY <1>3, <1>4, <1>5, <1>6 DEF GenerationInv

LEMMA GetSlotInv ==
    ASSUME TypeOK, GenerationInv, NEW j \in Job, GetSlot(j)
    PROVE  GenerationInv'
  <1>1. /\ UNCHANGED <<today, rows, filled, met>> /\ job[j].pc = "get"
    BY DEF GetSlot, LeftAsItIs
  <1>2. PICK k \in SlotKey :
            /\ Comes(j, k)
            /\ IF rows[k] = <<>> THEN job' = [job EXCEPT ![j].pc = "insert"]
                                 ELSE job' = [job EXCEPT ![j].todo = @ \ {k}]
    BY DEF GetSlot
  <1>3. /\ \A i \in Job : i # j => job'[i] = job[i]
        /\ job'[j] = IF rows[k] = <<>> THEN [job[j] EXCEPT !.pc = "insert"]
                                       ELSE [job[j] EXCEPT !.todo = @ \ {k}]
    BY <1>2, JobIs
  <1>4. /\ job'[j].from = job[j].from /\ job'[j].pc # "idle"
        /\ IF rows[k] = <<>> THEN job'[j].todo = job[j].todo /\ job'[j].pc = "insert"
                             ELSE job'[j].todo = job[j].todo \ {k} /\ job'[j].pc = "get"
    <2>. PICK g \in JobRow : g = job[j]
      BY JobIs
    <2>. QED
      BY <1>1, <1>3 DEF JobRow
  <1>5. EveryOpenDayHasSlots'
    BY <1>1 DEF GenerationInv, EveryOpenDayHasSlots
  <1>6. OneGeneration'
    BY <1>1, <1>3, StillOne
  <1>7. Reached(j)'
    BY <1>1, <1>4 DEF GenerationInv, Reached, Wanted
  <1>8. InsertsMissing(j)'
    <2>. SUFFICES ASSUME job'[j].pc = "insert", NEW l \in SlotKey, Comes(j, l)'
                  PROVE  rows'[l] = <<>>
      BY DEF InsertsMissing
    <2>1. rows[k] = <<>> /\ job'[j].todo = job[j].todo
      BY <1>4
    <2>2. Comes(j, l)
      BY <2>1 DEF Comes
    <2>3. l = k
      BY <1>2, <2>2, OneComes
    <2>. QED
      BY <1>1, <2>1, <2>3
  <1>9. ASSUME NEW i \in Job, i # j PROVE Reached(i)' /\ InsertsMissing(i)'
    BY <1>1, <1>3, <1>9, OthersGoOn
  <1>. QED
    BY <1>5, <1>6, <1>7, <1>8, <1>9 DEF GenerationInv

LEMMA InsertSlotInv ==
    ASSUME TypeOK, GenerationInv, NEW j \in Job, InsertSlot(j)
    PROVE  GenerationInv'
  <1>1. /\ UNCHANGED <<today, filled, met>> /\ job[j].pc = "insert"
    BY DEF InsertSlot
  <1>2. PICK k \in SlotKey :
            /\ Comes(j, k)
            /\ rows' = IF Refused(k) THEN rows ELSE [rows EXCEPT ![k] = Append(@, Seats)]
            /\ job' = [job EXCEPT ![j].pc = "get", ![j].todo = @ \ {k}]
    BY DEF InsertSlot
  <1>3. /\ \A i \in Job : i # j => job'[i] = job[i]
        /\ job'[j].pc = "get" /\ job'[j].from = job[j].from /\ job'[j].todo = job[j].todo \ {k}
    <2>. PICK g \in JobRow : g = job[j]
      BY JobIs
    <2>1. /\ job'[j] = [g EXCEPT !.pc = "get", !.todo = @ \ {k}]
          /\ \A i \in Job : i # j => job'[i] = job[i]
      BY <1>2, JobIs
    <2>. QED
      BY <2>1 DEF JobRow
  <1>4. /\ \A l \in SlotKey : l # k => rows'[l] = rows[l]
        /\ rows'[k] # <<>>
        /\ Len(rows'[k]) <= Len(rows[k]) + 1
        /\ ServiceGiven /\ rows[k] # <<>> => rows'[k] = rows[k]
    <2>. PICK q \in Seq(0 .. Seats) : q = rows[k]
      BY RowLength
    <2>1. CASE Refused(k)
      BY <1>2, <2>1 DEF Refused
    <2>2. CASE ~Refused(k)
      <3>1. rows'[k] = Append(q, Seats) /\ \A l \in SlotKey : l # k => rows'[l] = rows[l]
        BY <1>2, <2>2 DEF TypeOK
      <3>2. Append(q, Seats) # <<>> /\ Len(Append(q, Seats)) = Len(q) + 1
        OBVIOUS
      <3>. QED
        BY <2>2, <3>1, <3>2 DEF Refused
    <2>. QED
      BY <2>1, <2>2
  <1>5. \A l \in SlotKey : rows[l] # <<>> => rows'[l] # <<>>
    BY <1>4
  <1>6. EveryOpenDayHasSlots'
    <2>. SUFFICES ASSUME NEW l \in SlotKey
                  PROVE  /\ IsOpen(l[1]) /\ l[1] <= filled /\ l[1] >= filled - DaysAhead
                                => rows'[l] # <<>>
                         /\ Len(rows'[l]) <= 1 \/ (met /\ ~ServiceGiven)
      BY <1>1 DEF EveryOpenDayHasSlots
    <2>1. /\ IsOpen(l[1]) /\ l[1] <= filled /\ l[1] >= filled - DaysAhead => rows[l] # <<>>
          /\ Len(rows[l]) <= 1 \/ (met /\ ~ServiceGiven)
      BY DEF GenerationInv, EveryOpenDayHasSlots
    <2>2. CASE l # k
      BY <1>4, <2>1, <2>2
    <2>3. CASE l = k /\ rows[k] = <<>>
      <3>1. Len(rows[k]) = 0
        BY <2>3
      <3>. QED
        BY <1>4, <2>3, <3>1
    <2>4. CASE l = k /\ rows[k] # <<>>
      <3>1. met
        BY <1>1, <1>2, <2>4 DEF GenerationInv, InsertsMissing
      <3>. QED
        BY <1>4, <2>1, <2>4, <3>1
    <2>. QED
      BY <2>2, <2>3, <2>4
  <1>7. OneGeneration'
    BY <1>1, <1>3, StillOne
  <1>8. Reached(j)' /\ InsertsMissing(j)'
    BY <1>1, <1>3, <1>4, <1>5 DEF GenerationInv, Reached, InsertsMissing, Wanted
  <1>9. ASSUME NEW i \in Job, i # j PROVE Reached(i)' /\ InsertsMissing(i)'
    BY <1>1, <1>3, <1>5, <1>9, OthersGoOn
  <1>. QED
    BY <1>6, <1>7, <1>8, <1>9 DEF GenerationInv

LEMMA LeaveGenerationInv ==
    ASSUME TypeOK, GenerationInv, NEW j \in Job,
           FailGeneration(j) \/ KillGeneration(j) \/ EndGeneration(j)
    PROVE  GenerationInv'
  <1>1. /\ UNCHANGED <<today, rows, met>> /\ job' = [job EXCEPT ![j] = Resting]
        /\ job[j].pc # "idle"
    BY DEF FailGeneration, KillGeneration, EndGeneration
  <1>2. job'[j] = Resting /\ \A i \in Job : i # j => job'[i] = job[i]
    BY <1>1, JobIs
  <1>3. EveryOpenDayHasSlots'
    <2>1. CASE EndGeneration(j)
      <3>1. job[j].todo = {} /\ filled' = Max({filled, job[j].from + DaysAhead})
        BY <2>1 DEF EndGeneration
      <3>2. job[j].from \in Nat /\ filled \in Nat /\ DaysAhead \in Nat
        BY JobIs, Bounds DEF TypeOK
      <3>. PICK b \in Int : b = job[j].from + DaysAhead
        BY <3>2
      <3>3. filled' = IF filled >= b THEN filled ELSE b
        BY <3>1, <3>2, MaxOfTwo
      <3>4. \A k \in Wanted(job[j].from) : rows[k] # <<>>
        BY <1>1, <3>1 DEF GenerationInv, Reached
      <3>. SUFFICES ASSUME NEW k \in SlotKey
                    PROVE  /\ IsOpen(k[1]) /\ k[1] <= filled' /\ k[1] >= filled' - DaysAhead
                                  => rows[k] # <<>>
                           /\ Len(rows[k]) <= 1 \/ (met /\ ~ServiceGiven)
        BY <1>1 DEF EveryOpenDayHasSlots
      <3>5. /\ IsOpen(k[1]) /\ k[1] <= filled /\ k[1] >= filled - DaysAhead => rows[k] # <<>>
            /\ Len(rows[k]) <= 1 \/ (met /\ ~ServiceGiven)
        BY DEF GenerationInv, EveryOpenDayHasSlots
      <3>6. k[1] \in Nat
        BY Bounds DEF SlotKey
      <3>7. ASSUME IsOpen(k[1]), k[1] <= b, k[1] >= b - DaysAhead PROVE rows[k] # <<>>
        <4>1. k[1] \in job[j].from .. job[j].from + DaysAhead
          BY <3>2, <3>6, <3>7
        <4>. QED
          BY <3>4, <3>7, <4>1 DEF Wanted
      <3>. QED
        BY <3>3, <3>5, <3>7
    <2>2. CASE filled' = filled
      BY <1>1, <2>2 DEF GenerationInv, EveryOpenDayHasSlots
    <2>. QED
      BY <2>1, <2>2 DEF FailGeneration, KillGeneration
  <1>4. OneGeneration'
    BY <1>1, <1>2, StillOne
  <1>5. Reached(j)' /\ InsertsMissing(j)'
    BY <1>2 DEF Reached, InsertsMissing, Resting
  <1>6. ASSUME NEW i \in Job, i # j PROVE Reached(i)' /\ InsertsMissing(i)'
    BY <1>1, <1>2, <1>6, OthersGoOn
  <1>. QED
    BY <1>3, <1>4, <1>5, <1>6 DEF GenerationInv

-----------------------------------------------------------------------------
(* Seats *)

(* Slots and bookings that do not change keep their seats. *)
LEMMA SeatsStutter ==
    ASSUME SeatInv, UNCHANGED <<rows, booking>>
    PROVE  SeatInv'
  BY DEF SeatInv, BookingsHaveSlots, SeatsMatchBookings, SlotRows, HoldersOf, KeyOf

(* With the rows as long as they were the slot rows are the same. *)
LEMMA SameSlotRows ==
    ASSUME \A k \in SlotKey : Len(rows'[k]) = Len(rows[k])
    PROVE  SlotRows' = SlotRows
  BY DEF SlotRows

(* The seats of the slot row s go down by the bookings that come. *)
LEMMA SeatsMatch ==
    ASSUME TypeOK, SeatInv, NEW s \in SlotRows
    PROVE  /\ rows[s[1]][s[2]] \in Int /\ Cardinality(HoldersOf(s)) \in Nat
           /\ IsFiniteSet(HoldersOf(s))
           /\ rows[s[1]][s[2]] + Cardinality(HoldersOf(s)) = Seats
  BY SlotRowsAre, RowLength, HoldersFinite DEF SeatInv, SeatsMatchBookings

LEMMA InsertSlotSeats ==
    ASSUME TypeOK, SeatInv, NEW j \in Job, InsertSlot(j)
    PROVE  SeatInv'
  <1>1. booking' = booking
    BY DEF InsertSlot
  <1>2. PICK k \in SlotKey :
            rows' = IF Refused(k) THEN rows ELSE [rows EXCEPT ![k] = Append(@, Seats)]
    BY DEF InsertSlot
  <1>3. CASE rows' = rows
    BY <1>1, <1>3, SeatsStutter
  <1>4. CASE rows' = [rows EXCEPT ![k] = Append(@, Seats)]
    <2>. PICK q \in Seq(0 .. Seats) : q = rows[k]
      BY RowLength
    <2>. PICK n \in Nat : n = Len(q)
      OBVIOUS
    <2>1. /\ \A l \in SlotKey : l # k => rows'[l] = rows[l]
          /\ rows'[k] = Append(q, Seats)
      BY <1>4 DEF TypeOK
    <2>2. /\ Len(rows'[k]) = n + 1 /\ rows'[k][n + 1] = Seats
          /\ \A i \in 1 .. n : rows'[k][i] = rows[k][i]
      <3>1. Seats \in 0 .. Seats
        BY Bounds
      <3>. QED
        BY <2>1, <3>1, OneMore
    <2>3. BookingsHaveSlots'
      <3>. SUFFICES ASSUME NEW i \in DOMAIN booking
                    PROVE  booking[i].slot \in 1 .. Len(rows'[KeyOf(i)])
        BY <1>1 DEF BookingsHaveSlots, KeyOf
      <3>1. KeyOf(i) \in SlotKey /\ booking[i].slot \in 1 .. Len(rows[KeyOf(i)])
        BY BookingIs DEF SeatInv, BookingsHaveSlots
      <3>2. CASE KeyOf(i) # k
        BY <2>1, <3>1, <3>2
      <3>3. CASE KeyOf(i) = k
        BY <2>2, <3>1, <3>3
      <3>. QED
        BY <3>2, <3>3
    <2>4. SeatsMatchBookings'
      <3>. SUFFICES ASSUME NEW l \in SlotKey, NEW i \in 1 .. Len(rows'[l])
                    PROVE  rows'[l][i] + Cardinality(HoldersOf(<<l, i>>)) = Seats
        <4>1. \A s \in SlotRows' : HoldersOf(s)' = HoldersOf(s)
          BY <1>1 DEF HoldersOf
        <4>2. ASSUME NEW s \in SlotRows'
              PROVE  s[1] \in SlotKey /\ s[2] \in 1 .. Len(rows'[s[1]]) /\ s = <<s[1], s[2]>>
          BY <4>2 DEF SlotRows
        <4>. QED
          BY <4>1, <4>2 DEF SeatsMatchBookings
      <3>1. CASE i \in 1 .. Len(rows[l])
        <4>1. rows'[l][i] = rows[l][i]
          BY <2>1, <2>2, <3>1
        <4>2. <<l, i>> \in SlotRows
          BY <3>1, RowsAreSlots
        <4>. QED
          BY <4>1, <4>2, SeatsMatch
      <3>2. CASE i \notin 1 .. Len(rows[l])
        <4>1. l = k /\ i = n + 1
          BY <2>1, <2>2, <3>2
        <4>2. HoldersOf(<<l, i>>) = {}
          <5>. SUFFICES ASSUME NEW h \in HoldersOf(<<l, i>>) PROVE FALSE
            OBVIOUS
          <5>1. h \in DOMAIN booking /\ booking[h].slot = i /\ KeyOf(h) = l
            BY DEF HoldersOf, KeyOf, SlotOf
          <5>3. booking[h].slot \in 1 .. Len(rows[KeyOf(h)])
            BY <5>1 DEF SeatInv, BookingsHaveSlots
          <5>. QED
            BY <3>2, <5>1, <5>3
        <4>3. Cardinality(HoldersOf(<<l, i>>)) = 0
          BY <4>2, FS_EmptySet
        <4>. QED
          BY <2>2, <4>1, <4>3, Bounds
      <3>. QED
        BY <3>1, <3>2
    <2>. QED
      BY <2>3, <2>4 DEF SeatInv
  <1>. QED
    BY <1>2, <1>3, <1>4

LEMMA FreeSeat ==
    ASSUME TypeOK, NEW s \in SlotRows, Free(s)
    PROVE  rows[s[1]][s[2]] - 1 \in 0 .. Seats
  <1>. PICK u \in 0 .. Seats : u = rows[s[1]][s[2]]
    BY SlotRowsAre, RowLength
  <1>. QED
    BY Bounds DEF Free

(* A seat of the slot row s is taken and a booking for it comes. *)
Takes(c, s, st, by) ==
    /\ Free(s)
    /\ rows' = [rows EXCEPT ![s[1]][s[2]] = @ - 1]
    /\ booking' = Append(booking, NewBooking(c, s, st, by))

LEMMA SeatMoves ==
    ASSUME NEW u \in Int, NEW h \in Nat
    PROVE  (u - 1) + (h + 1) = u + h
  OBVIOUS

LEMMA SeatTaken ==
    ASSUME TypeOK, SeatInv, NEW c \in Customer, NEW s \in SlotRows,
           NEW st \in {"booked", "failed"}, NEW by \in {"rule", "hand"}, Takes(c, s, st, by)
    PROVE  /\ rows' \in [SlotKey -> Seq(0 .. Seats)] /\ booking' \in Seq(BookingRow)
           /\ \A l \in SlotKey : Len(rows'[l]) = Len(rows[l])
           /\ SeatInv'
  <1>0. s[1] \in SlotKey /\ s[2] \in 1 .. Len(rows[s[1]]) /\ s = <<s[1], s[2]>>
        /\ s[1] = <<s[1][1], s[1][2]>>
    BY SlotRowsAre
  <1>. PICK u \in Int : u = rows[s[1]][s[2]]
    BY SeatsMatch
  <1>. PICK n \in Nat : n = Len(booking)
    BY BookingsAre
  <1>. PICK b : b = NewBooking(c, s, st, by)
    OBVIOUS
  <1>. PICK v \in 0 .. Seats : v = u - 1
    BY FreeSeat DEF Takes
  <1>1. v = u - 1
    OBVIOUS
  <1>2. rows' = [rows EXCEPT ![s[1]][s[2]] = v] /\ booking' = Append(booking, b)
    BY DEF Takes
  <1>3. /\ rows' \in [SlotKey -> Seq(0 .. Seats)]
        /\ \A l \in SlotKey : Len(rows'[l]) = Len(rows[l])
        /\ rows'[s[1]][s[2]] = v
        /\ \A x \in SlotRows : x # s => rows'[x[1]][x[2]] = rows[x[1]][x[2]]
    BY <1>2, OneSeat
  <1>4. /\ b \in BookingRow /\ b.status = st /\ SlotOf(b) = s
        /\ <<b.date, b.start>> = s[1] /\ b.slot = s[2]
    <2>1. st \in Status
      BY DEF Status
    <2>2. /\ b \in BookingRow /\ b.date = s[1][1] /\ b.start = s[1][2] /\ b.slot = s[2]
          /\ b.status = st
      BY <2>1, NewBookingIs
    <2>. QED
      BY <1>0, <2>2 DEF SlotOf
  <1>5. /\ DOMAIN booking' = 1 .. n + 1 /\ DOMAIN booking = 1 .. n /\ booking'[n + 1] = b
        /\ \A i \in 1 .. n : booking'[i] = booking[i]
        /\ booking' \in Seq(BookingRow)
    <2>2. booking' \in Seq(BookingRow)
      BY <1>2, <1>4, BookingsAre, OneMore
    <2>. QED
      BY <1>2, <1>4, <2>2, BookingsAre, OneMore, Elements
  <1>6. BookingsHaveSlots'
    <2>. SUFFICES ASSUME NEW i \in 1 .. n + 1
                  PROVE  booking'[i].slot \in 1 .. Len(rows'[<<booking'[i].date, booking'[i].start>>])
      BY <1>5 DEF BookingsHaveSlots, KeyOf
    <2>1. CASE i \in 1 .. n
      <3>1. KeyOf(i) \in SlotKey /\ booking[i].slot \in 1 .. Len(rows[KeyOf(i)])
        BY <1>5, <2>1, BookingIs DEF SeatInv, BookingsHaveSlots
      <3>. QED
        BY <1>3, <1>5, <2>1, <3>1 DEF KeyOf
    <2>2. CASE i = n + 1
      BY <1>0, <1>3, <1>4, <1>5, <2>2
    <2>. QED
      BY <2>1, <2>2
  <1>7. SeatsMatchBookings'
    <2>. SUFFICES ASSUME NEW x \in SlotRows
                  PROVE  rows'[x[1]][x[2]] + Cardinality(HoldersOf(x)') = Seats
      BY <1>3, SameSlotRows DEF SeatsMatchBookings
    <2>1. CASE x = s
      <3>1. HoldersOf(s)' = HoldersOf(s) \cup {n + 1} /\ n + 1 \notin HoldersOf(s)
        BY <1>4, <1>5 DEF HoldersOf
      <3>2. Cardinality(HoldersOf(s)') = Cardinality(HoldersOf(s)) + 1
        BY <3>1, SeatsMatch, FS_AddElement
      <3>. PICK h \in Nat : h = Cardinality(HoldersOf(s))
        BY SeatsMatch
      <3>3. u + h = Seats
        BY SeatsMatch
      <3>4. (u - 1) + (h + 1) = u + h
        BY SeatMoves
      <3>5. v + (h + 1) = u + h
        BY <1>1, <3>4
      <3>. QED
        BY <1>3, <2>1, <3>2, <3>3, <3>5
    <2>2. CASE x # s
      <3>1. HoldersOf(x)' = HoldersOf(x)
        BY <1>4, <1>5, <2>2 DEF HoldersOf
      <3>. QED
        BY <1>3, <2>2, <3>1, SeatsMatch
    <2>. QED
      BY <2>1, <2>2
  <1>. QED
    BY <1>3, <1>5, <1>6, <1>7 DEF SeatInv

LEMMA BookByHandSeats ==
    ASSUME TypeOK, SeatInv, NEW c \in Customer, NEW s \in SlotRows, BookByHand(c, s)
    PROVE  /\ rows' \in [SlotKey -> Seq(0 .. Seats)] /\ booking' \in Seq(BookingRow)
           /\ \A l \in SlotKey : Len(rows'[l]) = Len(rows[l])
           /\ SeatInv'
  <1>1. Takes(c, s, "booked", "hand")
    BY DEF BookByHand, Takes
  <1>2. "booked" \in {"booked", "failed"} /\ "hand" \in {"rule", "hand"}
    OBVIOUS
  <1>. QED
    BY <1>1, <1>2, SeatTaken

LEMMA CancelSeats ==
    ASSUME TypeOK, SeatInv, NEW i \in DOMAIN booking, Cancel(i)
    PROVE  SeatInv'
  <1>. PICK s \in SlotRows : s = <<KeyOf(i), booking[i].slot>>
    BY BookingIs, RowsAreSlots DEF SeatInv, BookingsHaveSlots
  <1>0. /\ KeyOf(i) \in SlotKey /\ s[1] = KeyOf(i) /\ s[2] = booking[i].slot
        /\ s[1][1] = booking[i].date /\ s[1][2] = booking[i].start
        /\ booking[i].slot \in 1 .. Len(rows[KeyOf(i)])
    BY BookingIs DEF SeatInv, BookingsHaveSlots, KeyOf
  <1>1. i \in HoldersOf(s)
    BY <1>0, BookingIs DEF HoldersOf, Cancel
  <1>. PICK v \in Int : v = rows[s[1]][s[2]]
    BY <1>0, SeatsMatch
  <1>2. Cardinality(HoldersOf(s) \ {i}) = Cardinality(HoldersOf(s)) - 1
    BY <1>0, <1>1, SeatsMatch, FS_RemoveElement
  <1>3. Cardinality(HoldersOf(s) \ {i}) \in Nat
    BY <1>0, SeatsMatch, FS_Subset, FS_CardinalityType
  <1>4. v + Cardinality(HoldersOf(s)) = Seats /\ Cardinality(HoldersOf(s)) \in Nat
    BY <1>0, SeatsMatch
  <1>5. v + 1 <= Seats /\ v + 1 \in 0 .. Seats
    <2>1. v \in 0 .. Seats
      BY <1>0, RowLength
    <2>. QED
      BY <1>2, <1>3, <1>4, <2>1, Bounds
  <1>6. Min({v + 1, Seats}) = v + 1
    BY <1>5, Bounds, MinOfTwo
  <1>7. rows' = [rows EXCEPT ![s[1]][s[2]] = v + 1]
    BY <1>0, <1>6 DEF Cancel, KeyOf, SlotOf
  <1>8. /\ \A l \in SlotKey : Len(rows'[l]) = Len(rows[l])
        /\ rows'[s[1]][s[2]] = v + 1
        /\ \A x \in SlotRows : x # s => rows'[x[1]][x[2]] = rows[x[1]][x[2]]
    <2>. PICK w \in 0 .. Seats : w = v + 1
      BY <1>5
    <2>1. rows' = [rows EXCEPT ![s[1]][s[2]] = w]
      BY <1>7
    <2>. QED
      BY <2>1, OneSeat
  <1>9. booking' = [booking EXCEPT ![i].status = "cancelled"]
    BY DEF Cancel
  <1>10. /\ DOMAIN booking' = DOMAIN booking /\ booking'[i].status = "cancelled"
         /\ \A h \in DOMAIN booking : h # i => booking'[h] = booking[h]
         /\ \A h \in DOMAIN booking :
                /\ booking'[h].date = booking[h].date /\ booking'[h].start = booking[h].start
                /\ booking'[h].slot = booking[h].slot
    BY <1>9, BookingStatus
  <1>11. BookingsHaveSlots'
    <2>. SUFFICES ASSUME NEW h \in DOMAIN booking
                  PROVE  booking[h].slot \in 1 .. Len(rows'[KeyOf(h)])
      BY <1>10 DEF BookingsHaveSlots, KeyOf
    <2>. QED
      BY <1>8, BookingIs DEF SeatInv, BookingsHaveSlots
  <1>12. SeatsMatchBookings'
    <2>. SUFFICES ASSUME NEW x \in SlotRows
                  PROVE  rows'[x[1]][x[2]] + Cardinality(HoldersOf(x)') = Seats
      BY <1>8, SameSlotRows DEF SeatsMatchBookings
    <2>1. CASE x = s
      <3>1. HoldersOf(s)' = HoldersOf(s) \ {i}
        BY <1>10 DEF HoldersOf, SlotOf
      <3>. PICK h \in Nat : h = Cardinality(HoldersOf(s))
        BY <1>4
      <3>2. (v + 1) + (h - 1) = Seats
        BY <1>4, Bounds
      <3>. QED
        BY <3>2, <1>2, <1>8, <2>1, <3>1
    <2>2. CASE x # s
      <3>1. HoldersOf(x)' = HoldersOf(x)
        <4>1. i \notin HoldersOf(x)
          BY <2>2, BookingIs DEF HoldersOf
        <4>. QED
          BY <1>10, <4>1 DEF HoldersOf, SlotOf
      <3>. QED
        BY <1>8, <2>2, <3>1, SeatsMatch
    <2>. QED
      BY <2>1, <2>2
  <1>. QED
    BY <1>11, <1>12 DEF SeatInv

LEMMA WashSeats ==
    ASSUME TypeOK, SeatInv, NEW i \in DOMAIN booking, Wash(i)
    PROVE  SeatInv'
  <1>1. rows' = rows /\ booking' = [booking EXCEPT ![i].status = "completed"]
        /\ booking[i].status = "booked"
    BY DEF Wash, slotVars
  <1>2. /\ DOMAIN booking' = DOMAIN booking /\ booking'[i].status = "completed"
        /\ \A h \in DOMAIN booking : h # i => booking'[h] = booking[h]
        /\ \A h \in DOMAIN booking :
                /\ booking'[h].date = booking[h].date /\ booking'[h].start = booking[h].start
                /\ booking'[h].slot = booking[h].slot
    BY <1>1, BookingStatus
  <1>3. BookingsHaveSlots'
    BY <1>1, <1>2 DEF SeatInv, BookingsHaveSlots, KeyOf
  <1>4. ASSUME NEW x PROVE HoldersOf(x)' = HoldersOf(x)
    BY <1>1, <1>2 DEF HoldersOf, SlotOf
  <1>5. SeatsMatchBookings'
    BY <1>1, <1>4 DEF SeatInv, SeatsMatchBookings, SlotRows
  <1>. QED
    BY <1>3, <1>5 DEF SeatInv

LEMMA CustomerTypes ==
    ASSUME TypeOK, SeatInv, CustomerStep
    PROVE  TypeOK'
  <1>1. ASSUME NEW c \in Customer, NEW s \in SlotRows, BookByHand(c, s)
        PROVE  TypeOK'
    BY <1>1, BookByHandSeats DEF BookByHand, ruleVars, TypeOK
  <1>2. ASSUME NEW i \in DOMAIN booking, Cancel(i)
        PROVE  TypeOK'
    <2>1. KeyOf(i) \in SlotKey /\ booking[i].slot \in 1 .. Len(rows[KeyOf(i)])
      BY BookingIs DEF SeatInv, BookingsHaveSlots
    <2>. PICK v \in Int : v = rows[KeyOf(i)][booking[i].slot]
      BY <2>1, RowLength
    <2>2. v \in 0 .. Seats
      BY <2>1, RowLength
    <2>3. Min({v + 1, Seats}) \in 0 .. Seats
      BY <2>2, Bounds, MinOfTwo
    <2>. PICK w \in 0 .. Seats : w = Min({v + 1, Seats})
      BY <2>3
    <2>. PICK s \in SlotRows : s = <<KeyOf(i), booking[i].slot>>
      BY <2>1, RowsAreSlots
    <2>4. rows' = [rows EXCEPT ![s[1]][s[2]] = w]
      BY <1>2 DEF Cancel, KeyOf, SlotOf
    <2>5. rows' \in [SlotKey -> Seq(0 .. Seats)]
      BY <2>4, OneSeat
    <2>6. booking' = [booking EXCEPT ![i].status = "cancelled"]
      BY <1>2 DEF Cancel
    <2>7. booking' \in Seq(BookingRow)
      BY <2>6, BookingStatus
    <2>. QED
      BY <1>2, <2>5, <2>7 DEF Cancel, ruleVars, TypeOK
  <1>3. ASSUME NEW i \in DOMAIN booking, Wash(i)
        PROVE  TypeOK'
    <2>1. booking' = [booking EXCEPT ![i].status = "completed"]
      BY <1>3 DEF Wash
    <2>2. booking' \in Seq(BookingRow)
      BY <2>1, BookingStatus
    <2>. QED
      BY <1>3, <2>2 DEF Wash, slotVars, ruleVars, TypeOK
  <1>4. ASSUME NEW r \in Rule, CreateRule(r)
        PROVE  TypeOK'
    <2>1. rule' \in [Rule -> RuleRow]
      <3>1. PICK d \in Weekday :
                rule' = [rule EXCEPT ![r] = [active |-> TRUE, weekday |-> d, last |-> 0]]
        BY <1>4 DEF CreateRule
      <3>2. [active |-> TRUE, weekday |-> d, last |-> 0] \in RuleRow
        BY Bounds DEF RuleRow
      <3>. QED
        BY <3>1, <3>2 DEF TypeOK
    <2>. QED
      BY <1>4, <2>1 DEF CreateRule, slotVars, TypeOK
  <1>5. ASSUME NEW r \in Rule, BeginPatchRule(r)
        PROVE  TypeOK'
    <2>1. edit' \in [Rule -> RuleRow]
      <3>1. PICK d \in Weekday : edit' = [edit EXCEPT ![r] = [rule[r] EXCEPT !.weekday = d]]
        BY <1>5 DEF BeginPatchRule
      <3>2. [rule[r] EXCEPT !.weekday = d] \in RuleRow
        BY DEF TypeOK, RuleRow
      <3>. QED
        BY <3>1, <3>2 DEF TypeOK
    <2>2. asked' \in 0 .. MaxAsked
      BY <1>5, Bounds DEF BeginPatchRule, TypeOK
    <2>. QED
      BY <1>5, <2>1, <2>2 DEF BeginPatchRule, TypeOK
  <1>6. ASSUME NEW r \in Rule, CommitPatchRule(r)
        PROVE  TypeOK'
    <2>1. rule' \in [Rule -> RuleRow] /\ edit' \in [Rule -> RuleRow]
      BY <1>6, NoRuleIs DEF CommitPatchRule, TypeOK
    <2>2. forgot' \subseteq Rule
      BY <1>6 DEF CommitPatchRule, TypeOK
    <2>. QED
      BY <1>6, <2>1, <2>2 DEF CommitPatchRule, slotVars, TypeOK
  <1>7. ASSUME NEW r \in Rule, DeleteRule(r)
        PROVE  TypeOK'
    <2>1. rule' \in [Rule -> RuleRow]
      <3>1. [rule[r] EXCEPT !.active = FALSE] \in RuleRow
        BY DEF TypeOK, RuleRow
      <3>2. rule' = [rule EXCEPT ![r] = [rule[r] EXCEPT !.active = FALSE]]
        BY <1>7 DEF DeleteRule, TypeOK
      <3>. QED
        BY <3>1, <3>2 DEF TypeOK
    <2>2. asked' \in 0 .. MaxAsked
      BY <1>7, Bounds DEF DeleteRule, TypeOK
    <2>. QED
      BY <1>7, <2>1, <2>2 DEF DeleteRule, TypeOK
  <1>. QED
    BY <1>1, <1>2, <1>3, <1>4, <1>5, <1>6, <1>7 DEF CustomerStep

-----------------------------------------------------------------------------
(* Executions of the rules: rows and types *)

LEMMA RunIs ==
    ASSUME TypeOK, NEW e \in Run
    PROVE  /\ run \in [Run -> RunRow] /\ run[e] \in RunRow /\ NoRun \in RunRow
           /\ run[e].plan \in [Rule -> SUBSET Day] /\ run[e].todo \in [Rule -> SUBSET Day]
           /\ run[e].saving \in SUBSET (Rule \X Day) /\ run[e].saved \in [Rule -> 0 .. Horizon]
           /\ run[e].held \in SUBSET (SlotKey \X (Nat \ {0}))
           /\ run[e].mine \in SUBSET (Nat \ {0})
  <1>1. run \in [Run -> RunRow]
    BY DEF TypeOK
  <1>2. NoRun \in RunRow
    BY Bounds DEF NoRun, RunRow
  <1>. PICK g \in RunRow : g = run[e]
    BY <1>1
  <1>3. /\ g.plan \in [Rule -> SUBSET Day] /\ g.todo \in [Rule -> SUBSET Day]
        /\ g.saving \in SUBSET (Rule \X Day) /\ g.saved \in [Rule -> 0 .. Horizon]
        /\ g.held \in SUBSET (SlotKey \X (Nat \ {0})) /\ g.mine \in SUBSET (Nat \ {0})
    BY DEF RunRow
  <1>. QED
    BY <1>1, <1>2, <1>3

(* A slot row is one an execution can hold. *)
LEMMA CanBeHeld ==
    ASSUME TypeOK, NEW s \in SlotRows
    PROVE  s \in SlotKey \X (Nat \ {0})
  BY SlotRowsAre, RowLength

LEMMA BeginRunIs ==
    ASSUME TypeOK, NEW e \in Run, BeginRun(e)
    PROVE  /\ run' \in [Run -> RunRow]
           /\ \A f \in Run : f # e => run'[f] = run[f]
           /\ \A r \in Rule : /\ run'[e].plan[r] = Planned(r) /\ run'[e].todo[r] = Planned(r)
                              /\ run'[e].saved[r] = 0
           /\ run'[e].saving = {} /\ run'[e].held = {} /\ run'[e].mine = {}
  <1>1. ASSUME NEW r \in Rule PROVE Planned(r) \in SUBSET Day
    BY DEF Planned, Candidates
  <1>. PICK p \in [Rule -> SUBSET Day] : p = [r \in Rule |-> Planned(r)]
    BY <1>1
  <1>2. run' = [run EXCEPT ![e] = [NoRun EXCEPT !.plan = p, !.todo = p]]
    BY DEF BeginRun, TypeOK
  <1>. PICK g \in RunRow : g = NoRun
    BY RunIs
  <1>3. [g EXCEPT !.plan = p, !.todo = p] \in RunRow
    BY DEF RunRow
  <1>4. run'[e] = [g EXCEPT !.plan = p, !.todo = p]
    BY <1>2 DEF TypeOK
  <1>5. /\ run'[e].plan = p /\ run'[e].todo = p /\ run'[e].saved = g.saved
        /\ run'[e].saving = g.saving /\ run'[e].held = g.held /\ run'[e].mine = g.mine
    BY <1>4 DEF RunRow
  <1>6. g.saving = {} /\ g.held = {} /\ g.mine = {} /\ \A r \in Rule : g.saved[r] = 0
    BY DEF NoRun
  <1>. QED
    BY <1>2, <1>3, <1>5, <1>6 DEF TypeOK

(* What a seat taken for a rule does to the execution that takes it. *)
TookSeat(e, r, d, s, status) ==
    /\ run' \in [Run -> RunRow]
    /\ \A f \in Run : f # e => run'[f] = run[f]
    /\ run'[e].plan = run[e].plan /\ run'[e].saved = run[e].saved
    /\ run'[e].todo[r] = run[e].todo[r] \ {d}
    /\ \A q \in Rule : q # r => run'[e].todo[q] = run[e].todo[q]
    /\ run'[e].held = run[e].held \cup {s}
    /\ run'[e].mine = run[e].mine \cup {Len(booking) + 1}
    /\ run'[e].saving = IF status = "booked" THEN {<<r, d>>} ELSE {}

LEMMA TakeSeatIs ==
    ASSUME TypeOK, NEW e \in Run, NEW r \in Rule, NEW d \in Day, NEW s \in SlotRows,
           NEW status \in {"booked", "failed"}, TakeSeat(e, r, d, s, status)
    PROVE  TookSeat(e, r, d, s, status)
  <1>. PICK g \in RunRow : g = run[e]
    BY RunIs
  <1>. PICK n \in Nat : n = Len(booking)
    BY BookingsAre
  <1>. PICK t : t = [g.todo EXCEPT ![r] = @ \ {d}]
    OBVIOUS
  <1>. PICK v : v = IF status = "booked" THEN {<<r, d>>} ELSE {}
    OBVIOUS
  <1>. PICK x : x = g.held \cup {s}
    OBVIOUS
  <1>. PICK m : m = g.mine \cup {n + 1}
    OBVIOUS
  <1>. PICK h : h = [g EXCEPT !.todo = t, !.held = x, !.mine = m, !.saving = v]
    OBVIOUS
  <1>1. run' = [run EXCEPT ![e] = h]
    BY RunIs DEF TakeSeat
  <1>2. t \in [Rule -> SUBSET Day] /\ v \in SUBSET (Rule \X Day)
    BY RunIs
  <1>3. x \in SUBSET (SlotKey \X (Nat \ {0})) /\ m \in SUBSET (Nat \ {0})
    BY CanBeHeld, RunIs
  <1>4. /\ h \in RunRow /\ h.plan = g.plan /\ h.saved = g.saved /\ h.todo = t /\ h.saving = v
        /\ h.held = x /\ h.mine = m
    BY <1>2, <1>3 DEF RunRow
  <1>5. t[r] = g.todo[r] \ {d} /\ \A q \in Rule : q # r => t[q] = g.todo[q]
    BY RunIs
  <1>6. run'[e] = h /\ \A f \in Run : f # e => run'[f] = run[f]
    BY <1>1, RunIs
  <1>7. run' \in [Run -> RunRow]
    BY <1>1, <1>4, RunIs
  <1>8. /\ run'[e].plan = run[e].plan /\ run'[e].saved = run[e].saved
        /\ run'[e].todo[r] = run[e].todo[r] \ {d}
        /\ \A q \in Rule : q # r => run'[e].todo[q] = run[e].todo[q]
        /\ run'[e].held = run[e].held \cup {s}
        /\ run'[e].mine = run[e].mine \cup {Len(booking) + 1}
        /\ run'[e].saving = IF status = "booked" THEN {<<r, d>>} ELSE {}
    BY <1>4, <1>5, <1>6
  <1>. QED
    BY <1>6, <1>7, <1>8 DEF TookSeat

(* A day passed over, or skipped with the lock of its slot. *)
LEMMA PassIs ==
    ASSUME TypeOK, NEW e \in Run, PassDay(e) \/ SkipBooked(e)
    PROVE  /\ run' \in [Run -> RunRow]
           /\ \A f \in Run : f # e => run'[f] = run[f]
           /\ run'[e].plan = run[e].plan /\ run'[e].saved = run[e].saved
           /\ run'[e].saving = run[e].saving /\ run'[e].mine = run[e].mine
           /\ \A q \in Rule : run'[e].todo[q] \subseteq run[e].todo[q]
           /\ \/ run'[e].held = run[e].held
              \/ \E s \in SlotRows : run'[e].held = run[e].held \cup {s} /\ ~HeldByOther(e, s)
           /\ run[e].held \subseteq run'[e].held
  <1>. PICK g \in RunRow : g = run[e]
    BY RunIs
  <1>1. PICK r \in Rule, d \in Day :
            \/ run' = [run EXCEPT ![e].todo[r] = @ \ {d}]
            \/ \E s \in SlotRows :
                    /\ ~HeldByOther(e, s)
                    /\ run' = [run EXCEPT ![e].todo[r] = @ \ {d}, ![e].held = @ \cup {s}]
    BY DEF PassDay, SkipBooked, Locks
  <1>. PICK t : t = [g.todo EXCEPT ![r] = @ \ {d}]
    OBVIOUS
  <1>2. t \in [Rule -> SUBSET Day] /\ \A q \in Rule : t[q] \subseteq g.todo[q]
    BY RunIs
  <1>3. CASE run' = [run EXCEPT ![e].todo[r] = @ \ {d}]
    <2>. PICK h : h = [g EXCEPT !.todo = t]
      OBVIOUS
    <2>1. run' = [run EXCEPT ![e] = h]
      BY <1>3, RunIs
    <2>2. /\ h \in RunRow /\ h.plan = g.plan /\ h.saved = g.saved /\ h.todo = t
          /\ h.saving = g.saving /\ h.held = g.held /\ h.mine = g.mine
      BY <1>2 DEF RunRow
    <2>. QED
      BY <1>2, <2>1, <2>2, RunIs
  <1>4. ASSUME NEW s \in SlotRows, ~HeldByOther(e, s),
               run' = [run EXCEPT ![e].todo[r] = @ \ {d}, ![e].held = @ \cup {s}]
        PROVE  /\ run' \in [Run -> RunRow]
               /\ \A f \in Run : f # e => run'[f] = run[f]
               /\ run'[e].plan = run[e].plan /\ run'[e].saved = run[e].saved
               /\ run'[e].saving = run[e].saving /\ run'[e].mine = run[e].mine
               /\ run'[e].todo = t /\ run'[e].held = run[e].held \cup {s}
    <2>. PICK h : h = [g EXCEPT !.todo = t, !.held = @ \cup {s}]
      OBVIOUS
    <2>1. run' = [run EXCEPT ![e] = h]
      BY <1>4, RunIs
    <2>2. s \in SlotKey \X (Nat \ {0})
      BY CanBeHeld
    <2>3. /\ h \in RunRow /\ h.plan = g.plan /\ h.saved = g.saved /\ h.todo = t
          /\ h.saving = g.saving /\ h.held = g.held \cup {s} /\ h.mine = g.mine
      BY <1>2, <2>2 DEF RunRow
    <2>. QED
      BY <2>1, <2>3, RunIs
  <1>. QED
    BY <1>1, <1>2, <1>3, <1>4

LEMMA SaveIs ==
    ASSUME TypeOK, NEW e \in Run, SaveRule(e)
    PROVE  \E r \in Rule, d \in Day :
           /\ run[e].saving = {<<r, d>>}
           /\ run' \in [Run -> RunRow]
           /\ \A f \in Run : f # e => run'[f] = run[f]
           /\ run'[e].plan = run[e].plan /\ run'[e].todo = run[e].todo
           /\ run'[e].saving = {} /\ run'[e].held = run[e].held /\ run'[e].mine = run[e].mine
           /\ run'[e].saved[r] = d
           /\ \A q \in Rule : q # r => run'[e].saved[q] = run[e].saved[q]
  <1>. PICK g \in RunRow : g = run[e]
    BY RunIs
  <1>1. PICK r \in Rule, d \in Day :
            /\ run[e].saving = {<<r, d>>}
            /\ run' = [run EXCEPT ![e].saving = {}, ![e].saved[r] = d]
    BY DEF SaveRule
  <1>. PICK t : t = [g.saved EXCEPT ![r] = d]
    OBVIOUS
  <1>2. /\ t \in [Rule -> 0 .. Horizon] /\ t[r] = d
        /\ \A q \in Rule : q # r => t[q] = g.saved[q]
    BY RunIs, Bounds
  <1>. PICK h : h = [g EXCEPT !.saving = {}, !.saved = t]
    OBVIOUS
  <1>3. run' = [run EXCEPT ![e] = h]
    BY <1>1, RunIs
  <1>4. /\ h \in RunRow /\ h.plan = g.plan /\ h.saved = t /\ h.todo = g.todo
        /\ h.saving = {} /\ h.held = g.held /\ h.mine = g.mine
    BY <1>2 DEF RunRow
  <1>5. /\ run' \in [Run -> RunRow] /\ run'[e] = h
        /\ \A f \in Run : f # e => run'[f] = run[f]
    BY <1>3, <1>4, RunIs
  <1>6. /\ run[e].saving = {<<r, d>>} /\ run'[e].saved[r] = d
        /\ \A q \in Rule : q # r => run'[e].saved[q] = run[e].saved[q]
    BY <1>1, <1>2, <1>4, <1>5
  <1>7. /\ run'[e].plan = run[e].plan /\ run'[e].todo = run[e].todo
        /\ run'[e].saving = {} /\ run'[e].held = run[e].held /\ run'[e].mine = run[e].mine
    BY <1>4, <1>5
  <1>. QED
    BY <1>5, <1>6, <1>7

(* FailToSave forgets the day. *)
LEMMA FailToSaveIs ==
    ASSUME TypeOK, NEW e \in Run, run' = [run EXCEPT ![e].saving = {}]
    PROVE  /\ run' \in [Run -> RunRow]
           /\ \A f \in Run : f # e => run'[f] = run[f]
           /\ run'[e].plan = run[e].plan /\ run'[e].todo = run[e].todo
           /\ run'[e].saving = {} /\ run'[e].held = run[e].held /\ run'[e].mine = run[e].mine
           /\ run'[e].saved = run[e].saved
  <1>. PICK g \in RunRow : g = run[e]
    BY RunIs
  <1>. PICK h : h = [g EXCEPT !.saving = {}]
    OBVIOUS
  <1>3. run' = [run EXCEPT ![e] = h]
    BY RunIs
  <1>4. /\ h \in RunRow /\ h.plan = g.plan /\ h.saved = g.saved /\ h.todo = g.todo
        /\ h.saving = {} /\ h.held = g.held /\ h.mine = g.mine
    BY DEF RunRow
  <1>. QED
    BY <1>3, <1>4, RunIs

(* The bookings of execution e in the slot row s, which a rollback undoes. *)
Undone(e, s) == {i \in run[e].mine : SlotOf(booking[i]) = s}

LEMMA RollBackSeats ==
    ASSUME TypeOK, SeatInv, OwnBookings, NEW e \in Run, RollBack(e)
    PROVE  /\ rows' \in [SlotKey -> Seq(0 .. Seats)] /\ booking' \in Seq(BookingRow)
           /\ \A l \in SlotKey : Len(rows'[l]) = Len(rows[l])
           /\ SeatInv'
  <1>1. ASSUME NEW s \in SlotRows
        PROVE  /\ Undone(e, s) \subseteq HoldersOf(s)
               /\ Cardinality(Undone(e, s)) \in Nat
               /\ Cardinality(HoldersOf(s) \ Undone(e, s)) \in Nat
               /\ rows[s[1]][s[2]] + Cardinality(Undone(e, s)) \in 0 .. Seats
               /\ rows[s[1]][s[2]] + Cardinality(Undone(e, s))
                    + Cardinality(HoldersOf(s) \ Undone(e, s)) = Seats
    <2>1. Undone(e, s) \in SUBSET HoldersOf(s)
      BY DEF Undone, OwnBookings, HoldersOf
    <2>2. IsFiniteSet(HoldersOf(s)) /\ Cardinality(HoldersOf(s)) \in Nat
      BY HoldersFinite
    <2>3. Cardinality(Undone(e, s)) \in Nat
      BY <2>1, <2>2, FS_Subset, FS_CardinalityType
    <2>4. /\ IsFiniteSet(HoldersOf(s) \ Undone(e, s))
          /\ Cardinality(HoldersOf(s) \ Undone(e, s)) =
                Cardinality(HoldersOf(s)) - Cardinality(HoldersOf(s) \cap Undone(e, s))
      BY <2>2, FS_Difference
    <2>5. HoldersOf(s) \cap Undone(e, s) = Undone(e, s)
      BY <2>1
    <2>6. Cardinality(HoldersOf(s) \ Undone(e, s)) \in Nat
      BY <2>4, FS_CardinalityType
    <2>. PICK a \in Nat : a = Cardinality(HoldersOf(s))
      BY <2>2
    <2>. PICK b \in Nat : b = Cardinality(Undone(e, s))
      BY <2>3
    <2>. PICK c \in Nat : c = Cardinality(HoldersOf(s) \ Undone(e, s))
      BY <2>6
    <2>. PICK v \in 0 .. Seats : v = rows[s[1]][s[2]]
      BY SlotRowsAre, RowLength
    <2>7. c = a - b /\ v + a = Seats
      BY <2>4, <2>5, SeatsMatch
    <2>8. v + b \in 0 .. Seats /\ v + b + c = Seats
      BY <2>7, Bounds
    <2>. QED
      BY <2>1, <2>3, <2>6, <2>8
  <1>2. ASSUME NEW k \in SlotKey
        PROVE  /\ rows'[k] \in Seq(0 .. Seats) /\ Len(rows'[k]) = Len(rows[k])
               /\ \A i \in 1 .. Len(rows[k]) :
                    rows'[k][i] = rows[k][i] + Cardinality(Undone(e, <<k, i>>))
    <2>. PICK n \in Nat : n = Len(rows[k])
      BY RowLength
    <2>1. rows'[k] = [i \in 1 .. n |-> rows[k][i] + Cardinality(Undone(e, <<k, i>>))]
      BY DEF RollBack, Undone
    <2>2. ASSUME NEW i \in 1 .. n
          PROVE  rows[k][i] + Cardinality(Undone(e, <<k, i>>)) \in 0 .. Seats
      <3>. PICK s \in SlotRows : s = <<k, i>>
        BY RowsAreSlots
      <3>1. s[1] = k /\ s[2] = i
        OBVIOUS
      <3>. QED
        BY <1>1, <3>1
    <2>3. rows'[k] \in [1 .. n -> 0 .. Seats]
      BY <2>1, <2>2
    <2>4. rows'[k] \in Seq(0 .. Seats) /\ Len(rows'[k]) = n
      BY <2>3, IsRow
    <2>. QED
      BY <2>1, <2>4
  <1>3. rows' \in [SlotKey -> Seq(0 .. Seats)] /\ \A l \in SlotKey : Len(rows'[l]) = Len(rows[l])
    <2>1. DOMAIN rows' = SlotKey /\ rows' = [k \in SlotKey |-> rows'[k]]
      BY DEF RollBack
    <2>. QED
      BY <1>2, <2>1
  <1>4. ASSUME NEW s \in SlotRows
        PROVE  rows'[s[1]][s[2]] = rows[s[1]][s[2]] + Cardinality(Undone(e, s))
    <2>. PICK k \in SlotKey : k = s[1]
      BY SlotRowsAre
    <2>. PICK i \in 1 .. Len(rows[k]) : i = s[2]
      BY SlotRowsAre
    <2>1. s = <<k, i>>
      BY SlotRowsAre
    <2>. QED
      BY <1>2, <2>1
  <1>5. booking' = [i \in DOMAIN booking |->
            IF i \in run[e].mine THEN [booking[i] EXCEPT !.status = "undone"] ELSE booking[i]]
    BY DEF RollBack
  <1>6. ASSUME NEW i \in DOMAIN booking
        PROVE  /\ booking'[i] \in BookingRow
               /\ i \notin run[e].mine => booking'[i] = booking[i]
               /\ i \in run[e].mine => booking'[i].status = "undone"
               /\ booking'[i].date = booking[i].date /\ booking'[i].start = booking[i].start
               /\ booking'[i].slot = booking[i].slot
    <2>. PICK b \in BookingRow : b = booking[i]
      BY BookingIs
    <2>. PICK u : u = [b EXCEPT !.status = "undone"]
      OBVIOUS
    <2>1. /\ u \in BookingRow /\ u.status = "undone" /\ u.date = b.date /\ u.start = b.start
          /\ u.slot = b.slot
      BY DEF BookingRow, Status
    <2>2. booking'[i] = IF i \in run[e].mine THEN u ELSE b
      BY <1>5
    <2>. QED
      BY <2>1, <2>2
  <1>7. booking' \in Seq(BookingRow) /\ DOMAIN booking' = DOMAIN booking
    <2>. PICK n \in Nat : n = Len(booking)
      BY BookingsAre
    <2>1. DOMAIN booking = 1 .. n
      BY BookingsAre
    <2>2. booking' \in [1 .. n -> BookingRow]
      BY <1>5, <1>6, <2>1
    <2>. QED
      BY <2>1, <2>2, IsRow
  <1>8. BookingsHaveSlots'
    <2>. SUFFICES ASSUME NEW i \in DOMAIN booking
                  PROVE  booking[i].slot \in 1 .. Len(rows'[KeyOf(i)])
      BY <1>6, <1>7 DEF BookingsHaveSlots, KeyOf
    <2>. QED
      BY <1>3, BookingIs DEF SeatInv, BookingsHaveSlots
  <1>9. SeatsMatchBookings'
    <2>. SUFFICES ASSUME NEW s \in SlotRows
                  PROVE  rows'[s[1]][s[2]] + Cardinality(HoldersOf(s)') = Seats
      BY <1>3, SameSlotRows DEF SeatsMatchBookings
    <2>1. HoldersOf(s)' = HoldersOf(s) \ Undone(e, s)
      <3>1. ASSUME NEW i \in DOMAIN booking
            PROVE  i \in HoldersOf(s)' <=> i \in HoldersOf(s) /\ i \notin Undone(e, s)
        <4>1. SlotOf(booking'[i]) = SlotOf(booking[i])
          BY <1>6 DEF SlotOf
        <4>2. CASE i \in run[e].mine
          BY <1>6, <1>7, <4>1, <4>2 DEF HoldersOf, Undone
        <4>3. CASE i \notin run[e].mine
          BY <1>6, <1>7, <4>3 DEF HoldersOf, Undone
        <4>. QED
          BY <4>2, <4>3
      <3>2. HoldersOf(s)' \subseteq DOMAIN booking /\ HoldersOf(s) \subseteq DOMAIN booking
        BY <1>7 DEF HoldersOf
      <3>. QED
        BY <3>1, <3>2
    <2>. QED
      BY <1>1, <1>4, <2>1
  <1>. QED
    BY <1>3, <1>7, <1>8, <1>9 DEF SeatInv

(* What a seat is taken of. *)
LEMMA Seen ==
    ASSUME NEW e, NEW r, NEW d, NEW s, NEW status, TakeSeat(e, r, d, s, status)
    PROVE  Free(s) /\ s[1][1] = d /\ ~HeldByOther(e, s) /\ ~AlreadyBooked(e, r, d)
  BY DEF TakeSeat, Locks, Suits

(* What a step of an execution does to slots and bookings. *)
LEMMA RunSeats ==
    ASSUME TypeOK, SeatInv, OwnBookings, NEW e \in Run, ProcessRules(e)
    PROVE  /\ rows' \in [SlotKey -> Seq(0 .. Seats)] /\ booking' \in Seq(BookingRow)
           /\ \A l \in SlotKey : Len(rows'[l]) = Len(rows[l])
           /\ SeatInv'
  <1>1. CASE BookDay(e) \/ LoseSeat(e)
    <2>1. PICK r \in Rule, d \in Day, s \in SlotRows, st \in {"booked", "failed"} :
                TakeSeat(e, r, d, s, st)
      BY <1>1 DEF BookDay, LoseSeat
    <2>2. Takes(r, s, st, "rule")
      BY <2>1, Seen DEF TakeSeat, Takes
    <2>3. r \in Customer /\ "rule" \in {"rule", "hand"}
      BY DEF Customer
    <2>. QED
      BY <2>2, <2>3, SeatTaken
  <1>2. CASE RollBack(e)
    BY <1>2, RollBackSeats
  <1>3. CASE ~(BookDay(e) \/ LoseSeat(e) \/ RollBack(e))
    <2>1. UNCHANGED <<rows, booking>>
      BY <1>3 DEF ProcessRules, BeginRun, PassDay, SkipBooked, SaveRule, FailToSave, EndRun,
          slotVars
    <2>. QED
      BY <2>1, SeatsStutter DEF TypeOK
  <1>. QED
    BY <1>1, <1>2, <1>3

(* What it does to the rest. *)
LEMMA RunRest ==
    ASSUME TypeOK, NEW e \in Run, ProcessRules(e)
    PROVE  /\ UNCHANGED <<today, job, filled, met, edit>>
           /\ asked' \in 0 .. MaxAsked /\ forgot' \subseteq Rule /\ crossed' \subseteq Rule
           /\ ~EndRun(e) => rule' = rule
  <1>1. CASE BeginRun(e)
    <2>1. UNCHANGED <<today, job, filled, met, rule, edit, forgot>>
      BY <1>1 DEF BeginRun
    <2>2. asked' \in 0 .. MaxAsked
      BY <1>1, Bounds DEF BeginRun, TypeOK
    <2>3. crossed' \subseteq Rule
      BY <1>1 DEF BeginRun, TypeOK
    <2>. QED
      BY <2>1, <2>2, <2>3 DEF TypeOK
  <1>2. CASE BookDay(e) \/ LoseSeat(e)
    <2>1. PICK r \in Rule, d \in Day, s \in SlotRows, st \in {"booked", "failed"} :
                TakeSeat(e, r, d, s, st)
      BY <1>2 DEF BookDay, LoseSeat
    <2>2. UNCHANGED <<today, job, asked, filled, met, rule, edit, forgot, crossed>>
      BY <2>1 DEF TakeSeat
    <2>. QED
      BY <2>2 DEF TypeOK
  <1>3. CASE PassDay(e) \/ SkipBooked(e) \/ SaveRule(e) \/ RollBack(e)
    <2>1. UNCHANGED <<today, job, asked, filled, met, rule, edit, forgot, crossed>>
      BY <1>3 DEF PassDay, SkipBooked, SaveRule, RollBack, slotVars
    <2>. QED
      BY <2>1 DEF TypeOK
  <1>4. CASE FailToSave(e)
    <2>1. UNCHANGED <<today, job, asked, filled, met, rule, edit, crossed>>
      BY <1>4 DEF FailToSave, slotVars
    <2>2. forgot' \subseteq Rule
      BY <1>4 DEF FailToSave, TypeOK
    <2>. QED
      BY <2>1, <2>2 DEF TypeOK
  <1>5. CASE EndRun(e)
    <2>1. UNCHANGED <<today, job, asked, filled, met, edit, forgot, crossed>>
      BY <1>5 DEF EndRun, slotVars
    <2>. QED
      BY <1>5, <2>1 DEF TypeOK
  <1>. QED
    BY <1>1, <1>2, <1>3, <1>4, <1>5 DEF ProcessRules

LEMMA EndRunIs ==
    ASSUME TypeOK, NEW e \in Run, EndRun(e)
    PROVE  /\ rule' \in [Rule -> RuleRow]
           /\ run' \in [Run -> RunRow] /\ run'[e] = NoRun
           /\ \A f \in Run : f # e => run'[f] = run[f]
           /\ \A r \in Rule : rule'[r].last =
                    IF run[e].saved[r] = 0 THEN rule[r].last ELSE run[e].saved[r]
  <1>1. ASSUME NEW r \in Rule
        PROVE  /\ Remember(e, r) \in RuleRow
               /\ Remember(e, r).last =
                    IF run[e].saved[r] = 0 THEN rule[r].last ELSE run[e].saved[r]
    <2>. PICK l \in 0 .. Horizon : l = run[e].saved[r]
      BY RunIs
    <2>. PICK b \in RuleRow : b = rule[r]
      BY DEF TypeOK
    <2>1. [b EXCEPT !.last = l] \in RuleRow /\ [b EXCEPT !.last = l].last = l
      BY DEF RuleRow
    <2>. QED
      BY <2>1 DEF Remember
  <1>2. rule' = [r \in Rule |-> Remember(e, r)] /\ run' = [run EXCEPT ![e] = NoRun]
    BY DEF EndRun
  <1>. QED
    BY <1>1, <1>2, RunIs

LEMMA RunTypes ==
    ASSUME TypeOK, SeatInv, OwnBookings, NEW e \in Run, ProcessRules(e)
    PROVE  TypeOK'
  <1>1. /\ rows' \in [SlotKey -> Seq(0 .. Seats)] /\ booking' \in Seq(BookingRow)
    BY RunSeats
  <1>2. /\ UNCHANGED <<today, job, filled, met, edit>>
        /\ asked' \in 0 .. MaxAsked /\ forgot' \subseteq Rule /\ crossed' \subseteq Rule
    BY RunRest
  <1>3. run' \in [Run -> RunRow]
    <2>1. CASE BeginRun(e)
      BY <2>1, BeginRunIs
    <2>2. CASE PassDay(e) \/ SkipBooked(e)
      BY <2>2, PassIs
    <2>3. CASE BookDay(e) \/ LoseSeat(e)
      <3>1. ASSUME NEW r \in Rule, NEW d \in Day, NEW s \in SlotRows,
                   NEW status \in {"booked", "failed"}, TakeSeat(e, r, d, s, status)
            PROVE  run' \in [Run -> RunRow]
        <4>1. TookSeat(e, r, d, s, status)
          BY <3>1, TakeSeatIs
        <4>. QED
          BY <4>1 DEF TookSeat
      <3>. QED
        BY <2>3, <3>1 DEF BookDay, LoseSeat
    <2>4. CASE SaveRule(e)
      BY <2>4, SaveIs
    <2>5. CASE FailToSave(e)
      <3>1. run' = [run EXCEPT ![e].saving = {}]
        BY <2>5 DEF FailToSave
      <3>. QED
        BY <3>1, FailToSaveIs
    <2>6. CASE EndRun(e) \/ RollBack(e)
      BY <2>6, RunIs DEF EndRun, RollBack
    <2>. QED
      BY <2>1, <2>2, <2>3, <2>4, <2>5, <2>6 DEF ProcessRules
  <1>4. rule' \in [Rule -> RuleRow]
    <2>1. CASE EndRun(e)
      BY <2>1, EndRunIs
    <2>2. CASE ~EndRun(e)
      BY <2>2, RunRest DEF TypeOK
    <2>. QED
      BY <2>1, <2>2
  <1>. QED
    BY <1>1, <1>2, <1>3, <1>4 DEF TypeOK

LEMMA NightTypes ==
    ASSUME TypeOK, SeatInv, OwnBookings, [Next]_vars
    PROVE  TypeOK'
  <1>1. CASE Midnight
    <2>1. today' \in 1 .. LastDay
      BY <1>1, Bounds DEF Midnight, TypeOK
    <2>. QED
      BY <1>1, <2>1 DEF Midnight, slotVars, ruleVars, TypeOK
  <1>2. CASE UNCHANGED vars
    BY <1>2 DEF vars, slotVars, ruleVars, TypeOK
  <1>. QED
    BY <1>1, <1>2, GenerationTypes, CustomerTypes, RunTypes DEF Next

-----------------------------------------------------------------------------
(* Rules *)

LEMMA RuleLast ==
    ASSUME TypeOK, NEW r \in Rule
    PROVE  rule[r].last \in Nat /\ edit[r].last \in Nat
  BY Bounds DEF TypeOK, RuleRow

(* The numbers of an execution. *)
LEMMA RunNumbers ==
    ASSUME TypeOK, NEW e \in Run, NEW r \in Rule
    PROVE  run[e].todo[r] \subseteq Nat /\ run[e].saved[r] \in Nat
  BY RunIs, Bounds

LEMMA BookingDate ==
    ASSUME TypeOK, NEW i \in DOMAIN booking
    PROVE  booking[i].date \in Nat
  BY BookingIs, Bounds

(* A rule an execution has a booking of is one it has plans for. *)
LEMMA HasPlans ==
    ASSUME RuleInv, NEW f \in Run, NEW r \in Rule, NEW i \in run[f].mine, Made(i, r)
    PROVE  run[f].plan[r] # {}
  BY DEF RuleInv, OwnBookings, Made

(* Bookings that stay as they are. *)
LEMMA SameBookings ==
    ASSUME RuleInv, booking' = booking, crossed \subseteq crossed', forgot \subseteq forgot'
    PROVE  OnceAlive' /\ OnceEver'
  <1>1. OnceAlive'
    BY DEF RuleInv, OnceAlive, Alive, Made
  <1>2. OnceEver'
    BY DEF RuleInv, OnceEver, Made, Known
  <1>. QED
    BY <1>1, <1>2

(* Nobody but a customer comes, and no rule looks back. *)
LEMMA RulesStutter ==
    ASSUME TypeOK, RuleInv, UNCHANGED <<booking, run, crossed>>, forgot \subseteq forgot',
           \A r \in Rule \ forgot' : rule'[r].last >= rule[r].last,
           \A r \in Rule : rule[r].last \in Nat /\ rule'[r].last \in Nat
    PROVE  RuleInv'
  <1>1. OwnBookings' /\ Plans' /\ Apart'
    BY DEF RuleInv, OwnBookings, Plans, Apart
  <1>2. OnceAlive' /\ OnceEver'
    BY SameBookings
  <1>3. LooksForward'
    <2>. SUFFICES ASSUME NEW r \in Known', NEW i \in DOMAIN booking, Made(i, r)
                  PROVE  /\ booking[i].date <= rule'[r].last \/ Unseen(i)
                         /\ \A e \in Run : Behind(i, e, r)'
      BY DEF LooksForward, Made, Unseen
    <2>1. r \in Known /\ r \in Rule \ forgot'
      BY DEF Known
    <2>2. /\ booking[i].date <= rule[r].last \/ Unseen(i)
          /\ \A e \in Run : Behind(i, e, r)
      BY <2>1 DEF RuleInv, LooksForward
    <2>3. \A e \in Run : Behind(i, e, r)'
      BY <2>2 DEF Behind, Saves
    <2>4. booking[i].date \in Nat
      BY BookingDate
    <2>5. rule'[r].last >= rule[r].last /\ rule[r].last \in Nat /\ rule'[r].last \in Nat
      BY <2>1
    <2>. QED
      BY <2>2, <2>3, <2>4, <2>5
  <1>. QED
    BY <1>1, <1>2, <1>3 DEF RuleInv

LEMMA EditRules ==
    ASSUME TypeOK, RuleInv, NEW r \in Rule,
           CreateRule(r) \/ BeginPatchRule(r) \/ CommitPatchRule(r) \/ DeleteRule(r)
    PROVE  RuleInv'
  <1>1. UNCHANGED <<booking, run, crossed>> /\ forgot \subseteq forgot'
    BY DEF CreateRule, BeginPatchRule, CommitPatchRule, DeleteRule, slotVars
  <1>2. ASSUME NEW q \in Rule
        PROVE  /\ q \notin forgot' => rule'[q].last >= rule[q].last
               /\ rule'[q].last \in Nat /\ rule[q].last \in Nat
    <2>0. rule[q].last \in Nat /\ edit[q].last \in Nat
      BY RuleLast
    <2>1. CASE CreateRule(r)
      <3>1. /\ rule[r].last = 0
            /\ rule'[q].last = IF q = r THEN 0 ELSE rule[q].last
        BY <2>1 DEF CreateRule, NoRule, TypeOK
      <3>. QED
        BY <2>0, <3>1
    <2>2. CASE BeginPatchRule(r)
      BY <2>0, <2>2 DEF BeginPatchRule
    <2>3. CASE CommitPatchRule(r)
      <3>1. rule'[q] = IF q = r THEN edit[q] ELSE rule[q]
        BY <2>3 DEF CommitPatchRule, TypeOK
      <3>2. q \notin forgot' /\ q = r => ~(edit[r].last < rule[r].last)
        BY <2>3 DEF CommitPatchRule
      <3>. QED
        BY <2>0, <3>1, <3>2
    <2>4. CASE DeleteRule(r)
      <3>. PICK e \in RuleRow : e = rule[r]
        BY DEF TypeOK
      <3>1. [e EXCEPT !.active = FALSE].last = e.last
        BY DEF RuleRow
      <3>2. rule' = [rule EXCEPT ![r] = [e EXCEPT !.active = FALSE]]
        BY <2>4 DEF DeleteRule, TypeOK
      <3>3. rule'[q].last = rule[q].last
        BY <3>1, <3>2 DEF TypeOK
      <3>. QED
        BY <2>0, <3>3
    <2>. QED
      BY <2>1, <2>2, <2>3, <2>4
  <1>. QED
    BY <1>1, <1>2, RulesStutter

LEMMA BookByHandRules ==
    ASSUME TypeOK, RuleInv, NEW c \in Customer, NEW s \in SlotRows, BookByHand(c, s)
    PROVE  RuleInv'
  <1>. PICK n \in Nat : n = Len(booking)
    BY BookingsAre
  <1>. PICK b : b = NewBooking(c, s, "booked", "hand")
    OBVIOUS
  <1>1. b \in BookingRow /\ b.by = "hand"
    <2>1. "booked" \in Status /\ "hand" \in {"rule", "hand"}
      BY DEF Status
    <2>. QED
      BY <2>1, NewBookingIs
  <1>2. /\ DOMAIN booking' = 1 .. n + 1 /\ DOMAIN booking = 1 .. n /\ booking'[n + 1] = b
        /\ \A i \in 1 .. n : booking'[i] = booking[i]
    <2>1. booking' = Append(booking, b)
      BY DEF BookByHand
    <2>2. booking' \in Seq(BookingRow)
      BY <1>1, <2>1, BookingsAre, OneMore
    <2>. QED
      BY <1>1, <2>1, <2>2, BookingsAre, OneMore, Elements
  <1>3. ASSUME NEW i \in 1 .. n + 1, NEW r, Made(i, r)'
        PROVE  i \in 1 .. n /\ Made(i, r) /\ booking'[i] = booking[i]
    BY <1>1, <1>2, <1>3 DEF Made
  <1>4. UNCHANGED <<rule, run, forgot, crossed>>
    BY DEF BookByHand, ruleVars
  <1>5. OwnBookings' /\ Plans' /\ Apart'
    <2>1. OwnBookings'
      BY <1>2, <1>4 DEF RuleInv, OwnBookings
    <2>. QED
      BY <1>4, <2>1 DEF RuleInv, Plans, Apart
  <1>6. OnceAlive' /\ OnceEver'
    <2>1. OnceAlive'
      BY <1>2, <1>3, <1>4 DEF RuleInv, OnceAlive, Alive
    <2>2. OnceEver'
      BY <1>2, <1>3, <1>4 DEF RuleInv, OnceEver, Known
    <2>. QED
      BY <2>1, <2>2
  <1>7. LooksForward'
    <2>. SUFFICES ASSUME NEW r \in Known, NEW i \in 1 .. n + 1, Made(i, r)'
                  PROVE  /\ booking'[i].date <= rule[r].last \/ Unseen(i)
                         /\ \A e \in Run : Behind(i, e, r)'
      BY <1>2, <1>4 DEF LooksForward, Unseen, Known
    <2>1. i \in 1 .. n /\ Made(i, r) /\ booking'[i] = booking[i]
      BY <1>3
    <2>2. /\ booking[i].date <= rule[r].last \/ Unseen(i)
          /\ \A e \in Run : Behind(i, e, r)
      BY <1>2, <2>1 DEF RuleInv, LooksForward
    <2>. QED
      BY <1>4, <2>1, <2>2 DEF Behind, Saves
  <1>. QED
    BY <1>5, <1>6, <1>7 DEF RuleInv

(* A booking that ends is one fewer alive. *)
LEMMA EndBookingRules ==
    ASSUME TypeOK, RuleInv, NEW i \in DOMAIN booking, Cancel(i) \/ Wash(i)
    PROVE  RuleInv'
  <1>1. UNCHANGED <<rule, run, forgot, crossed>> /\ booking[i].status = "booked" /\ ~Unseen(i)
    BY DEF Cancel, Wash, ruleVars
  <1>2. PICK st \in {"completed", "cancelled"} : booking' = [booking EXCEPT ![i].status = st]
    BY DEF Cancel, Wash
  <1>3. /\ DOMAIN booking' = DOMAIN booking /\ booking'[i].status = st
        /\ \A h \in DOMAIN booking : h # i => booking'[h] = booking[h]
        /\ \A h \in DOMAIN booking :
                /\ booking'[h].user = booking[h].user /\ booking'[h].by = booking[h].by
                /\ booking'[h].date = booking[h].date /\ booking'[h].start = booking[h].start
                /\ booking'[h].slot = booking[h].slot
    BY <1>2, BookingStatus
  <1>4. ASSUME NEW h \in DOMAIN booking, NEW r
        PROVE  /\ Made(h, r)' <=> Made(h, r)
               /\ Alive(h, r)' => Alive(h, r)
               /\ SlotOf(booking'[h]) = SlotOf(booking[h])
    <2>1. SlotOf(booking'[h]) = SlotOf(booking[h])
      BY <1>3 DEF SlotOf
    <2>2. CASE h = i
      BY <1>1, <1>3, <2>1, <2>2 DEF Made, Alive
    <2>3. CASE h # i
      BY <1>3, <2>1, <2>3 DEF Made, Alive
    <2>. QED
      BY <2>2, <2>3
  <1>5. OwnBookings' /\ Plans' /\ Apart'
    <2>1. OwnBookings'
      BY <1>1, <1>3 DEF RuleInv, OwnBookings, Unseen
    <2>. QED
      BY <1>1, <2>1 DEF RuleInv, Plans, Apart
  <1>6. OnceAlive' /\ OnceEver'
    <2>1. OnceAlive'
      BY <1>1, <1>3, <1>4 DEF RuleInv, OnceAlive
    <2>2. OnceEver'
      BY <1>1, <1>3, <1>4 DEF RuleInv, OnceEver, Known
    <2>. QED
      BY <2>1, <2>2
  <1>7. LooksForward'
    <2>. SUFFICES ASSUME NEW r \in Known, NEW h \in DOMAIN booking, Made(h, r)'
                  PROVE  /\ booking'[h].date <= rule[r].last \/ Unseen(h)
                         /\ \A e \in Run : Behind(h, e, r)'
      BY <1>1, <1>3 DEF LooksForward, Unseen, Known
    <2>1. Made(h, r) /\ booking'[h].date = booking[h].date
      BY <1>3, <1>4
    <2>2. /\ booking[h].date <= rule[r].last \/ Unseen(h)
          /\ \A e \in Run : Behind(h, e, r)
      BY <2>1 DEF RuleInv, LooksForward
    <2>. QED
      BY <1>1, <2>1, <2>2 DEF Behind, Saves
  <1>. QED
    BY <1>5, <1>6, <1>7 DEF RuleInv

LEMMA BeginRunRules ==
    ASSUME TypeOK, RuleInv, NEW e \in Run, BeginRun(e)
    PROVE  RuleInv'
  <1>1. /\ run[e] = NoRun /\ UNCHANGED <<booking, rule, forgot>>
        /\ crossed' = crossed \cup
                {r \in Rule : Planned(r) # {} /\ \E f \in Run : run[f].plan[r] # {}}
    BY DEF BeginRun
  <1>2. /\ \A f \in Run : f # e => run'[f] = run[f]
        /\ \A r \in Rule : /\ run'[e].plan[r] = Planned(r) /\ run'[e].todo[r] = Planned(r)
                           /\ run'[e].saved[r] = 0
        /\ run'[e].saving = {} /\ run'[e].held = {} /\ run'[e].mine = {}
    BY BeginRunIs
  <1>3. run[e].mine = {}
    BY <1>1 DEF NoRun
  <1>4. OwnBookings'
    <2>. SUFFICES ASSUME NEW f \in Run, NEW i \in run'[f].mine
                  PROVE  /\ f # e /\ run'[f] = run[f]
      BY <1>1 DEF RuleInv, OwnBookings
    <2>. QED
      BY <1>2
  <1>5. Plans'
    <2>. SUFFICES ASSUME NEW f \in Run, NEW r \in Rule
                  PROVE  /\ run'[f].todo[r] \subseteq run'[f].plan[r]
                         /\ run'[f].plan[r] = {} => /\ run'[f].saved[r] = 0
                                                    /\ \A d \in Day : <<r, d>> \notin run'[f].saving
      BY DEF Plans
    <2>1. CASE f = e
      BY <1>2, <2>1
    <2>2. CASE f # e
      BY <1>2, <2>2 DEF RuleInv, Plans
    <2>. QED
      BY <2>1, <2>2
  <1>6. Apart'
    <2>. SUFFICES ASSUME NEW f \in Run, NEW g \in Run, f # g
                  PROVE  /\ run'[f].held \cap run'[g].held = {}
                         /\ \A r \in Rule \ crossed' : run'[f].plan[r] = {} \/ run'[g].plan[r] = {}
      BY DEF Apart
    <2>1. CASE f # e /\ g # e
      BY <1>1, <1>2, <2>1 DEF RuleInv, Apart
    <2>2. CASE f = e
      BY <1>1, <1>2, <2>2
    <2>3. CASE g = e
      BY <1>1, <1>2, <2>3
    <2>. QED
      BY <2>1, <2>2, <2>3
  <1>7. OnceAlive' /\ OnceEver'
    <2>1. crossed \subseteq crossed' /\ forgot \subseteq forgot' /\ booking' = booking
      BY <1>1
    <2>. QED
      BY <2>1, SameBookings
  <1>8. LooksForward'
    <2>. SUFFICES ASSUME NEW r \in Known', NEW i \in DOMAIN booking, Made(i, r)
                  PROVE  /\ booking[i].date <= rule[r].last \/ Unseen(i)'
                         /\ \A f \in Run : Behind(i, f, r)'
      BY <1>1 DEF LooksForward, Made
    <2>1. r \in Known /\ r \in Rule \ crossed'
      BY <1>1 DEF Known
    <2>2. /\ booking[i].date <= rule[r].last \/ Unseen(i)
          /\ \A f \in Run : Behind(i, f, r)
      BY <2>1 DEF RuleInv, LooksForward
    <2>3. Unseen(i) => Unseen(i)'
      BY <1>2, <1>3 DEF Unseen
    <2>4. ASSUME NEW f \in Run, f # e PROVE Behind(i, f, r)'
      BY <1>1, <1>2, <2>2, <2>4 DEF Behind, Saves
    <2>5. Behind(i, e, r)'
      <3>1. ASSUME NEW d \in Planned(r) PROVE booking[i].date < d
        <4>1. d \in Nat /\ d > rule[r].last
          BY <2>1, Bounds DEF Planned, Candidates
        <4>2. ~Unseen(i)
          <5>1. \A f \in Run : run[f].plan[r] = {}
            BY <1>1, <2>1, <3>1
          <5>. QED
            BY <2>1, <5>1, HasPlans DEF Unseen
        <4>3. booking[i].date \in Nat /\ rule[r].last \in Nat
          BY <2>1, BookingDate, RuleLast
        <4>. QED
          BY <2>2, <4>1, <4>2, <4>3
      <3>. QED
        BY <1>1, <1>2, <2>1, <3>1 DEF Behind
    <2>. QED
      BY <2>2, <2>3, <2>4, <2>5
  <1>. QED
    BY <1>4, <1>5, <1>6, <1>7, <1>8 DEF RuleInv

LEMMA PassRules ==
    ASSUME TypeOK, RuleInv, NEW e \in Run, PassDay(e) \/ SkipBooked(e)
    PROVE  RuleInv'
  <1>1. UNCHANGED <<booking, rule, forgot, crossed>>
    BY DEF PassDay, SkipBooked
  <1>2. /\ \A f \in Run : f # e => run'[f] = run[f]
        /\ run'[e].plan = run[e].plan /\ run'[e].saved = run[e].saved
        /\ run'[e].saving = run[e].saving /\ run'[e].mine = run[e].mine
        /\ \A q \in Rule : run'[e].todo[q] \subseteq run[e].todo[q]
        /\ \/ run'[e].held = run[e].held
           \/ \E s \in SlotRows : run'[e].held = run[e].held \cup {s} /\ ~HeldByOther(e, s)
        /\ run[e].held \subseteq run'[e].held
    BY PassIs
  <1>3. \A f \in Run : /\ run'[f].plan = run[f].plan /\ run'[f].saved = run[f].saved
                       /\ run'[f].saving = run[f].saving /\ run'[f].mine = run[f].mine
                       /\ \A q \in Rule : run'[f].todo[q] \subseteq run[f].todo[q]
                       /\ run[f].held \subseteq run'[f].held
    BY <1>2
  <1>4. OwnBookings'
    BY <1>1, <1>3 DEF RuleInv, OwnBookings
  <1>5. Plans'
    BY <1>3 DEF RuleInv, Plans
  <1>6. Apart'
    <2>1. \A f, g \in Run : f # g => run[f].held \cap run[g].held = {}
      BY DEF RuleInv, Apart
    <2>2. ASSUME NEW f \in Run, f # e PROVE run'[e].held \cap run[f].held = {}
      BY <1>2, <2>1, <2>2 DEF HeldByOther
    <2>3. \A f, g \in Run : f # g => run'[f].held \cap run'[g].held = {}
      BY <1>2, <2>1, <2>2
    <2>. QED
      BY <1>1, <1>3, <2>3 DEF RuleInv, Apart
  <1>7. OnceAlive' /\ OnceEver'
    BY <1>1, SameBookings
  <1>8. LooksForward'
    <2>. SUFFICES ASSUME NEW r \in Known, NEW i \in DOMAIN booking, Made(i, r)
                  PROVE  /\ booking[i].date <= rule[r].last \/ Unseen(i)'
                         /\ \A f \in Run : Behind(i, f, r)'
      BY <1>1 DEF LooksForward, Made, Known
    <2>1. /\ booking[i].date <= rule[r].last \/ Unseen(i)
          /\ \A f \in Run : Behind(i, f, r)
      BY DEF RuleInv, LooksForward
    <2>2. Unseen(i) => Unseen(i)'
      BY <1>3 DEF Unseen
    <2>3. r \in Rule
      BY DEF Known
    <2>4. \A f \in Run : Behind(i, f, r)'
      BY <1>1, <1>3, <2>1, <2>3 DEF Behind, Saves
    <2>. QED
      BY <2>1, <2>2, <2>4
  <1>. QED
    BY <1>4, <1>5, <1>6, <1>7, <1>8 DEF RuleInv

LEMMA TakeSeatRules ==
    ASSUME TypeOK, RuleInv, NEW e \in Run, NEW r \in Rule, NEW d \in Day, NEW s \in SlotRows,
           NEW st \in {"booked", "failed"}, TakeSeat(e, r, d, s, st)
    PROVE  RuleInv'
  <1>. PICK n \in Nat : n = Len(booking)
    BY BookingsAre
  <1>. PICK b : b = NewBooking(r, s, st, "rule")
    OBVIOUS
  <1>1. UNCHANGED <<rule, forgot, crossed>> /\ booking' = Append(booking, b)
    BY DEF TakeSeat
  <1>2. /\ s[1][1] = d /\ ~HeldByOther(e, s) /\ ~AlreadyBooked(e, r, d)
        /\ run[e].saving = {} /\ d \in run[e].todo[r] /\ \A x \in run[e].todo[r] : d <= x
    <2>1. s[1][1] = d /\ ~HeldByOther(e, s) /\ ~AlreadyBooked(e, r, d)
      BY Seen
    <2>2. run[e].saving = {} /\ d \in run[e].todo[r] /\ \A x \in run[e].todo[r] : d <= x
      BY DEF TakeSeat, Due
    <2>. QED
      BY <2>1, <2>2
  <1>3. /\ \A f \in Run : f # e => run'[f] = run[f]
        /\ run'[e].plan = run[e].plan /\ run'[e].saved = run[e].saved
        /\ run'[e].todo[r] = run[e].todo[r] \ {d}
        /\ \A q \in Rule : q # r => run'[e].todo[q] = run[e].todo[q]
        /\ run'[e].held = run[e].held \cup {s}
        /\ run'[e].mine = run[e].mine \cup {n + 1}
        /\ run'[e].saving = IF st = "booked" THEN {<<r, d>>} ELSE {}
    <2>0. TookSeat(e, r, d, s, st)
      BY TakeSeatIs
    <2>1. /\ \A f \in Run : f # e => run'[f] = run[f]
          /\ run'[e].plan = run[e].plan /\ run'[e].saved = run[e].saved
          /\ run'[e].todo[r] = run[e].todo[r] \ {d}
          /\ \A q \in Rule : q # r => run'[e].todo[q] = run[e].todo[q]
          /\ run'[e].held = run[e].held \cup {s}
          /\ run'[e].mine = run[e].mine \cup {Len(booking) + 1}
          /\ run'[e].saving = IF st = "booked" THEN {<<r, d>>} ELSE {}
      BY <2>0 DEF TookSeat
    <2>. QED
      BY <2>1
  <1>4. /\ b \in BookingRow /\ b.user = r /\ b.by = "rule" /\ b.date = d /\ b.status = st
        /\ SlotOf(b) = s
    <2>1. st \in Status /\ r \in Customer /\ "rule" \in {"rule", "hand"}
      BY DEF Status, Customer
    <2>2. s = <<s[1], s[2]>> /\ s[1] = <<s[1][1], s[1][2]>>
      BY SlotRowsAre
    <2>3. /\ b \in BookingRow /\ b.user = r /\ b.by = "rule" /\ b.date = s[1][1]
          /\ b.start = s[1][2] /\ b.slot = s[2] /\ b.status = st
      BY <2>1, NewBookingIs
    <2>. QED
      BY <1>2, <2>2, <2>3 DEF SlotOf
  <1>5. /\ DOMAIN booking' = 1 .. n + 1 /\ DOMAIN booking = 1 .. n /\ booking'[n + 1] = b
        /\ \A i \in 1 .. n : booking'[i] = booking[i]
    <2>2. booking' \in Seq(BookingRow)
      BY <1>1, <1>4, BookingsAre, OneMore
    <2>. QED
      BY <1>1, <1>4, <2>2, BookingsAre, OneMore, Elements
  <1>6. ASSUME NEW i \in 1 .. n + 1
        PROVE  i \in 1 .. n \/ i = n + 1
    OBVIOUS
  <1>7. run[e].plan[r] # {} /\ \A f \in Run : run[f].mine \subseteq 1 .. n
    BY <1>2, <1>5 DEF RuleInv, Plans, OwnBookings
  <1>8. OwnBookings'
    <2>. SUFFICES ASSUME NEW f \in Run, NEW i \in run'[f].mine
                  PROVE  /\ i \in 1 .. n + 1
                         /\ booking'[i].user \in Rule /\ booking'[i].by = "rule"
                         /\ booking'[i].status \in {"booked", "failed"}
                         /\ SlotOf(booking'[i]) \in run'[f].held
                         /\ run'[f].plan[booking'[i].user] # {}
      BY <1>5 DEF OwnBookings
    <2>1. CASE i \in run[f].mine
      <3>1. /\ i \in 1 .. n /\ booking'[i] = booking[i]
            /\ booking[i].user \in Rule /\ booking[i].by = "rule"
            /\ booking[i].status \in {"booked", "failed"}
            /\ SlotOf(booking[i]) \in run[f].held
            /\ run[f].plan[booking[i].user] # {}
        BY <1>5, <2>1 DEF RuleInv, OwnBookings
      <3>2. run'[f].plan = run[f].plan /\ run[f].held \subseteq run'[f].held
        BY <1>3
      <3>. QED
        BY <3>1, <3>2
    <2>2. CASE i \notin run[f].mine
      <3>1. f = e /\ i = n + 1
        BY <1>3, <2>2
      <3>. QED
        BY <1>3, <1>4, <1>5, <1>7, <3>1
    <2>. QED
      BY <2>1, <2>2
  <1>9. Plans'
    <2>. SUFFICES ASSUME NEW f \in Run, NEW q \in Rule
                  PROVE  /\ run'[f].todo[q] \subseteq run'[f].plan[q]
                         /\ run'[f].plan[q] = {} => /\ run'[f].saved[q] = 0
                                                    /\ \A x \in Day : <<q, x>> \notin run'[f].saving
      BY DEF Plans
    <2>0. /\ run[f].todo[q] \subseteq run[f].plan[q]
          /\ run[f].plan[q] = {} => /\ run[f].saved[q] = 0
                                    /\ \A x \in Day : <<q, x>> \notin run[f].saving
      BY DEF RuleInv, Plans
    <2>1. CASE f # e
      BY <1>3, <2>0, <2>1
    <2>2. CASE f = e /\ q = r
      BY <1>3, <1>7, <2>0, <2>2
    <2>3. CASE f = e /\ q # r
      BY <1>3, <2>0, <2>3
    <2>. QED
      BY <2>1, <2>2, <2>3
  <1>10. Apart'
    <2>1. \A f, g \in Run : f # g => run[f].held \cap run[g].held = {}
      BY DEF RuleInv, Apart
    <2>2. ASSUME NEW f \in Run, f # e PROVE run'[e].held \cap run[f].held = {}
      BY <1>2, <1>3, <2>1, <2>2 DEF HeldByOther
    <2>3. \A f, g \in Run : f # g => run'[f].held \cap run'[g].held = {}
      BY <1>3, <2>1, <2>2
    <2>4. \A f \in Run : run'[f].plan = run[f].plan
      BY <1>3
    <2>. QED
      BY <1>1, <2>3, <2>4 DEF RuleInv, Apart
  <1>11. OnceAlive'
    <2>1. ASSUME st = "booked", NEW i \in 1 .. n, Alive(i, r), booking[i].date = d
          PROVE  r \in crossed /\ SlotOf(booking[i]) # s
      <3>1. PICK f \in Run : i \in run[f].mine /\ f # e
        BY <1>2, <1>5, <2>1 DEF AlreadyBooked, Alive, Made, Unseen
      <3>2. SlotOf(booking[i]) \in run[f].held
        BY <3>1 DEF RuleInv, OwnBookings
      <3>3. s \notin run[f].held
        BY <1>2, <3>1 DEF HeldByOther
      <3>4. run[f].plan[r] # {}
        BY <2>1, <3>1, HasPlans DEF Alive
      <3>5. r \in crossed
        BY <1>7, <3>1, <3>4 DEF RuleInv, Apart
      <3>. QED
        BY <3>2, <3>3, <3>5
    <2>. SUFFICES ASSUME NEW q \in Rule, NEW i \in 1 .. n + 1, NEW j \in 1 .. n + 1,
                         Alive(i, q)', Alive(j, q)', booking'[i].date = booking'[j].date, i # j
                  PROVE  q \in crossed /\ SlotOf(booking'[i]) # SlotOf(booking'[j])
      BY <1>1, <1>5 DEF OnceAlive
    <2>2. ASSUME NEW h \in 1 .. n PROVE Alive(h, q)' <=> Alive(h, q)
      BY <1>5 DEF Alive, Made
    <2>3. Alive(n + 1, q)' => q = r /\ st = "booked"
      BY <1>4, <1>5 DEF Alive, Made
    <2>4. CASE i \in 1 .. n /\ j \in 1 .. n
      BY <1>5, <2>2, <2>4 DEF RuleInv, OnceAlive
    <2>5. CASE i \in 1 .. n /\ j = n + 1
      BY <1>4, <1>5, <2>1, <2>2, <2>3, <2>5
    <2>6. CASE i = n + 1 /\ j \in 1 .. n
      BY <1>4, <1>5, <2>1, <2>2, <2>3, <2>6
    <2>. QED
      BY <1>6, <2>4, <2>5, <2>6
  <1>12. ASSUME NEW i \in 1 .. n, Made(i, r), r \in Known PROVE booking[i].date < d
    <2>1. Behind(i, e, r)
      BY <1>5, <1>12 DEF RuleInv, LooksForward
    <2>. QED
      BY <1>2, <2>1 DEF Behind
  <1>13. d \in Nat /\ d # 0 /\ \A i \in 1 .. n : booking[i].date \in Nat
    BY <1>5, Bounds, BookingDate
  <1>14. OnceEver'
    <2>. SUFFICES ASSUME NEW q \in Known, NEW i \in 1 .. n + 1, NEW j \in 1 .. n + 1,
                         Made(i, q)', Made(j, q)', booking'[i].date = booking'[j].date
                  PROVE  i = j
      BY <1>1, <1>5 DEF OnceEver, Known
    <2>2. ASSUME NEW h \in 1 .. n PROVE Made(h, q)' <=> Made(h, q)
      BY <1>5 DEF Made
    <2>3. Made(n + 1, q)' => q = r
      BY <1>4, <1>5 DEF Made
    <2>4. CASE i \in 1 .. n /\ j \in 1 .. n
      BY <1>5, <2>2, <2>4 DEF RuleInv, OnceEver
    <2>5. CASE i \in 1 .. n /\ j = n + 1
      BY <1>4, <1>5, <1>12, <1>13, <2>2, <2>3, <2>5
    <2>6. CASE i = n + 1 /\ j \in 1 .. n
      BY <1>4, <1>5, <1>12, <1>13, <2>2, <2>3, <2>6
    <2>. QED
      BY <1>6, <2>4, <2>5, <2>6
  <1>15. LooksForward'
    <2>. SUFFICES ASSUME NEW q \in Known, NEW i \in 1 .. n + 1, Made(i, q)'
                  PROVE  /\ booking'[i].date <= rule[q].last \/ Unseen(i)'
                         /\ \A f \in Run : Behind(i, f, q)'
      BY <1>1, <1>5 DEF LooksForward, Known
    <2>0. q \in Rule
      BY DEF Known
    <2>1. CASE i \in 1 .. n
      <3>1. Made(i, q) /\ booking'[i] = booking[i]
        BY <1>5, <2>1 DEF Made
      <3>2. /\ booking[i].date <= rule[q].last \/ Unseen(i)
            /\ \A f \in Run : Behind(i, f, q)
        BY <1>5, <2>1, <3>1 DEF RuleInv, LooksForward
      <3>3. Unseen(i) => Unseen(i)'
        BY <1>3 DEF Unseen
      <3>4. ASSUME NEW f \in Run, f # e PROVE Behind(i, f, q)'
        BY <1>3, <3>1, <3>2, <3>4 DEF Behind, Saves
      <3>5. Behind(i, e, q)'
        <4>1. /\ \A x \in run[e].todo[q] : booking[i].date < x
              /\ run[e].saved[q] # 0 => booking[i].date <= run[e].saved[q]
              /\ i \in run[e].mine => run[e].saved[q] # 0
          BY <1>2, <3>2 DEF Behind, Saves
        <4>2. run'[e].todo[q] \subseteq run[e].todo[q]
          BY <1>3, <2>0
        <4>3. ASSUME NEW x \in Day, <<q, x>> \in run'[e].saving PROVE booking[i].date <= x
          <5>1. q = r /\ x = d
            BY <1>3, <4>3
          <5>. QED
            BY <1>12, <1>13, <2>1, <3>1, <5>1
        <4>4. i \in run'[e].mine => i \in run[e].mine
          BY <1>3, <2>1
        <4>. QED
          BY <1>3, <3>1, <4>1, <4>2, <4>3, <4>4 DEF Behind
      <3>. QED
        BY <3>1, <3>2, <3>3, <3>4, <3>5
    <2>2. CASE i = n + 1
      <3>1. q = r /\ st = "booked" /\ booking'[i].date = d
        BY <1>4, <1>5, <2>2 DEF Made
      <3>2. Unseen(i)'
        BY <1>3, <2>2 DEF Unseen
      <3>3. ASSUME NEW f \in Run, f # e PROVE Behind(i, f, q)'
        <4>1. run[f].plan[r] = {}
          BY <1>7, <3>1, <3>3 DEF RuleInv, Apart, Known
        <4>2. /\ run[f].todo[r] = {} /\ run[f].saved[r] = 0
              /\ \A x \in Day : <<r, x>> \notin run[f].saving
          BY <4>1 DEF RuleInv, Plans
        <4>3. i \notin run[f].mine
          BY <1>7, <2>2
        <4>. QED
          BY <1>3, <3>1, <3>3, <4>2, <4>3 DEF Behind
      <3>4. Behind(i, e, q)'
        <4>1. ASSUME NEW x \in run'[e].todo[q] PROVE d < x
          <5>1. x \in run[e].todo[r] /\ x # d
            BY <1>3, <3>1, <4>1
          <5>2. x \in Nat
            BY <5>1, RunNumbers
          <5>. QED
            BY <1>2, <1>13, <5>1, <5>2
        <4>2. run'[e].saving = {<<r, d>>}
          BY <1>3, <3>1
        <4>3. Saves(e, q)'
          BY <3>1, <4>2 DEF Saves
        <4>4. \A x \in Day : <<q, x>> \in run'[e].saving => d <= x
          BY <1>13, <4>2
        <4>. QED
          BY <3>1, <4>1, <4>3, <4>4 DEF Behind
      <3>. QED
        BY <3>2, <3>3, <3>4
    <2>. QED
      BY <1>6, <2>1, <2>2
  <1>. QED
    BY <1>8, <1>9, <1>10, <1>11, <1>14, <1>15 DEF RuleInv

LEMMA SaveRules ==
    ASSUME TypeOK, RuleInv, NEW e \in Run, SaveRule(e)
    PROVE  RuleInv'
  <1>1. UNCHANGED <<booking, rule, forgot, crossed>>
    BY DEF SaveRule
  <1>2. PICK r \in Rule, d \in Day :
           /\ run[e].saving = {<<r, d>>}
           /\ \A f \in Run : f # e => run'[f] = run[f]
           /\ run'[e].plan = run[e].plan /\ run'[e].todo = run[e].todo
           /\ run'[e].saving = {} /\ run'[e].held = run[e].held /\ run'[e].mine = run[e].mine
           /\ run'[e].saved[r] = d
           /\ \A q \in Rule : q # r => run'[e].saved[q] = run[e].saved[q]
    BY SaveIs
  <1>3. \A f \in Run : /\ run'[f].plan = run[f].plan /\ run'[f].todo = run[f].todo
                       /\ run'[f].held = run[f].held /\ run'[f].mine = run[f].mine
    BY <1>2
  <1>4. OwnBookings' /\ Apart'
    <2>1. OwnBookings'
      BY <1>1, <1>3 DEF RuleInv, OwnBookings
    <2>. QED
      BY <1>1, <1>3, <2>1 DEF RuleInv, Apart
  <1>5. Plans'
    <2>. SUFFICES ASSUME NEW f \in Run, NEW q \in Rule
                  PROVE  /\ run'[f].todo[q] \subseteq run'[f].plan[q]
                         /\ run'[f].plan[q] = {} => /\ run'[f].saved[q] = 0
                                                    /\ \A x \in Day : <<q, x>> \notin run'[f].saving
      BY DEF Plans
    <2>0. /\ run[f].todo[q] \subseteq run[f].plan[q]
          /\ run[f].plan[q] = {} => /\ run[f].saved[q] = 0
                                    /\ \A x \in Day : <<q, x>> \notin run[f].saving
      BY DEF RuleInv, Plans
    <2>1. CASE f # e
      BY <1>2, <2>0, <2>1
    <2>2. CASE f = e /\ q = r
      BY <1>2, <2>0, <2>2
    <2>3. CASE f = e /\ q # r
      BY <1>2, <2>0, <2>3
    <2>. QED
      BY <2>1, <2>2, <2>3
  <1>6. OnceAlive' /\ OnceEver'
    BY <1>1, SameBookings
  <1>7. LooksForward'
    <2>. SUFFICES ASSUME NEW q \in Known, NEW i \in DOMAIN booking, Made(i, q)
                  PROVE  /\ booking[i].date <= rule[q].last \/ Unseen(i)'
                         /\ \A f \in Run : Behind(i, f, q)'
      BY <1>1 DEF LooksForward, Made, Known
    <2>1. /\ booking[i].date <= rule[q].last \/ Unseen(i)
          /\ \A f \in Run : Behind(i, f, q)
      BY DEF RuleInv, LooksForward
    <2>2. Unseen(i) => Unseen(i)'
      BY <1>3 DEF Unseen
    <2>3. ASSUME NEW f \in Run, f # e PROVE Behind(i, f, q)'
      BY <1>1, <1>2, <2>1, <2>3 DEF Behind, Saves
    <2>4. Behind(i, e, q)'
      <3>0. q \in Rule /\ d # 0
        BY Bounds DEF Known
      <3>1. /\ \A x \in run[e].todo[q] : booking[i].date < x
            /\ q = r => booking[i].date <= d
            /\ q # r => ~Saves(e, q)
            /\ run[e].saved[q] # 0 => booking[i].date <= run[e].saved[q] \/ Saves(e, q)
            /\ i \in run[e].mine => run[e].saved[q] # 0 \/ Saves(e, q)
        BY <1>2, <2>1 DEF Behind, Saves
      <3>2. CASE q = r
        BY <1>1, <1>2, <3>0, <3>1, <3>2 DEF Behind
      <3>3. CASE q # r
        BY <1>1, <1>2, <3>0, <3>1, <3>3 DEF Behind
      <3>. QED
        BY <3>2, <3>3
    <2>. QED
      BY <2>1, <2>2, <2>3, <2>4
  <1>. QED
    BY <1>4, <1>5, <1>6, <1>7 DEF RuleInv

LEMMA FailToSaveRules ==
    ASSUME TypeOK, RuleInv, NEW e \in Run, FailToSave(e)
    PROVE  RuleInv'
  <1>1. UNCHANGED <<booking, rule, crossed>> /\ forgot \subseteq forgot'
    BY DEF FailToSave
  <1>2. PICK r \in Rule, d \in Day :
           /\ run[e].saving = {<<r, d>>} /\ forgot' = forgot \cup {r}
           /\ run' = [run EXCEPT ![e].saving = {}]
    BY DEF FailToSave
  <1>3. /\ \A f \in Run : f # e => run'[f] = run[f]
        /\ run'[e].plan = run[e].plan /\ run'[e].todo = run[e].todo
        /\ run'[e].saving = {} /\ run'[e].held = run[e].held /\ run'[e].mine = run[e].mine
        /\ run'[e].saved = run[e].saved
    BY <1>2, FailToSaveIs
  <1>4. \A f \in Run : /\ run'[f].plan = run[f].plan /\ run'[f].todo = run[f].todo
                       /\ run'[f].held = run[f].held /\ run'[f].mine = run[f].mine
                       /\ run'[f].saved = run[f].saved /\ run'[f].saving \subseteq run[f].saving
    BY <1>3
  <1>5. OwnBookings' /\ Apart'
    <2>1. OwnBookings'
      BY <1>1, <1>4 DEF RuleInv, OwnBookings
    <2>. QED
      BY <1>1, <1>4, <2>1 DEF RuleInv, Apart
  <1>6. Plans'
    BY <1>4 DEF RuleInv, Plans
  <1>7. OnceAlive' /\ OnceEver'
    BY <1>1, SameBookings
  <1>8. LooksForward'
    <2>. SUFFICES ASSUME NEW q \in Known', NEW i \in DOMAIN booking, Made(i, q)
                  PROVE  /\ booking[i].date <= rule[q].last \/ Unseen(i)'
                         /\ \A f \in Run : Behind(i, f, q)'
      BY <1>1 DEF LooksForward, Made
    <2>0. q \in Known /\ q # r
      BY <1>1, <1>2 DEF Known
    <2>1. /\ booking[i].date <= rule[q].last \/ Unseen(i)
          /\ \A f \in Run : Behind(i, f, q)
      BY <2>0 DEF RuleInv, LooksForward
    <2>2. Unseen(i) => Unseen(i)'
      BY <1>4 DEF Unseen
    <2>3. ASSUME NEW f \in Run, f # e PROVE Behind(i, f, q)'
      BY <1>1, <1>3, <2>1, <2>3 DEF Behind, Saves
    <2>4. Behind(i, e, q)'
      BY <1>1, <1>2, <1>3, <2>0, <2>1 DEF Behind, Saves
    <2>. QED
      BY <2>1, <2>2, <2>3, <2>4
  <1>. QED
    BY <1>5, <1>6, <1>7, <1>8 DEF RuleInv

LEMMA EndRunRules ==
    ASSUME TypeOK, RuleInv, NEW e \in Run, EndRun(e)
    PROVE  RuleInv'
  <1>1. UNCHANGED <<booking, forgot, crossed>> /\ run[e].saving = {}
    BY DEF EndRun
  <1>2. /\ run'[e] = NoRun /\ \A f \in Run : f # e => run'[f] = run[f]
        /\ \A r \in Rule : rule'[r].last =
                IF run[e].saved[r] = 0 THEN rule[r].last ELSE run[e].saved[r]
    BY EndRunIs
  <1>3. /\ run'[e].mine = {} /\ run'[e].held = {} /\ run'[e].saving = {}
        /\ \A r \in Rule : /\ run'[e].plan[r] = {} /\ run'[e].todo[r] = {}
                           /\ run'[e].saved[r] = 0
    BY <1>2 DEF NoRun
  <1>4. OwnBookings' /\ Plans' /\ Apart'
    <2>1. OwnBookings'
      BY <1>1, <1>2, <1>3 DEF RuleInv, OwnBookings
    <2>2. Plans'
      BY <1>2, <1>3 DEF RuleInv, Plans
    <2>3. Apart'
      BY <1>1, <1>2, <1>3 DEF RuleInv, Apart
    <2>. QED
      BY <2>1, <2>2, <2>3
  <1>5. OnceAlive' /\ OnceEver'
    BY <1>1, SameBookings
  <1>6. LooksForward'
    <2>. SUFFICES ASSUME NEW r \in Known, NEW i \in DOMAIN booking, Made(i, r)
                  PROVE  /\ booking[i].date <= rule'[r].last \/ Unseen(i)'
                         /\ \A f \in Run : Behind(i, f, r)'
      BY <1>1 DEF LooksForward, Made, Known
    <2>0. r \in Rule
      BY DEF Known
    <2>1. /\ booking[i].date <= rule[r].last \/ Unseen(i)
          /\ \A f \in Run : Behind(i, f, r)
      BY DEF RuleInv, LooksForward
    <2>2. ASSUME NEW f \in Run PROVE Behind(i, f, r)'
      <3>1. CASE f # e
        BY <1>1, <1>2, <2>1, <3>1 DEF Behind, Saves
      <3>2. CASE f = e
        BY <1>3, <2>0, <3>2 DEF Behind
      <3>. QED
        BY <3>1, <3>2
    <2>3. /\ run[e].saved[r] # 0 => booking[i].date <= run[e].saved[r]
          /\ i \in run[e].mine => run[e].saved[r] # 0
      BY <1>1, <2>1 DEF Behind, Saves
    <2>4. rule'[r].last = IF run[e].saved[r] = 0 THEN rule[r].last ELSE run[e].saved[r]
      BY <1>2, <2>0
    <2>5. i \in run[e].mine \/ (Unseen(i) => Unseen(i)')
      BY <1>2 DEF Unseen
    <2>6. booking[i].date <= rule'[r].last \/ Unseen(i)'
      BY <2>1, <2>3, <2>4, <2>5
    <2>. QED
      BY <2>2, <2>6
  <1>. QED
    BY <1>4, <1>5, <1>6 DEF RuleInv

LEMMA RollBackRules ==
    ASSUME TypeOK, RuleInv, NEW e \in Run, RollBack(e)
    PROVE  RuleInv'
  <1>1. UNCHANGED <<rule, forgot, crossed>>
    BY DEF RollBack
  <1>2. run'[e] = NoRun /\ \A f \in Run : f # e => run'[f] = run[f]
    BY RunIs DEF RollBack
  <1>3. /\ run'[e].mine = {} /\ run'[e].held = {} /\ run'[e].saving = {}
        /\ \A r \in Rule : /\ run'[e].plan[r] = {} /\ run'[e].todo[r] = {}
                           /\ run'[e].saved[r] = 0
    BY <1>2 DEF NoRun
  <1>4. /\ DOMAIN booking' = DOMAIN booking
        /\ \A i \in DOMAIN booking : i \notin run[e].mine => booking'[i] = booking[i]
    BY DEF RollBack
  <1>5. \A i \in DOMAIN booking : i \in run[e].mine => booking'[i].status = "undone"
    <2>. SUFFICES ASSUME NEW i \in DOMAIN booking, i \in run[e].mine
                  PROVE  booking'[i].status = "undone"
      OBVIOUS
    <2>. PICK b \in BookingRow : b = booking[i]
      BY BookingIs
    <2>1. booking'[i] = [b EXCEPT !.status = "undone"]
      BY DEF RollBack
    <2>. QED
      BY <2>1 DEF BookingRow
  <1>6. ASSUME NEW i \in DOMAIN booking, NEW r, Made(i, r)'
        PROVE  i \notin run[e].mine /\ Made(i, r) /\ booking'[i] = booking[i]
    <2>1. i \notin run[e].mine
      BY <1>5, <1>6 DEF Made
    <2>. QED
      BY <1>4, <1>6, <2>1 DEF Made
  <1>7. OwnBookings'
    <2>. SUFFICES ASSUME NEW f \in Run, NEW i \in run'[f].mine
                  PROVE  f # e /\ run'[f] = run[f] /\ i \in DOMAIN booking' /\ booking'[i] = booking[i]
      BY DEF RuleInv, OwnBookings
    <2>1. f # e /\ run'[f] = run[f] /\ i \in run[f].mine
      BY <1>2, <1>3
    <2>2. i \notin run[e].mine
      BY <2>1 DEF RuleInv, OwnBookings, Apart
    <2>3. i \in DOMAIN booking
      BY <2>1 DEF RuleInv, OwnBookings
    <2>. QED
      BY <1>4, <2>1, <2>2, <2>3
  <1>8. Plans' /\ Apart'
    <2>1. Plans'
      BY <1>2, <1>3 DEF RuleInv, Plans
    <2>2. Apart'
      BY <1>1, <1>2, <1>3 DEF RuleInv, Apart
    <2>. QED
      BY <2>1, <2>2
  <1>9. OnceAlive'
    <2>1. ASSUME NEW i \in DOMAIN booking, NEW r, Alive(i, r)'
          PROVE  Alive(i, r) /\ booking'[i] = booking[i]
      BY <1>6, <2>1 DEF Alive
    <2>. QED
      BY <1>1, <1>4, <2>1 DEF RuleInv, OnceAlive
  <1>10. OnceEver'
    BY <1>1, <1>4, <1>6 DEF RuleInv, OnceEver, Known
  <1>11. LooksForward'
    <2>. SUFFICES ASSUME NEW r \in Known, NEW i \in DOMAIN booking, Made(i, r)'
                  PROVE  /\ booking'[i].date <= rule[r].last \/ Unseen(i)'
                         /\ \A f \in Run : Behind(i, f, r)'
      BY <1>1, <1>4 DEF LooksForward, Known
    <2>0. r \in Rule /\ i \notin run[e].mine /\ Made(i, r) /\ booking'[i] = booking[i]
      BY <1>6 DEF Known
    <2>1. /\ booking[i].date <= rule[r].last \/ Unseen(i)
          /\ \A f \in Run : Behind(i, f, r)
      BY <2>0 DEF RuleInv, LooksForward
    <2>2. ASSUME NEW f \in Run PROVE Behind(i, f, r)'
      <3>1. CASE f # e
        BY <1>2, <2>0, <2>1, <3>1 DEF Behind, Saves
      <3>2. CASE f = e
        BY <1>3, <2>0, <3>2 DEF Behind
      <3>. QED
        BY <3>1, <3>2
    <2>3. Unseen(i) => Unseen(i)'
      BY <1>2, <2>0 DEF Unseen
    <2>. QED
      BY <2>0, <2>1, <2>2, <2>3
  <1>. QED
    BY <1>7, <1>8, <1>9, <1>10, <1>11 DEF RuleInv

LEMMA RunRules ==
    ASSUME TypeOK, RuleInv, NEW e \in Run, ProcessRules(e)
    PROVE  RuleInv'
  <1>1. CASE BookDay(e) \/ LoseSeat(e)
    <2>1. PICK r \in Rule, d \in Day, s \in SlotRows, st \in {"booked", "failed"} :
                TakeSeat(e, r, d, s, st)
      BY <1>1 DEF BookDay, LoseSeat
    <2>. QED
      BY <2>1, TakeSeatRules
  <1>. QED
    BY <1>1, BeginRunRules, PassRules, SaveRules, FailToSaveRules, EndRunRules, RollBackRules
        DEF ProcessRules

-----------------------------------------------------------------------------
(* The invariant *)

LEMMA InitHolds == Init => NightInv
  <1>. SUFFICES ASSUME Init PROVE NightInv
    OBVIOUS
  <1>1. TypeOK
    BY InitTypes
  <1>2. GenerationInv
    <2>1. EveryOpenDayHasSlots
      <3>1. ASSUME NEW k \in SlotKey PROVE k[1] \in Nat /\ 1 <= k[1]
        <4>1. k[1] \in Day
          BY DEF SlotKey
        <4>. QED
          BY <4>1, Bounds
      <3>2. filled = 0 /\ \A k \in SlotKey : Len(rows[k]) = 0
        BY DEF Init
      <3>. QED
        BY <3>1, <3>2 DEF EveryOpenDayHasSlots
    <2>2. \A j \in Job : job[j].pc = "idle"
      BY DEF Init, Resting
    <2>. QED
      BY <2>1, <2>2 DEF GenerationInv, OneGeneration, Reached, InsertsMissing
  <1>3. DOMAIN booking = {} /\ SlotRows = {}
    <2>1. DOMAIN booking = {}
      BY DEF Init
    <2>2. ASSUME NEW k \in SlotKey PROVE 1 .. Len(rows[k]) = {}
      BY DEF Init
    <2>. QED
      BY <2>1, <2>2, SlotRowsAre
  <1>. QED
    <2>1. SeatInv
      BY <1>3 DEF SeatInv, BookingsHaveSlots, SeatsMatchBookings
    <2>2. \A e \in Run : run[e] = NoRun
      BY DEF Init
    <2>3. OwnBookings /\ Plans /\ Apart
      BY <2>2 DEF OwnBookings, Plans, Apart, NoRun
    <2>4. RuleInv
      BY <1>3, <2>3 DEF RuleInv, OnceAlive, OnceEver, LooksForward
    <2>. QED
      BY <1>1, <1>2, <2>1, <2>4 DEF NightInv

LEMMA GenerationKeeps ==
    ASSUME NightInv, NEW j \in Job, Generate(j)
    PROVE  GenerationInv' /\ SeatInv' /\ RuleInv'
  <1>0. TypeOK /\ GenerationInv /\ SeatInv /\ RuleInv
    BY DEF NightInv
  <1>1. GenerationInv'
    BY <1>0, BeginGenerationInv, GetSlotInv, InsertSlotInv, LeaveGenerationInv DEF Generate
  <1>2. SeatInv'
    <2>1. CASE InsertSlot(j)
      BY <1>0, <2>1, InsertSlotSeats
    <2>2. CASE ~InsertSlot(j)
      <3>1. UNCHANGED <<rows, booking>>
        BY <2>2 DEF Generate, BeginGeneration, GetSlot, FailGeneration, EndGeneration,
            KillGeneration, LeftAsItIs
      <3>. QED
        BY <1>0, <3>1, SeatsStutter
    <2>. QED
      BY <2>1, <2>2
  <1>3. RuleInv'
    <2>1. UNCHANGED <<booking, rule, run, forgot, crossed>>
      BY DEF Generate, BeginGeneration, GetSlot, InsertSlot, FailGeneration, EndGeneration,
          KillGeneration, ruleVars
    <2>2. \A r \in Rule : rule[r].last \in Nat
      BY <1>0, RuleLast
    <2>. QED
      BY <1>0, <2>1, <2>2, RulesStutter
  <1>. QED
    BY <1>1, <1>2, <1>3

LEMMA CustomersKeep ==
    ASSUME NightInv, TypeOK', CustomerStep
    PROVE  GenerationInv' /\ SeatInv' /\ RuleInv'
  <1>0. TypeOK /\ GenerationInv /\ SeatInv /\ RuleInv /\ today \in Nat
    BY Bounds DEF NightInv, TypeOK
  <1>1. SeatInv' /\ RuleInv' /\ UNCHANGED <<today, job, filled, met>>
    <2>1. ASSUME NEW c \in Customer, NEW s \in SlotRows, BookByHand(c, s)
          PROVE  SeatInv' /\ RuleInv' /\ UNCHANGED <<today, job, filled, met>>
      <3>1. UNCHANGED <<today, job, filled, met>>
        BY <2>1 DEF BookByHand
      <3>. QED
        BY <1>0, <2>1, <3>1, BookByHandSeats, BookByHandRules
    <2>2. ASSUME NEW i \in DOMAIN booking, Cancel(i) \/ Wash(i)
          PROVE  SeatInv' /\ RuleInv' /\ UNCHANGED <<today, job, filled, met>>
      <3>1. UNCHANGED <<today, job, filled, met>>
        BY <2>2 DEF Cancel, Wash, slotVars
      <3>. QED
        BY <1>0, <2>2, <3>1, CancelSeats, WashSeats, EndBookingRules
    <2>3. ASSUME NEW r \in Rule,
                 CreateRule(r) \/ BeginPatchRule(r) \/ CommitPatchRule(r) \/ DeleteRule(r)
          PROVE  SeatInv' /\ RuleInv' /\ UNCHANGED <<today, job, filled, met>>
      <3>1. UNCHANGED <<today, job, filled, met>> /\ UNCHANGED <<rows, booking>>
        BY <2>3 DEF CreateRule, BeginPatchRule, CommitPatchRule, DeleteRule, slotVars
      <3>. QED
        BY <1>0, <2>3, <3>1, SeatsStutter, EditRules
    <2>. QED
      BY <2>1, <2>2, <2>3 DEF CustomerStep
  <1>2. \A k \in SlotKey : Len(rows'[k]) = Len(rows[k])
    <2>1. ASSUME NEW c \in Customer, NEW s \in SlotRows, BookByHand(c, s)
          PROVE  \A k \in SlotKey : Len(rows'[k]) = Len(rows[k])
      BY <1>0, <2>1, BookByHandSeats
    <2>2. ASSUME NEW i \in DOMAIN booking, Cancel(i)
          PROVE  \A k \in SlotKey : Len(rows'[k]) = Len(rows[k])
      <3>1. KeyOf(i) \in SlotKey /\ booking[i].slot \in 1 .. Len(rows[KeyOf(i)])
        BY <1>0, BookingIs DEF SeatInv, BookingsHaveSlots
      <3>. PICK s \in SlotRows : s = <<KeyOf(i), booking[i].slot>>
        BY <3>1, RowsAreSlots
      <3>. PICK v \in 0 .. Seats : v = rows[s[1]][s[2]]
        BY <1>0, SlotRowsAre, RowLength
      <3>. PICK w \in 0 .. Seats : w = Min({v + 1, Seats})
        BY Bounds, MinOfTwo
      <3>2. rows' = [rows EXCEPT ![s[1]][s[2]] = w]
        BY <2>2 DEF Cancel, KeyOf, SlotOf
      <3>. QED
        BY <1>0, <3>2, OneSeat
    <2>3. CASE rows' = rows
      BY <2>3
    <2>4. ASSUME NEW r \in Rule,
                 CreateRule(r) \/ BeginPatchRule(r) \/ CommitPatchRule(r) \/ DeleteRule(r)
          PROVE  rows' = rows
      BY <2>4 DEF CreateRule, BeginPatchRule, CommitPatchRule, DeleteRule, slotVars
    <2>5. ASSUME NEW i \in DOMAIN booking, Wash(i) PROVE rows' = rows
      BY <2>5 DEF Wash, slotVars
    <2>. QED
      BY <2>1, <2>2, <2>3, <2>4, <2>5 DEF CustomerStep
  <1>3. GenerationInv'
    <2>1. today' >= today
      BY <1>0, <1>1
    <2>. QED
      BY <1>0, <1>1, <1>2, <2>1, GenerationStutters
  <1>. QED
    BY <1>1, <1>3

LEMMA NightStep ==
    ASSUME NightInv, [Next]_vars
    PROVE  NightInv'
  <1>0. TypeOK /\ GenerationInv /\ SeatInv /\ RuleInv /\ today \in Nat
    BY Bounds DEF NightInv, TypeOK
  <1>1. TypeOK'
    BY <1>0, NightTypes DEF RuleInv
  <1>2. CASE Midnight \/ UNCHANGED vars
    <2>1. UNCHANGED <<rows, booking, rule, run, forgot, crossed, job, filled, met>> /\ today' >= today
      BY <1>0, <1>2 DEF Midnight, vars, slotVars, ruleVars
    <2>2. \A r \in Rule : rule[r].last \in Nat
      BY <1>0, RuleLast
    <2>3. GenerationInv'
      BY <1>0, <1>1, <2>1, GenerationStutters
    <2>4. SeatInv'
      BY <1>0, <2>1, SeatsStutter
    <2>5. RuleInv'
      BY <1>0, <2>1, <2>2, RulesStutter
    <2>. QED
      BY <1>1, <2>3, <2>4, <2>5 DEF NightInv
  <1>3. ASSUME NEW j \in Job, Generate(j)
        PROVE  NightInv'
    BY <1>1, <1>3, GenerationKeeps DEF NightInv
  <1>4. CASE CustomerStep
    BY <1>1, <1>4, CustomersKeep DEF NightInv
  <1>5. ASSUME NEW e \in Run, ProcessRules(e)
        PROVE  NightInv'
    <2>1. UNCHANGED <<today, job, filled, met>> /\ today' >= today
      BY <1>0, <1>5, RunRest
    <2>2. SeatInv' /\ \A k \in SlotKey : Len(rows'[k]) = Len(rows[k])
      BY <1>0, <1>5, RunSeats DEF RuleInv
    <2>3. GenerationInv'
      BY <1>0, <1>1, <2>1, <2>2, GenerationStutters
    <2>4. RuleInv'
      BY <1>0, <1>5, RunRules
    <2>. QED
      BY <1>1, <2>2, <2>3, <2>4 DEF NightInv
  <1>. QED
    BY <1>2, <1>3, <1>4, <1>5 DEF Next

(* Two at a time is enough to count. *)
LEMMA AtMostOne ==
    ASSUME NEW S, \A x, y \in S : x = y
    PROVE  Cardinality(S) <= 1
  <1>1. CASE S = {}
    <2>1. Cardinality(S) = 0
      BY <1>1, FS_EmptySet
    <2>. QED
      BY <2>1
  <1>2. CASE S # {}
    <2>. PICK x : x \in S
      BY <1>2
    <2>1. S = {x}
      OBVIOUS
    <2>2. Cardinality({x}) = 1
      BY FS_Singleton
    <2>. QED
      BY <2>1, <2>2
  <1>. QED
    BY <1>1, <1>2

LEMMA BooksOnce ==
    ASSUME RuleInv
    PROVE  RuleBooksOnce
  <1>. SUFFICES ASSUME NEW r \in Rule, NEW d \in Day
                PROVE  /\ \A i, j \in AliveOn(r, d) :
                            i # j => r \in crossed /\ SlotOf(booking[i]) # SlotOf(booking[j])
                       /\ r \in crossed \cup forgot \/ Cardinality(RuleBookings(r, d)) <= 1
    BY DEF RuleBooksOnce
  <1>1. \A i \in RuleBookings(r, d) :
            i \in DOMAIN booking /\ Made(i, r) /\ booking[i].date = d
    BY DEF RuleBookings, Made
  <1>2. \A i \in AliveOn(r, d) :
            i \in DOMAIN booking /\ Alive(i, r) /\ booking[i].date = d
    BY <1>1 DEF AliveOn, Alive
  <1>3. \A i, j \in AliveOn(r, d) :
            i # j => r \in crossed /\ SlotOf(booking[i]) # SlotOf(booking[j])
    BY <1>2 DEF RuleInv, OnceAlive
  <1>4. r \in crossed \cup forgot \/ \A i, j \in RuleBookings(r, d) : i = j
    BY <1>1 DEF RuleInv, OnceEver, Known
  <1>. QED
    BY <1>3, <1>4, AtMostOne

-----------------------------------------------------------------------------
(* The theorems *)

(* The inductive invariant of the nightly jobs: rows and rules have their
   shape, generations leave no hole behind them, seats and bookings add up,
   executions keep off each other's slots, and what an execution has still to
   book lies after all its rule has booked, unless another one crossed it or a
   day was forgotten. *)
THEOREM NightInvariance == Spec => []NightInv
  <1>1. NightInv /\ [Next]_vars => NightInv'
    BY NightStep
  <1>. QED
    BY <1>1, InitHolds, PTL DEF Spec

(* Rows, rules and executions of the generation keep their declared shape. *)
THEOREM NightTypeCorrect == Spec => []TypeOK
  <1>1. NightInv => TypeOK
    BY DEF NightInv
  <1>. QED
    BY <1>1, NightInvariance, PTL

(* generate_slots_for_tenant, for any number of executions that overlap, die
   and start again: no open day a finished one has reached is without a slot,
   and no slot is there twice unless two executions met and the template names
   no service. *)
THEOREM NoHoles == Spec => []EveryOpenDayHasSlots
  <1>1. NightInv => EveryOpenDayHasSlots
    BY DEF NightInv, GenerationInv
  <1>. QED
    BY <1>1, NightInvariance, PTL

(* Slot generation, bookings by hand, cancellations and rules together, also
   when a rule fails between the seat and the booking (services.py:398) or its
   transaction is rolled back: the seats left in a slot, its bookings and the
   seats lost by failures are the capacity the slot was made with. *)
THEOREM SeatsAddUp == Spec => []SeatsMatchBookings
  <1>1. NightInv => SeatsMatchBookings
    BY DEF NightInv, SeatInv
  <1>. QED
    BY <1>1, NightInvariance, PTL

(* process_recurring_rules, re-run as often as one likes and by executions that
   read the rules before others booked (services.py:345-349): two bookings of a
   rule alive on one day are in different slots and come from executions that
   crossed; a rule no two executions crossed over, and whose last_booking_date
   was neither written back nor left unsaved, books a day once. *)
THEOREM RulesBookOnce == Spec => []RuleBooksOnce
  <1>1. NightInv => RuleBooksOnce
    BY BooksOnce DEF NightInv
  <1>. QED
    BY <1>1, NightInvariance, PTL
=============================================================================
