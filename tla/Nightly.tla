------------------------------ MODULE Nightly ------------------------------
(***************************************************************************)
(* The nightly jobs of apps/scheduling: generate_booking_slots lays out    *)
(* the slots of the coming days and process_recurring_rules books for the  *)
(* customers who have a standing rule.  Customers book, cancel and change  *)
(* their rules meanwhile.                                                  *)
(*                                                                         *)
(* Celery and the seed command run the generation without a transaction:   *)
(* every statement commits at once, so two executions of it (the nightly   *)
(* one, one started by hand, the seed command) interleave between the read *)
(* and the insert of get_or_create.  The rules take row locks, which       *)
(* Django refuses outside a transaction: a call without one raises at its  *)
(* first lock, once for each rule, and changes nothing.  The module models *)
(* executions inside a transaction, as common/celery_tenant.py opens it:   *)
(* nobody sees what one writes, and its locks stay, until it ends.         *)
(*                                                                         *)
(* A day is a number; the model has one template and one branch, whose     *)
(* hours do not change.  Whether the wallet pays for a booking makes no    *)
(* difference here (Payments).                                             *)
(***************************************************************************)
EXTENDS Integers, Sequences, FiniteSets, FiniteSetsExt

CONSTANTS
    Week,         \* days in a week (the code's 7)
    LeadDays,     \* lead_days of the beat schedule: how far the rules look
    DaysAhead,    \* days_ahead of the beat schedule: how far slots reach
    LastDay,      \* bound: the last day of the model
    OpenWeekday,  \* weekdays of the template on which the branch is open
    Starts,       \* start times of a day's slots, opening to closing
    Seats,        \* capacity_per_slot of the template
    ServiceGiven, \* whether the template names a service
    Job,          \* executions of the generation that can be under way
    Run,          \* executions of the rules that can be under way
    Rule,         \* primary keys of the rules; rule r belongs to customer r
    Frequency,    \* Frequency[r]: "weekly", "biweekly" or "monthly"
    Latest,       \* Latest[r]: the rule's preferred_time
    Passer,       \* customers without a rule
    MaxByHand,    \* bound: bookings the customers make themselves
    MaxAsked      \* bound: executions of both kinds, PATCH, DELETE requests

Weekday == 0 .. Week - 1
Customer == Rule \cup Passer
Horizon == LastDay + DaysAhead + LeadDays
Day == 1 .. Horizon

ASSUME NightlyAssumption ==
    /\ {Week, DaysAhead, LastDay, Seats} \subseteq Nat \ {0}
    /\ {LeadDays, MaxByHand, MaxAsked} \subseteq Nat
    /\ OpenWeekday \subseteq Weekday /\ Starts \subseteq Nat
    /\ Frequency \in [Rule -> {"weekly", "biweekly", "monthly"}]
    /\ Latest \in [Rule -> Nat]
    /\ Rule \cap Passer = {}
    /\ ServiceGiven \in BOOLEAN

VARIABLES
    today,    \* the date
    rows,     \* rows[d][t]: capacity_left of the BookingSlot rows of date d
              \* and start time t, in the order they were inserted
    booking,  \* the Booking rows, in the order they were inserted
    rule,     \* rule[r]: the RecurringBookingRule row
    run,      \* run[e]: execution e of the rules and what it has not committed
    job,      \* job[j]: what execution j of the generation is about to do
    asked,    \* executions started, PATCH and DELETE requests sent
    edit,     \* edit[r]: the rule as a PATCH request in progress read it
    filled,   \* history: the last day a finished generation has reached
    met,      \* history: two executions of the generation were under way
    forgot,   \* history: rules whose last_booking_date was written back by
              \* a PATCH, or not saved with a booking
    crossed   \* history: rules two executions have looked at meanwhile

slotVars == <<rows, job, asked, filled, met>>
ruleVars == <<rule, edit, run, forgot, crossed>>
vars == <<today, booking, slotVars, ruleVars>>

-----------------------------------------------------------------------------
(* Rows *)

(* booked: pending, confirmed or assigned, which keeps a rule from booking the
   same day; a wash under way or done does not.  failed: no row, but a seat
   that was taken for one.  undone: no row any more, it was rolled back. *)
Status == {"booked", "completed", "cancelled", "failed", "undone"}

SlotKey == Day \X Starts

BookingRow == [user : Customer, date : Day, start : Starts, slot : Nat \ {0},
               status : Status, by : {"rule", "hand"}]

(* Weekday -1 is that of a rule that is not there yet. *)
RuleRow == [active : BOOLEAN, weekday : Weekday \cup {-1}, last : 0 .. Horizon]

(* plan[r]: the days rule r asked for when the execution read it, todo[r] those
   it has not come to; saving: the rule it saves next and the day; saved[r]:
   the last_booking_date it has written, 0 for none; held: the slots it has
   locked; mine: the bookings it has made. *)
RunRow == [plan : [Rule -> SUBSET Day], todo : [Rule -> SUBSET Day],
           saving : SUBSET (Rule \X Day), saved : [Rule -> 0 .. Horizon],
           held : SUBSET (SlotKey \X (Nat \ {0})), mine : SUBSET (Nat \ {0})]

NoRun == [plan |-> [r \in Rule |-> {}], todo |-> [r \in Rule |-> {}], saving |-> {},
          saved |-> [r \in Rule |-> 0], held |-> {}, mine |-> {}]

NoRule == [active |-> FALSE, weekday |-> -1, last |-> 0]

Resting == [pc |-> "idle", from |-> 0, todo |-> {}]

IsOpen(d) == d % Week \in OpenWeekday

Init ==
    /\ today = 1
    /\ rows = [k \in SlotKey |-> <<>>]
    /\ booking = <<>>
    /\ rule = [r \in Rule |-> NoRule]
    /\ run = [e \in Run |-> NoRun]
    /\ job = [j \in Job |-> Resting]
    /\ edit = [r \in Rule |-> NoRule]
    /\ asked = 0
    /\ filled = 0
    /\ met = FALSE
    /\ forgot = {}
    /\ crossed = {}

Midnight ==
    /\ today < LastDay
    /\ today' = today + 1
    /\ UNCHANGED <<booking, slotVars, ruleVars>>

-----------------------------------------------------------------------------
(* generate_booking_slots *)

(* Mutant: the range stops a day early. *)
ShortHorizon(d) == {k \in SlotKey : k[1] \in d .. d + DaysAhead - 1 /\ IsOpen(k[1])}

(* The slots a generation that starts on day d asks for. *)
Wanted(d) == {k \in SlotKey : k[1] \in d .. d + DaysAhead /\ IsOpen(k[1])}

BeginGeneration(j) ==
    /\ job[j].pc = "idle"
    /\ asked < MaxAsked
    /\ asked' = asked + 1
    /\ job' = [job EXCEPT ![j] = [pc |-> "get", from |-> today, todo |-> Wanted(today)]]
    /\ met' = (met \/ \E i \in Job : job[i].pc # "idle")
    /\ UNCHANGED <<today, rows, booking, filled, ruleVars>>

(* Days and start times are visited in order. *)
Comes(j, k) ==
    /\ k \in job[j].todo
    /\ \A l \in job[j].todo : k[1] < l[1] \/ (k[1] = l[1] /\ k[2] <= l[2])

(* Mutant: update_or_create gives an existing slot its seats back. *)
SeatsRestored(k) == [rows EXCEPT ![k] = [i \in 1 .. Len(rows[k]) |-> Seats]]

LeftAsItIs(k) == rows

(* The read of get_or_create: one row is taken as it is, without one the
   insert is next. *)
GetSlot(j) ==
    /\ job[j].pc = "get"
    /\ \E k \in SlotKey :
        /\ Comes(j, k)
        /\ Len(rows[k]) <= 1
        /\ IF rows[k] = <<>>
           THEN /\ job' = [job EXCEPT ![j].pc = "insert"]
                /\ UNCHANGED rows
           ELSE /\ job' = [job EXCEPT ![j].todo = @ \ {k}]
                /\ rows' = LeftAsItIs(k)
    /\ UNCHANGED <<today, booking, asked, filled, met, ruleVars>>

(* The unique constraint (branch, service, date, start_time) does not hold
   for a service that is NULL. *)
Refused(k) == ServiceGiven /\ rows[k] # <<>>

(* The insert of get_or_create; refused by the unique constraint, it reads
   the row the other execution inserted. *)
InsertSlot(j) ==
    /\ job[j].pc = "insert"
    /\ \E k \in SlotKey :
        /\ Comes(j, k)
        /\ rows' = IF Refused(k) THEN rows ELSE [rows EXCEPT ![k] = Append(@, Seats)]
        /\ job' = [job EXCEPT ![j].pc = "get", ![j].todo = @ \ {k}]
    /\ UNCHANGED <<today, booking, asked, filled, met, ruleVars>>

(* Two rows for one slot: MultipleObjectsReturned ends the generation of the
   tenant; the task logs it and goes on with the next tenant. *)
FailGeneration(j) ==
    /\ job[j].pc = "get"
    /\ \E k \in SlotKey : Comes(j, k) /\ Len(rows[k]) > 1
    /\ job' = [job EXCEPT ![j] = Resting]
    /\ UNCHANGED <<today, rows, booking, asked, filled, met, ruleVars>>

EndGeneration(j) ==
    /\ job[j].pc = "get"
    /\ job[j].todo = {}
    /\ job' = [job EXCEPT ![j] = Resting]
    /\ filled' = Max({filled, job[j].from + DaysAhead})
    /\ UNCHANGED <<today, rows, booking, asked, met, ruleVars>>

(* The process dies; what it inserted stays. *)
KillGeneration(j) ==
    /\ job[j].pc # "idle"
    /\ job' = [job EXCEPT ![j] = Resting]
    /\ UNCHANGED <<today, rows, booking, asked, filled, met, ruleVars>>

-----------------------------------------------------------------------------
(* Customers *)

SlotRows == UNION {{k} \X (1 .. Len(rows[k])) : k \in SlotKey}

Free(s) == rows[s[1]][s[2]] > 0

NewBooking(c, s, status, by) ==
    [user |-> c, date |-> s[1][1], start |-> s[1][2], slot |-> s[2],
     status |-> status, by |-> by]

SlotOf(b) == <<<<b.date, b.start>>, b.slot>>

HeldByRun(s) == \E e \in Run : s \in run[e].held

(* Nobody but the execution that made it sees a booking it has not committed. *)
Unseen(i) == \E e \in Run : i \in run[e].mine

ByHand == {i \in DOMAIN booking : booking[i].by = "hand"}

(* create_booking, as the module Scheduling has it in detail. *)
BookByHand(c, s) ==
    /\ Cardinality(ByHand) < MaxByHand
    /\ Free(s) /\ ~HeldByRun(s)
    /\ rows' = [rows EXCEPT ![s[1]][s[2]] = @ - 1]
    /\ booking' = Append(booking, NewBooking(c, s, "booked", "hand"))
    /\ UNCHANGED <<today, job, asked, filled, met, ruleVars>>

(* cancel_booking. *)
Cancel(i) ==
    LET s == SlotOf(booking[i]) IN
    /\ booking[i].status = "booked"
    /\ ~Unseen(i) /\ ~HeldByRun(s)
    /\ rows' = [rows EXCEPT ![s[1]][s[2]] = Min({@ + 1, Seats})]
    /\ booking' = [booking EXCEPT ![i].status = "cancelled"]
    /\ UNCHANGED <<today, job, asked, filled, met, ruleVars>>

(* The wash of the day is done. *)
Wash(i) ==
    /\ booking[i].status = "booked"
    /\ ~Unseen(i)
    /\ booking[i].date = today
    /\ booking' = [booking EXCEPT ![i].status = "completed"]
    /\ UNCHANGED <<today, slotVars, ruleVars>>

(* create_recurring_rule. *)
CreateRule(r) ==
    /\ rule[r] = NoRule
    /\ \E d \in Weekday :
        rule' = [rule EXCEPT ![r] = [active |-> TRUE, weekday |-> d, last |-> 0]]
    /\ UNCHANGED <<today, booking, slotVars, edit, run, forgot, crossed>>

(* An execution has saved the rule and holds the lock of its row. *)
SavedByRun(r) == \E e \in Run : run[e].saved[r] # 0

(* PATCH reads the rule and saves every column of it, last_booking_date
   included. *)
BeginPatchRule(r) ==
    /\ edit[r] = NoRule
    /\ rule[r].active
    /\ asked < MaxAsked
    /\ asked' = asked + 1
    /\ \E d \in Weekday :
        edit' = [edit EXCEPT ![r] = [rule[r] EXCEPT !.weekday = d]]
    /\ UNCHANGED <<today, booking, rows, job, filled, met, rule, run, forgot, crossed>>

CommitPatchRule(r) ==
    /\ edit[r] # NoRule
    /\ ~SavedByRun(r)
    /\ rule' = [rule EXCEPT ![r] = edit[r]]
    /\ forgot' = IF edit[r].last < rule[r].last THEN forgot \cup {r} ELSE forgot
    /\ edit' = [edit EXCEPT ![r] = NoRule]
    /\ UNCHANGED <<today, booking, slotVars, run, crossed>>

(* DELETE switches the rule off. *)
DeleteRule(r) ==
    /\ rule[r].active
    /\ ~SavedByRun(r)
    /\ asked < MaxAsked
    /\ asked' = asked + 1
    /\ rule' = [rule EXCEPT ![r].active = FALSE]
    /\ UNCHANGED <<today, booking, rows, job, filled, met, edit, run, forgot, crossed>>

-----------------------------------------------------------------------------
(* process_recurring_rules *)

(* _next_weekday_date: the rule's weekday, on or after today. *)
First(r) == CHOOSE d \in today .. today + Week - 1 : d % Week = rule[r].weekday

(* _advance_by_frequency: the code's 7, 14 and 30 days. *)
Advance(r) ==
    CASE Frequency[r] = "weekly"   -> Week
      [] Frequency[r] = "biweekly" -> 2 * Week
      [] Frequency[r] = "monthly"  -> 4 * Week + 2

Candidates(r) ==
    {d \in Day : /\ First(r) <= d /\ d <= today + LeadDays
                  /\ (d - First(r)) % Advance(r) = 0
                  /\ d > rule[r].last}

Planned(r) == IF rule[r].active THEN Candidates(r) ELSE {}

(* The active rules are read once, without a lock: what an execution does for a
   rule depends on the row as it is now. *)
BeginRun(e) ==
    /\ run[e] = NoRun
    /\ asked < MaxAsked
    /\ asked' = asked + 1
    /\ run' = [run EXCEPT ![e].plan = [r \in Rule |-> Planned(r)],
                          ![e].todo = [r \in Rule |-> Planned(r)]]
    /\ crossed' = crossed \cup
            {r \in Rule : Planned(r) # {} /\ \E f \in Run : run[f].plan[r] # {}}
    /\ UNCHANGED <<today, booking, rows, job, filled, met, rule, edit, forgot>>

(* Rule by rule, and the days of a rule in order. *)
Due(e, r, d) ==
    /\ run[e].saving = {}
    /\ d \in run[e].todo[r] /\ \A x \in run[e].todo[r] : d <= x
    /\ \A q \in Rule \ {r} : run[e].todo[q] \in {{}, run[e].plan[q]}

HeldByOther(e, s) == \E f \in Run \ {e} : s \in run[f].held

(* Slots of day d that start no later than the customer likes and show a seat:
   what another execution has taken of a slot is not to be seen yet. *)
Suits(e, r, d) ==
    {s \in SlotRows :
        s[1][1] = d /\ s[1][2] <= Latest[r] /\ (Free(s) \/ HeldByOther(e, s))}

(* The latest of them is locked; if another execution has it, this one waits
   for the end of it and looks at the slots again. *)
Locks(e, r, d, s) ==
    /\ s \in Suits(e, r, d) /\ \A x \in Suits(e, r, d) : x[1][2] <= s[1][2]
    /\ ~HeldByOther(e, s)

AlreadyBooked(e, r, d) ==
    \E i \in DOMAIN booking :
        /\ booking[i].user = r /\ booking[i].date = d /\ booking[i].status = "booked"
        /\ Unseen(i) => i \in run[e].mine

(* No slot has a seat. *)
PassDay(e) ==
    /\ \E r \in Rule, d \in Day :
        /\ Due(e, r, d)
        /\ Suits(e, r, d) = {}
        /\ run' = [run EXCEPT ![e].todo[r] = @ \ {d}]
    /\ UNCHANGED <<today, booking, slotVars, rule, edit, forgot, crossed>>

(* The customer has a booking for the day; the slot stays locked. *)
SkipBooked(e) ==
    /\ \E r \in Rule, d \in Day, s \in SlotRows :
        /\ Due(e, r, d)
        /\ Locks(e, r, d, s)
        /\ AlreadyBooked(e, r, d)
        /\ run' = [run EXCEPT ![e].todo[r] = @ \ {d}, ![e].held = @ \cup {s}]
    /\ UNCHANGED <<today, booking, slotVars, rule, edit, forgot, crossed>>

(* _create_booking_from_rule takes the seat, then inserts the booking.  An
   exception that is no error of the database leaves the transaction as it is
   at that point: it is caught and logged, and the next day comes. *)
TakeSeat(e, r, d, s, status) ==
    /\ Due(e, r, d)
    /\ Locks(e, r, d, s)
    /\ ~AlreadyBooked(e, r, d)
    /\ rows' = [rows EXCEPT ![s[1]][s[2]] = @ - 1]
    /\ booking' = Append(booking, NewBooking(r, s, status, "rule"))
    /\ run' = [run EXCEPT ![e].todo[r] = @ \ {d}, ![e].held = @ \cup {s},
                          ![e].mine = @ \cup {Len(booking) + 1},
                          ![e].saving = IF status = "booked" THEN {<<r, d>>} ELSE {}]
    /\ UNCHANGED <<today, job, asked, filled, met, rule, edit, forgot, crossed>>

BookDay(e) ==
    \E r \in Rule, d \in Day, s \in SlotRows : TakeSeat(e, r, d, s, "booked")

LoseSeat(e) ==
    \E r \in Rule, d \in Day, s \in SlotRows : TakeSeat(e, r, d, s, "failed")

(* rule.save(update_fields=["last_booking_date"]) waits for another execution
   that has saved the rule. *)
SaveRule(e) ==
    /\ \E r \in Rule, d \in Day :
        /\ run[e].saving = {<<r, d>>}
        /\ \A f \in Run \ {e} : run[f].saved[r] = 0
        /\ run' = [run EXCEPT ![e].saving = {}, ![e].saved[r] = d]
    /\ UNCHANGED <<today, booking, slotVars, rule, edit, forgot, crossed>>

(* The exception comes between the booking and this save. *)
FailToSave(e) ==
    /\ \E r \in Rule, d \in Day :
        /\ run[e].saving = {<<r, d>>}
        /\ forgot' = forgot \cup {r}
        /\ run' = [run EXCEPT ![e].saving = {}]
    /\ UNCHANGED <<today, booking, slotVars, rule, edit, crossed>>

(* Mutant: rule.last_booking_date is set and not saved. *)
Forget(e, r) == rule[r]

Remember(e, r) ==
    IF run[e].saved[r] = 0 THEN rule[r] ELSE [rule[r] EXCEPT !.last = run[e].saved[r]]

EndRun(e) ==
    /\ run[e] # NoRun
    /\ run[e].saving = {} /\ \A r \in Rule : run[e].todo[r] = {}
    /\ rule' = [r \in Rule |-> Remember(e, r)]
    /\ run' = [run EXCEPT ![e] = NoRun]
    /\ UNCHANGED <<today, booking, slotVars, edit, forgot, crossed>>

(* An error of the database, a deadlock of two executions among them, or the
   death of the process undoes the transaction. *)
RollBack(e) ==
    /\ run[e] # NoRun
    /\ rows' = [k \in SlotKey |-> [n \in 1 .. Len(rows[k]) |->
            rows[k][n] + Cardinality({i \in run[e].mine : SlotOf(booking[i]) = <<k, n>>})]]
    /\ booking' = [i \in DOMAIN booking |->
            IF i \in run[e].mine THEN [booking[i] EXCEPT !.status = "undone"]
            ELSE booking[i]]
    /\ run' = [run EXCEPT ![e] = NoRun]
    /\ UNCHANGED <<today, job, asked, filled, met, rule, edit, forgot, crossed>>

-----------------------------------------------------------------------------

Generate(j) ==
    \/ BeginGeneration(j)
    \/ GetSlot(j)
    \/ InsertSlot(j)
    \/ FailGeneration(j)
    \/ EndGeneration(j)
    \/ KillGeneration(j)

ProcessRules(e) ==
    \/ BeginRun(e)
    \/ PassDay(e) \/ SkipBooked(e) \/ BookDay(e) \/ LoseSeat(e)
    \/ SaveRule(e) \/ FailToSave(e)
    \/ EndRun(e) \/ RollBack(e)

CustomerStep ==
    \/ \E c \in Customer, s \in SlotRows : BookByHand(c, s)
    \/ \E i \in DOMAIN booking : Cancel(i) \/ Wash(i)
    \/ \E r \in Rule : CreateRule(r) \/ BeginPatchRule(r) \/ CommitPatchRule(r) \/ DeleteRule(r)

Next ==
    \/ Midnight
    \/ \E j \in Job : Generate(j)
    \/ CustomerStep
    \/ \E e \in Run : ProcessRules(e)

Spec == Init /\ [][Next]_vars

-----------------------------------------------------------------------------
(* Properties *)

(* Rows, rules and executions have their declared shape. *)
TypeOK ==
    /\ today \in 1 .. LastDay
    /\ rows \in [SlotKey -> Seq(0 .. Seats)]
    /\ booking \in Seq(BookingRow)
    /\ rule \in [Rule -> RuleRow]
    /\ run \in [Run -> RunRow]
    /\ job \in [Job -> [pc : {"idle", "get", "insert"}, from : 0 .. LastDay,
                        todo : SUBSET SlotKey]]
    /\ asked \in 0 .. MaxAsked
    /\ edit \in [Rule -> RuleRow]
    /\ filled \in 0 .. Horizon
    /\ met \in BOOLEAN
    /\ forgot \subseteq Rule
    /\ crossed \subseteq Rule

(* generate_slots_for_tenant: a night that is missed, a run that dies half
   way and a run that another one overtakes leave no hole.  Every open day a
   finished run has reached has all its slots, and it has them once unless
   two runs met. *)
EveryOpenDayHasSlots ==
    \A k \in SlotKey :
        /\ IsOpen(k[1]) /\ k[1] <= filled /\ k[1] >= filled - DaysAhead
                => rows[k] # <<>>
        /\ Len(rows[k]) <= 1 \/ (met /\ ~ServiceGiven)

HoldersOf(s) ==
    {i \in DOMAIN booking :
        SlotOf(booking[i]) = s /\ booking[i].status \notin {"cancelled", "undone"}}

(* Neither a slot generation over existing slots nor a rule that books, fails
   in the middle or is rolled back miscounts a seat: in every slot the seats
   left, the bookings and the seats lost for bookings that failed add up to
   the capacity the slot was made with. *)
SeatsMatchBookings ==
    \A s \in SlotRows : rows[s[1]][s[2]] + Cardinality(HoldersOf(s)) = Seats

(* The bookings rule r has made for day d. *)
RuleBookings(r, d) ==
    {i \in DOMAIN booking :
        /\ booking[i].user = r /\ booking[i].by = "rule" /\ booking[i].date = d
        /\ booking[i].status \notin {"failed", "undone"}}

AliveOn(r, d) == {i \in RuleBookings(r, d) : booking[i].status = "booked"}

(* "Idempotent -- safe to re-run" (tasks.py).  The job may run again and again:
   a rule has one booking alive on a day, and it does not book the day again
   after the customer cancelled unless a PATCH wrote an old last_booking_date
   back or it was not saved.  Executions that overlap have read the rule
   before the other one booked: they may book a day again, also twice at a
   time, but never twice in one slot, whose lock they need. *)
RuleBooksOnce ==
    \A r \in Rule, d \in Day :
        /\ \A i, j \in AliveOn(r, d) :
            i # j => r \in crossed /\ SlotOf(booking[i]) # SlotOf(booking[j])
        /\ r \in crossed \cup forgot \/ Cardinality(RuleBookings(r, d)) <= 1
=============================================================================
