----------------------------- MODULE Reminders -----------------------------
(***************************************************************************)
(* The reminders of apps/notifications: Celery tasks started by the beat   *)
(* schedule look for abandoned carts (hourly), birthdays and memberships   *)
(* about to renew (daily), and write to the users who were not written to  *)
(* lately.                                                                 *)
(*                                                                         *)
(* A task reads the rows that are due once, when it starts, and then goes  *)
(* through them: it looks for an earlier notification, inserts a new one   *)
(* and pushes it to the user's phone.  There is no transaction around it   *)
(* and no lock, every statement commits at once, a push may take long, and *)
(* the worker has several processes: the next execution can start before   *)
(* the last one has ended.                                                 *)
(*                                                                         *)
(* Time is counted in hours; a year is longer than the model runs.         *)
(***************************************************************************)
EXTENDS Integers, Sequences, FiniteSets

CONSTANTS
    User,
    Process,   \* processes of the Celery worker
    DayLength, \* hours in a day (the code's 24)
    LastHour,  \* bound: the last hour of the model
    BornOn,    \* BornOn[u]: the day (counted from 0) of u's birthday
    Ends,      \* Ends[u]: the hour u's membership period ends, or NoEnd; a
               \* period is a month, none ends within three days of the start
    NoEnd,
    NoUser,
    MaxRuns,   \* bound: executions of the tasks
    MaxTouches \* bound: changes of carts, preferences and subscriptions

Kind == {"cart", "birthday", "renewal"}
Hour == 0 .. LastHour

ASSUME RemindersAssumption ==
    /\ DayLength \in Nat \ {0}
    /\ {LastHour, MaxRuns, MaxTouches} \subseteq Nat
    /\ BornOn \in [User -> Nat]
    /\ Ends \in [User -> Nat \cup {NoEnd}]
    /\ \A u \in User : Ends[u] # NoEnd => Ends[u] >= 3 * DayLength
    /\ NoEnd \notin Nat /\ NoUser \notin User

VARIABLES
    now,       \* the time
    cart,      \* cart[u]: last_activity, and whether the cart has items
    opted,     \* opted[u]: the promotions column of u's NotificationPreference
    live,      \* live[u]: u's subscription is active or trialing
    notice,    \* the Notification rows, in the order they were inserted
    run,       \* run[p]: the execution process p is busy with
    runs,      \* executions so far
    touches,   \* those changes so far
    met,       \* history: kinds of which two executions were under way
    lastRound, \* history: when the last execution for renewals that came to
               \* its end had started
    skipped,   \* history: more than a day was between two such starts
    missed     \* history: users a round for renewals did not write to, as
               \* their subscription was not live or sending raised

userVars == <<cart, opted, live, touches>>
roundVars == <<lastRound, skipped, missed>>
vars == <<now, userVars, notice, run, runs, met, roundVars>>

-----------------------------------------------------------------------------
(* Rows *)

NoticeRow == [kind : Kind, user : User, at : Hour]

(* What a process of the worker is doing. *)
Execution == [pc : {"idle", "look", "send", "push"}, kind : Kind,
              at : Hour, todo : SUBSET User, user : User \cup {NoUser}]

Resting == [pc |-> "idle", kind |-> "cart", at |-> 0, todo |-> {}, user |-> NoUser]

Init ==
    /\ now = 0
    /\ cart \in [User -> [at : {0}, full : BOOLEAN]]
    /\ opted = [u \in User |-> TRUE]
    /\ live \in [User -> BOOLEAN]
    /\ notice = <<>>
    /\ run = [p \in Process |-> Resting]
    /\ runs = 0
    /\ touches = 0
    /\ met = {}
    /\ lastRound = 0
    /\ skipped = FALSE
    /\ missed = {}

Tick ==
    /\ now < LastHour
    /\ now' = now + 1
    /\ UNCHANGED <<userVars, notice, run, runs, met, roundVars>>

-----------------------------------------------------------------------------
(* Users *)

(* Adding to a cart and emptying it both touch last_activity. *)
TouchCart(u) ==
    /\ touches < MaxTouches
    /\ touches' = touches + 1
    /\ \E full \in BOOLEAN : cart' = [cart EXCEPT ![u] = [at |-> now, full |-> full]]
    /\ UNCHANGED <<now, opted, live, notice, run, runs, met, roundVars>>

(* PATCH notifications/settings. *)
ChangePreferences(u) ==
    /\ touches < MaxTouches
    /\ touches' = touches + 1
    /\ opted' = [opted EXCEPT ![u] = ~@]
    /\ UNCHANGED <<now, cart, live, notice, run, runs, met, roundVars>>

(* What Stripe's events and the requests of Membership make of the status of
   the subscription. *)
ChangeSubscription(u) ==
    /\ touches < MaxTouches
    /\ touches' = touches + 1
    /\ live' = [live EXCEPT ![u] = ~@]
    /\ UNCHANGED <<now, cart, opted, notice, run, runs, met, roundVars>>

-----------------------------------------------------------------------------
(* Who is due when a task starts *)

(* last_activity between an hour and a day and an hour ago. *)
DueCarts == {u \in User : cart[u].full /\ now - cart[u].at \in 1 .. DayLength + 1}

(* The date_of_birth has today's month and day. *)
DueBirthdays == {u \in User : BornOn[u] = now \div DayLength}

(* Mutant: the window is two hours short. *)
DueTooLate ==
    {u \in User : /\ Ends[u] # NoEnd /\ live[u]
                  /\ Ends[u] - now \in 2 * DayLength .. 3 * DayLength - 2}

(* current_period_end between two and three days from now. *)
Ending ==
    {u \in User : Ends[u] # NoEnd /\ Ends[u] - now \in 2 * DayLength .. 3 * DayLength}

DueRenewals == {u \in Ending : live[u]}

Due(k) ==
    CASE k = "cart"     -> DueCarts
      [] k = "birthday" -> DueBirthdays
      [] k = "renewal"  -> DueRenewals

Busy(k) == \E p \in Process : run[p].pc # "idle" /\ run[p].kind = k

BeginRun(p, k) ==
    /\ run[p].pc = "idle"
    /\ runs < MaxRuns
    /\ runs' = runs + 1
    /\ met' = IF Busy(k) THEN met \cup {k} ELSE met
    /\ run' = [run EXCEPT ![p] =
                [Resting EXCEPT !.pc = "look", !.kind = k, !.at = now, !.todo = Due(k)]]
    /\ missed' = IF k = "renewal" THEN missed \cup {u \in Ending : ~live[u]} ELSE missed
    /\ UNCHANGED <<now, userVars, notice, lastRound, skipped>>

-----------------------------------------------------------------------------
(* One user after the other *)

Earlier(u, k) == {i \in DOMAIN notice : notice[i].user = u /\ notice[i].kind = k}

(* Mutant: what was sent on the hour of a day ago is forgotten. *)
SentBefore(p, u) ==
    \E i \in Earlier(u, run[p].kind) :
        run[p].kind = "birthday" \/ notice[i].at > run[p].at - DayLength

(* A birthday is wished once a year; the rest is throttled to a day before
   the start of the task. *)
AlreadySent(p, u) ==
    \E i \in Earlier(u, run[p].kind) :
        run[p].kind = "birthday" \/ notice[i].at >= run[p].at - DayLength

Skip(p, u) ==
    /\ run[p].pc = "look"
    /\ u \in run[p].todo
    /\ AlreadySent(p, u)
    /\ run' = [run EXCEPT ![p].todo = @ \ {u}]
    /\ UNCHANGED <<now, userVars, notice, runs, met, roundVars>>

Choose(p, u) ==
    /\ run[p].pc = "look"
    /\ u \in run[p].todo
    /\ ~AlreadySent(p, u)
    /\ run' = [run EXCEPT ![p].pc = "send", ![p].user = u, ![p].todo = @ \ {u}]
    /\ UNCHANGED <<now, userVars, notice, runs, met, roundVars>>

(* send_abandoned_cart_push leaves a user alone who wants no promotions. *)
LeaveAlone(p) ==
    /\ run[p].pc = "send"
    /\ run[p].kind = "cart"
    /\ ~opted[run[p].user]
    /\ run' = [run EXCEPT ![p].pc = "look", ![p].user = NoUser]
    /\ UNCHANGED <<now, userVars, notice, runs, met, roundVars>>

(* send_notification: the row first. *)
InsertNotice(p) ==
    /\ run[p].pc = "send"
    /\ run[p].kind = "cart" => opted[run[p].user]
    /\ notice' = Append(notice, [kind |-> run[p].kind, user |-> run[p].user, at |-> now])
    /\ run' = [run EXCEPT ![p].pc = "push"]
    /\ UNCHANGED <<now, userVars, runs, met, roundVars>>

(* Sending raises before the row is there: the task logs it and goes on with
   the next user. *)
FailToSend(p) ==
    /\ run[p].pc = "send"
    /\ run' = [run EXCEPT ![p].pc = "look", ![p].user = NoUser]
    /\ missed' = IF run[p].kind = "renewal" THEN missed \cup {run[p].user} ELSE missed
    /\ UNCHANGED <<now, userVars, notice, runs, met, lastRound, skipped>>

(* _should_push and _send_fcm: the push arrives or not, or raises, and is not
   tried again; all a Notification keeps of it is the id Firebase gave. *)
Push(p) ==
    /\ run[p].pc = "push"
    /\ run' = [run EXCEPT ![p].pc = "look", ![p].user = NoUser]
    /\ UNCHANGED <<now, userVars, notice, runs, met, roundVars>>

(* The rounds of the renewal reminders are remembered. *)
Record(p) ==
    /\ skipped' = (skipped \/ run[p].at > lastRound + DayLength)
    /\ lastRound' = IF run[p].at > lastRound THEN run[p].at ELSE lastRound

EndRun(p) ==
    /\ run[p].pc = "look"
    /\ run[p].todo = {}
    /\ run' = [run EXCEPT ![p] = Resting]
    /\ IF run[p].kind = "renewal" THEN Record(p) ELSE UNCHANGED <<lastRound, skipped>>
    /\ UNCHANGED <<now, userVars, notice, runs, met, missed>>

(* The process is killed, or the task dies of an error outside of sending; the
   beat starts it again when it is due. *)
KillRun(p) ==
    /\ run[p].pc # "idle"
    /\ run' = [run EXCEPT ![p] = Resting]
    /\ UNCHANGED <<now, userVars, notice, runs, met, roundVars>>

-----------------------------------------------------------------------------

UserStep(u) == TouchCart(u) \/ ChangePreferences(u) \/ ChangeSubscription(u)

RunStep(p) ==
    \/ \E k \in Kind : BeginRun(p, k)
    \/ \E u \in User : Skip(p, u) \/ Choose(p, u)
    \/ LeaveAlone(p)
    \/ InsertNotice(p)
    \/ FailToSend(p)
    \/ Push(p)
    \/ EndRun(p)
    \/ KillRun(p)

Next ==
    \/ Tick
    \/ \E u \in User : UserStep(u)
    \/ \E p \in Process : RunStep(p)

Spec == Init /\ [][Next]_vars

-----------------------------------------------------------------------------
(* Properties *)

(* Rows and executions have their declared shape. *)
TypeOK ==
    /\ now \in Hour
    /\ cart \in [User -> [at : Hour, full : BOOLEAN]]
    /\ notice \in Seq(NoticeRow)
    /\ run \in [Process -> Execution]
    /\ lastRound \in Hour /\ skipped \in BOOLEAN
    /\ opted \in [User -> BOOLEAN] /\ live \in [User -> BOOLEAN]
    /\ met \subseteq Kind /\ missed \subseteq User
    /\ {runs, touches} \subseteq Nat

(* "only one abandoned-cart push per 24h per user", "only one birthday push
   per year per user", "max one renewal reminder per 24h per user"
   (tasks.py): true across runs that take longer than an hour and runs that
   die, as long as two runs of the same kind do not overlap. *)
RemindedOnce ==
    \A i, j \in DOMAIN notice :
        /\ i < j
        /\ notice[i].user = notice[j].user
        /\ notice[i].kind = notice[j].kind
        /\ notice[i].kind \notin met
        => notice[i].kind # "birthday" /\ notice[j].at > notice[i].at + DayLength

(* The window of a day is wide enough for a daily task: a membership whose
   last two days have begun was announced, unless more than a day passed
   between two rounds that came to their end, a round found the subscription
   neither active nor trialing in its window, or an exception was logged
   instead of sending. *)
RenewalAnnounced ==
    \A u \in User \ missed :
        /\ Ends[u] # NoEnd
        /\ lastRound > Ends[u] - 2 * DayLength
        /\ ~skipped
        => Earlier(u, "renewal") # {}
=============================================================================
