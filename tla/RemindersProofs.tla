-------------------------- MODULE RemindersProofs --------------------------
(***************************************************************************)
(* Proofs about Reminders, for any users, processes, birthdays, periods    *)
(* and length of a day.                                                    *)
(*                                                                         *)
(* RemindedOnce: while one process runs a kind of reminder nobody inserts  *)
(* a notification of that kind between its look at the earlier ones and    *)
(* its own (NotSentYet).  RenewalAnnounced: a round that started in the    *)
(* window of a membership and ended has announced it (RunAnnounces), and   *)
(* rounds that start at most a day apart cannot step over a window of a    *)
(* day (RoundsAnnounce).                                                   *)
(***************************************************************************)
EXTENDS Reminders, TLAPS

Running(p, k) == run[p].pc # "idle" /\ run[p].kind = k

(* Of a kind that never met there is one execution at a time. *)
RunsAlone ==
    \A p, q \in Process :
        Running(p, run[p].kind) /\ Running(q, run[p].kind) /\ run[p].kind \notin met => p = q

(* Nothing has happened in the future. *)
InThePast ==
    /\ \A p \in Process : run[p].at <= now
    /\ \A i \in 1 .. Len(notice) : notice[i].at <= now

(* Whoever was chosen is a user who still was not written to. *)
Unsent(p) ==
    run[p].pc = "send" =>
        /\ run[p].user \in User
        /\ run[p].kind \notin met => ~AlreadySent(p, run[p].user)

NotSentYet == \A p \in Process : Unsent(p)

OnceInv == TypeOK /\ RunsAlone /\ InThePast /\ NotSentYet /\ RemindedOnce

(* u's membership is due at hour t. *)
InWindow(u, t) == Ends[u] # NoEnd /\ Ends[u] - t \in 2 * DayLength .. 3 * DayLength

(* A round for renewals has announced whom it has been through. *)
Announces(p, u) ==
    Running(p, "renewal") /\ InWindow(u, run[p].at)
    => \/ u \in run[p].todo
       \/ run[p].pc = "send" /\ run[p].user = u
       \/ Earlier(u, "renewal") # {}
       \/ u \in missed

RunAnnounces == \A p \in Process, u \in User : Announces(p, u)

(* After a round that started within the last three days of a period, rounds
   a day apart at most, the period's end was announced. *)
RoundsAnnounce ==
    \A u \in User \ missed :
        Ends[u] # NoEnd /\ ~skipped /\ lastRound > Ends[u] - 3 * DayLength
        => Earlier(u, "renewal") # {}

RenewalInv == OnceInv /\ RunAnnounces /\ RoundsAnnounce

-----------------------------------------------------------------------------
(* Types *)

LEMMA RestingType ==
    Resting \in Execution /\ Resting.pc = "idle" /\ Resting.at = 0
  BY RemindersAssumption DEF Resting, Execution, Kind, Hour

LEMMA DueUsers == ASSUME NEW k \in Kind PROVE Due(k) \subseteq User
  BY DEF Due, Kind, DueCarts, DueBirthdays, DueRenewals, Ending

(* The execution that begins. *)
LEMMA BegunRun ==
    ASSUME TypeOK, NEW p \in Process, NEW k \in Kind, BeginRun(p, k)
    PROVE  /\ run'[p] \in Execution
           /\ run'[p].pc = "look" /\ run'[p].kind = k
           /\ run'[p].at = now /\ run'[p].todo = Due(k)
           /\ \A q \in Process \ {p} : run'[q] = run[q]
           /\ run' \in [Process -> Execution]
  <1>. DEFINE r == [Resting EXCEPT !.pc = "look", !.kind = k, !.at = now, !.todo = Due(k)]
  <1>1. /\ r \in Execution /\ r.pc = "look" /\ r.kind = k /\ r.at = now
        /\ r.todo = Due(k)
    BY DueUsers DEF TypeOK, Execution, Resting
  <1>2. run' = [run EXCEPT ![p] = r] /\ run \in [Process -> Execution]
    BY DEF BeginRun, TypeOK
  <1>. HIDE DEF r
  <1>. QED
    BY <1>1, <1>2

(* The execution that looks at a user of its list. *)
LEMMA RunLooks ==
    ASSUME TypeOK, NEW p \in Process, NEW u \in User, Skip(p, u) \/ Choose(p, u)
    PROVE  /\ run'[p].kind = run[p].kind /\ run'[p].at = run[p].at
           /\ run[p].pc = "look"
           /\ run'[p].todo = run[p].todo \ {u}
           /\ run'[p].pc = "look" \/ (run'[p].pc = "send" /\ run'[p].user = u /\ ~AlreadySent(p, u))
           /\ \A q \in Process \ {p} : run'[q] = run[q]
           /\ run' \in [Process -> Execution]
           /\ UNCHANGED <<now, notice, met, lastRound, skipped>>
  <1>0. run[p] \in Execution /\ run \in [Process -> Execution]
    BY DEF TypeOK
  <1>1. CASE Skip(p, u)
    BY <1>0, <1>1 DEF Skip, Execution, roundVars
  <1>2. CASE Choose(p, u)
    BY <1>0, <1>2 DEF Choose, Execution, roundVars
  <1>. QED
    BY <1>1, <1>2

(* The execution that goes on with the user it chose. *)
LEMMA RunGoesOn ==
    ASSUME TypeOK, NEW p \in Process, LeaveAlone(p) \/ InsertNotice(p) \/ FailToSend(p) \/ Push(p)
    PROVE  /\ run'[p].kind = run[p].kind /\ run'[p].at = run[p].at
           /\ run'[p].todo = run[p].todo
           /\ run[p].pc \in {"send", "push"} /\ run'[p].pc \in {"look", "push"}
           /\ \A q \in Process \ {p} : run'[q] = run[q]
           /\ run' \in [Process -> Execution]
           /\ UNCHANGED <<now, met, lastRound, skipped>>
  <1>0. run[p] \in Execution /\ run \in [Process -> Execution]
    BY DEF TypeOK
  <1>3. CASE LeaveAlone(p)
    BY <1>0, <1>3 DEF LeaveAlone, Execution, roundVars
  <1>4. CASE InsertNotice(p)
    BY <1>0, <1>4 DEF InsertNotice, Execution, roundVars
  <1>5. CASE Push(p)
    BY <1>0, <1>5 DEF Push, Execution, roundVars
  <1>6. CASE FailToSend(p)
    BY <1>0, <1>6 DEF FailToSend, Execution
  <1>. QED
    BY <1>3, <1>4, <1>5, <1>6

(* The notification that is inserted. *)
LEMMA Inserted ==
    ASSUME TypeOK, NEW p \in Process, InsertNotice(p), run[p].user \in User
    PROVE  /\ notice' \in Seq(NoticeRow) /\ Len(notice') = Len(notice) + 1
           /\ Len(notice) \in Nat
           /\ \A i \in 1 .. Len(notice) : notice'[i] = notice[i]
           /\ notice'[Len(notice')].kind = run[p].kind
           /\ notice'[Len(notice')].user = run[p].user
           /\ notice'[Len(notice')].at = now
  <1>. DEFINE x == [kind |-> run[p].kind, user |-> run[p].user, at |-> now]
  <1>1. x \in NoticeRow
    BY DEF TypeOK, NoticeRow, Execution
  <1>2. notice \in Seq(NoticeRow) /\ notice' = Append(notice, x)
    BY DEF TypeOK, InsertNotice
  <1>3. x.kind = run[p].kind /\ x.user = run[p].user /\ x.at = now
    OBVIOUS
  <1>. HIDE DEF x
  <1>. QED
    BY <1>1, <1>2, <1>3

LEMMA InitTypes == Init => TypeOK
  <1>. SUFFICES ASSUME Init PROVE TypeOK
    OBVIOUS
  <1>1. cart \in [User -> [at : Hour, full : BOOLEAN]]
    BY RemindersAssumption DEF Init, Hour
  <1>2. notice \in Seq(NoticeRow)
    BY DEF Init
  <1>3. /\ opted \in [User -> BOOLEAN] /\ live \in [User -> BOOLEAN]
        /\ skipped \in BOOLEAN /\ missed \subseteq User
    BY DEF Init
  <1>4. run \in [Process -> Execution]
    BY RestingType DEF Init
  <1>5. now \in Hour /\ lastRound \in Hour /\ met \subseteq Kind /\ {runs, touches} \subseteq Nat
    BY RemindersAssumption DEF Init, Hour
  <1>. QED
    BY <1>1, <1>2, <1>3, <1>4, <1>5 DEF TypeOK

(* InsertNotice needs to know that someone was chosen. *)
LEMMA TypeStep == TypeOK /\ NotSentYet /\ [Next]_vars => TypeOK'
  <1>. SUFFICES ASSUME TypeOK, NotSentYet, [Next]_vars PROVE TypeOK'
    OBVIOUS
  <1>. USE RemindersAssumption
  <1>1. CASE Tick
    BY <1>1 DEF Tick, TypeOK, Hour, userVars, roundVars
  <1>2. ASSUME NEW u \in User, UserStep(u) PROVE TypeOK'
    <2>1. CASE TouchCart(u)
      <3>1. cart' \in [User -> [at : Hour, full : BOOLEAN]] /\ touches' \in Nat
        BY <2>1 DEF TouchCart, TypeOK
      <3>. QED
        BY <2>1, <3>1 DEF TouchCart, TypeOK, roundVars
    <2>2. CASE ChangePreferences(u)
      <3>1. opted' = [opted EXCEPT ![u] = ~opted[u]] /\ opted \in [User -> BOOLEAN]
        BY <2>2 DEF ChangePreferences, TypeOK
      <3>2. opted' \in [User -> BOOLEAN]
        BY <3>1
      <3>3. touches' \in Nat
        BY <2>2 DEF ChangePreferences, TypeOK
      <3>. QED
        BY <2>2, <3>2, <3>3 DEF ChangePreferences, TypeOK, roundVars
    <2>3. CASE ChangeSubscription(u)
      <3>1. live' = [live EXCEPT ![u] = ~live[u]] /\ live \in [User -> BOOLEAN]
        BY <2>3 DEF ChangeSubscription, TypeOK
      <3>2. live' \in [User -> BOOLEAN]
        BY <3>1
      <3>3. touches' \in Nat
        BY <2>3 DEF ChangeSubscription, TypeOK
      <3>. QED
        BY <2>3, <3>2, <3>3 DEF ChangeSubscription, TypeOK, roundVars
    <2>. QED
      BY <1>2, <2>1, <2>2, <2>3 DEF UserStep
  <1>3. ASSUME NEW p \in Process, NEW k \in Kind, BeginRun(p, k) PROVE TypeOK'
    <2>1. run' \in [Process -> Execution]
      BY <1>3, BegunRun
    <2>2. met' \subseteq Kind /\ runs' \in Nat /\ missed' \subseteq User
      BY <1>3 DEF BeginRun, TypeOK, Ending
    <2>. QED
      BY <1>3, <2>1, <2>2 DEF BeginRun, TypeOK, userVars
  <1>4. ASSUME NEW p \in Process, NEW u \in User, Skip(p, u) \/ Choose(p, u) PROVE TypeOK'
    <2>1. run' \in [Process -> Execution]
      BY <1>4, RunLooks
    <2>. QED
      BY <1>4, <2>1 DEF Skip, Choose, TypeOK, userVars, roundVars
  <1>5. ASSUME NEW p \in Process, LeaveAlone(p) \/ InsertNotice(p) \/ FailToSend(p) \/ Push(p) PROVE TypeOK'
    <2>1. run' \in [Process -> Execution]
      BY <1>5, RunGoesOn
    <2>2. notice' \in Seq(NoticeRow)
      BY <1>5, Inserted DEF LeaveAlone, InsertNotice, FailToSend, Push, NotSentYet, Unsent, TypeOK
    <2>3. missed' \subseteq User
      BY <1>5 DEF LeaveAlone, InsertNotice, FailToSend, Push, NotSentYet, Unsent, TypeOK, roundVars
    <2>. QED
      BY <1>5, <2>1, <2>2, <2>3
          DEF LeaveAlone, InsertNotice, FailToSend, Push, TypeOK, userVars, roundVars
  <1>6. ASSUME NEW p \in Process, EndRun(p) \/ KillRun(p) PROVE TypeOK'
    <2>1. run' = [run EXCEPT ![p] = Resting] /\ UNCHANGED <<now, userVars, notice, runs, met>>
      BY <1>6 DEF EndRun, KillRun
    <2>3. missed' = missed
      BY <1>6 DEF EndRun, KillRun, roundVars
    <2>2. lastRound' \in Hour /\ skipped' \in BOOLEAN
      BY <1>6 DEF EndRun, KillRun, Record, TypeOK, Execution, roundVars
    <2>. QED
      BY <2>1, <2>2, <2>3, RestingType DEF TypeOK, userVars
  <1>7. CASE UNCHANGED vars
    BY <1>7 DEF vars, userVars, roundVars, TypeOK
  <1>8. ASSUME NEW p \in Process, RunStep(p) PROVE TypeOK'
    BY <1>3, <1>4, <1>5, <1>6, <1>8 DEF RunStep
  <1>. QED
    BY <1>1, <1>2, <1>7, <1>8 DEF Next

-----------------------------------------------------------------------------
(* Nobody is written to twice *)

LEMMA AloneStep == OnceInv /\ [Next]_vars => RunsAlone'
  <1>. SUFFICES ASSUME OnceInv, [Next]_vars PROVE RunsAlone'
    OBVIOUS
  <1>0. TypeOK /\ RunsAlone
    BY DEF OnceInv
  <1>1. ASSUME NEW p \in Process, NEW k \in Kind, BeginRun(p, k) PROVE RunsAlone'
    <2>1. met \subseteq met' /\ (Busy(k) => k \in met')
      BY <1>1 DEF BeginRun
    <2>2. run'[p].kind = k /\ (\A q \in Process \ {p} : run'[q] = run[q])
      BY <1>0, <1>1, BegunRun
    <2>. QED
      BY <1>0, <2>1, <2>2 DEF RunsAlone, Running, Busy
  <1>2. ASSUME NEW p \in Process, run'[p].kind = run[p].kind, run[p].pc # "idle", met' = met,
               \A q \in Process \ {p} : run'[q] = run[q]
        PROVE  RunsAlone'
    BY <1>0, <1>2 DEF RunsAlone, Running
  <1>3. ASSUME NEW p \in Process, EndRun(p) \/ KillRun(p) PROVE RunsAlone'
    <2>1. run' = [run EXCEPT ![p] = Resting] /\ met' = met
      BY <1>3 DEF EndRun, KillRun
    <2>. QED
      BY <1>0, <2>1, RestingType DEF RunsAlone, Running, TypeOK
  <1>4. CASE Tick \/ (\E u \in User : UserStep(u)) \/ UNCHANGED vars
    <2>1. run' = run /\ met' = met
      BY <1>4 DEF Tick, UserStep, TouchCart, ChangePreferences, ChangeSubscription,
           vars, roundVars
    <2>. QED
      BY <1>0, <2>1 DEF RunsAlone, Running
  <1>5. ASSUME NEW p \in Process, LeaveAlone(p) \/ InsertNotice(p) \/ FailToSend(p) \/ Push(p) PROVE RunsAlone'
    BY <1>0, <1>2, <1>5, RunGoesOn
  <1>7. ASSUME NEW p \in Process, NEW u \in User, Skip(p, u) \/ Choose(p, u) PROVE RunsAlone'
    BY <1>0, <1>2, <1>7, RunLooks
  <1>6. ASSUME NEW p \in Process, RunStep(p) PROVE RunsAlone'
    BY <1>1, <1>3, <1>5, <1>6, <1>7 DEF RunStep
  <1>. QED
    BY <1>4, <1>6 DEF Next

(* An execution that is not disturbed still knows that it sent nothing. *)
LEMMA UnsentStays ==
    ASSUME NEW q \in Process, Unsent(q), run'[q] = run[q], UNCHANGED notice,
           met \subseteq met'
    PROVE  Unsent(q)'
  BY DEF Unsent, AlreadySent, Earlier

LEMMA PastStep == OnceInv /\ [Next]_vars => InThePast'
  <1>. SUFFICES ASSUME OnceInv, [Next]_vars PROVE InThePast'
    OBVIOUS
  <1>0. TypeOK /\ InThePast /\ NotSentYet
    BY DEF OnceInv
  <1>t. /\ now \in Int /\ 0 <= now /\ \A p \in Process : run[p].at \in Int
        /\ \A i \in 1 .. Len(notice) : notice[i].at \in Int
    <2>1. \A i \in 1 .. Len(notice) : notice[i] \in NoticeRow
      BY <1>0 DEF TypeOK
    <2>2. now \in Int /\ 0 <= now
      BY <1>0, RemindersAssumption DEF TypeOK, Hour
    <2>3. \A p \in Process : run[p].at \in Int
      BY <1>0, RemindersAssumption DEF TypeOK, Hour, Execution
    <2>4. \A i \in 1 .. Len(notice) : notice[i].at \in Int
      BY <2>1, RemindersAssumption DEF Hour, NoticeRow
    <2>. QED
      BY <2>2, <2>3, <2>4
  <1>1. CASE Tick
    <2>1. now' = now + 1 /\ UNCHANGED <<run, notice>>
      BY <1>1 DEF Tick
    <2>2. ASSUME NEW p \in Process PROVE run'[p].at <= now'
      <3>1. run[p].at \in Int /\ run[p].at <= now /\ run'[p].at = run[p].at
        BY <1>0, <1>t, <2>1 DEF InThePast
      <3>. QED
        BY <1>t, <2>1, <3>1
    <2>3. ASSUME NEW i \in 1 .. Len(notice) PROVE notice'[i].at <= now'
      <3>1. notice[i].at \in Int /\ notice[i].at <= now /\ notice'[i].at = notice[i].at
        BY <1>0, <1>t, <2>1 DEF InThePast
      <3>. QED
        BY <1>t, <2>1, <3>1
    <2>. QED
      BY <2>1, <2>2, <2>3 DEF InThePast
  <1>2. ASSUME NEW p \in Process, UNCHANGED <<now, notice>>,
               \A q \in Process \ {p} : run'[q] = run[q],
               run'[p].at \in {0, now, run[p].at}
        PROVE  InThePast'
    BY <1>0, <1>t, <1>2 DEF InThePast
  <1>3. ASSUME NEW p \in Process, NEW k \in Kind, BeginRun(p, k) PROVE InThePast'
    BY <1>0, <1>2, <1>3, BegunRun DEF BeginRun
  <1>4. ASSUME NEW p \in Process, NEW u \in User, Skip(p, u) \/ Choose(p, u) PROVE InThePast'
    BY <1>0, <1>2, <1>4, RunLooks
  <1>5. ASSUME NEW p \in Process, LeaveAlone(p) \/ FailToSend(p) \/ Push(p) PROVE InThePast'
    BY <1>0, <1>2, <1>5, RunGoesOn DEF LeaveAlone, FailToSend, Push
  <1>6. ASSUME NEW p \in Process, InsertNotice(p) PROVE InThePast'
    <2>1. /\ Len(notice') = Len(notice) + 1 /\ Len(notice) \in Nat
          /\ \A i \in 1 .. Len(notice) : notice'[i] = notice[i]
          /\ notice'[Len(notice')].at = now
      BY <1>0, <1>6, Inserted DEF InsertNotice, NotSentYet, Unsent
    <2>2. /\ now' = now /\ run'[p].at = run[p].at
          /\ \A q \in Process \ {p} : run'[q] = run[q]
      BY <1>0, <1>6, RunGoesOn
    <2>3. \A i \in 1 .. Len(notice') : i \in 1 .. Len(notice) \/ i = Len(notice')
      BY <2>1
    <2>. QED
      BY <1>0, <1>t, <2>1, <2>2, <2>3 DEF InThePast
  <1>7. ASSUME NEW p \in Process, EndRun(p) \/ KillRun(p) PROVE InThePast'
    <2>1. run' = [run EXCEPT ![p] = Resting] /\ UNCHANGED <<now, notice>>
      BY <1>7 DEF EndRun, KillRun
    <2>. QED
      BY <1>0, <1>2, <2>1, RestingType DEF TypeOK
  <1>8. CASE (\E u \in User : UserStep(u)) \/ UNCHANGED vars
    BY <1>0, <1>8 DEF UserStep, TouchCart, ChangePreferences, ChangeSubscription, vars, InThePast
  <1>9. ASSUME NEW p \in Process, RunStep(p) PROVE InThePast'
    BY <1>3, <1>4, <1>5, <1>6, <1>7, <1>9 DEF RunStep
  <1>. QED
    BY <1>1, <1>8, <1>9 DEF Next

LEMMA UnsentStep == OnceInv /\ [Next]_vars => NotSentYet'
  <1>. SUFFICES ASSUME OnceInv, [Next]_vars, NEW q \in Process PROVE Unsent(q)'
    BY DEF NotSentYet
  <1>0. TypeOK /\ RunsAlone /\ Unsent(q)
    BY DEF OnceInv, NotSentYet
  <1>1. CASE run'[q].pc # "send"
    BY <1>1 DEF Unsent
  <1>2. CASE run'[q] = run[q] /\ UNCHANGED notice /\ met \subseteq met'
    BY <1>0, <1>2, UnsentStays
  <1>3. ASSUME NEW p \in Process, NEW k \in Kind, BeginRun(p, k) PROVE Unsent(q)'
    BY <1>0, <1>1, <1>2, <1>3, BegunRun DEF BeginRun
  <1>4. ASSUME NEW p \in Process, NEW u \in User, Skip(p, u) \/ Choose(p, u)
        PROVE  Unsent(q)'
    <2>1. CASE q = p
      <3>1. CASE run'[q].pc = "send" /\ run'[q].user = u /\ ~AlreadySent(q, u)
        <4>1. ~AlreadySent(q, u)'
          BY <1>0, <1>4, <2>1, <3>1, RunLooks DEF AlreadySent, Earlier
        <4>. QED
          BY <3>1, <4>1 DEF Unsent, AlreadySent, Earlier
      <3>. QED
        BY <1>0, <1>1, <1>4, <2>1, <3>1, RunLooks
    <2>2. CASE q # p
      BY <1>0, <1>2, <1>4, <2>2, RunLooks
    <2>. QED
      BY <2>1, <2>2
  <1>5. ASSUME NEW p \in Process, LeaveAlone(p) \/ FailToSend(p) \/ Push(p) PROVE Unsent(q)'
    BY <1>0, <1>1, <1>2, <1>5, RunGoesOn DEF LeaveAlone, FailToSend, Push
  <1>6. ASSUME NEW p \in Process, InsertNotice(p) PROVE Unsent(q)'
    <2>1. CASE q = p
      BY <1>0, <1>1, <1>6, <2>1, RunGoesOn
    <2>2. CASE q # p
      <3>0. run'[q] = run[q] /\ met' = met
        BY <1>0, <1>6, <2>2, RunGoesOn
      <3>1. CASE run[q].pc = "send" /\ run[q].kind \notin met
        <4>1. run[q].kind # run[p].kind
          BY <1>0, <1>6, <2>2, <3>1 DEF RunsAlone, Running, InsertNotice
        <4>2. run[p].user \in User
          BY <1>6 DEF OnceInv, NotSentYet, Unsent, InsertNotice
        <4>3. /\ Len(notice') = Len(notice) + 1 /\ Len(notice) \in Nat
              /\ \A i \in 1 .. Len(notice) : notice'[i] = notice[i]
              /\ notice'[Len(notice')].kind = run[p].kind
              /\ DOMAIN notice = 1 .. Len(notice) /\ DOMAIN notice' = 1 .. Len(notice')
          BY <1>0, <1>6, <4>2, Inserted DEF TypeOK
        <4>4. \A i \in 1 .. Len(notice') : i \in 1 .. Len(notice) \/ i = Len(notice')
          BY <4>3
        <4>5. ASSUME NEW u \in User PROVE Earlier(u, run[q].kind)' = Earlier(u, run[q].kind)
          BY <3>0, <4>1, <4>3, <4>4 DEF Earlier
        <4>6. run[q].user \in User /\ ~AlreadySent(q, run[q].user)
          BY <1>0, <3>1 DEF Unsent
        <4>7. /\ Earlier(run[q].user, run[q].kind)' = Earlier(run[q].user, run[q].kind)
              /\ \A i \in Earlier(run[q].user, run[q].kind) : notice'[i] = notice[i]
          BY <3>0, <4>3, <4>5, <4>6 DEF Earlier
        <4>. QED
          BY <3>0, <4>6, <4>7 DEF Unsent, AlreadySent
      <3>. QED
        BY <1>0, <3>0, <3>1 DEF Unsent
    <2>. QED
      BY <2>1, <2>2
  <1>7. ASSUME NEW p \in Process, EndRun(p) \/ KillRun(p) PROVE Unsent(q)'
    <2>1. run' = [run EXCEPT ![p] = Resting] /\ UNCHANGED <<met, notice>>
      BY <1>7 DEF EndRun, KillRun
    <2>. QED
      BY <1>0, <1>1, <1>2, <2>1, RestingType DEF TypeOK
  <1>8. CASE Tick \/ (\E u \in User : UserStep(u)) \/ UNCHANGED vars
    BY <1>2, <1>8 DEF Tick, UserStep, TouchCart, ChangePreferences, ChangeSubscription,
           vars, roundVars
  <1>9. ASSUME NEW p \in Process, RunStep(p) PROVE Unsent(q)'
    BY <1>3, <1>4, <1>5, <1>6, <1>7, <1>9 DEF RunStep
  <1>. QED
    BY <1>8, <1>9 DEF Next

(* A new notification comes a day after the last of its kind to its user. *)
LEMMA RemindedStep == OnceInv /\ [Next]_vars => RemindedOnce'
  <1>. SUFFICES ASSUME OnceInv, [Next]_vars PROVE RemindedOnce'
    OBVIOUS
  <1>0. TypeOK /\ InThePast /\ NotSentYet /\ RemindedOnce
    BY DEF OnceInv
  <1>t. DOMAIN notice = 1 .. Len(notice)
    BY <1>0 DEF TypeOK
  <1>1. CASE UNCHANGED notice /\ met \subseteq met'
    BY <1>0, <1>1 DEF RemindedOnce
  <1>2. ASSUME NEW p \in Process, InsertNotice(p) PROVE RemindedOnce'
    <2>0. run[p].user \in User /\ run[p].kind \in Kind /\ (run[p].kind \notin met => ~AlreadySent(p, run[p].user))
      BY <1>0, <1>2 DEF NotSentYet, Unsent, InsertNotice, TypeOK, Execution
    <2>1. /\ Len(notice') = Len(notice) + 1 /\ Len(notice) \in Nat
          /\ \A i \in 1 .. Len(notice) : notice'[i] = notice[i]
          /\ notice'[Len(notice')].kind = run[p].kind
          /\ notice'[Len(notice')].user = run[p].user
          /\ notice'[Len(notice')].at = now
          /\ DOMAIN notice' = 1 .. Len(notice') /\ met' = met
      BY <1>0, <1>2, <2>0, Inserted DEF InsertNotice
    <2>. SUFFICES ASSUME NEW i \in DOMAIN notice', NEW j \in DOMAIN notice', i < j,
                         notice'[i].user = notice'[j].user,
                         notice'[i].kind = notice'[j].kind, notice'[i].kind \notin met
                  PROVE  /\ notice'[i].kind # "birthday"
                         /\ notice'[j].at > notice'[i].at + DayLength
      BY <2>1 DEF RemindedOnce
    <2>2. CASE j \in 1 .. Len(notice)
      <3>1. i \in 1 .. Len(notice)
        BY <2>1, <2>2
      <3>2. notice'[i] = notice[i] /\ notice'[j] = notice[j]
        BY <2>1, <2>2, <3>1
      <3>. QED
        BY <1>0, <1>t, <2>2, <3>1, <3>2 DEF RemindedOnce
    <2>3. CASE j = Len(notice')
      <3>1. i \in 1 .. Len(notice) /\ notice'[i] = notice[i]
        BY <2>1, <2>3
      <3>2. i \in Earlier(run[p].user, run[p].kind) /\ run[p].kind \notin met
        BY <1>t, <2>1, <2>3, <3>1 DEF Earlier, RemindedOnce
      <3>3. run[p].kind # "birthday" /\ ~(notice[i].at >= run[p].at - DayLength)
        BY <2>0, <3>2 DEF AlreadySent
      <3>4. /\ notice[i].at \in Int /\ run[p].at \in Int /\ now \in Int /\ DayLength \in Int
            /\ run[p].at <= now
        <4>1. notice[i] \in NoticeRow /\ run[p] \in Execution /\ now \in Hour
          BY <1>0, <3>1 DEF TypeOK
        <4>2. run[p].at <= now
          BY <1>0 DEF InThePast
        <4>. QED
          BY <4>1, <4>2, RemindersAssumption DEF Execution, NoticeRow, Hour
      <3>5. now > notice[i].at + DayLength
        BY <3>3, <3>4
      <3>. QED
        BY <2>1, <2>3, <3>1, <3>2, <3>3, <3>5 DEF Earlier
    <2>. QED
      BY <2>1, <2>2, <2>3
  <1>3. ASSUME NEW p \in Process, RunStep(p) PROVE RemindedOnce'
    BY <1>1, <1>2, <1>3 DEF RunStep, BeginRun, Skip, Choose, LeaveAlone, FailToSend, Push, EndRun, KillRun
  <1>. QED
    BY <1>1, <1>3 DEF Next, Tick, UserStep, TouchCart, ChangePreferences, ChangeSubscription, vars

LEMMA OnceInvariant == Spec => []OnceInv
  <1>1. Init => OnceInv
    <2>. SUFFICES ASSUME Init PROVE OnceInv
      OBVIOUS
    <2>1. TypeOK /\ now = 0 /\ notice = <<>> /\ run = [p \in Process |-> Resting]
      BY InitTypes DEF Init
    <2>2. RunsAlone /\ InThePast /\ NotSentYet
      BY <2>1, RestingType DEF RunsAlone, Running, InThePast, NotSentYet, Unsent
    <2>3. RemindedOnce
      BY <2>1 DEF RemindedOnce
    <2>. QED
      BY <2>1, <2>2, <2>3 DEF OnceInv
  <1>2. OnceInv /\ [Next]_vars => OnceInv'
    BY TypeStep, AloneStep, PastStep, UnsentStep, RemindedStep DEF OnceInv
  <1>. QED
    BY <1>1, <1>2, PTL DEF Spec

-----------------------------------------------------------------------------
(* Every renewal is announced *)

(* Notifications are not deleted. *)
LEMMA NoticesStay ==
    ASSUME OnceInv, [Next]_vars, NEW u \in User, NEW k \in Kind, Earlier(u, k) # {}
    PROVE  Earlier(u, k)' # {}
  <1>1. TypeOK /\ NotSentYet
    BY DEF OnceInv
  <1>2. CASE UNCHANGED notice
    BY <1>2 DEF Earlier
  <1>3. ASSUME NEW p \in Process, InsertNotice(p) PROVE Earlier(u, k)' # {}
    <2>1. /\ Len(notice') = Len(notice) + 1 /\ Len(notice) \in Nat
          /\ \A i \in 1 .. Len(notice) : notice'[i] = notice[i]
          /\ DOMAIN notice = 1 .. Len(notice) /\ DOMAIN notice' = 1 .. Len(notice')
      BY <1>1, <1>3, Inserted DEF InsertNotice, NotSentYet, Unsent, TypeOK
    <2>2. PICK i \in DOMAIN notice : notice[i].user = u /\ notice[i].kind = k
      BY DEF Earlier
    <2>3. i \in DOMAIN notice' /\ notice'[i] = notice[i]
      BY <2>1
    <2>. QED
      BY <2>2, <2>3 DEF Earlier
  <1>4. ASSUME NEW p \in Process, RunStep(p) PROVE Earlier(u, k)' # {}
    BY <1>2, <1>3, <1>4 DEF RunStep, BeginRun, Skip, Choose, LeaveAlone, FailToSend, Push, EndRun, KillRun
  <1>. QED
    BY <1>2, <1>4 DEF Next, Tick, UserStep, TouchCart, ChangePreferences, ChangeSubscription, vars

(* Nor is it forgotten who was missed. *)
LEMMA MissedStay == [Next]_vars => missed \subseteq missed'
  <1>. SUFFICES ASSUME [Next]_vars PROVE missed \subseteq missed'
    OBVIOUS
  <1>1. ASSUME NEW p \in Process, RunStep(p) PROVE missed \subseteq missed'
    BY <1>1 DEF RunStep, BeginRun, Skip, Choose, LeaveAlone, InsertNotice, FailToSend, Push,
                EndRun, KillRun, roundVars
  <1>. QED
    BY <1>1 DEF Next, Tick, UserStep, TouchCart, ChangePreferences, ChangeSubscription, vars,
                roundVars

(* A task reads the memberships that are due when it starts, and each of them
   is written to, was written to before or is missed. *)
LEMMA AnnounceStep == RenewalInv /\ [Next]_vars => RunAnnounces'
  <1>. SUFFICES ASSUME RenewalInv, [Next]_vars, NEW q \in Process, NEW u \in User,
                       u \notin missed'
                PROVE  Announces(q, u)'
    BY DEF RunAnnounces, Announces
  <1>m. u \notin missed
    BY MissedStay
  <1>0. OnceInv /\ TypeOK /\ Announces(q, u)
    BY DEF RenewalInv, OnceInv, RunAnnounces
  <1>k. "renewal" \in Kind
    BY DEF Kind
  <1>1. CASE Earlier(u, "renewal")' # {}
    BY <1>1 DEF Announces, Running, InWindow, Earlier
  <1>2. CASE run'[q].pc = "idle"
    BY <1>2 DEF Announces, Running
  <1>3. CASE Earlier(u, "renewal") = {} /\ run'[q] = run[q]
    BY <1>0, <1>m, <1>3 DEF Announces, Running, InWindow
  <1>4. CASE run'[q] = run[q]
    BY <1>0, <1>1, <1>3, <1>4, <1>k, NoticesStay
  <1>5. ASSUME NEW p \in Process, NEW k \in Kind, BeginRun(p, k) PROVE Announces(q, u)'
    <2>1. CASE q = p /\ k = "renewal"
      <3>1. run'[q].at = now /\ run'[q].todo = DueRenewals
        BY <1>0, <1>5, <2>1, BegunRun DEF Due
      <3>2. u \notin Ending \/ live[u]
        BY <1>5, <2>1 DEF BeginRun
      <3>. QED
        BY <3>1, <3>2 DEF Announces, InWindow, DueRenewals, Ending
    <2>2. CASE q = p /\ k # "renewal"
      BY <1>0, <1>5, <2>2, BegunRun DEF Announces, Running
    <2>. QED
      BY <1>0, <1>4, <1>5, <2>1, <2>2, BegunRun
  <1>6. ASSUME NEW p \in Process, NEW v \in User, Skip(p, v) \/ Choose(p, v)
        PROVE  Announces(q, u)'
    <2>1. CASE q = p
      <3>1. /\ run'[q].kind = run[q].kind /\ run'[q].at = run[q].at /\ run[q].pc = "look"
            /\ run'[q].todo = run[q].todo \ {v}
        BY <1>0, <1>6, <2>1, RunLooks
      <3>2. CASE Skip(p, v)
        <4>1. Earlier(v, run[q].kind) # {}
          BY <2>1, <3>2 DEF Skip, AlreadySent
        <4>2. run[q].kind = "renewal" => Earlier(v, "renewal")' # {}
          BY <1>0, <1>k, <4>1, NoticesStay
        <4>3. Earlier(u, "renewal") # {} => Earlier(u, "renewal")' # {}
          BY <1>0, <1>k, NoticesStay
        <4>. QED
          BY <1>0, <1>1, <1>m, <3>1, <4>2, <4>3 DEF Announces, Running, InWindow
      <3>3. CASE Choose(p, v)
        <4>1. run'[q].pc = "send" /\ run'[q].user = v
          BY <1>0, <2>1, <3>3 DEF Choose, TypeOK, Execution
        <4>2. Earlier(u, "renewal") # {} => Earlier(u, "renewal")' # {}
          BY <1>0, <1>k, NoticesStay
        <4>. QED
          BY <1>0, <1>1, <1>m, <3>1, <4>1, <4>2 DEF Announces, Running, InWindow
      <3>. QED
        BY <1>6, <3>2, <3>3
    <2>. QED
      BY <1>0, <1>4, <1>6, <2>1, RunLooks
  <1>7. ASSUME NEW p \in Process, LeaveAlone(p) \/ InsertNotice(p) \/ FailToSend(p) \/ Push(p)
        PROVE  Announces(q, u)'
    <2>1. CASE q = p
      <3>1. /\ run'[q].kind = run[q].kind /\ run'[q].at = run[q].at /\ run[q].pc # "idle"
            /\ run'[q].todo = run[q].todo
        BY <1>0, <1>7, <2>1, RunGoesOn
      <3>2. Earlier(u, "renewal") # {} => Earlier(u, "renewal")' # {}
        BY <1>0, <1>k, NoticesStay
      <3>3. CASE run[q].kind # "renewal"
        BY <3>1, <3>3 DEF Announces, Running
      <3>4. CASE run[q].kind = "renewal" /\ run[q].pc = "send" /\ run[q].user = u
        <4>1. InsertNotice(p)
          BY <1>7, <2>1, <3>4 DEF LeaveAlone, FailToSend, Push
        <4>2. /\ Len(notice') \in DOMAIN notice'
              /\ notice'[Len(notice')].user = u /\ notice'[Len(notice')].kind = "renewal"
          BY <1>0, <2>1, <3>4, <4>1, Inserted DEF TypeOK
        <4>. QED
          BY <1>1, <4>2 DEF Earlier
      <3>5. CASE run[q].kind = "renewal" /\ ~(run[q].pc = "send" /\ run[q].user = u)
        BY <1>0, <1>1, <1>m, <3>1, <3>2, <3>5 DEF Announces, Running, InWindow
      <3>. QED
        BY <3>3, <3>4, <3>5
    <2>. QED
      BY <1>0, <1>4, <1>7, <2>1, RunGoesOn
  <1>8. ASSUME NEW p \in Process, EndRun(p) \/ KillRun(p) PROVE Announces(q, u)'
    <2>1. run' = [run EXCEPT ![p] = Resting]
      BY <1>8 DEF EndRun, KillRun
    <2>. QED
      BY <1>0, <1>2, <1>4, <2>1, RestingType DEF TypeOK
  <1>9. CASE Tick \/ (\E v \in User : UserStep(v)) \/ UNCHANGED vars
    BY <1>4, <1>9 DEF Tick, UserStep, TouchCart, ChangePreferences, ChangeSubscription,
           vars, roundVars
  <1>10. ASSUME NEW p \in Process, RunStep(p) PROVE Announces(q, u)'
    BY <1>5, <1>6, <1>7, <1>8, <1>10 DEF RunStep
  <1>. QED
    BY <1>9, <1>10 DEF Next

(* A round at most a day later than the last one that counted either starts
   in the window of a membership or leaves all of it ahead. *)
LEMMA RoundsStep == RenewalInv /\ [Next]_vars => RoundsAnnounce'
  <1>. SUFFICES ASSUME RenewalInv, [Next]_vars, NEW u \in User, Ends[u] # NoEnd,
                       u \notin missed', ~skipped', lastRound' > Ends[u] - 3 * DayLength
                PROVE  Earlier(u, "renewal")' # {}
    BY DEF RoundsAnnounce, Earlier
  <1>m. u \notin missed
    BY MissedStay
  <1>0. OnceInv /\ TypeOK /\ RoundsAnnounce /\ RunAnnounces
    BY DEF RenewalInv, OnceInv
  <1>k. "renewal" \in Kind
    BY DEF Kind
  <1>t. lastRound \in Int /\ Ends[u] \in Int /\ DayLength \in Int /\ 0 < DayLength
    BY <1>0, RemindersAssumption DEF TypeOK, Hour
  <1>1. CASE Earlier(u, "renewal") # {}
    BY <1>0, <1>1, <1>k, NoticesStay
  <1>2. CASE UNCHANGED <<lastRound, skipped>>
    BY <1>0, <1>m, <1>1, <1>2 DEF RoundsAnnounce
  <1>3. ASSUME NEW p \in Process, EndRun(p), run[p].kind = "renewal"
        PROVE  Earlier(u, "renewal")' # {}
    <2>1. /\ skipped' = (skipped \/ run[p].at > lastRound + DayLength)
          /\ lastRound' = IF run[p].at > lastRound THEN run[p].at ELSE lastRound
          /\ run[p].pc = "look" /\ run[p].todo = {}
      BY <1>3 DEF EndRun, Record
    <2>2. run[p].at \in Int
      <3>1. run[p] \in Execution
        BY <1>0 DEF TypeOK
      <3>. QED
        BY <3>1, RemindersAssumption DEF Execution, Hour
    <2>3. ~skipped /\ run[p].at <= lastRound + DayLength
      <3>1. ~(skipped \/ run[p].at > lastRound + DayLength)
        BY <2>1
      <3>. QED
        BY <1>t, <2>2, <3>1
    <2>4. CASE lastRound > Ends[u] - 3 * DayLength
      BY <1>0, <1>m, <1>1, <2>3, <2>4 DEF RoundsAnnounce
    <2>5. CASE lastRound <= Ends[u] - 3 * DayLength
      <3>1. lastRound' = run[p].at /\ run[p].at > Ends[u] - 3 * DayLength
        BY <1>t, <2>1, <2>2, <2>5
      <3>2. Ends[u] - run[p].at \in 2 * DayLength .. 3 * DayLength
        BY <1>t, <2>2, <2>3, <2>5, <3>1
      <3>3. Announces(p, u)
        BY <1>0 DEF RunAnnounces
      <3>. QED
        BY <1>1, <1>m, <1>3, <2>1, <3>2, <3>3 DEF Announces, Running, InWindow
    <2>. QED
      BY <1>t, <2>4, <2>5
  <1>4. ASSUME NEW p \in Process, RunStep(p) PROVE Earlier(u, "renewal")' # {}
    BY <1>2, <1>3, <1>4 DEF RunStep, BeginRun, Skip, Choose, LeaveAlone, InsertNotice, FailToSend, Push,
                            EndRun, KillRun, roundVars
  <1>. QED
    BY <1>2, <1>4 DEF Next, Tick, UserStep, TouchCart, ChangePreferences, ChangeSubscription,
           vars, roundVars

LEMMA RenewalInvariant == Spec => []RenewalInv
  <1>1. Init => RunAnnounces /\ RoundsAnnounce
    <2>. SUFFICES ASSUME Init PROVE RunAnnounces /\ RoundsAnnounce
      OBVIOUS
    <2>1. lastRound = 0 /\ run = [p \in Process |-> Resting]
      BY DEF Init
    <2>2. RunAnnounces
      BY <2>1, RestingType DEF RunAnnounces, Announces, Running
    <2>3. ASSUME NEW u \in User, Ends[u] # NoEnd PROVE ~(lastRound > Ends[u] - 3 * DayLength)
      <3>1. Ends[u] \in Int /\ DayLength \in Int /\ Ends[u] >= 3 * DayLength
        BY <2>3, RemindersAssumption
      <3>. QED
        BY <2>1, <3>1
    <2>. QED
      BY <2>2, <2>3 DEF RoundsAnnounce
  <1>2. RunAnnounces /\ RoundsAnnounce /\ OnceInv /\ OnceInv' /\ [Next]_vars
            => (RunAnnounces /\ RoundsAnnounce)'
    BY AnnounceStep, RoundsStep DEF RenewalInv
  <1>3. OnceInv /\ RunAnnounces /\ RoundsAnnounce => RenewalInv
    BY DEF RenewalInv
  <1>. QED
    BY <1>1, <1>2, <1>3, OnceInvariant, PTL DEF Spec

-----------------------------------------------------------------------------

(* Notifications and executions keep their types. *)
THEOREM TypeCorrect == Spec => []TypeOK
  BY OnceInvariant, PTL DEF OnceInv

(* No user is written to twice within a day, nor wished a second happy
   birthday, by executions of which no two of the same kind overlapped. *)
THEOREM WrittenToOnce == Spec => []RemindedOnce
  BY OnceInvariant, PTL DEF OnceInv

(* Rounds that start at most a day apart announce every renewal before the
   last two days of its period, for any length of a day and any periods. *)
THEOREM RenewalsAnnounced == Spec => []RenewalAnnounced
  <1>1. ASSUME RenewalInv, NEW u \in User, Ends[u] # NoEnd,
               lastRound > Ends[u] - 2 * DayLength
        PROVE  lastRound > Ends[u] - 3 * DayLength
    BY <1>1, RemindersAssumption DEF RenewalInv, OnceInv, TypeOK, Hour
  <1>2. RenewalInv => RenewalAnnounced
    BY <1>1 DEF RenewalInv, RoundsAnnounce, RenewalAnnounced
  <1>. QED
    BY <1>2, RenewalInvariant, PTL

=============================================================================
