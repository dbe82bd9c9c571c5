-------------------------- MODULE MembershipProofs --------------------------
(***************************************************************************)
(* Proofs about Membership, for any number of subscriptions, users,        *)
(* workers and events.                                                     *)
(*                                                                         *)
(* The argument: an event is on its way or recorded (EventsKept); a row    *)
(* whose events were taken in order has recorded exactly those up to       *)
(* applied[s] and holds the status of that one (Followed); so when none is *)
(* on its way the row holds the last one, which is Stripe's (LogsEnd).     *)
(***************************************************************************)
EXTENDS Membership, FiniteSetTheorems, TLAPS

(* An event that happened is recorded or on its way, and nothing else is. *)
EventsKept ==
    /\ IsFiniteSet(recorded \cup undelivered)
    /\ \A s \in Subscription : \A n \in 1 .. Len(log[s]) :
            <<s, n>> \in recorded \cup undelivered
    /\ \A e \in recorded \cup undelivered : e[2] \in 1 .. Len(log[e[1]])

(* What Stripe announced last is the status it has, and nothing follows a
   cancellation. *)
LogsEnd ==
    \A s \in Subscription :
        /\ stripe[s] = "none" => log[s] = <<>>
        /\ log[s] # <<>> => log[s][Len(log[s])] = stripe[s]
        /\ \A n \in 1 .. Len(log[s]) :
                log[s][n] = "canceled" => stripe[s] = "canceled"

(* What a request works on, by where it is. *)
WorkOf(r) ==
    /\ r.pc \in {"subscribe", "saveNew"} => r.user \in User
    /\ r.pc = "saveNew" =>
        /\ r.sub \in Subscription /\ ~Exists(r.sub)
        /\ r.answer \in {"incomplete", "active"}
        /\ stripe[r.sub] # "none"
        /\ log[r.sub] = <<>> => stripe[r.sub] = r.answer
    /\ r.pc \in {"cancel", "saveCancel"} => r.sub \in Subscription /\ Exists(r.sub)
    /\ r.pc = "saveCancel" => stripe[r.sub] = "canceled"

RequestsWork ==
    /\ \A w \in Worker : WorkOf(req[w])
    /\ \A v, w \in Worker :
            req[v].pc = "saveNew" /\ req[w].pc = "saveNew" /\ req[v].sub = req[w].sub
                => v = w

RowsFollowStripe ==
    \A s \in Subscription :
        IF Exists(s) THEN stripe[s] # "none" ELSE applied[s] = 0

(* A row no event of which was dropped or overtook another has the events up
   to applied[s], and the status of that one or of its own cancellation. *)
FollowedAt(s) ==
    /\ \A n \in 1 .. MaxEvents : <<s, n>> \in recorded => n <= applied[s]
    /\ Exists(s) =>
        \/ applied[s] = 0 /\ (log[s] = <<>> => sub[s].status = Mapped(stripe[s]))
        \/ /\ applied[s] \in 1 .. Len(log[s])
           /\ sub[s].status = Mapped(log[s][applied[s]])
        \/ stripe[s] = "canceled" /\ sub[s].status = "cancelled"

Followed == \A s \in Subscription \ drifted : FollowedAt(s)

(* Of a user whose subscribe requests never met, one request at most is
   subscribing, and then every row lapsed; else every row but one did. *)
LapsedButOne ==
    \A u \in User \ crossed :
        /\ \A v, w \in Subscribing(u) : v = w
        /\ Subscribing(u) # {} =>
                \A s \in Subscription : sub[s].user = u => s \in lapsed
        /\ \A s, t \in Subscription :
                sub[s].user = u /\ sub[t].user = u /\ s # t => {s, t} \cap lapsed # {}

EventInv == TypeOK /\ EventsKept /\ LogsEnd /\ RequestsWork /\ RowsFollowStripe

MembershipInv ==
    EventInv /\ Followed /\ CancelledIsNotBilled /\ LapsedButOne

-----------------------------------------------------------------------------
(* Statuses and requests *)

LEMMA MappedStatus ==
    ASSUME NEW x \in StripeStatus
    PROVE  /\ Mapped(x) \in Status
           /\ Mapped(x) = "cancelled" <=> x = "canceled"
           /\ x \in {"incomplete", "active"} => Mapped(x) = x
  BY DEF Mapped, Status, StripeStatus

LEMMA StripeStepStatus ==
    ASSUME NEW x \in StripeStatus \cup {"none"}, NEW y \in StripeStep[x]
    PROVE  y \in StripeStatus /\ x \notin {"canceled", "none"}
  BY DEF StripeStep, StripeStatus

LEMMA IdleType == Idle \in Request /\ Idle.pc = "idle"
  BY DEF Idle, Request, Status

(* Fewer requests work on less. *)
LEMMA NewRequestType ==
    ASSUME NEW pc \in {"subscribe", "cancel"}, NEW u \in User,
           NEW s \in Subscription \cup {NoSubscription}
    PROVE  LET r == [Idle EXCEPT !.pc = pc, !.user = u, !.sub = s]
           IN  r \in Request /\ r.pc = pc /\ r.user = u /\ r.sub = s
  BY DEF Idle, Request, Status

(* There is room in the log of a subscription while there are fewer events
   than MaxEvents. *)
LEMMA LogRoom ==
    ASSUME EventInv, NEW s \in Subscription
    PROVE  /\ Cardinality(recorded \cup undelivered) < MaxEvents => Len(log[s]) < MaxEvents
           /\ IsFiniteSet(recorded \cup undelivered)
  <1>. DEFINE R == recorded \cup undelivered
              I == 1 .. Len(log[s])
              f == [n \in I |-> <<s, n>>]
  <1>1. Len(log[s]) \in Nat
    BY DEF EventInv, TypeOK
  <1>2. IsFiniteSet(R) /\ \A n \in I : <<s, n>> \in R
    BY DEF EventInv, EventsKept
  <1>3. f \in Injection(I, R)
    BY <1>2 DEF Injection, IsInjective
  <1>4. Cardinality(I) <= Cardinality(R)
    <2>. HIDE DEF R, I, f
    <2>. QED
      BY <1>2, <1>3, FS_Injection
  <1>5. Cardinality(I) = Len(log[s])
    BY <1>1, FS_Interval
  <1>6. Cardinality(R) \in Nat
    BY <1>2, FS_CardinalityType
  <1>. QED
    BY <1>1, <1>2, <1>4, <1>5, <1>6, MembershipAssumption

(* What an announcement does. *)
LEMMA Announced ==
    ASSUME EventInv, NEW s \in Subscription, NEW x \in StripeStatus, Announce(s, x),
           stripe[s] # "canceled",
           UNCHANGED recorded
    PROVE  /\ stripe' \in [Subscription -> StripeStatus \cup {"none"}]
           /\ log' \in [Subscription -> Seq(StripeStatus)]
           /\ undelivered' \subseteq EventId
           /\ \A t \in Subscription : Len(log'[t]) <= MaxEvents
           /\ \A t \in Subscription \ {s} : log'[t] = log[t] /\ stripe'[t] = stripe[t]
           /\ stripe'[s] = x
           /\ log'[s] # <<>> /\ Len(log'[s]) = Len(log[s]) + 1
           /\ log'[s][Len(log[s]) + 1] = x
           /\ \A n \in 1 .. Len(log[s]) : log'[s][n] = log[s][n]
           /\ EventsKept' /\ LogsEnd'
  <1>1. Len(log[s]) \in Nat /\ Len(log[s]) < MaxEvents
    BY LogRoom DEF Announce, EventInv, TypeOK
  <1>2. /\ stripe' = [stripe EXCEPT ![s] = x]
        /\ log' = [log EXCEPT ![s] = Append(@, x)]
        /\ undelivered' = undelivered \cup {<<s, Len(log[s]) + 1>>}
    BY DEF Announce
  <1>3. log[s] \in Seq(StripeStatus) /\ log'[s] = Append(log[s], x)
    BY <1>2 DEF EventInv, TypeOK
  <1>4. /\ Len(log'[s]) = Len(log[s]) + 1
        /\ log'[s] \in Seq(StripeStatus)
        /\ log'[s][Len(log[s]) + 1] = x
        /\ \A n \in 1 .. Len(log[s]) : log'[s][n] = log[s][n]
    BY <1>3
  <1>5. /\ stripe' \in [Subscription -> StripeStatus \cup {"none"}]
        /\ log' \in [Subscription -> Seq(StripeStatus)]
        /\ \A t \in Subscription \ {s} : log'[t] = log[t] /\ stripe'[t] = stripe[t]
        /\ stripe'[s] = x
    BY <1>2, <1>4 DEF EventInv, TypeOK
  <1>6. \A t \in Subscription : Len(log'[t]) <= MaxEvents
    <2>1. TAKE t \in Subscription
    <2>2. Len(log[t]) <= MaxEvents
      BY DEF EventInv, TypeOK
    <2>. QED
      BY <1>1, <1>4, <1>5, <2>2, MembershipAssumption
  <1>7. undelivered' \subseteq EventId
    BY <1>1, <1>2, MembershipAssumption DEF EventInv, TypeOK, EventId
  <1>8. log'[s] # <<>>
    BY <1>1, <1>3, <1>4
  <1>9. EventsKept'
    <2>1. IsFiniteSet(recorded' \cup undelivered')
      <3>1. recorded' \cup undelivered'
                = (recorded \cup undelivered) \cup {<<s, Len(log[s]) + 1>>}
        BY <1>2
      <3>. QED
        BY <3>1, FS_AddElement DEF EventInv, EventsKept
    <2>2. ASSUME NEW t \in Subscription, NEW n \in 1 .. Len(log'[t])
          PROVE  <<t, n>> \in recorded' \cup undelivered'
      <3>1. CASE t # s
        BY <1>1, <1>2, <1>5, <2>2, <3>1 DEF EventInv, EventsKept
      <3>2. CASE t = s /\ n \in 1 .. Len(log[s])
        BY <1>2, <3>2 DEF EventInv, EventsKept
      <3>3. CASE t = s /\ n = Len(log[s]) + 1
        BY <1>2, <3>3
      <3>. QED
        BY <1>1, <1>4, <2>2, <3>1, <3>2, <3>3
    <2>3. ASSUME NEW e \in recorded' \cup undelivered'
          PROVE  e[2] \in 1 .. Len(log'[e[1]])
      <3>1. CASE e \in recorded \cup undelivered
        <4>1. e[2] \in 1 .. Len(log[e[1]]) /\ e[1] \in Subscription
          BY <3>1 DEF EventInv, EventsKept, TypeOK, EventId
        <4>. QED
          BY <1>1, <1>4, <1>5, <4>1
      <3>2. CASE e = <<s, Len(log[s]) + 1>>
        BY <1>1, <1>4, <3>2
      <3>. QED
        BY <1>2, <2>3, <3>1, <3>2
    <2>. QED
      BY <2>1, <2>2, <2>3 DEF EventsKept
  <1>10. LogsEnd'
    <2>1. ASSUME NEW t \in Subscription
          PROVE  /\ stripe'[t] = "none" => log'[t] = <<>>
                 /\ log'[t] # <<>> => log'[t][Len(log'[t])] = stripe'[t]
                 /\ \A n \in 1 .. Len(log'[t]) :
                         log'[t][n] = "canceled" => stripe'[t] = "canceled"
      <3>1. CASE t = s
        <4>1. x # "none"
          BY DEF StripeStatus
        <4>2. \A n \in 1 .. Len(log[s]) : log[s][n] # "canceled"
          BY DEF EventInv, LogsEnd
        <4>. QED
          BY <1>1, <1>4, <1>5, <3>1, <4>1, <4>2
      <3>2. CASE t # s
        BY <1>5, <3>2 DEF EventInv, LogsEnd
      <3>. QED
        BY <3>1, <3>2
    <2>. QED
      BY <2>1 DEF LogsEnd
  <1>. QED
    BY <1>4, <1>5, <1>6, <1>7, <1>8, <1>9, <1>10

-----------------------------------------------------------------------------
(* Types, events and requests *)

(* Worker w turns to the request r, or to none. *)
LEMMA RequestTurns ==
    ASSUME EventInv, NEW w \in Worker, NEW r \in Request,
           req' = [req EXCEPT ![w] = r], r.pc # "saveNew", WorkOf(r),
           UNCHANGED <<rowVars, stripeVars, applied>>
    PROVE  /\ req' \in [Worker -> Request]
           /\ EventsKept' /\ LogsEnd' /\ RequestsWork' /\ RowsFollowStripe'
  <1>1. req' \in [Worker -> Request]
    BY DEF EventInv, TypeOK
  <1>2. EventsKept' /\ LogsEnd' /\ RowsFollowStripe'
    BY DEF EventInv, EventsKept, LogsEnd, RowsFollowStripe, Exists, rowVars, stripeVars
  <1>3. ASSUME NEW v \in Worker PROVE WorkOf(req[v])'
    <2>1. CASE v = w
      BY <2>1 DEF EventInv, TypeOK, WorkOf, Exists, rowVars, stripeVars
    <2>2. CASE v # w
      BY <2>2 DEF EventInv, TypeOK, RequestsWork, WorkOf, Exists, rowVars, stripeVars
    <2>. QED
      BY <2>1, <2>2
  <1>4. ASSUME NEW u \in Worker, NEW v \in Worker,
               req'[u].pc = "saveNew", req'[v].pc = "saveNew", req'[u].sub = req'[v].sub
        PROVE  u = v
    BY <1>4 DEF EventInv, TypeOK, RequestsWork
  <1>. QED
    BY <1>1, <1>2, <1>3, <1>4 DEF RequestsWork

LEMMA RequestEnds ==
    ASSUME EventInv, NEW w \in Worker, EndRequest(w),
           UNCHANGED <<rowVars, stripeVars, applied>>
    PROVE  /\ req' \in [Worker -> Request]
           /\ EventsKept' /\ LogsEnd' /\ RequestsWork' /\ RowsFollowStripe'
  <1>1. WorkOf(Idle)
    BY IdleType DEF WorkOf
  <1>. QED
    BY <1>1, IdleType, RequestTurns DEF EndRequest

(* A request that works on rows and events that stay, or get on, still
   does. *)
LEMMA WorkKept ==
    ASSUME EventInv, NEW v \in Worker, req'[v] = req[v],
           \A s \in Subscription : Exists(s) => Exists(s)',
           \A s \in Subscription : stripe[s] # "none" => stripe'[s] # "none",
           \A s \in Subscription : stripe[s] = "canceled" => stripe'[s] = "canceled",
           req[v].pc = "saveNew" =>
                /\ ~Exists(req[v].sub)'
                /\ log'[req[v].sub] = <<>> => log[req[v].sub] = <<>>
                /\ log'[req[v].sub] = <<>> => stripe'[req[v].sub] = stripe[req[v].sub]
    PROVE  WorkOf(req[v])'
  BY DEF EventInv, RequestsWork, WorkOf

LEMMA StepsBegin ==
    ASSUME EventInv, NEW w \in Worker, NEW u \in User,
           BeginSubscribe(w, u) \/ (\E s \in Subscription : BeginCancel(w, u, s))
    PROVE  EventInv'
  <1>1. CASE BeginSubscribe(w, u)
    <2>. DEFINE r == [Idle EXCEPT !.pc = "subscribe", !.user = u]
    <2>1. r \in Request /\ r.pc = "subscribe" /\ r.user = u
      BY DEF Idle, Request, Status
    <2>2. req' = [req EXCEPT ![w] = r]
      BY <1>1 DEF BeginSubscribe, Subscribes
    <2>. HIDE DEF r
    <2>3. WorkOf(r)
      BY <2>1 DEF WorkOf
    <2>4. UNCHANGED <<rowVars, stripeVars, aborts, applied, drifted>>
      BY <1>1 DEF BeginSubscribe, Subscribes
    <2>5. /\ req' \in [Worker -> Request]
          /\ EventsKept' /\ LogsEnd' /\ RequestsWork' /\ RowsFollowStripe'
      BY <2>1, <2>2, <2>3, <2>4, RequestTurns
    <2>6. TypeOK'
      <3>1. lapsed' \subseteq Subscription /\ crossed' \subseteq User
        BY <1>1 DEF BeginSubscribe, Subscribes, EventInv, TypeOK
      <3>. QED
        BY <2>4, <2>5, <3>1 DEF EventInv, TypeOK, rowVars, stripeVars
    <2>. QED
      BY <2>5, <2>6 DEF EventInv
  <1>2. ASSUME NEW s \in Subscription, BeginCancel(w, u, s) PROVE EventInv'
    <2>. DEFINE r == [Idle EXCEPT !.pc = "cancel", !.user = u, !.sub = s]
    <2>1. r \in Request /\ r.pc = "cancel" /\ r.sub = s
      BY DEF Idle, Request, Status
    <2>2. req' = [req EXCEPT ![w] = r]
      BY <1>2 DEF BeginCancel
    <2>. HIDE DEF r
    <2>3. WorkOf(r)
      <3>1. sub[s].status \in {"active", "trialing"}
        BY <1>2 DEF BeginCancel, Current
      <3>2. Exists(s)
        BY <3>1 DEF Exists, NoRow
      <3>. QED
        BY <2>1, <3>2 DEF WorkOf
    <2>4. UNCHANGED <<rowVars, stripeVars, aborts, history>>
      BY <1>2 DEF BeginCancel
    <2>5. /\ req' \in [Worker -> Request]
          /\ EventsKept' /\ LogsEnd' /\ RequestsWork' /\ RowsFollowStripe'
      BY <2>1, <2>2, <2>3, <2>4, RequestTurns DEF history
    <2>6. TypeOK'
      BY <2>4, <2>5 DEF EventInv, TypeOK, rowVars, stripeVars, history
    <2>. QED
      BY <2>5, <2>6 DEF EventInv
  <1>. QED
    BY <1>1, <1>2

LEMMA StepsEnd ==
    ASSUME EventInv, NEW w \in Worker, Abort(w) \/ RefuseCancel(w)
    PROVE  EventInv'
  <1>1. EndRequest(w) /\ UNCHANGED <<rowVars, stripeVars, history>>
    BY DEF Abort, RefuseCancel
  <1>2. /\ req' \in [Worker -> Request]
        /\ EventsKept' /\ LogsEnd' /\ RequestsWork' /\ RowsFollowStripe'
    BY <1>1, RequestEnds DEF history
  <1>3. aborts' \in 0 .. MaxAborts
    BY MembershipAssumption DEF Abort, RefuseCancel, EventInv, TypeOK
  <1>4. TypeOK'
    BY <1>1, <1>2, <1>3 DEF EventInv, TypeOK, rowVars, stripeVars, history
  <1>. QED
    BY <1>2, <1>4 DEF EventInv

LEMMA StepsBill ==
    ASSUME EventInv, NEW s \in Subscription, Bill(s)
    PROVE  EventInv'
  <1>1. PICK x \in StripeStep[stripe[s]] : Announce(s, x)
    BY DEF Bill
  <1>2. x \in StripeStatus /\ stripe[s] \notin {"canceled", "none"}
    BY <1>1, StripeStepStatus DEF EventInv, TypeOK
  <1>3. UNCHANGED <<rowVars, req, aborts, history>>
    BY DEF Bill
  <1>4. /\ stripe' \in [Subscription -> StripeStatus \cup {"none"}]
        /\ log' \in [Subscription -> Seq(StripeStatus)]
        /\ undelivered' \subseteq EventId
        /\ \A t \in Subscription : Len(log'[t]) <= MaxEvents
        /\ \A t \in Subscription \ {s} : log'[t] = log[t] /\ stripe'[t] = stripe[t]
        /\ stripe'[s] = x /\ log'[s] # <<>>
        /\ EventsKept' /\ LogsEnd'
    BY <1>1, <1>2, <1>3, Announced DEF rowVars
  <1>5. TypeOK'
    BY <1>3, <1>4 DEF EventInv, TypeOK, rowVars, history
  <1>6. x # "none"
    BY <1>2 DEF StripeStatus
  <1>7. RowsFollowStripe'
    BY <1>3, <1>4, <1>6 DEF EventInv, RowsFollowStripe, Exists, rowVars, history
  <1>8. \A v \in Worker : WorkOf(req[v])'
    <2>1. TAKE v \in Worker
    <2>2. \A t \in Subscription : Exists(t)' <=> Exists(t)
      BY <1>3 DEF Exists, rowVars
    <2>3. \A t \in Subscription : stripe[t] # "none" => stripe'[t] # "none"
      BY <1>4, <1>6
    <2>4. \A t \in Subscription : stripe[t] = "canceled" => stripe'[t] = "canceled"
      BY <1>2, <1>4
    <2>5. req'[v] = req[v]
      BY <1>3
    <2>6. req[v].pc = "saveNew" =>
            /\ ~Exists(req[v].sub)'
            /\ log'[req[v].sub] = <<>> => log[req[v].sub] = <<>>
            /\ log'[req[v].sub] = <<>> => stripe'[req[v].sub] = stripe[req[v].sub]
      <3>1. SUFFICES ASSUME req[v].pc = "saveNew"
                     PROVE  /\ ~Exists(req[v].sub)'
                            /\ log'[req[v].sub] = <<>> =>
                                    /\ log[req[v].sub] = <<>>
                                    /\ stripe'[req[v].sub] = stripe[req[v].sub]
        OBVIOUS
      <3>2. req[v].sub \in Subscription /\ ~Exists(req[v].sub)
        BY <3>1 DEF EventInv, RequestsWork, WorkOf
      <3>3. ~Exists(req[v].sub)'
        BY <1>3, <3>2 DEF Exists, rowVars
      <3>. QED
        BY <1>4, <3>2, <3>3
    <2>. QED
      BY <2>2, <2>3, <2>4, <2>5, <2>6, WorkKept
  <1>9. RequestsWork'
    BY <1>3, <1>8 DEF EventInv, RequestsWork
  <1>. QED
    BY <1>4, <1>5, <1>7, <1>9 DEF EventInv

LEMMA StepsCreateAtStripe ==
    ASSUME EventInv, NEW w \in Worker, NEW s \in Subscription, CreateAtStripe(w, s)
    PROVE  EventInv'
  <1>1. PICK a \in {"incomplete", "active"} :
            /\ stripe' = [stripe EXCEPT ![s] = a]
            /\ req' = [req EXCEPT ![w] = [@ EXCEPT !.pc = "saveNew", !.sub = s, !.answer = a]]
    BY DEF CreateAtStripe
  <1>2. /\ req[w].pc = "subscribe" /\ stripe[s] = "none"
        /\ UNCHANGED <<rowVars, log, undelivered, aborts, history>>
    BY DEF CreateAtStripe
  <1>3. /\ a \in StripeStatus /\ a \in Status /\ a # "none" /\ a # "canceled"
        /\ stripe' \in [Subscription -> StripeStatus \cup {"none"}]
        /\ stripe'[s] = a
        /\ \A t \in Subscription \ {s} : stripe'[t] = stripe[t]
    BY <1>1 DEF EventInv, TypeOK, StripeStatus, Status
  <1>4. PICK r : r = [req[w] EXCEPT !.pc = "saveNew", !.sub = s, !.answer = a]
    OBVIOUS
  <1>5. /\ r \in Request /\ r.pc = "saveNew" /\ r.sub = s /\ r.answer = a
        /\ r.user = req[w].user
    <2>1. req[w] \in Request
      BY DEF EventInv, TypeOK
    <2>. QED
      BY <1>3, <1>4, <2>1 DEF Request
  <1>6. req' = [req EXCEPT ![w] = r]
    BY <1>1, <1>4
  <1>7. ~Exists(s) /\ log[s] = <<>>
    BY <1>2 DEF EventInv, RowsFollowStripe, LogsEnd
  <1>8. req' \in [Worker -> Request]
    BY <1>5, <1>6 DEF EventInv, TypeOK
  <1>9. TypeOK'
    BY <1>2, <1>3, <1>8 DEF EventInv, TypeOK, rowVars, history
  <1>10. EventsKept'
    BY <1>2 DEF EventInv, EventsKept, rowVars
  <1>11. LogsEnd'
    <2>1. ASSUME NEW t \in Subscription
          PROVE  /\ stripe'[t] = "none" => log[t] = <<>>
                 /\ log[t] # <<>> => log[t][Len(log[t])] = stripe'[t]
                 /\ \A n \in 1 .. Len(log[t]) :
                         log[t][n] = "canceled" => stripe'[t] = "canceled"
      <3>1. CASE t = s
        BY <1>7, <3>1
      <3>2. CASE t # s
        BY <1>3, <3>2 DEF EventInv, LogsEnd
      <3>. QED
        BY <3>1, <3>2
    <2>. QED
      BY <1>2, <2>1 DEF LogsEnd
  <1>12. RowsFollowStripe'
    BY <1>2, <1>3 DEF EventInv, RowsFollowStripe, Exists, rowVars, history
  <1>13. ASSUME NEW v \in Worker PROVE WorkOf(req[v])'
    <2>1. CASE v = w
      <3>1. req'[v] = r
        BY <1>6, <2>1 DEF EventInv, TypeOK
      <3>2. r.user \in User
        BY <1>2, <1>5 DEF EventInv, RequestsWork, WorkOf
      <3>3. ~Exists(s)'
        BY <1>2, <1>7 DEF Exists, rowVars
      <3>. QED
        BY <1>3, <1>5, <3>1, <3>2, <3>3 DEF WorkOf, Exists
    <2>2. CASE v # w
      <3>1. req'[v] = req[v]
        BY <1>6, <2>2 DEF EventInv, TypeOK
      <3>2. \A t \in Subscription : Exists(t)' <=> Exists(t)
        BY <1>2 DEF Exists, rowVars
      <3>3. \A t \in Subscription : stripe[t] # "none" => stripe'[t] = stripe[t]
        BY <1>2, <1>3
      <3>4. ASSUME req[v].pc = "saveNew"
            PROVE  /\ ~Exists(req[v].sub)'
                   /\ stripe'[req[v].sub] = stripe[req[v].sub]
        <4>1. req[v].sub \in Subscription /\ ~Exists(req[v].sub) /\ stripe[req[v].sub] # "none"
          BY <3>4 DEF EventInv, RequestsWork, WorkOf
        <4>. QED
          BY <1>2, <3>1, <3>3, <4>1 DEF Exists, rowVars
      <3>. QED
        BY <1>2, <3>1, <3>2, <3>3, <3>4, WorkKept
    <2>. QED
      BY <2>1, <2>2
  <1>14. ASSUME NEW u \in Worker, NEW v \in Worker,
                req'[u].pc = "saveNew", req'[v].pc = "saveNew", req'[u].sub = req'[v].sub
         PROVE  u = v
    <2>1. ASSUME NEW x \in Worker, x # w, req'[x].pc = "saveNew"
          PROVE  req'[x] = req[x] /\ stripe[req[x].sub] # "none"
      BY <1>6, <2>1 DEF EventInv, TypeOK, RequestsWork, WorkOf
    <2>2. req'[w].sub = s
      BY <1>5, <1>6 DEF EventInv, TypeOK
    <2>. QED
      BY <1>2, <1>14, <2>1, <2>2 DEF EventInv, RequestsWork
  <1>. QED
    BY <1>9, <1>10, <1>11, <1>12, <1>13, <1>14 DEF EventInv, RequestsWork

LEMMA StepsCancelAtStripe ==
    ASSUME EventInv, NEW w \in Worker, CancelAtStripe(w)
    PROVE  EventInv'
  <1>. DEFINE s == req[w].sub
  <1>1. /\ req[w].pc = "cancel" /\ stripe[s] # "canceled" /\ Announce(s, "canceled")
        /\ req' = [req EXCEPT ![w].pc = "saveCancel"]
        /\ UNCHANGED <<rowVars, aborts, history>>
    BY DEF CancelAtStripe
  <1>2. s \in Subscription /\ Exists(s)
    BY <1>1 DEF EventInv, RequestsWork, WorkOf
  <1>3. "canceled" \in StripeStatus
    BY DEF StripeStatus
  <1>. HIDE DEF s
  <1>4. /\ stripe' \in [Subscription -> StripeStatus \cup {"none"}]
        /\ log' \in [Subscription -> Seq(StripeStatus)]
        /\ undelivered' \subseteq EventId
        /\ \A t \in Subscription : Len(log'[t]) <= MaxEvents
        /\ \A t \in Subscription \ {s} : log'[t] = log[t] /\ stripe'[t] = stripe[t]
        /\ stripe'[s] = "canceled" /\ log'[s] # <<>>
        /\ EventsKept' /\ LogsEnd'
    BY <1>1, <1>2, <1>3, Announced DEF rowVars
  <1>5. /\ req' \in [Worker -> Request]
        /\ req'[w].pc = "saveCancel" /\ req'[w].sub = s
        /\ \A v \in Worker \ {w} : req'[v] = req[v]
    <2>. USE DEF s
    <2>. QED
      BY <1>1 DEF EventInv, TypeOK, Request
  <1>6. TypeOK'
    BY <1>1, <1>4, <1>5 DEF EventInv, TypeOK, rowVars, history
  <1>7. RowsFollowStripe'
    BY <1>1, <1>4 DEF EventInv, RowsFollowStripe, Exists, rowVars, history
  <1>8. ASSUME NEW v \in Worker PROVE WorkOf(req[v])'
    <2>1. CASE v = w
      BY <1>1, <1>2, <1>4, <1>5, <2>1 DEF WorkOf, Exists, rowVars
    <2>2. CASE v # w
      <3>1. req'[v] = req[v]
        BY <1>5, <2>2
      <3>2. \A t \in Subscription : Exists(t)' <=> Exists(t)
        BY <1>1 DEF Exists, rowVars
      <3>3. \A t \in Subscription :
                /\ stripe[t] # "none" => stripe'[t] # "none"
                /\ stripe[t] = "canceled" => stripe'[t] = "canceled"
        BY <1>4
      <3>4. ASSUME req[v].pc = "saveNew"
            PROVE  /\ ~Exists(req[v].sub)'
                   /\ log'[req[v].sub] = log[req[v].sub]
                   /\ stripe'[req[v].sub] = stripe[req[v].sub]
        <4>1. req[v].sub \in Subscription /\ ~Exists(req[v].sub)
          BY <3>4 DEF EventInv, RequestsWork, WorkOf
        <4>2. req[v].sub # s
          BY <1>2, <4>1
        <4>3. ~Exists(req[v].sub)'
          BY <1>1, <3>1, <4>1 DEF Exists, rowVars
        <4>. QED
          BY <1>4, <4>1, <4>2, <4>3
      <3>. QED
        BY <3>1, <3>2, <3>3, <3>4, WorkKept
    <2>. QED
      BY <2>1, <2>2
  <1>9. ASSUME NEW u \in Worker, NEW v \in Worker,
               req'[u].pc = "saveNew", req'[v].pc = "saveNew", req'[u].sub = req'[v].sub
        PROVE  u = v
    BY <1>5, <1>9 DEF EventInv, RequestsWork
  <1>. QED
    BY <1>4, <1>6, <1>7, <1>8, <1>9 DEF EventInv, RequestsWork

(* The rows change, no request but w's, and nothing of Stripe's. *)
LEMMA StepsCommit ==
    ASSUME EventInv, NEW w \in Worker, CommitSubscribe(w) \/ CommitCancel(w)
    PROVE  EventInv'
  <1>. DEFINE s == req[w].sub
  <1>1. /\ s \in Subscription /\ stripe[s] # "none"
        /\ req[w].pc \in {"saveNew", "saveCancel"}
        /\ EndRequest(w)
        /\ UNCHANGED <<recorded, stripeVars, aborts, history>>
    BY DEF CommitSubscribe, CommitCancel, EventInv, RequestsWork, RowsFollowStripe, WorkOf
  <1>2. /\ sub' \in [Subscription -> Row \cup {NoRow}]
        /\ sub'[s] # NoRow
        /\ \A t \in Subscription \ {s} : sub'[t] = sub[t]
    <2>1. CASE CommitSubscribe(w)
      <3>1. /\ req[w].pc = "saveNew"
            /\ sub' = [sub EXCEPT ![s] = [user |-> req[w].user, status |-> req[w].answer,
                                          cancelled |-> FALSE]]
        BY <2>1 DEF CommitSubscribe
      <3>2. req[w].user \in User /\ req[w].answer \in {"incomplete", "active"}
        BY <3>1 DEF EventInv, RequestsWork, WorkOf
      <3>3. PICK r : r = [user |-> req[w].user, status |-> req[w].answer, cancelled |-> FALSE]
        OBVIOUS
      <3>4. r \in Row /\ r # NoRow
        BY <3>2, <3>3 DEF Row, Status, NoRow
      <3>5. sub' = [sub EXCEPT ![s] = r]
        BY <3>1, <3>3
      <3>. HIDE DEF s
      <3>. QED
        BY <1>1, <3>4, <3>5 DEF EventInv, TypeOK
    <2>2. CASE CommitCancel(w)
      <3>1. /\ req[w].pc = "saveCancel"
            /\ sub' = [sub EXCEPT ![s].status = "cancelled", ![s].cancelled = TRUE]
        BY <2>2 DEF CommitCancel
      <3>2. sub[s] \in Row
        BY <1>1, <3>1 DEF EventInv, TypeOK, RequestsWork, WorkOf, Exists
      <3>3. PICK r : r = [sub[s] EXCEPT !.status = "cancelled", !.cancelled = TRUE]
        OBVIOUS
      <3>4. r \in Row /\ r # NoRow
        BY <3>2, <3>3 DEF Row, Status, NoRow
      <3>5. sub' = [sub EXCEPT ![s] = r]
        BY <1>1, <3>1, <3>3 DEF EventInv, TypeOK
      <3>. HIDE DEF s
      <3>. QED
        BY <1>1, <3>4, <3>5 DEF EventInv, TypeOK
    <2>. QED
      BY <2>1, <2>2
  <1>3. req' \in [Worker -> Request] /\ req'[w] = Idle
        /\ \A v \in Worker \ {w} : req'[v] = req[v]
    BY <1>1, IdleType DEF EndRequest, EventInv, TypeOK
  <1>4. TypeOK'
    BY <1>1, <1>2, <1>3 DEF EventInv, TypeOK, stripeVars, history
  <1>5. EventsKept' /\ LogsEnd'
    BY <1>1 DEF EventInv, EventsKept, LogsEnd, stripeVars
  <1>6. RowsFollowStripe'
    <2>. HIDE DEF s
    <2>. QED
      BY <1>1, <1>2 DEF EventInv, RowsFollowStripe, Exists, stripeVars, history
  <1>7. ASSUME NEW v \in Worker PROVE WorkOf(req[v])'
    <2>1. CASE v = w
      BY <1>3, <2>1, IdleType DEF WorkOf
    <2>2. CASE v # w
      <3>1. req'[v] = req[v]
        BY <1>3, <2>2
      <3>2. \A t \in Subscription : Exists(t) => Exists(t)'
        <4>. HIDE DEF s
        <4>. QED
          BY <1>2 DEF Exists
      <3>3. ASSUME req[v].pc = "saveNew" PROVE ~Exists(req[v].sub)'
        <4>1. req[v].sub \in Subscription /\ ~Exists(req[v].sub)
          BY <3>3 DEF EventInv, RequestsWork, WorkOf
        <4>2. req[v].sub # s
          BY <1>1, <2>2, <3>3, <4>1 DEF EventInv, RequestsWork, WorkOf
        <4>. HIDE DEF s
        <4>. QED
          BY <1>2, <3>1, <4>1, <4>2 DEF Exists
      <3>. QED
        BY <1>1, <3>1, <3>2, <3>3, WorkKept DEF stripeVars
    <2>. QED
      BY <2>1, <2>2
  <1>8. ASSUME NEW u \in Worker, NEW v \in Worker,
               req'[u].pc = "saveNew", req'[v].pc = "saveNew", req'[u].sub = req'[v].sub
        PROVE  u = v
    BY <1>3, <1>8, IdleType DEF EventInv, RequestsWork
  <1>. QED
    BY <1>4, <1>5, <1>6, <1>7, <1>8 DEF EventInv, RequestsWork

(* What an answered, recorded or dropped event changes of the rows of
   Stripe's events: nothing is forgotten. *)
LEMMA EventStays ==
    ASSUME EventInv, NEW e \in EventId, e \in recorded \cup undelivered,
           recorded' = recorded \cup {e},
           undelivered' \in {undelivered \ {e}, undelivered}, UNCHANGED log
    PROVE  EventsKept' /\ recorded' \subseteq EventId /\ undelivered' \subseteq EventId
  <1>1. recorded' \cup undelivered' = recorded \cup undelivered
    OBVIOUS
  <1>2. EventsKept'
    BY <1>1 DEF EventInv, EventsKept
  <1>. QED
    BY <1>2 DEF EventInv, TypeOK

LEMMA StepsRedeliver ==
    ASSUME EventInv, NEW e \in EventId, Redeliver(e)
    PROVE  EventInv'
  <1>1. /\ e \in recorded \cup undelivered
        /\ recorded' = recorded \cup {e}
        /\ undelivered' \in {undelivered \ {e}, undelivered}
        /\ UNCHANGED <<stripe, log, req, aborts, lapsed, crossed>>
    BY DEF Redeliver, AnswerDuplicate, HandleChange, DropChange, FailOnPeriod, Answer,
           rowVars, stripeVars, history
  <1>2. EventsKept' /\ recorded' \subseteq EventId /\ undelivered' \subseteq EventId
    BY <1>1, EventStays
  <1>3. PICK s \in Subscription, n \in 1 .. MaxEvents : e = <<s, n>>
    BY DEF EventId
  <1>4. /\ sub' \in [Subscription -> Row \cup {NoRow}]
        /\ applied' \in [Subscription -> 0 .. MaxEvents]
        /\ drifted' \subseteq Subscription
        /\ \A t \in Subscription : Exists(t)' <=> Exists(t)
        /\ \A t \in Subscription : ~Exists(t) => applied'[t] = applied[t]
    <2>1. CASE HandleChange(e)
      <3>1. /\ Exists(s)
            /\ sub' = [sub EXCEPT ![s].status = Mapped(log[s][n])]
            /\ applied' = [applied EXCEPT ![s] = n]
            /\ drifted' = IF n = applied[s] + 1 THEN drifted ELSE drifted \cup {s}
        BY <1>3, <2>1 DEF HandleChange, Sync
      <3>2. n \in 1 .. Len(log[s]) /\ log[s] \in Seq(StripeStatus)
        BY <1>1, <1>3 DEF EventInv, TypeOK, EventsKept
      <3>3. log[s][n] \in StripeStatus
        BY <3>2
      <3>4. Mapped(log[s][n]) \in Status
        BY <3>3, MappedStatus
      <3>5. sub[s] \in Row
        BY <3>1 DEF EventInv, TypeOK, Exists
      <3>6. PICK r : r = [sub[s] EXCEPT !.status = Mapped(log[s][n])]
        OBVIOUS
      <3>7. r \in Row /\ r # NoRow
        BY <3>4, <3>5, <3>6 DEF Row, Status, NoRow
      <3>8. sub' = [sub EXCEPT ![s] = r]
        BY <3>1, <3>6 DEF EventInv, TypeOK
      <3>9. /\ sub' \in [Subscription -> Row \cup {NoRow}]
            /\ sub'[s] # NoRow
            /\ \A t \in Subscription \ {s} : sub'[t] = sub[t]
        BY <3>7, <3>8 DEF EventInv, TypeOK
      <3>10. \A t \in Subscription : Exists(t)' <=> Exists(t)
        BY <3>1, <3>9 DEF Exists
      <3>11. /\ applied' \in [Subscription -> 0 .. MaxEvents]
             /\ \A t \in Subscription : ~Exists(t) => applied'[t] = applied[t]
        BY <3>1, MembershipAssumption DEF EventInv, TypeOK
      <3>12. drifted' \subseteq Subscription
        BY <3>1 DEF EventInv, TypeOK
      <3>. QED
        BY <3>9, <3>10, <3>11, <3>12
    <2>2. CASE AnswerDuplicate(e) \/ DropChange(e) \/ FailOnPeriod(e)
      <3>1. UNCHANGED <<sub, applied>> /\ drifted' \subseteq drifted \cup {s}
        BY <1>3, <2>2 DEF AnswerDuplicate, DropChange, FailOnPeriod, rowVars, history
      <3>. QED
        BY <3>1 DEF EventInv, TypeOK, Exists
    <2>. QED
      BY <2>1, <2>2 DEF Redeliver
  <1>5. TypeOK'
    BY <1>1, <1>2, <1>4 DEF EventInv, TypeOK
  <1>6. LogsEnd'
    BY <1>1 DEF EventInv, LogsEnd
  <1>7. RowsFollowStripe'
    BY <1>1, <1>4 DEF EventInv, RowsFollowStripe
  <1>8. ASSUME NEW v \in Worker PROVE WorkOf(req[v])'
    <2>1. ASSUME req[v].pc = "saveNew" PROVE ~Exists(req[v].sub)'
      <3>1. req[v].sub \in Subscription /\ ~Exists(req[v].sub)
        BY <2>1 DEF EventInv, RequestsWork, WorkOf
      <3>2. sub'[req[v].sub] = NoRow
        BY <1>4, <3>1 DEF Exists
      <3>. QED
        BY <1>1, <3>2 DEF Exists
    <2>. QED
      BY <1>1, <1>4, <2>1, WorkKept
  <1>9. RequestsWork'
    BY <1>1, <1>8 DEF EventInv, RequestsWork
  <1>. QED
    BY <1>2, <1>5, <1>6, <1>7, <1>9 DEF EventInv

(* Every step keeps types, events and requests. *)
LEMMA EventInvStep ==
    ASSUME EventInv, [Next]_vars
    PROVE  EventInv'
  <1>1. CASE UNCHANGED vars
    BY <1>1 DEF EventInv, TypeOK, EventsKept, LogsEnd, RequestsWork, RowsFollowStripe,
                WorkOf, Exists, vars, rowVars, stripeVars, history
  <1>2. CASE Next
    <2>1. ASSUME NEW w \in Worker, Proceed(w) \/ Abort(w) PROVE EventInv'
      BY <2>1, StepsCreateAtStripe, StepsCancelAtStripe, StepsCommit, StepsEnd DEF Proceed
    <2>. QED
      BY <1>2, <2>1, StepsBegin, StepsBill, StepsRedeliver DEF Next
  <1>. QED
    BY <1>1, <1>2

-----------------------------------------------------------------------------
(* Rows follow Stripe *)

(* Stripe announces something about s: what was taken before stays where it
   was. *)
LEMMA FollowedAnnounced ==
    ASSUME EventInv, Followed, NEW s \in Subscription, NEW x \in StripeStatus,
           Announce(s, x), stripe[s] # "canceled", UNCHANGED <<rowVars, history>>
    PROVE  Followed'
  <1>1. /\ \A t \in Subscription \ {s} : log'[t] = log[t] /\ stripe'[t] = stripe[t]
        /\ log'[s] # <<>> /\ Len(log'[s]) = Len(log[s]) + 1
        /\ \A n \in 1 .. Len(log[s]) : log'[s][n] = log[s][n]
    BY Announced DEF rowVars
  <1>2. ASSUME NEW t \in Subscription \ drifted PROVE FollowedAt(t)'
    <2>1. FollowedAt(t)
      BY DEF Followed
    <2>2. CASE t = s
      <3>1. Len(log[s]) \in Nat
        BY DEF EventInv, TypeOK
      <3>2. ASSUME applied[s] \in 1 .. Len(log[s])
            PROVE  applied[s] \in 1 .. Len(log'[s]) /\ log'[s][applied[s]] = log[s][applied[s]]
        BY <1>1, <3>1, <3>2
      <3>. QED
        BY <1>1, <2>1, <2>2, <3>2 DEF FollowedAt, Exists, rowVars, history
    <2>3. CASE t # s
      BY <1>1, <2>1, <2>3 DEF FollowedAt, Exists, rowVars, history
    <2>. QED
      BY <2>2, <2>3
  <1>. QED
    BY <1>2 DEF Followed, history

LEMMA FollowedCommit ==
    ASSUME EventInv, Followed, NEW w \in Worker, CommitSubscribe(w) \/ CommitCancel(w)
    PROVE  Followed'
  <1>. DEFINE s == req[w].sub
  <1>1. /\ s \in Subscription
        /\ UNCHANGED <<recorded, stripe, log, applied, drifted>>
    BY DEF CommitSubscribe, CommitCancel, EventInv, RequestsWork, WorkOf, stripeVars, history
  <1>2. ASSUME NEW t \in Subscription \ drifted PROVE FollowedAt(t)'
    <2>1. FollowedAt(t)
      BY DEF Followed
    <2>2. CASE t # s
      <3>1. sub'[t] = sub[t]
        BY <1>1, <2>2 DEF CommitSubscribe, CommitCancel, EventInv, TypeOK
      <3>. QED
        BY <1>1, <2>1, <3>1 DEF FollowedAt, Exists
    <2>3. CASE t = s /\ CommitSubscribe(w)
      <3>1. /\ req[w].pc = "saveNew"
            /\ sub' = [sub EXCEPT ![s] = [user |-> req[w].user, status |-> req[w].answer,
                                          cancelled |-> FALSE]]
        BY <2>3 DEF CommitSubscribe
      <3>2. /\ ~Exists(s) /\ req[w].answer \in {"incomplete", "active"}
            /\ log[s] = <<>> => stripe[s] = req[w].answer
        BY <3>1 DEF EventInv, RequestsWork, WorkOf
      <3>3. applied[s] = 0
        BY <1>1, <3>2 DEF EventInv, RowsFollowStripe
      <3>4. sub'[s].status = req[w].answer
        <4>. HIDE DEF s
        <4>. QED
          BY <1>1, <3>1 DEF EventInv, TypeOK
      <3>5. log[s] = <<>> => sub'[s].status = Mapped(stripe[s])
        BY <3>2, <3>4 DEF Mapped
      <3>. QED
        BY <1>1, <2>1, <2>3, <3>3, <3>5 DEF FollowedAt
    <2>4. CASE t = s /\ CommitCancel(w)
      <3>1. /\ req[w].pc = "saveCancel"
            /\ sub' = [sub EXCEPT ![s].status = "cancelled", ![s].cancelled = TRUE]
        BY <2>4 DEF CommitCancel
      <3>2. stripe[s] = "canceled" /\ Exists(s)
        BY <3>1 DEF EventInv, RequestsWork, WorkOf
      <3>3. sub[s] \in Row
        BY <1>1, <3>2 DEF EventInv, TypeOK, Exists
      <3>4. sub'[s].status = "cancelled"
        <4>. HIDE DEF s
        <4>. QED
          BY <1>1, <3>1, <3>3 DEF EventInv, TypeOK, Row
      <3>. QED
        BY <1>1, <2>1, <2>4, <3>2, <3>4 DEF FollowedAt
    <2>. QED
      BY <2>2, <2>3, <2>4
  <1>. QED
    BY <1>1, <1>2 DEF Followed

LEMMA FollowedRedeliver ==
    ASSUME EventInv, Followed, NEW e \in EventId, Redeliver(e)
    PROVE  Followed'
  <1>1. /\ e \in recorded \cup undelivered
        /\ recorded' = recorded \cup {e}
        /\ UNCHANGED <<stripe, log>>
    BY DEF Redeliver, AnswerDuplicate, HandleChange, DropChange, FailOnPeriod, Answer,
           rowVars, stripeVars
  <1>2. PICK s \in Subscription, n \in 1 .. MaxEvents : e = <<s, n>>
    BY DEF EventId
  <1>3. CASE HandleChange(e)
    <2>1. /\ Exists(s)
          /\ sub' = [sub EXCEPT ![s].status = Mapped(log[s][n])]
          /\ applied' = [applied EXCEPT ![s] = n]
          /\ drifted' = IF n = applied[s] + 1 THEN drifted ELSE drifted \cup {s}
      BY <1>2, <1>3 DEF HandleChange, Sync
    <2>2. n \in 1 .. Len(log[s])
      BY <1>1, <1>2 DEF EventInv, EventsKept
    <2>3. ASSUME NEW t \in Subscription \ drifted' PROVE FollowedAt(t)'
      <3>1. t \notin drifted /\ FollowedAt(t)
        BY <2>1, <2>3 DEF Followed
      <3>2. CASE t # s
        <4>1. sub'[t] = sub[t] /\ applied'[t] = applied[t]
          BY <2>1, <3>2 DEF EventInv, TypeOK
        <4>2. \A m \in 1 .. MaxEvents : <<t, m>> \in recorded' => <<t, m>> \in recorded
          BY <1>1, <1>2, <3>2
        <4>. QED
          BY <1>1, <3>1, <4>1, <4>2 DEF FollowedAt, Exists
      <3>3. CASE t = s
        <4>1. n = applied[s] + 1 /\ applied'[s] = n /\ applied[s] \in Nat
          BY <2>1, <2>3, <3>3 DEF EventInv, TypeOK
        <4>2. \A m \in 1 .. MaxEvents : <<s, m>> \in recorded' => m <= n
          BY <1>1, <1>2, <3>1, <3>3, <4>1 DEF FollowedAt
        <4>3. sub'[s].status = Mapped(log[s][n])
          <5>1. sub[s] \in Row
            BY <2>1 DEF EventInv, TypeOK, Exists
          <5>. QED
            BY <2>1, <5>1 DEF EventInv, TypeOK, Row
        <4>. QED
          BY <1>1, <2>2, <3>3, <4>1, <4>2, <4>3 DEF FollowedAt
      <3>. QED
        BY <3>2, <3>3
    <2>. QED
      BY <2>3 DEF Followed
  <1>4. CASE AnswerDuplicate(e)
    BY <1>4 DEF AnswerDuplicate, rowVars, history, Followed, FollowedAt, Exists
  <1>5. CASE DropChange(e) \/ FailOnPeriod(e)
    <2>1. UNCHANGED <<sub, applied>> /\ drifted' = drifted \cup {s}
      BY <1>2, <1>5 DEF DropChange, FailOnPeriod
    <2>2. ASSUME NEW t \in Subscription \ drifted' PROVE FollowedAt(t)'
      <3>1. t # s /\ FollowedAt(t)
        BY <2>1, <2>2 DEF Followed
      <3>2. \A m \in 1 .. MaxEvents : <<t, m>> \in recorded' => <<t, m>> \in recorded
        BY <1>1, <1>2, <3>1
      <3>. QED
        BY <1>1, <2>1, <3>1, <3>2 DEF FollowedAt, Exists
    <2>. QED
      BY <2>2 DEF Followed
  <1>. QED
    BY <1>3, <1>4, <1>5 DEF Redeliver

LEMMA FollowedStep ==
    ASSUME EventInv, Followed, [Next]_vars
    PROVE  Followed'
  <1>1. ASSUME UNCHANGED <<rowVars, stripeVars, applied, drifted>> PROVE Followed'
    BY <1>1 DEF Followed, FollowedAt, Exists, rowVars, stripeVars
  <1>2. CASE UNCHANGED vars
    BY <1>1, <1>2 DEF vars, history
  <1>3. ASSUME NEW w \in Worker, NEW u \in User, BeginSubscribe(w, u) PROVE Followed'
    BY <1>1, <1>3 DEF BeginSubscribe, Subscribes
  <1>4. ASSUME NEW w \in Worker, NEW u \in User, NEW s \in Subscription, BeginCancel(w, u, s)
        PROVE  Followed'
    BY <1>1, <1>4 DEF BeginCancel, history
  <1>5. ASSUME NEW w \in Worker, Abort(w) \/ RefuseCancel(w) PROVE Followed'
    BY <1>1, <1>5 DEF Abort, RefuseCancel, history
  <1>6. ASSUME NEW w \in Worker, NEW s \in Subscription, CreateAtStripe(w, s) PROVE Followed'
    <2>1. /\ stripe[s] = "none" /\ UNCHANGED <<sub, recorded, log, applied, drifted>>
          /\ \A t \in Subscription \ {s} : stripe'[t] = stripe[t]
      BY <1>6 DEF CreateAtStripe, rowVars, history, EventInv, TypeOK
    <2>2. ~Exists(s)
      BY <2>1 DEF EventInv, RowsFollowStripe
    <2>. QED
      BY <2>1, <2>2 DEF Followed, FollowedAt, Exists
  <1>7. ASSUME NEW w \in Worker, CancelAtStripe(w) PROVE Followed'
    <2>1. /\ req[w].sub \in Subscription
          /\ stripe[req[w].sub] # "canceled" /\ Announce(req[w].sub, "canceled")
          /\ UNCHANGED <<rowVars, history>>
      BY <1>7 DEF CancelAtStripe, EventInv, RequestsWork, WorkOf
    <2>. QED
      BY <2>1, FollowedAnnounced DEF StripeStatus
  <1>8. ASSUME NEW s \in Subscription, Bill(s) PROVE Followed'
    <2>1. PICK x \in StripeStep[stripe[s]] : Announce(s, x)
      BY <1>8 DEF Bill
    <2>2. x \in StripeStatus /\ stripe[s] # "canceled"
      BY <2>1, StripeStepStatus DEF EventInv, TypeOK
    <2>. QED
      BY <1>8, <2>1, <2>2, FollowedAnnounced DEF Bill
  <1>. QED
    BY <1>2, <1>3, <1>4, <1>5, <1>6, <1>7, <1>8, FollowedCommit, FollowedRedeliver
    DEF Next, Proceed

-----------------------------------------------------------------------------
(* Cancelled at Stripe *)

LEMMA CancelledStep ==
    ASSUME EventInv, CancelledIsNotBilled, [Next]_vars
    PROVE  CancelledIsNotBilled'
  <1>1. ASSUME UNCHANGED sub,
               \A s \in Subscription : stripe[s] = "canceled" => stripe'[s] = "canceled"
        PROVE  CancelledIsNotBilled'
    BY <1>1 DEF CancelledIsNotBilled
  <1>2. CASE UNCHANGED vars
    BY <1>1, <1>2 DEF vars, rowVars, stripeVars
  <1>3. ASSUME NEW w \in Worker, NEW u \in User, BeginSubscribe(w, u)
        PROVE  CancelledIsNotBilled'
    BY <1>1, <1>3 DEF BeginSubscribe, Subscribes, rowVars, stripeVars
  <1>4. ASSUME NEW w \in Worker, NEW u \in User, NEW s \in Subscription, BeginCancel(w, u, s)
        PROVE  CancelledIsNotBilled'
    BY <1>1, <1>4 DEF BeginCancel, rowVars, stripeVars
  <1>5. ASSUME NEW w \in Worker, Abort(w) \/ RefuseCancel(w) PROVE CancelledIsNotBilled'
    BY <1>1, <1>5 DEF Abort, RefuseCancel, rowVars, stripeVars
  <1>6. ASSUME NEW w \in Worker, NEW s \in Subscription, CreateAtStripe(w, s)
        PROVE  CancelledIsNotBilled'
    <2>1. /\ stripe[s] = "none" /\ UNCHANGED sub
          /\ \A t \in Subscription \ {s} : stripe'[t] = stripe[t]
      BY <1>6 DEF CreateAtStripe, rowVars, EventInv, TypeOK
    <2>. QED
      BY <1>1, <2>1
  <1>7. ASSUME NEW w \in Worker, CancelAtStripe(w) PROVE CancelledIsNotBilled'
    <2>1. /\ UNCHANGED sub
          /\ stripe' = [stripe EXCEPT ![req[w].sub] = "canceled"]
      BY <1>7 DEF CancelAtStripe, Announce, rowVars
    <2>. QED
      BY <1>1, <2>1 DEF EventInv, TypeOK
  <1>8. ASSUME NEW s \in Subscription, Bill(s) PROVE CancelledIsNotBilled'
    <2>1. PICK x \in StripeStep[stripe[s]] : Announce(s, x)
      BY <1>8 DEF Bill
    <2>2. stripe[s] # "canceled"
      BY <2>1, StripeStepStatus DEF EventInv, TypeOK
    <2>3. UNCHANGED sub /\ stripe' = [stripe EXCEPT ![s] = x]
      BY <1>8, <2>1 DEF Bill, Announce, rowVars
    <2>. QED
      BY <1>1, <2>2, <2>3 DEF EventInv, TypeOK
  <1>9. ASSUME NEW w \in Worker, CommitSubscribe(w) PROVE CancelledIsNotBilled'
    <2>. DEFINE s == req[w].sub
    <2>1. /\ req[w].pc = "saveNew" /\ UNCHANGED stripe
          /\ sub' = [sub EXCEPT ![s] = [user |-> req[w].user, status |-> req[w].answer,
                                        cancelled |-> FALSE]]
      BY <1>9 DEF CommitSubscribe, stripeVars
    <2>2. s \in Subscription /\ req[w].answer \in {"incomplete", "active"}
      BY <2>1 DEF EventInv, RequestsWork, WorkOf
    <2>. HIDE DEF s
    <2>3. /\ sub'[s].status = req[w].answer /\ sub'[s].cancelled = FALSE
          /\ \A t \in Subscription \ {s} : sub'[t] = sub[t]
      BY <2>1, <2>2 DEF EventInv, TypeOK
    <2>. QED
      BY <2>1, <2>2, <2>3 DEF CancelledIsNotBilled
  <1>10. ASSUME NEW w \in Worker, CommitCancel(w) PROVE CancelledIsNotBilled'
    <2>. DEFINE s == req[w].sub
    <2>1. /\ req[w].pc = "saveCancel" /\ UNCHANGED stripe
          /\ sub' = [sub EXCEPT ![s].status = "cancelled", ![s].cancelled = TRUE]
      BY <1>10 DEF CommitCancel, stripeVars
    <2>2. s \in Subscription /\ stripe[s] = "canceled"
      BY <2>1 DEF EventInv, RequestsWork, WorkOf
    <2>. HIDE DEF s
    <2>3. \A t \in Subscription \ {s} : sub'[t] = sub[t]
      BY <2>1, <2>2 DEF EventInv, TypeOK
    <2>. QED
      BY <2>1, <2>2, <2>3 DEF CancelledIsNotBilled
  <1>11. ASSUME NEW e \in EventId, Redeliver(e) PROVE CancelledIsNotBilled'
    <2>1. UNCHANGED <<stripe, log>>
      BY <1>11 DEF Redeliver, AnswerDuplicate, HandleChange, DropChange, FailOnPeriod,
                   Answer, stripeVars
    <2>2. CASE HandleChange(e)
      <3>1. PICK s \in Subscription, n \in 1 .. MaxEvents : e = <<s, n>>
        BY DEF EventId
      <3>2. Exists(s) /\ sub' = [sub EXCEPT ![s].status = Mapped(log[s][n])]
        BY <2>2, <3>1 DEF HandleChange, Sync
      <3>3. n \in 1 .. Len(log[s]) /\ log[s] \in Seq(StripeStatus)
        BY <2>2, <3>1 DEF HandleChange, EventInv, EventsKept, TypeOK
      <3>4. log[s][n] \in StripeStatus
        BY <3>3
      <3>5. Mapped(log[s][n]) = "cancelled" => stripe[s] = "canceled"
        BY <3>3, <3>4, MappedStatus DEF EventInv, LogsEnd
      <3>6. sub[s] \in Row
        BY <3>2 DEF EventInv, TypeOK, Exists
      <3>7. /\ sub'[s].status = Mapped(log[s][n]) /\ sub'[s].cancelled = sub[s].cancelled
            /\ \A t \in Subscription \ {s} : sub'[t] = sub[t]
        BY <3>2, <3>6 DEF EventInv, TypeOK, Row
      <3>. QED
        BY <2>1, <3>5, <3>7 DEF CancelledIsNotBilled
    <2>3. CASE AnswerDuplicate(e) \/ DropChange(e) \/ FailOnPeriod(e)
      BY <1>1, <2>1, <2>3 DEF AnswerDuplicate, DropChange, FailOnPeriod, rowVars
    <2>. QED
      BY <1>11, <2>2, <2>3 DEF Redeliver
  <1>. QED
    BY <1>2, <1>3, <1>4, <1>5, <1>6, <1>7, <1>8, <1>9, <1>10, <1>11 DEF Next, Proceed

-----------------------------------------------------------------------------
(* One membership at a time *)

(* Nothing but a subscribe request changes whose row is whose, which of them
   lapsed and who is subscribing. *)
LEMMA LapsedKept ==
    ASSUME LapsedButOne,
           \A s \in Subscription : sub'[s].user = sub[s].user,
           \A u \in User : Subscribing(u)' \subseteq Subscribing(u),
           UNCHANGED <<lapsed, crossed>>
    PROVE  LapsedButOne'
  BY DEF LapsedButOne

LEMMA LapsedBegin ==
    ASSUME EventInv, LapsedButOne, NEW w \in Worker, NEW v \in User, BeginSubscribe(w, v)
    PROVE  LapsedButOne'
  <1>. DEFINE r == [Idle EXCEPT !.pc = "subscribe", !.user = v]
  <1>1. r.pc = "subscribe" /\ r.user = v
    BY DEF Idle
  <1>2. /\ req[w].pc = "idle" /\ req' = [req EXCEPT ![w] = r]
        /\ Current(v) = {}
        /\ crossed' = crossed \cup {x \in {v} : Subscribing(x) # {}}
        /\ lapsed' = lapsed \cup {s \in Subscription : sub[s].user = v /\ s \notin Current(v)}
        /\ UNCHANGED sub
    BY DEF BeginSubscribe, Subscribes, rowVars
  <1>. HIDE DEF r
  <1>3. /\ req'[w] = r
        /\ \A x \in Worker \ {w} : req'[x] = req[x]
    BY <1>2 DEF EventInv, TypeOK
  <1>4. /\ Subscribing(v)' = Subscribing(v) \cup {w}
        /\ \A u \in User \ {v} : Subscribing(u)' = Subscribing(u)
    BY <1>1, <1>2, <1>3 DEF Subscribing
  <1>5. \A s \in Subscription : sub[s].user = v => s \in lapsed'
    BY <1>2
  <1>6. ASSUME NEW u \in User \ crossed'
        PROVE  /\ \A x, y \in Subscribing(u)' : x = y
               /\ Subscribing(u)' # {} =>
                    \A s \in Subscription : sub'[s].user = u => s \in lapsed'
               /\ \A s, t \in Subscription :
                    sub'[s].user = u /\ sub'[t].user = u /\ s # t => {s, t} \cap lapsed' # {}
    <2>1. u \notin crossed /\ lapsed \subseteq lapsed'
      BY <1>2, <1>6
    <2>2. CASE u = v
      BY <1>2, <1>4, <1>5, <1>6, <2>2
    <2>3. CASE u # v
      BY <1>2, <1>4, <2>1, <2>3 DEF LapsedButOne
    <2>. QED
      BY <2>2, <2>3
  <1>. QED
    BY <1>6 DEF LapsedButOne

LEMMA LapsedCommit ==
    ASSUME EventInv, LapsedButOne, NEW w \in Worker, CommitSubscribe(w)
    PROVE  LapsedButOne'
  <1>. DEFINE s == req[w].sub
              v == req[w].user
  <1>1. /\ req[w].pc = "saveNew" /\ EndRequest(w) /\ UNCHANGED <<lapsed, crossed>>
        /\ sub' = [sub EXCEPT ![s] = [user |-> v, status |-> req[w].answer,
                                      cancelled |-> FALSE]]
    BY DEF CommitSubscribe, history
  <1>2. s \in Subscription /\ v \in User
    BY <1>1 DEF EventInv, RequestsWork, WorkOf
  <1>3. w \in Subscribing(v)
    BY <1>1 DEF Subscribing
  <1>. HIDE DEF s, v
  <1>4. sub'[s].user = v /\ \A t \in Subscription \ {s} : sub'[t] = sub[t]
    BY <1>1, <1>2 DEF EventInv, TypeOK
  <1>5. /\ req'[w].pc = "idle"
        /\ \A x \in Worker \ {w} : req'[x] = req[x]
    BY <1>1, IdleType DEF EndRequest, EventInv, TypeOK
  <1>6. \A u \in User : Subscribing(u)' \subseteq Subscribing(u) \ {w}
    BY <1>5 DEF Subscribing
  <1>7. ASSUME NEW u \in User \ crossed'
        PROVE  /\ \A x, y \in Subscribing(u)' : x = y
               /\ Subscribing(u)' # {} =>
                    \A t \in Subscription : sub'[t].user = u => t \in lapsed'
               /\ \A t1, t2 \in Subscription :
                    sub'[t1].user = u /\ sub'[t2].user = u /\ t1 # t2
                        => {t1, t2} \cap lapsed' # {}
    <2>1. u \notin crossed /\ lapsed' = lapsed
      BY <1>1, <1>7
    <2>2. CASE u = v
      BY <1>3, <1>4, <1>6, <2>1, <2>2 DEF LapsedButOne
    <2>3. CASE u # v
      BY <1>4, <1>6, <2>1, <2>3 DEF LapsedButOne
    <2>. QED
      BY <2>2, <2>3
  <1>. QED
    BY <1>7 DEF LapsedButOne

LEMMA LapsedStep ==
    ASSUME EventInv, LapsedButOne, [Next]_vars
    PROVE  LapsedButOne'
  <1>1. CASE UNCHANGED vars
    BY <1>1, LapsedKept DEF vars, rowVars, history, Subscribing
  <1>2. ASSUME NEW w \in Worker, NEW u \in User, NEW s \in Subscription, BeginCancel(w, u, s)
        PROVE  LapsedButOne'
    <2>. DEFINE r == [Idle EXCEPT !.pc = "cancel", !.user = u, !.sub = s]
    <2>1. r.pc = "cancel"
      BY DEF Idle
    <2>2. req' = [req EXCEPT ![w] = r] /\ UNCHANGED <<sub, lapsed, crossed>>
      BY <1>2 DEF BeginCancel, rowVars, history
    <2>. HIDE DEF r
    <2>3. \A v \in User : Subscribing(v)' \subseteq Subscribing(v)
      BY <2>1, <2>2 DEF Subscribing, EventInv, TypeOK
    <2>. QED
      BY <2>2, <2>3, LapsedKept
  <1>3. ASSUME NEW w \in Worker, NEW s \in Subscription, CreateAtStripe(w, s)
        PROVE  LapsedButOne'
    <2>1. PICK a \in {"incomplete", "active"} :
              req' = [req EXCEPT ![w] = [@ EXCEPT !.pc = "saveNew", !.sub = s, !.answer = a]]
      BY <1>3 DEF CreateAtStripe
    <2>2. PICK r : r = [req[w] EXCEPT !.pc = "saveNew", !.sub = s, !.answer = a]
      OBVIOUS
    <2>3. req[w] \in Request /\ req[w].pc = "subscribe"
      BY <1>3 DEF CreateAtStripe, EventInv, TypeOK
    <2>4. r.user = req[w].user
      BY <2>2, <2>3 DEF Request
    <2>5. req' = [req EXCEPT ![w] = r]
      BY <2>1, <2>2
    <2>6. \A v \in User : Subscribing(v)' \subseteq Subscribing(v)
      BY <2>3, <2>4, <2>5 DEF Subscribing, EventInv, TypeOK
    <2>. QED
      BY <1>3, <2>6, LapsedKept DEF CreateAtStripe, rowVars, history
  <1>4. ASSUME NEW w \in Worker, CancelAtStripe(w)
        PROVE  LapsedButOne'
    <2>1. /\ req' = [req EXCEPT ![w].pc = "saveCancel"]
          /\ UNCHANGED <<sub, lapsed, crossed>>
      BY <1>4 DEF CancelAtStripe, rowVars, history
    <2>2. req'[w].pc = "saveCancel" /\ \A x \in Worker \ {w} : req'[x] = req[x]
      BY <2>1 DEF EventInv, TypeOK, Request
    <2>3. \A v \in User : Subscribing(v)' \subseteq Subscribing(v)
      BY <2>2 DEF Subscribing
    <2>. QED
      BY <2>1, <2>3, LapsedKept
  <1>5. ASSUME NEW w \in Worker, Abort(w) \/ RefuseCancel(w) \/ CommitCancel(w)
        PROVE  LapsedButOne'
    <2>1. EndRequest(w) /\ UNCHANGED <<lapsed, crossed>>
      BY <1>5 DEF Abort, RefuseCancel, CommitCancel, history
    <2>2. \A v \in User : Subscribing(v)' \subseteq Subscribing(v)
      BY <2>1, IdleType DEF EndRequest, Subscribing, EventInv, TypeOK
    <2>3. \A s \in Subscription : sub'[s].user = sub[s].user
      <3>1. CASE Abort(w) \/ RefuseCancel(w)
        BY <3>1 DEF Abort, RefuseCancel, rowVars
      <3>2. CASE CommitCancel(w)
        <4>1. PICK s : s = req[w].sub
          OBVIOUS
        <4>2. /\ s \in Subscription /\ Exists(s)
              /\ sub' = [sub EXCEPT ![s].status = "cancelled", ![s].cancelled = TRUE]
          BY <3>2, <4>1 DEF CommitCancel, EventInv, RequestsWork, WorkOf
        <4>3. sub[s] \in Row
          BY <4>2 DEF EventInv, TypeOK, Exists
        <4>. QED
          BY <4>2, <4>3 DEF EventInv, TypeOK, Row
      <3>. QED
        BY <1>5, <3>1, <3>2
    <2>. QED
      BY <2>1, <2>2, <2>3, LapsedKept
  <1>6. ASSUME NEW s \in Subscription, Bill(s) PROVE LapsedButOne'
    BY <1>6, LapsedKept DEF Bill, rowVars, history, Subscribing
  <1>7. ASSUME NEW e \in EventId, Redeliver(e) PROVE LapsedButOne'
    <2>1. UNCHANGED <<req, lapsed, crossed>>
      BY <1>7 DEF Redeliver, AnswerDuplicate, HandleChange, DropChange, FailOnPeriod, history
    <2>2. \A s \in Subscription : sub'[s].user = sub[s].user
      <3>1. CASE HandleChange(e)
        <4>1. PICK s \in Subscription, n \in 1 .. MaxEvents : e = <<s, n>>
          BY DEF EventId
        <4>2. Exists(s) /\ sub' = [sub EXCEPT ![s].status = Mapped(log[s][n])]
          BY <3>1, <4>1 DEF HandleChange, Sync
        <4>3. sub[s] \in Row
          BY <4>2 DEF EventInv, TypeOK, Exists
        <4>. QED
          BY <4>2, <4>3 DEF EventInv, TypeOK, Row
      <3>2. CASE AnswerDuplicate(e) \/ DropChange(e) \/ FailOnPeriod(e)
        BY <3>2 DEF AnswerDuplicate, DropChange, FailOnPeriod, rowVars
      <3>. QED
        BY <1>7, <3>1, <3>2 DEF Redeliver
    <2>. QED
      BY <2>1, <2>2, LapsedKept DEF Subscribing
  <1>. QED
    BY <1>1, <1>2, <1>3, <1>4, <1>5, <1>6, <1>7, LapsedBegin, LapsedCommit DEF Next, Proceed

-----------------------------------------------------------------------------
(* Theorems *)

LEMMA InitMembership == Init => MembershipInv
  <1>. SUFFICES ASSUME Init PROVE MembershipInv
    OBVIOUS
  <1>1. TypeOK
    BY IdleType, MembershipAssumption DEF Init, TypeOK, StripeStatus
  <1>2. EventsKept
    BY FS_EmptySet DEF Init, EventsKept
  <1>3. LogsEnd /\ RowsFollowStripe /\ CancelledIsNotBilled
    BY DEF Init, LogsEnd, RowsFollowStripe, Exists, CancelledIsNotBilled, NoRow
  <1>4. RequestsWork
    BY IdleType DEF Init, RequestsWork, WorkOf
  <1>5. Followed
    BY DEF Init, Followed, FollowedAt, Exists
  <1>6. LapsedButOne
    <2>1. \A u \in User : Subscribing(u) = {}
      BY IdleType DEF Init, Subscribing
    <2>2. \A s, t \in Subscription : \A u \in User :
            sub[s].user = u /\ sub[t].user = u /\ s # t => {s, t} \cap lapsed # {}
      BY MembershipAssumption DEF Init, NoRow
    <2>. QED
      BY <2>1, <2>2 DEF LapsedButOne
  <1>. QED
    BY <1>1, <1>2, <1>3, <1>4, <1>5, <1>6 DEF MembershipInv, EventInv

LEMMA MembershipInvariant == Spec => []MembershipInv
  <1>1. MembershipInv /\ [Next]_vars => MembershipInv'
    BY EventInvStep, FollowedStep, CancelledStep, LapsedStep DEF MembershipInv
  <1>. QED
    BY InitMembership, <1>1, PTL DEF Spec

(* Rows, requests and events keep their types: no request is left working on a
   row that is not there, and no event is made up. *)
THEOREM TypeCorrect == Spec => []TypeOK
  BY MembershipInvariant, PTL DEF MembershipInv, EventInv

(* A row all events of which were handled, in order, says what Stripe says,
   whatever was cancelled, redelivered or died in between. *)
THEOREM RowsInStep == Spec => []InStepWithStripe
  <1>1. ASSUME MembershipInv, NEW s \in Subscription \ drifted, Exists(s),
               \A n \in 1 .. MaxEvents : <<s, n>> \notin undelivered \ recorded
        PROVE  sub[s].status = Mapped(stripe[s])
    <2>1. FollowedAt(s) /\ EventInv
      BY <1>1 DEF MembershipInv, Followed
    <2>2. /\ Len(log[s]) \in Nat /\ Len(log[s]) <= MaxEvents
          /\ applied[s] \in Nat /\ log[s] \in Seq(StripeStatus)
      BY <2>1 DEF EventInv, TypeOK
    <2>3. log[s] # <<>> => Len(log[s]) \in 1 .. Len(log[s])
      BY <2>2
    <2>4. log[s] # <<>> => Len(log[s]) <= applied[s]
      <3>1. ASSUME log[s] # <<>> PROVE <<s, Len(log[s])>> \in recorded
        BY <1>1, <2>1, <2>2, <2>3, <3>1, MembershipAssumption DEF EventInv, EventsKept
      <3>. QED
        BY <2>1, <2>2, <2>3, <3>1, MembershipAssumption DEF FollowedAt
    <2>5. CASE log[s] = <<>>
      <3>1. applied[s] \notin 1 .. Len(log[s])
        BY <2>5
      <3>. QED
        BY <1>1, <2>1, <2>5, <3>1 DEF FollowedAt, Mapped
    <2>6. CASE log[s] # <<>>
      <3>1. log[s][Len(log[s])] = stripe[s] /\ applied[s] # 0
        BY <2>1, <2>2, <2>3, <2>4, <2>6 DEF EventInv, LogsEnd
      <3>2. applied[s] \in 1 .. Len(log[s]) => applied[s] = Len(log[s])
        BY <2>2, <2>4, <2>6
      <3>. QED
        BY <1>1, <2>1, <3>1, <3>2 DEF FollowedAt, Mapped
    <2>. QED
      BY <2>5, <2>6
  <1>2. MembershipInv => InStepWithStripe
    BY <1>1 DEF InStepWithStripe
  <1>. QED
    BY <1>2, MembershipInvariant, PTL

(* A membership the backend calls cancelled is cancelled at Stripe, so its
   user is not charged again. *)
THEOREM NoneBilledAfter == Spec => []CancelledIsNotBilled
  BY MembershipInvariant, PTL DEF MembershipInv

(* Two rows of a user are current at the same time only if one had lapsed when
   the other was bought, or two requests met; of the subscriptions at Stripe the
   theorem says nothing. *)
THEOREM OneAtATime == Spec => []OneMembership
  <1>1. MembershipInv => OneMembership
    BY DEF MembershipInv, LapsedButOne, OneMembership, Current
  <1>. QED
    BY <1>1, MembershipInvariant, PTL

=============================================================================
