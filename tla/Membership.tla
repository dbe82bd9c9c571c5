----------------------------- MODULE Membership -----------------------------
(***************************************************************************)
(* Memberships: the subscribe and cancel views of loyalty/views.py and the *)
(* subscription and invoice events of Stripe's webhook                     *)
(* (payments/stripe_service.py, loyalty/services.py).                      *)
(*                                                                         *)
(* A view runs in one transaction, but Stripe is called inside it and does *)
(* not roll back.  Stripe announces every change of a subscription by an   *)
(* event with the subscription as it is after the change; events arrive    *)
(* late, in any order, more than once.                                     *)
(***************************************************************************)
EXTENDS Integers, Sequences, FiniteSets

CONSTANTS
    Subscription, \* Stripe's subscription ids
    User,
    Worker,
    MaxEvents,    \* bound: events
    MaxAborts,    \* bound: requests that end without a commit
    NoUser, NoSubscription

ASSUME MembershipAssumption ==
    /\ MaxEvents \in Nat /\ MaxAborts \in Nat
    /\ NoUser \notin User

VARIABLES
    sub,          \* sub[s]: the UserSubscription row with that id
    req,          \* req[w]: the subscribe or cancel request of worker w
    recorded,     \* events that have an IdempotencyRecord row
    stripe,       \* external, stripe[s]: the status Stripe has
    log,          \* external, log[s]: the events of s, in order
    undelivered,  \* external: events Stripe has no 200 for
    aborts,       \* how many requests ended without a commit
    applied,      \* history, applied[s]: the last event whose status the row took
    drifted,      \* history: subscriptions whose row missed an event, took
                  \* them out of order or was saved over one
    lapsed,       \* history: memberships that were there and not current when
                  \* their user subscribed again
    crossed       \* history: users two of whose subscribe requests met

rowVars == <<sub, recorded>>
stripeVars == <<stripe, log, undelivered>>
history == <<applied, drifted, lapsed, crossed>>
vars == <<rowVars, req, stripeVars, aborts, history>>

-----------------------------------------------------------------------------

Status == {"active", "past_due", "cancelled", "incomplete", "trialing"}

StripeStatus == {"active", "past_due", "canceled", "incomplete", "unpaid",
                 "incomplete_expired"}

(* What Stripe's status becomes once the first payment is made, missed,
   retried or given up. *)
StripeStep == [incomplete |-> {"active", "incomplete_expired"},
               active |-> {"past_due", "canceled"},
               past_due |-> {"active", "unpaid", "canceled"},
               unpaid |-> {"active"},
               canceled |-> {}, incomplete_expired |-> {}, none |-> {}]

NoRow == [user |-> NoUser, status |-> "none", cancelled |-> FALSE]
Row == [user : User, status : Status, cancelled : BOOLEAN]

(* An event: the nth change of a subscription. *)
EventId == Subscription \X (1 .. MaxEvents)

Idle == [pc |-> "idle", user |-> NoUser, sub |-> NoSubscription,
         answer |-> "incomplete"]
Request == [pc : {"idle", "subscribe", "saveNew", "cancel", "saveCancel"},
            user : User \cup {NoUser}, sub : Subscription \cup {NoSubscription},
            answer : Status]

Exists(s) == sub[s] # NoRow
EndRequest(w) == req' = [req EXCEPT ![w] = Idle]

(* status_map of sync_stripe_subscription *)
Mapped(status) ==
    CASE status = "active" -> "active" [] status = "past_due" -> "past_due"
      [] status = "canceled" -> "cancelled" [] status = "trialing" -> "trialing"
      [] OTHER -> "incomplete"

(* The check of MembershipSubscribeView and MembershipCancelView. *)
Current(u) == {s \in Subscription : sub[s].user = u /\ sub[s].status \in {"active", "trialing"}}

Init ==
    /\ sub = [s \in Subscription |-> NoRow]
    /\ req = [w \in Worker |-> Idle]
    /\ recorded = {}
    /\ stripe = [s \in Subscription |-> "none"]
    /\ log = [s \in Subscription |-> <<>>]
    /\ undelivered = {}
    /\ aborts = 0
    /\ applied = [s \in Subscription |-> 0]
    /\ drifted = {}
    /\ lapsed = {} /\ crossed = {}

-----------------------------------------------------------------------------
(* Stripe *)

(* Stripe moves s to a status and announces it. *)
Announce(s, status) ==
    /\ Cardinality(recorded \cup undelivered) < MaxEvents
    /\ stripe' = [stripe EXCEPT ![s] = status]
    /\ log' = [log EXCEPT ![s] = Append(@, status)]
    /\ undelivered' = undelivered \cup {<<s, Len(log[s]) + 1>>}

Bill(s) ==
    /\ \E status \in StripeStep[stripe[s]] : Announce(s, status)
    /\ UNCHANGED <<rowVars, req, aborts, history>>

-----------------------------------------------------------------------------
(* MembershipSubscribeView *)

Subscribing(u) == {w \in Worker : req[w].user = u /\ req[w].pc \in {"subscribe", "saveNew"}}

Subscribes(w, u) ==
    /\ req' = [req EXCEPT ![w] = [Idle EXCEPT !.pc = "subscribe", !.user = u]]
    /\ crossed' = crossed \cup {v \in {u} : Subscribing(v) # {}}
    /\ lapsed' = lapsed \cup {s \in Subscription : sub[s].user = u /\ s \notin Current(u)}
    /\ UNCHANGED <<rowVars, stripeVars, aborts, applied, drifted>>

(* Mutant: the membership the user has is not looked for. *)
SubscribeAgain(w, u) ==
    /\ req[w].pc = "idle"
    /\ Subscribes(w, u)

(* The user has no membership: none that is active or trialing. *)
BeginSubscribe(w, u) ==
    /\ req[w].pc = "idle"
    /\ Current(u) = {}
    /\ Subscribes(w, u)

(* create_subscription: Stripe makes a new one on every call. *)
CreateAtStripe(w, s) ==
    /\ req[w].pc = "subscribe"
    /\ stripe[s] = "none"
    /\ \E answer \in {"incomplete", "active"} :
        /\ stripe' = [stripe EXCEPT ![s] = answer]
        /\ req' = [req EXCEPT ![w] = [@ EXCEPT !.pc = "saveNew", !.sub = s, !.answer = answer]]
    /\ UNCHANGED <<rowVars, log, undelivered, aborts, history>>

(* The row is created with the status of Stripe's answer; what was handled
   in between found no row. *)
CommitSubscribe(w) ==
    LET s == req[w].sub IN
    /\ req[w].pc = "saveNew"
    /\ sub' = [sub EXCEPT ![s] = [user |-> req[w].user, status |-> req[w].answer,
                                  cancelled |-> FALSE]]
    /\ EndRequest(w)
    /\ UNCHANGED <<recorded, stripeVars, aborts, history>>

-----------------------------------------------------------------------------
(* MembershipCancelView *)

BeginCancel(w, u, s) ==
    /\ req[w].pc = "idle"
    /\ s \in Current(u)
    /\ req' = [req EXCEPT ![w] = [Idle EXCEPT !.pc = "cancel", !.user = u, !.sub = s]]
    /\ UNCHANGED <<rowVars, stripeVars, aborts, history>>

(* Mutant: the membership is only marked as cancelled. *)
CancelHereOnly(w) ==
    LET s == req[w].sub IN
    /\ req[w].pc = "cancel"
    /\ stripe[s] # "canceled"
    /\ req' = [req EXCEPT ![w].pc = "saveCancel"]
    /\ UNCHANGED <<rowVars, stripeVars, aborts, history>>

(* cancel_subscription: at once, not at the end of the period.  Stripe
   refuses to cancel twice. *)
CancelAtStripe(w) ==
    LET s == req[w].sub IN
    /\ req[w].pc = "cancel"
    /\ stripe[s] # "canceled"
    /\ Announce(s, "canceled")
    /\ req' = [req EXCEPT ![w].pc = "saveCancel"]
    /\ UNCHANGED <<rowVars, aborts, history>>

RefuseCancel(w) ==
    /\ req[w].pc = "cancel"
    /\ stripe[req[w].sub] = "canceled"
    /\ EndRequest(w)
    /\ UNCHANGED <<rowVars, stripeVars, aborts, history>>

(* The row is saved whatever events have made of it by now. *)
CommitCancel(w) ==
    LET s == req[w].sub IN
    /\ req[w].pc = "saveCancel"
    /\ sub' = [sub EXCEPT ![s].status = "cancelled", ![s].cancelled = TRUE]
    /\ EndRequest(w)
    /\ UNCHANGED <<recorded, stripeVars, aborts, history>>

(* A request ends without a commit; what Stripe has done stays done. *)
Abort(w) ==
    /\ req[w].pc # "idle"
    /\ aborts < MaxAborts
    /\ aborts' = aborts + 1
    /\ EndRequest(w)
    /\ UNCHANGED <<rowVars, stripeVars, history>>

-----------------------------------------------------------------------------
(* The webhook: the event is recorded, in a transaction of its own, then
   handled by one UPDATE.  Answers get lost. *)

Answer(e) ==
    /\ undelivered' \in {undelivered \ {e}, undelivered}
    /\ UNCHANGED <<stripe, log>>

AnswerDuplicate(e) ==
    /\ e \in undelivered \cap recorded
    /\ undelivered' = undelivered \ {e}
    /\ UNCHANGED <<rowVars, req, stripe, log, aborts, history>>

(* Mutant: only a row that is still incomplete takes a status. *)
SyncIncomplete(s, n) ==
    /\ sub' = IF sub[s].status = "incomplete"
              THEN [sub EXCEPT ![s].status = Mapped(log[s][n])] ELSE sub
    /\ applied' = [applied EXCEPT ![s] = n]
    /\ drifted' = IF n = applied[s] + 1 THEN drifted ELSE drifted \cup {s}

(* sync_stripe_subscription saves the status of event n, not looking at the
   one it replaces. *)
Sync(s, n) ==
    /\ sub' = [sub EXCEPT ![s].status = Mapped(log[s][n])]
    /\ applied' = [applied EXCEPT ![s] = n]
    /\ drifted' = IF n = applied[s] + 1 THEN drifted ELSE drifted \cup {s}

(* An event of a subscription that has a row, with no period in it. *)
HandleChange(e) ==
    /\ e \in undelivered \ recorded
    /\ Exists(e[1])
    /\ recorded' = recorded \cup {e}
    /\ Sync(e[1], e[2])
    /\ Answer(e)
    /\ UNCHANGED <<req, aborts, lapsed, crossed>>

(* "no UserSubscription for %s": the event is answered and dropped. *)
DropChange(e) ==
    /\ e \in undelivered \ recorded
    /\ ~Exists(e[1])
    /\ recorded' = recorded \cup {e}
    /\ drifted' = drifted \cup {e[1]}
    /\ Answer(e)
    /\ UNCHANGED <<sub, req, aborts, applied, lapsed, crossed>>

(* timezone.utc, of django.utils, does not exist in Django 5: an event with
   current_period_start or _end raises after it was recorded, and is never
   handled again.  Stripe's API version decides which events have them. *)
FailOnPeriod(e) ==
    /\ e \in undelivered \ recorded
    /\ Exists(e[1])
    /\ recorded' = recorded \cup {e}
    /\ drifted' = drifted \cup {e[1]}
    /\ UNCHANGED <<sub, req, stripeVars, aborts, applied, lapsed, crossed>>

-----------------------------------------------------------------------------

Proceed(w) ==
    \/ \E s \in Subscription : CreateAtStripe(w, s)
    \/ CommitSubscribe(w)
    \/ CancelAtStripe(w)
    \/ RefuseCancel(w)
    \/ CommitCancel(w)

Redeliver(e) == AnswerDuplicate(e) \/ HandleChange(e) \/ DropChange(e) \/ FailOnPeriod(e)

Next ==
    \/ \E w \in Worker, u \in User : BeginSubscribe(w, u)
    \/ \E w \in Worker, u \in User, s \in Subscription : BeginCancel(w, u, s)
    \/ \E w \in Worker : Proceed(w) \/ Abort(w)
    \/ \E s \in Subscription : Bill(s)
    \/ \E e \in EventId : Redeliver(e)

Spec == Init /\ [][Next]_vars

(* Workers finish what they run; Stripe redelivers what has no answer. *)
FairSpec ==
    /\ Spec
    /\ \A w \in Worker : WF_vars(Proceed(w))
    /\ \A e \in EventId : WF_vars(Redeliver(e))

-----------------------------------------------------------------------------
(* Properties *)

(* Rows, requests and events have their declared shape. *)
TypeOK ==
    /\ sub \in [Subscription -> Row \cup {NoRow}]
    /\ req \in [Worker -> Request]
    /\ recorded \subseteq EventId /\ undelivered \subseteq EventId
    /\ stripe \in [Subscription -> StripeStatus \cup {"none"}]
    /\ log \in [Subscription -> Seq(StripeStatus)]
    /\ \A s \in Subscription : Len(log[s]) <= MaxEvents
    /\ aborts \in 0 .. MaxAborts
    /\ applied \in [Subscription -> 0 .. MaxEvents]
    /\ drifted \subseteq Subscription /\ lapsed \subseteq Subscription
    /\ crossed \subseteq User

(* While no event of a membership is on its way the row has the status Stripe
   has, unless an event found no row, failed on its period or overtook
   another: nothing else sets them apart, no crash of a request, no duplicate,
   no cancellation that is saved before or after its events. *)
InStepWithStripe ==
    \A s \in Subscription \ drifted :
        Exists(s) /\ (\A n \in 1 .. MaxEvents : <<s, n>> \notin undelivered \ recorded)
        => sub[s].status = Mapped(stripe[s])

(* A row that says cancelled belongs to a subscription that is cancelled at
   Stripe: nobody who has cancelled goes on being billed. *)
CancelledIsNotBilled ==
    \A s \in Subscription : sub[s].status = "cancelled" \/ sub[s].cancelled => stripe[s] = "canceled"

(* "You already have an active membership." (loyalty/views.py): of two rows of
   a user that are current one was not, past due or incomplete, when the other
   membership was subscribed to, unless two requests met.  What Stripe bills is
   another matter: a subscription that was past due and is paid after all, or
   whose request died before its row, is live there next to the new one. *)
OneMembership ==
    \A u \in User \ crossed : \A s, t \in Current(u) : s # t => {s, t} \cap lapsed # {}

(* What is cancelled at Stripe, from here or there, stops counting as a
   membership, even when the cancelling request died, unless the row drifted. *)
CancellationArrives ==
    \A s \in Subscription :
        stripe[s] = "canceled" ~>
            sub[s].status \notin {"active", "trialing"} \/ s \in drifted
=============================================================================
