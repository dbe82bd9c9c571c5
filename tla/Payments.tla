------------------------------ MODULE Payments ------------------------------
(***************************************************************************)
(* Payments and wallets: apps/payments/services.py, stripe_service.py and  *)
(* the views that call them.                                               *)
(*                                                                         *)
(* A web request runs in one database transaction (READ COMMITTED, row     *)
(* locks until the end).  The webhook does not: Stripe's calls carry no    *)
(* token, TenantMiddleware opens no transaction for them, so the row of    *)
(* IdempotencyRecord that marks an event as seen is committed before the   *)
(* handler starts its own transaction.  Stripe redelivers an event until   *)
(* it is answered with 200, in any order, perhaps twice at once; an answer *)
(* may get lost.                                                           *)
(***************************************************************************)
EXTENDS Integers, Sequences

CONSTANTS
    Payment,     \* primary keys of Payment rows
    User,
    Owner,       \* Owner[p]: the user of payment p
    Amount,      \* Amount[p]: the amount of p
    Method,      \* Method[p]: "card", "wallet" or "cash"
    TopUp,       \* amounts an administrator credits
    Worker,
    MaxEntries,  \* bound: wallet transactions of a user
    MaxDeclines, \* bound: declined attempts per payment
    MaxFaults,   \* bound: webhook handlers that fail
    NoPayment, NoUser, NoWorker, NoEvent

ASSUME PaymentsAssumption ==
    /\ Owner \in [Payment -> User]
    /\ Amount \in [Payment -> Nat \ {0}]
    /\ Method \in [Payment -> {"card", "wallet", "cash"}]
    /\ TopUp \subseteq Nat \ {0}
    /\ MaxEntries \in Nat /\ MaxDeclines \in Nat /\ MaxFaults \in Nat
    /\ NoWorker \notin Worker /\ NoPayment \notin Payment /\ NoUser \notin User

VARIABLES
    status,      \* status[p]: the status column of p
    hasIntent,   \* hasIntent[p]: is stripe_payment_intent_id set?
    balance,     \* balance[u]: the wallet of u (0 while it has none)
    entries,     \* entries[u]: the WalletTransaction rows of u, in order
    walletLock,  \* walletLock[u]: the worker whose transaction locks the wallet
    req,         \* req[w]: the request worker w is running
    recorded,    \* events that have an IdempotencyRecord row
    rewarded,    \* rewarded[p]: how often p was fulfilled (booking confirmed,
                 \* loyalty and referral points awarded)
    stripe,      \* external, stripe[p]: "none", "open" or "captured"
    declines,    \* external, declines[p]: attempts of p that were declined
    undelivered, \* external: events Stripe has no 200 for
    faults       \* history: webhook handlers that failed

rows == <<status, hasIntent, balance, entries, recorded, rewarded>>
external == <<stripe, declines, undelivered, faults>>
vars == <<rows, walletLock, req, external>>

-----------------------------------------------------------------------------

PaymentStatus == {"pending", "requires_action", "succeeded", "failed",
                  "refunded", "partially_refunded", "cancelled"}

Event == [type : {"payment_intent.succeeded", "payment_intent.payment_failed"},
          payment : Payment, attempt : 0 .. MaxDeclines]

Entry == [delta : Int, after : Int, payment : Payment \cup {NoPayment}]

Pc == {"idle",
       "topUp",      \* top_up_wallet has locked and read the wallet
       "confirm",    \* confirm: has read the payment as pending
       "debit",      \* confirm: deduct_wallet has locked and read the wallet
       "intent",     \* intent: has read the payment, it has no intent yet
       "saveIntent", \* intent: Stripe has answered
       "handle"}     \* webhook: the event is recorded, its handler is to run

Idle == [pc |-> "idle", payment |-> NoPayment, user |-> NoUser,
         amount |-> 0, seen |-> 0, event |-> NoEvent]

Request == [pc : Pc, payment : Payment \cup {NoPayment}, user : User \cup {NoUser},
            amount : Nat, seen : Int, event : Event \cup {NoEvent}]

(* Mutant: the wallet is read without select_for_update. *)
ReadWalletWithoutLock(u) == TRUE

CanLockWallet(u) == walletLock[u] = NoWorker

EndRequest(w) ==
    /\ req' = [req EXCEPT ![w] = Idle]
    /\ walletLock' = [u \in User |-> IF walletLock[u] = w THEN NoWorker ELSE walletLock[u]]

(* A change of a wallet and the row that records it. *)
Post(u, seen, delta, p) ==
    /\ balance' = [balance EXCEPT ![u] = seen + delta]
    /\ entries' = [entries EXCEPT ![u] =
            Append(@, [delta |-> delta, after |-> seen + delta, payment |-> p])]

Init ==
    /\ status = [p \in Payment |-> "pending"]
    /\ hasIntent = [p \in Payment |-> FALSE]
    /\ balance = [u \in User |-> 0]
    /\ entries = [u \in User |-> <<>>]
    /\ walletLock = [u \in User |-> NoWorker]
    /\ req = [w \in Worker |-> Idle]
    /\ recorded = {}
    /\ rewarded = [p \in Payment |-> 0]
    /\ stripe = [p \in Payment |-> "none"]
    /\ declines = [p \in Payment |-> 0]
    /\ undelivered = {}
    /\ faults = 0

-----------------------------------------------------------------------------
(* WalletTopUpView: top_up_wallet *)

BeginTopUp(w, u, a) ==
    /\ req[w].pc = "idle"
    /\ Len(entries[u]) < MaxEntries
    /\ CanLockWallet(u)
    /\ walletLock' = [walletLock EXCEPT ![u] = w]
    /\ req' = [req EXCEPT ![w] =
            [Idle EXCEPT !.pc = "topUp", !.user = u, !.amount = a, !.seen = balance[u]]]
    /\ UNCHANGED <<rows, external>>

CommitTopUp(w) ==
    LET r == req[w] IN
    /\ r.pc = "topUp"
    /\ Post(r.user, r.seen, r.amount, NoPayment)
    /\ EndRequest(w)
    /\ UNCHANGED <<status, hasIntent, recorded, rewarded, external>>

-----------------------------------------------------------------------------
(* PaymentConfirmView: wallet and cash payments *)

(* The payment is read without a lock.  One that has succeeded is returned
   as it is; a card payment, or one that is not pending, is refused. *)
BeginConfirm(w, p) ==
    /\ req[w].pc = "idle"
    /\ Method[p] # "card"
    /\ status[p] = "pending"
    /\ req' = [req EXCEPT ![w] = [Idle EXCEPT !.pc = "confirm", !.payment = p,
                                  !.user = Owner[p], !.amount = Amount[p]]]
    /\ UNCHANGED <<rows, walletLock, external>>

CommitCash(w) ==
    LET p == req[w].payment IN
    /\ req[w].pc = "confirm"
    /\ Method[p] = "cash"
    /\ status' = [status EXCEPT ![p] = "succeeded"]
    /\ EndRequest(w)
    /\ UNCHANGED <<hasIntent, balance, entries, recorded, rewarded, external>>

(* Mutant: the wallet is debited without a look at what is in it. *)
LockWalletUnchecked(w) ==
    LET r == req[w] IN
    /\ r.pc = "confirm"
    /\ Method[r.payment] = "wallet"
    /\ Len(entries[r.user]) < MaxEntries
    /\ CanLockWallet(r.user)
    /\ walletLock' = [walletLock EXCEPT ![r.user] = w]
    /\ req' = [req EXCEPT ![w].pc = "debit", ![w].seen = balance[r.user]]
    /\ UNCHANGED <<rows, external>>

(* deduct_wallet locks the wallet, reads it and finds enough in it. *)
LockWalletForDebit(w) ==
    LET r == req[w] IN
    /\ r.pc = "confirm"
    /\ Method[r.payment] = "wallet"
    /\ Len(entries[r.user]) < MaxEntries
    /\ CanLockWallet(r.user)
    /\ balance[r.user] >= r.amount
    /\ walletLock' = [walletLock EXCEPT ![r.user] = w]
    /\ req' = [req EXCEPT ![w].pc = "debit", ![w].seen = balance[r.user]]
    /\ UNCHANGED <<rows, external>>

(* Mutant: "Insufficient wallet balance." is caught and the payment goes on. *)
ConfirmWithoutFunds(w) ==
    LET r == req[w] IN
    /\ r.pc = "confirm"
    /\ Method[r.payment] = "wallet"
    /\ CanLockWallet(r.user)
    /\ balance[r.user] < r.amount
    /\ status' = [status EXCEPT ![r.payment] = "succeeded"]
    /\ EndRequest(w)
    /\ UNCHANGED <<hasIntent, balance, entries, recorded, rewarded, external>>

(* "Insufficient wallet balance." *)
RefuseConfirm(w) ==
    LET r == req[w] IN
    /\ r.pc = "confirm"
    /\ Method[r.payment] = "wallet"
    /\ CanLockWallet(r.user)
    /\ balance[r.user] < r.amount
    /\ EndRequest(w)
    /\ UNCHANGED <<rows, external>>

(* The wallet is debited and the payment succeeds, in one transaction. *)
CommitDebit(w) ==
    LET r == req[w] IN
    /\ r.pc = "debit"
    /\ Post(r.user, r.seen, -r.amount, r.payment)
    /\ status' = [status EXCEPT ![r.payment] = "succeeded"]
    /\ EndRequest(w)
    /\ UNCHANGED <<hasIntent, recorded, rewarded, external>>

-----------------------------------------------------------------------------
(* PaymentIntentView: create_payment_intent *)

(* The payment is read without a lock.  One that has an intent is answered
   with its client secret and nothing changes. *)
BeginIntent(w, p) ==
    /\ req[w].pc = "idle"
    /\ status[p] \in {"pending", "requires_action"}
    /\ ~hasIntent[p]
    /\ req' = [req EXCEPT ![w] = [Idle EXCEPT !.pc = "intent", !.payment = p]]
    /\ UNCHANGED <<rows, walletLock, external>>

(* Stripe creates the intent, or finds it by its idempotency key. *)
CallStripe(w) ==
    LET p == req[w].payment IN
    /\ req[w].pc = "intent"
    /\ stripe' = [stripe EXCEPT ![p] = IF @ = "none" THEN "open" ELSE @]
    /\ req' = [req EXCEPT ![w].pc = "saveIntent"]
    /\ UNCHANGED <<rows, walletLock, declines, undelivered, faults>>

(* The intent and the status are saved, whatever the row holds by now. *)
SaveIntent(w) ==
    LET p == req[w].payment IN
    /\ req[w].pc = "saveIntent"
    /\ hasIntent' = [hasIntent EXCEPT ![p] = TRUE]
    /\ status' = [status EXCEPT ![p] = "requires_action"]
    /\ EndRequest(w)
    /\ UNCHANGED <<balance, entries, recorded, rewarded, external>>

(* A request ends without a commit: Stripe is down, the worker dies. *)
Abort(w) ==
    /\ req[w].pc \notin {"idle", "handle"}
    /\ EndRequest(w)
    /\ UNCHANGED <<rows, external>>

-----------------------------------------------------------------------------
(* Stripe: an attempt with the client secret is declined, or it captures *)

Decline(p) ==
    /\ stripe[p] = "open" /\ hasIntent[p]
    /\ declines[p] < MaxDeclines
    /\ declines' = [declines EXCEPT ![p] = @ + 1]
    /\ undelivered' = undelivered \cup
            {[type |-> "payment_intent.payment_failed", payment |-> p, attempt |-> declines[p]]}
    /\ UNCHANGED <<rows, walletLock, req, stripe, faults>>

Capture(p) ==
    /\ stripe[p] = "open" /\ hasIntent[p]
    /\ stripe' = [stripe EXCEPT ![p] = "captured"]
    /\ undelivered' = undelivered \cup
            {[type |-> "payment_intent.succeeded", payment |-> p, attempt |-> declines[p]]}
    /\ UNCHANGED <<rows, walletLock, req, declines, faults>>

-----------------------------------------------------------------------------
(* StripeWebhookView: handle_webhook *)

(* Mutant: no IdempotencyRecord, every delivery is handled. *)
DeliverEveryTime(w, e) ==
    /\ req[w].pc = "idle"
    /\ e \in undelivered
    /\ recorded' = recorded \cup {e}
    /\ req' = [req EXCEPT ![w] = [Idle EXCEPT !.pc = "handle", !.event = e]]
    /\ UNCHANGED <<status, hasIntent, balance, entries, rewarded, walletLock, external>>

(* get_or_create makes the record: the event goes to its handler. *)
Deliver(w, e) ==
    /\ req[w].pc = "idle"
    /\ e \in undelivered \ recorded
    /\ recorded' = recorded \cup {e}
    /\ req' = [req EXCEPT ![w] = [Idle EXCEPT !.pc = "handle", !.event = e]]
    /\ UNCHANGED <<status, hasIntent, balance, entries, rewarded, walletLock, external>>

(* Mutant: a duplicate is answered with an error. *)
RefuseDuplicate(w, e) ==
    /\ req[w].pc = "idle"
    /\ e \in undelivered \cap recorded
    /\ UNCHANGED vars

(* get_or_create finds the record: "duplicate", answered with 200. *)
AnswerDuplicate(w, e) ==
    /\ req[w].pc = "idle"
    /\ e \in undelivered \cap recorded
    /\ undelivered' = undelivered \ {e}
    /\ UNCHANGED <<rows, walletLock, req, stripe, declines, faults>>

(* The answer 200 to event e reaches Stripe, or gets lost. *)
Answer(e) ==
    /\ undelivered' \in {undelivered \ {e}, undelivered}
    /\ UNCHANGED <<stripe, declines, faults>>

(* _on_payment_intent_succeeded: the payment succeeds and is fulfilled. *)
HandleSucceeded(w) ==
    LET e == req[w].event
        p == e.payment IN
    /\ req[w].pc = "handle"
    /\ e.type = "payment_intent.succeeded"
    /\ status[p] # "succeeded"
    /\ status' = [status EXCEPT ![p] = "succeeded"]
    /\ rewarded' = [rewarded EXCEPT ![p] = @ + 1]
    /\ EndRequest(w)
    /\ Answer(e)
    /\ UNCHANGED <<hasIntent, balance, entries, recorded>>

(* Mutant: only a payment that waits for its capture is looked at. *)
IgnoreUnlessOpen(w) ==
    LET e == req[w].event IN
    /\ req[w].pc = "handle"
    /\ e.type = "payment_intent.succeeded"
    /\ status[e.payment] # "requires_action"
    /\ EndRequest(w)
    /\ Answer(e)
    /\ UNCHANGED rows

(* The payment has succeeded before: nothing to do. *)
HandleNothing(w) ==
    LET e == req[w].event IN
    /\ req[w].pc = "handle"
    /\ e.type = "payment_intent.succeeded"
    /\ status[e.payment] = "succeeded"
    /\ EndRequest(w)
    /\ Answer(e)
    /\ UNCHANGED rows

(* _on_payment_intent_failed: an UPDATE that does not look at the status. *)
HandleFailed(w) ==
    LET e == req[w].event IN
    /\ req[w].pc = "handle"
    /\ e.type = "payment_intent.payment_failed"
    /\ status' = [status EXCEPT ![e.payment] = "failed"]
    /\ EndRequest(w)
    /\ Answer(e)
    /\ UNCHANGED <<hasIntent, balance, entries, recorded, rewarded>>

(* The handler raises or its process dies: it is rolled back, Stripe gets a
   500 or nothing, the record stays. *)
HandlerFails(w) ==
    /\ req[w].pc = "handle"
    /\ faults < MaxFaults
    /\ faults' = faults + 1
    /\ EndRequest(w)
    /\ UNCHANGED <<rows, stripe, declines, undelivered>>

-----------------------------------------------------------------------------

Begin(w) ==
    \/ \E u \in User, a \in TopUp : BeginTopUp(w, u, a)
    \/ \E p \in Payment : BeginConfirm(w, p) \/ BeginIntent(w, p)

Proceed(w) ==
    \/ CommitTopUp(w)
    \/ CommitCash(w)
    \/ LockWalletForDebit(w)
    \/ RefuseConfirm(w)
    \/ CommitDebit(w)
    \/ CallStripe(w)
    \/ SaveIntent(w)
    \/ HandleSucceeded(w)
    \/ HandleNothing(w)
    \/ HandleFailed(w)

Redeliver(e) == \E w \in Worker : Deliver(w, e) \/ AnswerDuplicate(w, e)

Next ==
    \/ \E w \in Worker : Begin(w) \/ Proceed(w) \/ Abort(w) \/ HandlerFails(w)
    \/ \E p \in Payment : Decline(p) \/ Capture(p)
    \/ \E e \in Event : Redeliver(e)

Spec == Init /\ [][Next]_vars

(* Workers finish what they run; Stripe redelivers what has no answer. *)
FairSpec ==
    /\ Spec
    /\ \A w \in Worker : SF_vars(Proceed(w))
    /\ \A e \in Event : SF_vars(Redeliver(e))

-----------------------------------------------------------------------------
(* Properties *)

(* Rows and requests have their declared shape; no balance is negative. *)
TypeOK ==
    /\ status \in [Payment -> PaymentStatus]
    /\ hasIntent \in [Payment -> BOOLEAN]
    /\ balance \in [User -> Nat]
    /\ entries \in [User -> Seq(Entry)]
    /\ \A u \in User : Len(entries[u]) <= MaxEntries
    /\ walletLock \in [User -> Worker \cup {NoWorker}]
    /\ req \in [Worker -> Request]
    /\ recorded \subseteq Event
    /\ rewarded \in [Payment -> Nat]
    /\ stripe \in [Payment -> {"none", "open", "captured"}]
    /\ declines \in [Payment -> 0 .. MaxDeclines]
    /\ undelivered \subseteq Event
    /\ faults \in 0 .. MaxFaults

FreshWallet(w) ==
    LET r == req[w] IN
    r.pc \in {"topUp", "debit"} =>
        /\ walletLock[r.user] = w
        /\ r.seen = balance[r.user]
        /\ r.pc = "debit" => r.seen >= r.amount

(* Who writes a wallet holds its row lock and has read what the wallet still
   holds, a debit also that it is enough: top-ups and debits of one wallet
   never act on each other's past. *)
WalletReadsStayFresh == \A w \in Worker : FreshWallet(w)

After(u, i) == IF i = 0 THEN 0 ELSE entries[u][i].after

(* "Ledger entry for every wallet balance change" (payments/models.py): the
   entries of a wallet chain up, each from the balance the one before left,
   to the balance of the wallet, whatever ran at the same time. *)
WalletLedger ==
    \A u \in User :
        /\ balance[u] = After(u, Len(entries[u]))
        /\ \A i \in 1 .. Len(entries[u]) :
                entries[u][i].after = After(u, i - 1) + entries[u][i].delta

(* A payment counts as paid only when the money is there: Stripe captured
   it, its owner's wallet was debited, or it is cash. *)
SucceededIsFunded ==
    \A p \in Payment : status[p] = "succeeded" =>
        \/ stripe[p] = "captured"
        \/ Method[p] = "cash"
        \/ \E i \in 1 .. Len(entries[Owner[p]]) : entries[Owner[p]][i].payment = p

(* A payment is fulfilled (booking confirmed, points awarded) only after a
   capture and at most once, however often and in whatever order Stripe
   delivers its events. *)
FulfilledOnce ==
    \A p \in Payment : rewarded[p] <= (IF stripe[p] = "captured" THEN 1 ELSE 0)

(* Stripe's retries come to an end: every event is answered at last. *)
EveryEventAnswered ==
    \A e \in Event : e \in undelivered ~> e \notin undelivered

(* Captured money is fulfilled, unless a handler failed. *)
CapturedIsFulfilled ==
    \A p \in Payment :
        stripe[p] = "captured" ~> rewarded[p] > 0 \/ status[p] = "succeeded" \/ faults > 0

(* What the docs say and the code does not do; README.md tells how TLC
   refutes each. *)

(* "if we've processed this event before, skip" (stripe_service.py): an event
   that redeliveries are answered "duplicate" for has been processed. *)
RecordedWasProcessed ==
    \A e \in recorded :
        e.type = "payment_intent.succeeded" /\ (\A w \in Worker : req[w].event # e)
            => rewarded[e.payment] > 0 \/ status[e.payment] = "succeeded"

(* "confirming an already-succeeded payment returns the payment without
   re-processing" (payments/views.py): a payment is debited once. *)
DebitedOnce ==
    \A u \in User : \A i, j \in 1 .. Len(entries[u]) :
        entries[u][i].payment = entries[u][j].payment
            /\ entries[u][i].payment # NoPayment => i = j

(* "Webhook is the source of truth for payment success" (stripe_service.py):
   when every event is delivered and no request runs, what Stripe captured
   is marked succeeded. *)
SettledAgreesWithStripe ==
    undelivered = {} /\ (\A w \in Worker : req[w].pc = "idle")
        => \A p \in Payment : stripe[p] = "captured" => status[p] = "succeeded"
=============================================================================
