# Carwash booking: TLA+ models and proofs

The system is a Django backend (`src/backend`) for booking car washes, with a
shop, wallets, card payments through Stripe, loyalty points, memberships, staff
jobs, reminders and live tracking, and a Flutter client (`src/frontend`). This
directory holds TLA+ modules of the backend, TLC configurations that check them
on small instances, and proofs checked by TLAPS.

Contents: [inventory](#inventory), [plan](#plan), [modules](#modules-and-the-code),
[runs](#runs), [disagreements](#where-the-code-and-its-documentation-disagree),
[bounds](#bounds), [fairness](#fairness), [proofs](#proofs),
[what is left out](#what-is-not-modelled).

## Inventory

How a request runs. Gunicorn workers serve requests at the same time. For a
request that carries a token `TenantMiddleware`
(`apps/common/middleware.py:35-45`) opens one database transaction around the
view and sets the tenant that row-level security compares rows with; a service
marked `@transaction.atomic` is a savepoint in it, and a `ConflictError` rolls
that savepoint back. Without a token there is no outer transaction and no
tenant: the webhook, the OTP endpoints, Celery tasks, WebSockets. PostgreSQL
runs at READ COMMITTED. Components share nothing but rows, so every interaction
below is two transactions on one row.

| component | state | operations | interacts with | hard | correct when |
|---|---|---|---|---|---|
| booking service, `scheduling/services.py` | `BookingSlot.capacity_left`, `Booking`, `Payment` created with it | create, cancel, reschedule | staff and webhook write `Booking.status`; admin form writes slots | row locks taken in different orders, read-modify-write of a counter, retry with one key | no slot is oversold, no seat is lost, a key makes one booking |
| slots and recurring rules, same file and `scheduling/tasks.py` | `SlotTemplate`, `BookingSlot`, `RecurringBookingRule` | nightly generation, nightly auto-booking | books seats beside the booking service | two runs at once, failure in the middle, date arithmetic | each slot once, each occurrence once |
| staff jobs, `staff/services.py` | `JobAssignment`, `JobTask`, photos | assign, accept, advance, toggle a task | mirrors its status to `Booking` | two rows locked in opposite orders; the booking may change in between | the two rows agree; jobs move forward |
| payments and wallets, `payments/services.py`, `views.py` | `Payment`, `Wallet`, `WalletTransaction` | top up, confirm (wallet, cash), create an intent | Stripe; the webhook writes the same rows | rows read before a remote call, two confirmations in flight | balance equals its ledger, paid means funded |
| Stripe webhook, `payments/stripe_service.py` | `IdempotencyRecord`, then every row a payment reaches | payment succeeded or failed, subscription and invoice events | confirms bookings and orders, awards points, moves memberships | redelivery, reordering, lost answers, failing handlers, no tenant | every capture is fulfilled once |
| shop, `shop/services.py` | `Cart`, `CartItem`, `Order`, `Product.stock`, `PromoCode` | cart edits, promo, checkout, confirmation | webhook confirms; admins set stock, status and promo codes | stock taken late, products locked in cart order, carts that outlive a delete | an order draws its pieces once; no captured order is forgotten |
| loyalty points and referrals, `loyalty/services.py` | `CustomerLoyalty`, `Referral` | award, reward a referral | inside the webhook's transaction | unlocked read-modify-write of two users' rows | points equal awards, one reward per referral |
| memberships, `loyalty/views.py`, `services.py` | `UserSubscription` | subscribe, cancel, sync | Stripe, inside the request's transaction and by events | Stripe does not roll back; events out of order | the row follows Stripe; who cancelled is not billed |
| accounts, `accounts/services.py`, `audit/gdpr.py` | `OTPCode`, users, vehicles, addresses | request and verify a code, item CRUD with default flags, erase | first contact of the client | counter rolled back with the rejection, whole rows saved without locks | a code works once, one default, what is deleted stays so |
| notifications, `notifications/tasks.py` | `Notification`, preferences | reminder tasks | reads carts, users, memberships | windows and schedules, check then send, overlapping runs | one reminder a day, none missed |
| tracking, `tracking/consumers.py`, `views.py` | channel groups, `TrackingPing`, ETA cache | join, ping, relay, HTTP fallback | staff and customer sockets | awaits between a position, its row and its broadcast; a shared cache | HTTP is not behind the socket; estimates are recent |
| common: tenancy, admin views | session variable, policies | request transaction, stock, order and promo patches | every component | connections without tenant | a request sees its tenant only |
| audit, GDPR | `AuditLog`, `IdempotencyRecord` | signal handlers, export, erase | every `save()` | `update()` bypasses signals | every status change is logged |
| catalog, analytics, geo, intelligence | catalogue rows, aggregates | CRUD, read-only queries | | none | |
| Django admin | whole rows in forms | save | slots, bookings | stale form overwrites counters | |
| client network layer, `frontend/lib/core` | tokens, session, retry counts | refresh, retry, keys | the API | single flight, retry after lost answers | one refresh at a time, no double effect |
| client features, generated code, settings | screens | | | none | |

`PROJECT.json` lists the components with their status and every hazard at the
line where it bites, with the properties that would notice.

## Plan

Done, in this order:

1. `SlotLedger`, `Scheduling`: the seats. The docs call "no slot oversell, ever"
   the critical invariant, so it came first.
2. `BookingLifecycle`, `BookingLifecycleProofs`: Scheduling composed with the
   two other writers of `Booking.status`, the staff service and the webhook. The
   proofs are about both modules.
3. `Payments`: wallets, intents and webhook events.
4. `StockLedger`, `Shop`, `ShopProofs`: carts, promo code, checkout,
   confirmation; the abstract specification is a stock that orders draw from
   in one step.
5. `Loyalty`, `LoyaltyProofs`: points and referrals, composed with `Payments`.
   The proofs are about both modules.
6. `Membership`, `MembershipProofs`: subscriptions, two writers and Stripe.
7. `Accounts`, `AccountsProofs`: codes, default flags, deletion, erasure.
8. `Nightly`, `NightlyProofs`: slot generation and recurring rules, over the
   bookings.
9. `Reminders`, `RemindersProofs` and `Tracking`, `TrackingProofs`.

Left, in order of use:

- `AuthRefresh`: the client's single-flight token refresh composed with the
  server's tokens, and its idempotent retries;
- the admin form of a slot as an extension of `Scheduling` (it saves
  `capacity_left` as the page showed it).

## Modules and the code

Conventions. Primary keys, users, workers and Stripe's ids are constants;
`NoX` is the null value beside the set X. A transaction is cut where another
can interfere: after a read that takes no lock and before each row lock; what
follows the last lock is one step with the commit, because nobody sees it
earlier. A request that dies is an action of its own. Variables marked
"history" record what happened and are read by no guard. Operators commented
"Mutant:" are used by no specification: each is a definition changed the way a
bug would change it, kept to show that a property notices.

**SlotLedger** is the abstract specification of the booking service: `seat[b]`
is the slot in which booking `b` holds a seat; `Reserve`, `Move` and `Release`
are atomic.

**Scheduling** is `create_booking`, `cancel_booking` and `reschedule_booking`.
`slotLock` and `bookingLock` are the owners of `select_for_update` rows; `txn[w]`
is what worker `w` runs, with `seen`, the `capacity_left` it read.

| code | action |
|---|---|
| `create_booking` 130-138, key lookup | `BeginCreate` |
| 140-148, lock the slot, active and free | `LockSlotForCreate`, `RejectCreate` |
| 165-200, decrement, insert booking and payment | `CommitCreate` |
| `cancel_booking` 210-224 | `BeginCancel` |
| 226-235, lock the slot, seat back, cancelled | `CommitCancel` |
| `reschedule_booking` 245-256 | `BeginReschedule` |
| 258-264 | `LockNewSlot`, `RejectReschedule` |
| 266-279, lock the old slot, both counters, move | `CommitReschedule` |
| any exception or a dead worker | `Abort` |
| PostgreSQL's deadlock detector | `DeadlockVictim` |

`leaked[s]` is a history variable, it counts reschedules of a booking onto the
slot it already has (see below). Slots are created before the model starts and
do not change their `is_active` column.

**BookingLifecycle** EXTENDS Scheduling with `job`, the `JobAssignment` rows.
`BeginAssign`/`CommitAssign` are `assign_staff_to_booking` (locks the booking,
then writes the assignment), `AcceptJob` is `accept_job`, `BeginAdvance` and
`CommitAdvance` are `update_job_status` (locks the assignment, then writes the
booking without locking or looking at it first). The card payment of a booking
is `RequestIntent` and `SaveIntent` (`create_payment_intent` reads the row, asks
Stripe and saves `requires_action` over whatever the row says by then),
`Capture` at Stripe, `WebhookConfirms` (`payment_intent.succeeded`, which writes
`Booking.status` too) and `WebhookDeclines` (`payment_intent.payment_failed`, at
any time after the intent is there). So the payment's status goes back and forth
and no property leans on it; `reopened` is the history of bookings that were
confirmed by the webhook after they were completed.

**Payments** is `payments/services.py`, `PaymentIntentView`,
`PaymentConfirmView` and the webhook. `status` and `hasIntent` are columns of
`Payment`; `balance`, `entries` the wallet and its ledger; `recorded` the
`IdempotencyRecord` rows. `stripe`, `declines` and `undelivered` are Stripe's
side, modelled from how the code uses it: an intent is captured once, attempts
before it may be declined, an event is redelivered until it is answered with
200, in any order and to several workers at once. A webhook has no outer
transaction, so `Deliver` commits the record and `HandleSucceeded` or
`HandleFailed` run later; `HandlerFails` is a handler that raises or dies in
between. The module assumes that the webhook's connection sees tenant-scoped
rows. It does when the backend connects as a superuser, the setup of
`src/backend/README.md`; for an ordinary user the row-level security that the
migrations install hides every payment from a connection without a tenant, and
the webhook sets none (`stripe_service.py:192`): its handlers would find nothing
and acknowledge every event.

**StockLedger** is the abstract specification of the shop: `have[p]` pieces of
each product, an order draws all its pieces in one step and at most once, until
an administrator reopens it (its pieces are not put back); an administrator
counts.

**Shop** has one promo code and, per customer, a cart with its rows in the order
of their primary keys, the order in which a confirmation locks products.
`AdminStatus` is any set of the statuses an administrator may give an order,
`pending` included: `reopened` and `taken` count what that does to the stock.

| code | action |
|---|---|
| `cart_add_item` 33-52, quantity read and written back | `BeginAdd`, `CommitInsert`, `CommitUpdate`, `UpdateNothing` |
| `cart_update_item`, `cart_remove_item`, `cart_apply_promo` 54-113 | `SetQuantity`, `RemoveItem`, `ApplyPromo` |
| `checkout` 118-228, key lookup, cart read, rows inserted, `used_count + 1` | `BeginCheckout`, `CommitCheckout` |
| webhook locks payment and order 240-252 | `BeginConfirm`, `SkipPaid`, `PassBy` |
| products locked one by one 254-263 | `LockProduct` |
| cart deleted in two statements 267, commit | `BeginClear`, `CommitConfirm`, `CartOutlivesDelete` |
| an exception, a deadlock | `FailConfirm`, `DeadlockVictim`, `Abort` |
| `common/admin_views.py`: stock, order status, promo code | `SetStock`, `SetOrderStatus`, `BeginPatch`, `CommitPatch` |
| Stripe | `Capture`, `LateDecline` |

**Loyalty** EXTENDS Payments and refines its one-step fulfilment into the steps
of the handler's transaction: `BeginAward` reads the `CustomerLoyalty` row of
the payer without a lock, `Credit` is the UPDATE that locks it, `LockReferral`
locks a pending referral and reads the referrer's row, `CommitAward` and
`CommitReward` write everything together with `HandleSucceeded` of Payments.
A booking may be washed before it is paid (`CompleteBooking`), and the capture
confirms it again (`Reconfirmed`); `passedOver` is the history of first payments
that gave no reward because another booking was completed already.
`BestTier` is `_update_tier`, `WashesToNext` what the app is told.

**Membership**: `BeginSubscribe`, `CreateAtStripe`, `CommitSubscribe` are
`MembershipSubscribeView`, with the call to Stripe between check and insert;
`BeginCancel`, `CancelAtStripe`, `RefuseCancel`, `CommitCancel` are
`MembershipCancelView`; `HandleChange`, `DropChange`, `FailOnPeriod` and
`AnswerDuplicate` are `sync_stripe_subscription` under the webhook's record.
`stripe` and `log` are Stripe's status and its events; `Bill` is what Stripe
does by itself.

**Accounts**: a code's life is `BeginRequestCode`, `CreateCode` (two
transactions), `BeginVerify`, `CommitLogin` or `FailLogin`, `CleanUp`. An item
(vehicle or address) is created, updated and deleted by a read step (`BeginX`)
and a write step (`CommitX`, `FailCreate`), nothing is locked; `Saved` writes
whole rows as `save()` does. `Deactivate` and `Erase` are `audit/gdpr.py`,
which has no caller and is run by hand. Passwords, tokens and the text message
are not modelled.

**Nightly** is `generate_booking_slots` (`BeginGeneration`, `GetSlot`,
`InsertSlot`: the read and the insert of `get_or_create`, each committed by
itself) and `process_recurring_rules`, an execution of which is one transaction:

| code (`scheduling/services.py`) | action |
|---|---|
| 345-349, all active rules read, no lock | `BeginRun` (what it will do for each rule is settled here, in `plan`) |
| 370-381, no slot with a seat | `PassDay` |
| 383-391, the customer has a booking that day | `SkipBooked` (the slot stays locked) |
| 393-394, 406-457, seat taken, booking inserted | `BookDay` |
| 398-399, an exception after the seat was taken | `LoseSeat` |
| 395-396, `last_booking_date` saved | `SaveRule` |
| 398-399, an exception before that | `FailToSave` |
| commit | `EndRun` |
| an error of the database, a deadlock, a dead process | `RollBack` |

Until it ends nobody sees its bookings and nobody gets the slots it has locked
(`Unseen`, `HeldByRun`); two executions interleave day by day. `BookByHand`,
`Cancel`, `Wash` and the requests about rules are what customers do meanwhile. A
booking keeps the index of its slot row, so two rows for one slot stay apart; a
booking that failed after its seat was taken, or that was rolled back, stays in
the sequence as `failed` or `undone`, so that its seat can be accounted for.

**Reminders**: an execution of a task reads who is due (`BeginRun`), then for
one user after the other looks for an earlier notification (`Skip`, `Choose`),
inserts one (`InsertNotice`) and pushes it (`Push`, which may hang); sending may
raise, which the task logs before it goes on with the next user (`FailToSend`);
`KillRun` is a dying process. Renewals are looked up for subscriptions that are
active or trialing (`DueRenewals`), which `ChangeSubscription` changes at any
time. Hours pass by `Tick` between any two steps.

**Tracking**: a consumer handles one ping at a time: `BeginPing` (the time is
taken), `StorePing`, then the cached estimate (`UseCache`), the straight line
(`StraightLine`) or Maps (`AskMaps`, `MapsAnswers`, `MapsFails`), then
`Broadcast` into the channels of the group, of which a full one drops the
message, and `Relay` to its own client. `LastKnown` is what `TrackView` answers
over HTTP, and `Answered` whom: the customer and the staff member the booking is
assigned to. An administrator, and a staff member it was taken from, whom their
sockets go on serving, get a 404. `Remove` is the deletion of the booking in the
admin site: its positions go with it, and later pings are broadcast without
being stored. An estimate is modelled by the moment its position was taken.

## Runs

| run | question | answer |
|---|---|---|
| `scheduling` | Can interleaved creates, cancels and reschedules oversell a slot, lose an update of `capacity_left` or act on a stale read? Does the service look like the ledger, and is every request answered although crossing reschedules deadlock? | `TypeOK`, `ReadsStayFresh`, `NoOversell`, `SeatsAccounted`, `RefinesLedger`, `EveryRequestAnswered` hold |
| `lifecycle` | Do booking and assignment agree whatever cancellations, reassignments, late captures and late declines do? What can reopen a finished wash? Two rows are locked in opposite orders: is each request answered? | `BookingMirrorsJob`, `FinishedStaysFinished`, `LeftWithinCapacity`, `JobsMoveForward`, `EveryDutyAnswered` hold |
| `late_payment` | Is there "no slot oversell, ever", with the webhook? | violated, see below |
| `payments_safety` | Do balance and ledger agree, and is paid always funded? | `TypeOK`, `WalletReadsStayFresh`, `WalletLedger`, `SucceededIsFunded` hold |
| `payments_events` | Can redelivered, reordered or half-processed events fulfil a payment twice, or never? | `FulfilledOnce`, `EveryEventAnswered` hold; `CapturedIsFulfilled` holds unless a handler failed |
| `shop` | Do crossing checkouts, two intents of one order, an administrator who cancels and reopens orders, and growing carts take stock twice, half or never? | `RefinesStock`, `PaidIsTaken`, `PromoAccounted`, `DeliveredIsSettled` hold |
| `loyalty` | Do points, washes, tiers and referrals add up when handlers of two payments interleave and fail, and bookings are washed before they are paid? | `PointsAccounted`, `TierEarned`, `FirstBookingRewardsReferral` hold |
| `membership` | Does the row follow Stripe although requests die after calling it and events are late, doubled and out of order? | `InStepWithStripe`, `CancelledIsNotBilled`, `OneMembership`, `CancellationArrives` hold |
| `accounts` | Can a code log in twice, an account have two defaults, a deleted row come back, an erased account be refilled? | `CodeOpensOnce`, `OneDefault`, `DeletedStaysDeleted`, `ErasedStaysErased` hold |
| `nightly` | Do missed nights, dying, failing and overlapping executions leave holes, lose seats unaccounted for or book a day twice? | `EveryOpenDayHasSlots`, `SeatsMatchBookings`, `RuleBooksOnce` hold |
| `reminders` | Is anybody written to twice, or a renewal never announced, when executions hang, raise, die and overlap? | `RemindedOnce`, `RenewalAnnounced` hold |
| `tracking` | Is HTTP, for whom it answers, ever behind the socket, or an estimate older than the cache allows? | `HttpKeepsUp`, `EstimateIsRecent` hold |

A transaction that checks under a lock sees the same when it writes: that is
what `ReadsStayFresh` and `WalletReadsStayFresh` say (and `DutyReadsStayFresh`,
`StockReadsStayFresh`, which are proved), and it is the reason the others hold.
Where the code takes no lock, a property says exactly what is given up: history
variables (`crossed`, `met`, `drifted`, `overwritten`) mark the rows
on which two requests really met, and the property covers all the rest. So
`OneDefault` says nothing of an account two of whose requests overlapped, and
`PointsAccounted` still bounds the points of a user whose fulfilments did.
Other properties stop where the code stops promising:

- `BookingMirrorsJob` does not speak of cancelled bookings, whose assignments stay
  as they are, nor of confirmed ones, to which a late capture takes any booking
  back; `FinishedStaysFinished` says that such a capture is the only thing that
  reopens a finished wash. Neither would notice that `update_job_status` writes over
  a cancellation: the code does that (see below);
- `CapturedIsFulfilled` and `DeliveredIsSettled` excuse payments of which a handler
  failed: they are not tried again. What is checked is that no others are forgotten;
- `PaidIsTaken` lets the stock of an order be taken once more for each time an
  administrator sets it back to `pending`, as the code does;
- `FirstBookingRewardsReferral` says what `process_referral_reward` does, not what
  its docstring says ("on the referee's first paid booking"): a booking completed
  before it was paid, or paid in cash, takes the reward away for good;
- `OneMembership` is about rows. A subscription that was past due when the next one
  was bought, and is paid after all, is live at Stripe beside it; so is one whose
  request died before its row was written;
- `RuleBooksOnce` excuses rules that two executions looked at meanwhile (`crossed`)
  and rules whose memory was lost (`forgot`), but not two bookings of one rule in
  one slot;
- `RenewalAnnounced` leaves out users whom a round found without a live subscription
  or for whom sending raised (`missed`): nothing is tried again.

Every configuration says `CHECK_DEADLOCK FALSE`: an instance stops when its
primary keys, bounds or hours are used up. A deadlock of transactions is a state
of the model, broken by `DeadlockVictim` or `CrossedVictim`; that they break is
what `EveryRequestAnswered` and `EveryDutyAnswered` check.

## Where the code and its documentation disagree

The run `late_payment` checks "no slot oversell, ever"
(`scheduling/services.py:4`) in BookingLifecycle and finds it violated: the
webhook confirms a booking without looking at it (`stripe_service.py:219`), so
a booking cancelled while its card was charged comes back after its seat was
sold again. What is true is that the booking service by itself never oversells
(`NeverOversold`, about Scheduling), and that with all writers the column at least
stays within 0 and the slot's capacity (`CapacityRespected`).

The webhook is not the only one to oversell. `cancel_booking` of an assigned
booking gives its seat back and leaves the assignment open
(`scheduling/services.py:226-235`); when the seat has been sold again, the staff
member who goes on with the job has `update_job_status` write `en_route` over the
cancelled booking (`staff/services.py:139-141`), and the slot holds one booking
more than it has seats. `late_payment` has no staff, so its counterexample is the
webhook's; `NoOversell` is violated as well by the instance of `lifecycle` with
`CardBooking = {}`.

Five more statements of the documentation are refuted the same way. They are
definitions of the modules; TLC finds each violated on the instance named here.

| definition | statement | what happens | instance |
|---|---|---|---|
| `Scheduling.SeatsReturned` | reschedule "Returns capacity to the old slot and claims it from the new one" (`scheduling/services.py:242`) | rescheduling onto the same slot loads the row twice and saves the two instances one after the other: a seat is lost. `SeatsAccounted` counts them in `leaked` | 2 open slots of 1 and 2 seats, 2 bookings, 1 customer, 2 workers |
| `Scheduling.OneBookingPerKey` | "Same Idempotency-Key → same booking returned" (`FRONTEND_INTEGRATION.md:206`) | the key is looked up before any lock: a retry in flight with the first attempt books again | the same with `Key = {k1}` |
| `Payments.RecordedWasProcessed` | "if we've processed this event before, skip" (`stripe_service.py:148`) | the record is committed before the handler runs; after a failure the retry is skipped | 1 card payment, 2 workers, `MaxFaults = 1` |
| `Payments.DebitedOnce` | "Idempotent: confirming an already-succeeded payment ..." (`payments/views.py:225`) | the payment is read without a lock; two confirmations debit twice | 1 wallet payment of 2, a top-up of 4, 2 workers, `MaxEntries = 3` |
| `Payments.SettledAgreesWithStripe` | "Webhook is the source of truth for payment success" (`stripe_service.py:7`) | the decline of an earlier attempt, delivered last, marks a paid payment failed | 1 card payment, 1 worker, `MaxDeclines = 1` |

Found while reading, outside what the models say or needed to say it:

- the nightly job for rules uses `select_for_update` outside a transaction
  (`scheduling/services.py:370`): under autocommit it raises, the job logs it and
  books nothing. Nightly models what the function does when a transaction is
  open around it;
- a `biweekly` rule books every week, because `_next_weekday_date` starts again
  from today;
- a template with `slot_minutes = 0` makes slot generation loop for ever
  (`scheduling/services.py:82`);
- the reminders of bookings and the period of a subscription use
  `timezone.utc`, which Django 5 no longer has: both raise. So Membership lets
  an event with a period fail (`FailOnPeriod`);
- the cancellation of a membership is documented as "effective at period end"
  (`loyalty/views.py:157`) and is immediate;
- a referral shows 100 points as earned (`loyalty/serializers.py:98-101`) and
  pays 50 (`loyalty/services.py:154`);
- refreshing a token is documented to rotate it (`accounts/views.py:81`), and
  returns the refresh token it was given;
- the count of wrong attempts at a code is rolled back with the rejection that
  reports it, so a code is never locked by attempts;
- erasing an account keeps the phone number in `username`, and rows that were
  deleted before; the number cannot register again;
- adding a vehicle with the plate of a deleted one is a server error;
- the docstring of the estimates promises a new one after a move of 200 m
  (`tracking/consumers.py:166-167`); only the age is looked at.

## Bounds

| run | instance | why it is enough |
|---|---|---|
| `scheduling` | two open slots and a closed one of two seats, three bookings, two customers, two workers, no keys; 165 201 states | three bookings oversell a slot of two; two slots and two workers make a crossing reschedule |
| `lifecycle` | a slot of one seat, two bookings, the first by card, a customer, two workers, a staff member; 183 490 states | a seat sold again, a reassignment, a decline and a stale intent after the capture, every crossing of two transactions on one booking; a deadlock of the staff service involves two requests |
| `payments_safety` | a card, a wallet and a cash payment of 2, top-ups of 1 and 3, three entries, two workers; 399 266 states | a balance covers one debit and not two. Declines and faults touch no wallet and are left to the next run; wallets of two users share no row |
| `payments_events` | a card payment, two declined attempts, two failing handlers, two workers; 2 187 states | a decline before and after the capture, both handlers failing; events of two payments share no row |
| `shop` | two products of one piece, one of them tracked, two customers with the same lines in opposite orders, two orders, the first with two intents, a promo code for one use, two edits, orders set to cancelled and to pending; 375 154 states | confirmations wait for each other, the second intent finds a paid order, a cart grows after its checkout, an administrator cancels a paid order or reopens it between two captures |
| `loyalty` | a referred customer with two bookings and an order, the referrer with an order, one failing handler, a tier at 0 and one at 2 points; 413 664 states | two fulfilments of one user, a reward crossing the referrer's own award, a first booking that is not the first payment, a booking washed before it is paid |
| `membership` | two subscriptions, one user, two workers, two events each, one request that dies; 161 468 states | a second subscription while the first is open, a created subscription without a row, a cancellation overtaken by an older event |
| `accounts` | an account, a phone, two vehicles, an address, two codes, five requests, two workers; 852 578 states | two defaults of one kind, two verifications of one code, an erasure crossing a create |
| `nightly` | a week of two days, slots two days ahead and rules one, two start times of one seat, no service (so that the unique constraint does not apply), two executions of the generation and two of the rules, a weekly rule, a booking by hand, three executions or requests; 556 927 states | two rows for one slot, a missed night, a generation overtaken by another, two executions with old rules and a slot each, a booking cancelled and booked again, a rule edited while it books |
| `reminders` | days of two hours, five hours, a user born on the first day whose period ends at hour 8, two processes, three executions, one change of a cart, a preference or a subscription; 4 136 924 states | executions overlap, hang, raise and die; the window of one day moves over the user |
| `tracking` | a phone, a desk and the customer's app, three pings, three moves, a cache that lives 2, waits of 1, inboxes of one message, two staff members; 2 160 906 states | two positions under way at once, a slow answer of Maps after a newer one, a full inbox, a reassignment or a deletion between a position and its row |

Every bound that is not a number of keys is a constant of its module, marked
"bound" there, and is a guard of the action it limits. Recorded events never
expire in the models: `expire_idempotency_records` keeps them seven days, longer
than the three days Stripe retries. Workers are symmetric where the run checks
no liveness property.

## Fairness

Safety needs none. Liveness assumes what runs the code:

- strong fairness of `Proceed(w)` (and `ProceedDuty(w)`) in Scheduling,
  BookingLifecycle and Payments: a worker goes on with a request. It is strong
  because a row lock may be free and taken again many times while a worker
  waits; PostgreSQL queues the waiters of a row, so none is passed over for ever;
- weak fairness of `DeadlockVictim(w)` for each worker, in BookingLifecycle of
  `DeadlockVictim` or `CrossedVictim` for some worker: the deadlock detector runs
  while a deadlock lasts and picks a victim;
- strong fairness of `Redeliver(e)` in Payments: Stripe retries an event it has
  no answer to and at some time a worker is free. An answer may be lost once per
  delivery that runs a handler; that the answer to a duplicate arrives stands for
  "not all answers are lost";
- weak fairness of `Proceed(w)` and `Redeliver(e)` in Membership: nothing there
  waits for a lock, and an event may be delivered at any time.

Nobody has to send a request, pay, accept a job, subscribe or fail. The other
modules state no liveness property: a shop order, a reminder or a position has
no retry in the code that would make it happen at last, and what the tasks do
owe at the end of a day (`RenewalAnnounced`, `EveryOpenDayHasSlots`) is stated
over the recorded executions.

## Proofs

Eight modules hold proofs. Each holds for every value of the constants that
satisfies the assumption of its module (`SchedulingAssumption`, ...): finitely
many primary keys, null values that are not members of the sets they stand
beside, bounds that are numbers. `RemindersAssumption` says also that no period
ends within three days of the start, so that a window does not begin before
the model does. `LoyaltyAssumption` has finitely many payments, referrals and
tiers, which are rows of tables. `NightlyAssumption` leaves every number open:
the length of the week, how far slots and rules reach, the opening days, the
start times and the seats.

Every safety property of a passing run is a theorem.

### BookingLifecycleProofs, the seats

| theorem | states |
|---|---|
| `TypeCorrect` | `Spec => []TypeOK`; in particular `capacity_left` stays a natural number |
| `FreshReads` | `Spec => []ReadsStayFresh` |
| `SeatAccounting` | `Spec => []SeatsAccounted` |
| `DeadlocksAreReschedules` | `Spec => []OnlyReschedulesDeadlock` |
| `NeverOversold` | `Spec => []NoOversell` |
| `ImplementsLedger` | `Spec => Ledger!Spec`, the refinement |

`NoOversell` is not inductive: it says nothing of `capacity_left`, which is what
the code looks at. The inductive invariant is
`IInv == TypeOK /\ ReadsStayFresh /\ SeatsAccounted`. `SeatsAccounted` ties the
column to the bookings; to preserve it a commit that writes `seen - 1` must know
that `seen` is still the column, which is `ReadsStayFresh`; and that one holds
because only the owner of a row lock changes the row. One lemma per conjunct has
a case per action; adding or removing one booking changes the number of holders
by one (`HoldersGrow`, `HoldersShrink`, from the library's facts on
cardinality). For the refinement every commit is a `Reserve`, `Release` or
`Move` of the ledger, or a stutter when a booking is moved onto its own slot,
and all other steps leave `Seats` alone. That a free seat in the column is a
free seat in the ledger (`LeftIsRoom`) is again `SeatsAccounted`.

`OnlyReschedulesDeadlock` is about the detector's victims. The lock of a slot is
kept between two steps by a create that needs no other lock and by a reschedule
that wants its old slot next (`SlotLocksOwned`, inductive with `IInv`). Whoever is
waited for and waits is therefore such a reschedule, and in a set of requests
that all wait for one of the set, those that are waited for form a circle of
reschedules. While nobody reschedules, no request is rolled back for a deadlock on
slots. No run lists this property; `SeatsAccounted` and the refinement are
checked under those rollbacks.

### BookingLifecycleProofs, the work on a booking

| theorem | states |
|---|---|
| `LifecycleTypeCorrect` | `LifecycleSpec => []LifecycleTypeOK` |
| `FreshDuties` | `LifecycleSpec => []DutyReadsStayFresh` |
| `MirroredJobs` | `LifecycleSpec => []BookingMirrorsJob` |
| `FinishedForGood` | `LifecycleSpec => []FinishedStaysFinished` |
| `CapacityRespected` | `LifecycleSpec => []LeftWithinCapacity` |
| `OnlyForward` | `LifecycleSpec => JobsMoveForward`, an action property |

The lemmas about Scheduling serve for the steps of the booking service: the staff
service and the webhook write no booking another
transaction has locked, so what the booking service has read survives them.
`LifecycleInv` is the types, `ReadsStayFresh`, `DutiesHold` (a staff request owns
the lock of the row it looked at first), `DutyReadsStayFresh`,
`RowsHaveBookings` and the three properties. The status of the payment is in none
of them: declines and stale intents change nothing else (`PaymentOnly`), and
`FinishedStaysFinished` rests on the guards of the other writers of
`Booking.status`, which a completed booking does not pass, and on `reopened` for the
webhook, which has none. `NoOversell` is not among them: it is false here.

### LoyaltyProofs, the payments

| theorem | states |
|---|---|
| `TypeCorrect` | `Spec => []TypeOK`; in particular no wallet is overdrawn |
| `FreshWallets` | `Spec => []WalletReadsStayFresh` |
| `LedgerAddsUp` | `Spec => []WalletLedger` |
| `PaidIsFunded` | `Spec => []SucceededIsFunded` |
| `FulfilledAtMostOnce` | `Spec => []FulfilledOnce` |

There are two inductive invariants. `WalletInv` is `TypeOK`, `RequestsWork` (what
a request works on, by where it is), `WalletReadsStayFresh` and `WalletLedger`.
That a balance stays a natural number needs the freshness of a debit's read,
which says there was enough and still is; that a new entry continues the chain
needs the same. `PaidInv` adds `CaptureEvents` (a capture event is of a captured
payment, and a payment has one), `HandledOnce` (one worker handles an event, and
the payment of a capture being handled is not fulfilled yet) and the two
properties. The status column alone would not do for `FulfilledOnce`: the guard
of the handler looks at it, but a decline or a late intent takes a succeeded
payment back. What keeps it at one is the record of the event, so the invariant
follows an event from Stripe through its record to its handler. `SucceededIsFunded`
is kept because captures and ledger entries never go away (`CapturedStays`,
`EntriesGrow`). Of Stripe the proofs use what the model says: an intent is
captured once and stays captured.

### LoyaltyProofs, points and referrals

| theorem | states |
|---|---|
| `ImplementsPayments` | `LoyaltySpec => Spec`, so that all theorems of Payments hold of the composition |
| `PointsAreAccounted` | `LoyaltySpec => []PointsAccounted` |
| `TiersAreEarned` | `LoyaltySpec => []TierEarned` |
| `FirstBookingRewards` | `LoyaltySpec => []FirstBookingRewardsReferral` |
| `LoyaltyTypes`, `FulfilmentsExclude` | types; two handlers of one payment do not fulfil it twice |

`LoyaltyInv` is proved together with `PaidInv`. `PointsAccounted` compares a
column with a count over all payments, so each commit must add exactly what its
payment adds to `Earned`: it must write what it read plus its own points
(`ReadsAreEarned`, `AwardReadsStayFresh`), and its payment must not have been
counted before. The first fails when another fulfilment credited the user in
between, which is what `crossed` records: for such a user the points can only be
too few, and only that half is kept. The second is `FulfilledOnce`, which is why
the payments' invariant comes along. For the referrals, `passedOver` only ever holds
payments that are fulfilled (`PassedOverArePaid`): a first payment is rewarded or
passed over in the step that fulfils it, by what is completed then, and neither is
taken back.
`FulfilmentExcludes` says that a payment is in one handler's hands and `AwardsHold`
what the handler has locked. A tier is the best one that the washes reach;
`TierGrows` and `MaxIsThere` (a finite set of tiers with a least one has a
largest below any number of washes) say what one more wash does to it, for any
thresholds. `WashesToNext` is positive only towards a tier that is higher.

### ShopProofs

| theorem | states |
|---|---|
| `ShopTypeCorrect` | `Spec => []ShopTypeOK` |
| `FreshStock` | `Spec => []StockReadsStayFresh` |
| `PaidTakenOnce` | `Spec => []PaidIsTaken` |
| `PromoUses` | `Spec => []PromoAccounted` |
| `NoneForgotten` | `Spec => []DeliveredIsSettled` |
| `ImplementsStock` | `Spec => Ledger!Spec`, the refinement of StockLedger |

`ShopInv` adds to these properties `Work` (which fields of a request are in use
where it is), `LocksAreHeld` (a confirmation
owns its order and every product it has read) and `OrdersAccounted`, which counts
for every order the captures, the times its stock was taken and the administrator's
reopenings, from which `DueIsCaptured`, `PlacedSell`, `PaidIsTaken` and
`DeliveredIsSettled` follow (`Accounted`). `AdminStatus` may hold every status.
A confirmation takes products one by one but writes them in one commit, so it
is one `Draw` of the ledger; what it writes is what is left of the stock it read,
which `StockReadsStayFresh` says is the stock still; and that an order is drawn
once, until it is reopened, is `PaidIsTaken`. No run lists `ShopTypeOK`; that a cart's lines stay a
sequence of products when an item is removed is `LinesType`.

### MembershipProofs

`TypeCorrect`, `RowsInStep` (`Spec => []InStepWithStripe`), `NoneBilledAfter`
(`CancelledIsNotBilled`), `OneAtATime` (`OneMembership`, which is about rows and
not about what is live at Stripe). An event is on its way
or recorded (`EventsKept`); what Stripe announced last is what it has
(`LogsEnd`); a row whose events came in order holds the status of the last one
it took and has taken exactly those before (`Followed`). So with nothing on its
way it holds Stripe's status.

### AccountsProofs

`TypeCorrect`, `OpensOnce` (`CodeOpensOnce`), `DefaultsAreSingle` (`OneDefault`),
`DeletedForGood` (`DeletedStaysDeleted`), `ErasedForGood` (`ErasedStaysErased`).
A code is created in a row that was not there (`CodesInOrder`) and consumed by
whoever locked it while it was active (`VerifiesLocked`). Vehicles, addresses and
erasure have no locks: while no two requests of an account have met, what one
has read is still so when it writes (`ReadsHold`).

### RemindersProofs

`TypeCorrect`, `WrittenToOnce` (`RemindedOnce`), `RenewalsAnnounced`
(`RenewalAnnounced`). While a kind of reminder is run by one process at a time,
nobody inserts a notification between its look at the earlier ones and its own
(`NotSentYet`). A round that started in a membership's window and ended has
announced it or has the user among the `missed` (`RunAnnounces`), and rounds at
most a day apart cannot step over a window of a day (`RoundsAnnounce`).

### TrackingProofs

`TypeCorrect`, `HttpIsNotBehind` (`HttpKeepsUp`), `RecentEstimates`
(`EstimateIsRecent`). A position is stored before it is broadcast, so while the
booking is there whatever waits in an inbox or was shown is stored
(`BroadcastIsStored`), and of the stored positions there is a latest; when the
booking is deleted HTTP answers nobody. An estimate is cached at most `Patience` after its
position was taken (`HandledInTime`) and used less than `Lifetime` after that
(`CachedInTime`).

### NightlyProofs

| theorem | states |
|---|---|
| `NightTypeCorrect` | `Spec => []TypeOK` |
| `NoHoles` | `Spec => []EveryOpenDayHasSlots` |
| `SeatsAddUp` | `Spec => []SeatsMatchBookings` |
| `RulesBookOnce` | `Spec => []RuleBooksOnce` |

`NightInv` is `TypeOK` and three parts, one for each property.

- `GenerationInv`. What a finished generation leaves behind follows from what one
  under way has left behind (`Reached`: of the slots it wants, those it has passed
  have a row) and from rows never going away. That a slot is there once needs, as
  long as no two executions have met, that the row read as missing is still
  missing at the insert (`InsertsMissing`), which is so because nobody else inserts
  (`OneGeneration`).
- `SeatInv`. `SeatsMatchBookings` is inductive only with `BookingsHaveSlots`: the
  row a booking points at is there, so that a cancellation raises the counter of a
  slot that has the booking, and its cap at the capacity never bites. A rollback
  gives back as many seats as the execution has bookings in the slot
  (`RollBackSeats`), whether they failed or not: both took a seat.
- `RuleInv`. Counting bookings of a day is said two at a time (`OnceAlive`,
  `OnceEver`). Executions hold different locks, and plans for different rules unless
  the rule is `crossed` (`Apart`); what an execution has made is in slots it has
  locked (`OwnBookings`). So two bookings alive of one rule on one day come from two
  executions that could not see each other, hence from two slots. For a rule that is
  neither `crossed` nor in `forgot`, the bookings lie behind everything an execution
  has still to do: behind `last_booking_date`, or made by the execution itself,
  which goes through the days in order (`LooksForward`, `Behind`). A rule that was
  forgotten is left with the look at live bookings (`AlreadyBooked`).

### Model-checked only

- The liveness properties: `EveryRequestAnswered`, `EveryDutyAnswered`,
  `EveryEventAnswered`, `CapturedIsFulfilled`, `CancellationArrives`. Fairness
  and ENABLED are out of the prover's reach.
- That `late_payment` is a behaviour at all.

## What is not modelled

- Code without callers: `refund_payment`, `create_booking_payment`,
  `validate_promo`, `credit_loyalty_points_to_wallet`, `IdempotencyMixin`,
  `export_user_data`, `link_referee_to_referral`. A `Payment` is never refunded
  or cancelled by the modelled operations. Referrals exist when Loyalty starts.
- Code that raises before it changes anything: the reminders of bookings
  (`notifications/tasks.py:21-89`).
- The expiry of idempotency records (`notifications/tasks.py:145-156`), for the
  reason given under bounds.
- Validation of inputs: a request that fails it is an `Abort`, or not a request
  of the model. Prices and the formula of an estimate are data no property is
  about.
- Job tasks, photos and uploads: they touch neither row of BookingLifecycle.
- Tokens (a library), the SMS provider, staff profiles, saved cards, invoices:
  reads, or calls to other systems without an effect on modelled rows.
- The audit trail: signal handlers that add a row to each `save()`; no modelled
  code reads it.
- Row-level security itself. Payments states what it assumes of it.
- The components marked `not_modelled` in `PROJECT.json`: catalogue, analytics,
  geo and intelligence are queries and CRUD; the admin forms and the client's
  network layer are planned; screens, generated code and settings have no
  protocol.
