------------------------------- MODULE Loyalty -------------------------------
(***************************************************************************)
(* What a captured card payment is followed by: the webhook's transaction  *)
(* (payments/stripe_service.py) and the loyalty and referral points it     *)
(* awards (loyalty/services.py).                                           *)
(*                                                                         *)
(* The module composes Payments, whose webhook fulfils a payment in one    *)
(* step, with the steps of that transaction: the payment row is locked     *)
(* from the first read to the commit, a CustomerLoyalty row is read        *)
(* without a lock and locked only by the UPDATE, a referral is locked when *)
(* it is read.  Everything is written at the commit, the step of Payments. *)
(***************************************************************************)
EXTENDS Payments, FiniteSetsExt

CONSTANTS
    Booked,      \* payments of bookings; the other ones pay for shop orders
    Referral,    \* Referral rows whose referee is set
    Referrer,    \* Referrer[r], Referee[r]: the two users of r
    Referee,
    Threshold,   \* threshold_washes of the active LoyaltyTier rows
    NoReferral

ReferralPoints == 50

ASSUME LoyaltyAssumption ==
    /\ IsFiniteSet(Payment) /\ IsFiniteSet(Referral) /\ IsFiniteSet(Threshold)
    /\ Booked \subseteq Payment
    /\ Referrer \in [Referral -> User] /\ Referee \in [Referral -> User]
    /\ \A r \in Referral : Referrer[r] # Referee[r]
    /\ Threshold \subseteq Nat
    /\ NoReferral \notin Referral

VARIABLES
    loyalty,     \* loyalty[u]: the CustomerLoyalty row of u
    rewardState, \* rewardState[r]: the reward_state column of r
    completed,   \* payments whose booking has status "completed"
    award,       \* award[w]: the fulfilment worker w has open
    crossed,     \* history: users of whose row a fulfilment wrote while
                 \* another one, that had read it, was open
    passedOver   \* history: payments of bookings whose fulfilment found
                 \* another booking of the user completed

loyaltyVars == <<loyalty, rewardState, completed, award, crossed, passedOver>>
allVars == <<vars, loyaltyVars>>

-----------------------------------------------------------------------------

NoTier == -1

(* The row with its defaults. *)
NoPoints == [exists |-> FALSE, points |-> 0, washes |-> 0, tier |-> NoTier]

LoyaltyRow == [exists : BOOLEAN, points : Nat, washes : Nat, tier : Threshold \cup {NoTier}]

NoAward == [at |-> "none", own |-> NoPoints, referral |-> NoReferral, referrer |-> NoPoints]

Award == [at : {"none", "read", "credited", "referred"}, own : LoyaltyRow,
          referral : Referral \cup {NoReferral}, referrer : LoyaltyRow]

PaymentOf(w) == req[w].event.payment
UserOf(w) == Owner[PaymentOf(w)]
Open(w) == award[w].at # "none"

(* Users whose row w has inserted or updated and not yet committed. *)
Holds(w) ==
    {u \in User :
        \/ Open(w) /\ u = UserOf(w) /\ (award[w].at # "read" \/ ~award[w].own.exists)
        \/ award[w].referral # NoReferral /\ u = Referrer[award[w].referral]
                /\ ~award[w].referrer.exists}

(* Users whose row w has read. *)
HasRead(w) ==
    {u \in User :
        \/ Open(w) /\ u = UserOf(w)
        \/ award[w].referral # NoReferral /\ u = Referrer[award[w].referral]}

CanWrite(w, u) == \A v \in Worker \ {w} : u \notin Holds(v)

(* get_or_create: a row that is there is read as it was last committed; one
   that is not is inserted, after the transaction inserting it has ended. *)
CanGetOrCreate(w, u) == loyalty[u].exists \/ CanWrite(w, u)

CanLockPayment(p) == \A w \in Worker : Open(w) => PaymentOf(w) # p

CanLockReferral(r) == \A w \in Worker : award[w].referral # r

(* _update_tier: the tier of n washes. *)
BestTier(n) == Max({t \in Threshold : t <= n} \cup {NoTier})

(* What the app is told: next_tier and washes_to_next. *)
Higher(u) == {t \in Threshold : t > loyalty[u].washes}
WashesToNext(u) == IF Higher(u) = {} THEN 0 ELSE Min(Higher(u)) - loyalty[u].washes

LoyaltyInit ==
    /\ Init
    /\ loyalty = [u \in User |-> NoPoints]
    /\ rewardState = [r \in Referral |-> "pending"]
    /\ completed = {}
    /\ award = [w \in Worker |-> NoAward]
    /\ crossed = {} /\ passedOver = {}

-----------------------------------------------------------------------------
(* _on_payment_intent_succeeded *)

(* The payment is locked and has not succeeded; award_points_for_booking or
   award_points_for_order reads the row of its user. *)
BeginAward(w) ==
    /\ req[w].pc = "handle" /\ ~Open(w)
    /\ req[w].event.type = "payment_intent.succeeded"
    /\ CanLockPayment(PaymentOf(w))
    /\ status[PaymentOf(w)] # "succeeded"
    /\ CanGetOrCreate(w, UserOf(w))
    /\ award' = [award EXCEPT ![w] =
            [NoAward EXCEPT !.at = "read", !.own = loyalty[UserOf(w)]]]
    /\ UNCHANGED <<vars, loyalty, rewardState, completed, crossed, passedOver>>

(* The row of the user is updated and stays locked.  A booking goes on to
   process_referral_reward when no earlier one of the user is completed. *)
Credit(w) ==
    /\ award[w].at = "read"
    /\ CanWrite(w, UserOf(w))
    /\ award' = [award EXCEPT ![w].at = "credited"]
    /\ UNCHANGED <<vars, loyalty, rewardState, completed, crossed, passedOver>>

CompletedBefore(w) == \E p \in completed \ {PaymentOf(w)} : Owner[p] = UserOf(w)

(* Mutant: shop orders are looked at too. *)
PendingReferralsOfPayer(w) ==
    {r \in Referral : Referee[r] = UserOf(w) /\ rewardState[r] = "pending"}

(* The referrals process_referral_reward finds. *)
PendingReferrals(w) ==
    IF PaymentOf(w) \in Booked /\ ~CompletedBefore(w)
    THEN {r \in Referral : Referee[r] = UserOf(w) /\ rewardState[r] = "pending"}
    ELSE {}

(* A pending referral is locked and the row of the referrer read. *)
LockReferral(w, r) ==
    /\ award[w].at = "credited"
    /\ r \in PendingReferrals(w)
    /\ CanLockReferral(r)
    /\ CanGetOrCreate(w, Referrer[r])
    /\ award' = [award EXCEPT ![w] =
            [@ EXCEPT !.at = "referred", !.referral = r, !.referrer = loyalty[Referrer[r]]]]
    /\ UNCHANGED <<vars, loyalty, rewardState, completed, crossed, passedOver>>

(* The saves of award_points_for_order and of a reward: points, from the row
   as it was read; the other columns stay as they are. *)
WithPoints(u, read, n) == [loyalty[u] EXCEPT !.exists = TRUE, !.points = read.points + n]

(* Mutant: _update_tier runs before the wash is counted. *)
WithTierFirst(u, read, n) ==
    LET best == BestTier(read.washes) IN
    [exists |-> TRUE, points |-> read.points + n, washes |-> read.washes + 1,
     tier |-> IF best \in {NoTier, read.tier} THEN loyalty[u].tier ELSE best]

(* The saves of award_points_for_booking; _update_tier saves the tier only
   when there is one and it differs from the one that was read. *)
WithWash(u, read, n) ==
    LET best == BestTier(read.washes + 1) IN
    [exists |-> TRUE, points |-> read.points + n, washes |-> read.washes + 1,
     tier |-> IF best \in {NoTier, read.tier} THEN loyalty[u].tier ELSE best]

Credited(w) ==
    LET p == PaymentOf(w)
        u == UserOf(w) IN
    IF p \in Booked THEN WithWash(u, award[w].own, Amount[p])
                    ELSE WithPoints(u, award[w].own, Amount[p])

CrossedBy(w, users) == crossed \cup {u \in users : \E v \in Worker \ {w} : u \in HasRead(v)}

(* The booking is confirmed, also one that was washed before it was paid. *)
Reconfirmed(w) == completed \ {PaymentOf(w)}

(* There is no referral to reward: the transaction commits. *)
CommitAward(w) ==
    /\ award[w].at = "credited"
    /\ PendingReferrals(w) = {}
    /\ HandleSucceeded(w)
    /\ loyalty' = [loyalty EXCEPT ![UserOf(w)] = Credited(w)]
    /\ crossed' = CrossedBy(w, {UserOf(w)})
    /\ completed' = Reconfirmed(w)
    /\ passedOver' = IF PaymentOf(w) \in Booked /\ CompletedBefore(w)
                     THEN passedOver \cup {PaymentOf(w)} ELSE passedOver
    /\ award' = [award EXCEPT ![w] = NoAward]
    /\ UNCHANGED rewardState

(* Mutant: the referral is not marked as rewarded. *)
CommitRewardOnly(w) ==
    LET r == award[w].referral IN
    /\ award[w].at = "referred"
    /\ CanWrite(w, Referrer[r])
    /\ HandleSucceeded(w)
    /\ loyalty' = [loyalty EXCEPT
            ![UserOf(w)] = Credited(w),
            ![Referrer[r]] = WithPoints(Referrer[r], award[w].referrer, ReferralPoints)]
    /\ crossed' = CrossedBy(w, {UserOf(w), Referrer[r]})
    /\ completed' = Reconfirmed(w)
    /\ award' = [award EXCEPT ![w] = NoAward]
    /\ UNCHANGED <<rewardState, passedOver>>

(* The referrer is rewarded, the referral marked, the transaction commits. *)
CommitReward(w) ==
    LET r == award[w].referral IN
    /\ award[w].at = "referred"
    /\ CanWrite(w, Referrer[r])
    /\ HandleSucceeded(w)
    /\ loyalty' = [loyalty EXCEPT
            ![UserOf(w)] = Credited(w),
            ![Referrer[r]] = WithPoints(Referrer[r], award[w].referrer, ReferralPoints)]
    /\ rewardState' = [rewardState EXCEPT ![r] = "awarded"]
    /\ crossed' = CrossedBy(w, {UserOf(w), Referrer[r]})
    /\ completed' = Reconfirmed(w)
    /\ award' = [award EXCEPT ![w] = NoAward]
    /\ UNCHANGED passedOver

(* LoyaltyStatusView: get_or_create of the caller's row. *)
ViewStatus(u) ==
    /\ ~loyalty[u].exists
    /\ \A w \in Worker : u \notin Holds(w)
    /\ loyalty' = [loyalty EXCEPT ![u].exists = TRUE]
    /\ UNCHANGED <<vars, rewardState, completed, award, crossed, passedOver>>

(* The booking of p is washed and completed (BookingLifecycle), paid or not:
   it is confirmed from the moment it is made. *)
CompleteBooking(p) ==
    /\ p \in Booked \ completed
    /\ completed' = completed \cup {p}
    /\ UNCHANGED <<vars, loyalty, rewardState, award, crossed, passedOver>>

-----------------------------------------------------------------------------

(* The payment a step of w updates, or locks to look at. *)
Touches(w) ==
    IF req[w].pc = "handle" THEN {PaymentOf(w)} ELSE
    IF req[w].pc = "saveIntent" THEN {req[w].payment} ELSE {}

(* The other steps of card payments; they wait for the lock of an open
   fulfilment.  Wallets, cash and declined cards are left to Payments. *)
PaymentStep(w) ==
    /\ \A p \in Touches(w) : CanLockPayment(p)
    /\ \/ CallStripe(w) \/ SaveIntent(w)
       \/ HandleNothing(w)
    /\ UNCHANGED loyaltyVars

AwardStep(w) ==
    \/ BeginAward(w) \/ Credit(w) \/ (\E r \in Referral : LockReferral(w, r))
    \/ CommitAward(w) \/ CommitReward(w)

(* The handler fails, or a request is aborted: its transaction is undone. *)
RollBack(w) ==
    /\ Abort(w) \/ HandlerFails(w)
    /\ award' = [award EXCEPT ![w] = NoAward]
    /\ UNCHANGED <<loyalty, rewardState, completed, crossed, passedOver>>

LoyaltyNext ==
    \/ \E w \in Worker : AwardStep(w) \/ PaymentStep(w) \/ RollBack(w)
    \/ \E w \in Worker, p \in Payment : BeginIntent(w, p) /\ UNCHANGED loyaltyVars
    \/ \E p \in Payment : Capture(p) /\ UNCHANGED loyaltyVars
    \/ \E e \in Event : Redeliver(e) /\ UNCHANGED loyaltyVars
    \/ \E p \in Payment : CompleteBooking(p)
    \/ \E u \in User : ViewStatus(u)

LoyaltySpec == LoyaltyInit /\ [][LoyaltyNext]_allVars

-----------------------------------------------------------------------------
(* Properties *)

(* Loyalty rows and open fulfilments have their declared shape. *)
LoyaltyTypeOK ==
    /\ loyalty \in [User -> LoyaltyRow]
    /\ rewardState \in [Referral -> {"pending", "awarded"}]
    /\ completed \subseteq Booked
    /\ award \in [Worker -> Award]
    /\ crossed \subseteq User
    /\ passedOver \subseteq Booked

(* A payment is fulfilled by one transaction at a time, which still finds it
   unpaid when it commits; so is a referral rewarded. *)
FulfilmentExcludes ==
    \A v, w \in Worker :
        /\ Open(w) => status[PaymentOf(w)] # "succeeded"
        /\ award[w].referral # NoReferral => rewardState[award[w].referral] = "pending"
        /\ v # w /\ Open(v) /\ Open(w) =>
                /\ PaymentOf(v) # PaymentOf(w)
                /\ award[v].referral = award[w].referral => award[v].referral = NoReferral
                /\ Holds(v) \cap Holds(w) = {}

Paid(u) == {p \in Payment : Owner[p] = u /\ rewarded[p] > 0}

(* The points of a payment, one by one: <<p, 1>> to <<p, Amount[p]>>. *)
PointsFor(p) == {p} \X (1 .. Amount[p])

RewardsOf(u) == {r \in Referral : Referrer[r] = u /\ rewardState[r] = "awarded"}

Earned(u) ==
    Cardinality(UNION {PointsFor(p) : p \in Paid(u)})
        + ReferralPoints * Cardinality(RewardsOf(u))

(* Nobody has more points than the fulfilled payments and rewarded referrals
   are worth, nor fewer, unless two fulfilments crediting one user met: the
   row is read without a lock (loyalty/services.py:32). *)
PointsAccounted ==
    \A u \in User :
        /\ loyalty[u].points <= Earned(u)
        /\ loyalty[u].points = Earned(u) \/ u \in crossed

(* The washes counted are the bookings paid and the tier is the one they
   reach (a user whose washes are not counted yet has none), unless two
   fulfilments met; the washes the app announces lead to a higher tier. *)
TierEarned ==
    \A u \in User \ crossed :
        /\ loyalty[u].washes = Cardinality(Paid(u) \cap Booked)
        /\ loyalty[u].tier =
                IF loyalty[u].washes = 0 THEN NoTier ELSE BestTier(loyalty[u].washes)
        /\ WashesToNext(u) > 0 =>
                BestTier(loyalty[u].washes + WashesToNext(u)) > loyalty[u].tier

ReferralsOf(u) == {r \in Referral : Referee[r] = u}

(* A referral of a user is rewarded once the user has paid for a booking by
   card at a time when no other booking of the user was completed, and never
   before; a shop order does not count.  "Referrer earns 50 points on the
   referee's first paid booking" (loyalty/services.py) says more: a booking
   that is washed before it is paid, or paid in cash, takes the reward away
   from the first one that is paid by card. *)
FirstBookingRewardsReferral ==
    \A u \in User : ReferralsOf(u) # {} =>
        ((Paid(u) \cap Booked) \ passedOver # {})
            = (\E r \in ReferralsOf(u) : rewardState[r] = "awarded")
=============================================================================
