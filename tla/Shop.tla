------------------------------- MODULE Shop -------------------------------
(***************************************************************************)
(* The shop of apps/shop on PostgreSQL: carts, the promo code, checkout,   *)
(* the confirmation of an order by the webhook of its payment, and the     *)
(* administrator's views of stock, orders and promo codes                  *)
(* (apps/common/admin_views.py).                                           *)
(*                                                                         *)
(* As in Scheduling a transaction is cut where another can interfere:      *)
(* after a read that takes no lock and before each lock.  A request that   *)
(* reads nothing it later writes back is one step.                         *)
(***************************************************************************)
EXTENDS Integers, Sequences, FiniteSets

CONSTANTS
    Product,      \* primary keys of Product rows
    Tracked,      \* the products whose track_inventory column is true
    Active,       \* the products whose is_active column is true
    Opening,      \* Opening[p]: the stock of p at the start
    User,         \* customers
    Order,        \* primary keys Order rows (and their Payment rows) are given
    Key,          \* Idempotency-Key header values
    Worker,       \* web workers
    UsageLimit,   \* usage_limit of the promo code
    Filled,       \* Filled[u]: the cart of u at the start
    MaxEdits,     \* bound: cart edits, administrator's writes, late declines
    MaxQuantity,  \* bound: pieces of one product in a cart
    Intents,      \* bound: payment intents of each order
    Counts,       \* stock levels an administrator sets
    AdminStatus,  \* order statuses an administrator sets
    NoUser, NoOrder, NoProduct, NoKey, NoWorker

OrderStatus == {"pending", "paid", "processing", "shipped", "delivered",
                "cancelled", "refunded"}

ASSUME ShopAssumption ==
    /\ Tracked \subseteq Product /\ Active \subseteq Product
    /\ Opening \in [Product -> Nat]
    /\ IsFiniteSet(Order)
    /\ UsageLimit \in Nat /\ MaxQuantity \in Nat /\ MaxEdits \in Nat
    /\ Intents \in [Order -> Nat]
    /\ Counts \subseteq Nat
    /\ AdminStatus \subseteq OrderStatus
    /\ NoUser \notin User /\ NoOrder \notin Order
    /\ NoProduct \notin Product /\ NoWorker \notin Worker

VARIABLES
    stock,      \* stock[p]: the stock column of product p
    cart,       \* cart[u]: the Cart row of u with its items
    used,       \* the used_count column of the promo code
    edits,      \* how many of these have begun
    order,      \* order[o]: the Order row with its items and its payment
    due,        \* due[o]: captures of o whose webhook has not been delivered
    captured,   \* captured[o]: history, intents of o captured at Stripe
    orderLock,  \* orderLock[o]: the worker whose transaction locks o
    stockLock,  \* stockLock[p]: the worker whose transaction locks p
    txn,        \* txn[w]: the request worker w is running
    taken,      \* taken[o]: history, how often the stock of o was taken
    reopened,   \* reopened[o]: history, how often it had been taken when an
                \* administrator last set the order back to pending
    passedBy,   \* history, orders that were not pending when they were paid
    failed,     \* history, orders for which a webhook handler failed
    overwritten \* history, uses of the promo code that a patch wrote over

rows == <<stock, cart, used, order>>
history == <<taken, reopened, passedBy, failed, overwritten>>
locks == <<orderLock, stockLock>>
stripe == <<due, captured>>
vars == <<rows, history, locks, stripe, txn, edits>>

-----------------------------------------------------------------------------
(* Rows *)

Pieces == [Product -> Nat]

NoPieces == [p \in Product |-> 0]

(* The items of a cart: quantity[p] is 0 when there is no row for p, and
   lines has the products in the order of their rows' primary keys. *)
NoCart == [exists |-> FALSE, quantity |-> NoPieces, lines |-> <<>>, promo |-> FALSE]

CartRow == [exists : BOOLEAN, quantity : Pieces, lines : Seq(Product), promo : BOOLEAN]

ASSUME FilledAssumption == Filled \in [User -> CartRow]

InCart(c) == {p \in Product : c.quantity[p] > 0}

WithItem(c, p, n) ==
    [c EXCEPT !.exists = TRUE, !.quantity[p] = n,
              !.lines = IF c.quantity[p] = 0 THEN Append(@, p) ELSE @]

(* Without the k-th item; a cart has one row for a product. *)
Without(s, k) == [i \in 1..(Len(s) - 1) |-> IF i < k THEN s[i] ELSE s[i + 1]]

WithoutItem(c, p) ==
    [c EXCEPT !.quantity[p] = 0,
              !.lines = Without(@, CHOOSE k \in DOMAIN @ : @[k] = p)]

(* A primary key that has not been used. *)
NoRow == [status |-> "none", user |-> NoUser, quantity |-> NoPieces,
          lines |-> <<>>, promo |-> FALSE, key |-> NoKey, payment |-> "none"]

(* payment is the status of the order's Payment row, "open" for pending,
   requires_action and failed: the handler tells succeeded from the rest. *)
OrderRow == [status : OrderStatus, user : User, quantity : Pieces,
             lines : Seq(Product), promo : BOOLEAN, key : Key \cup {NoKey},
             payment : {"open", "succeeded"}]

Placed == {o \in Order : order[o].status # "none"}

Sold(o) == {p \in Product : order[o].quantity[p] > 0}

-----------------------------------------------------------------------------
(* Transactions *)

Pc == {"idle",
       "insert",    \* cart_add_item: its new row is not committed yet
       "update",    \* cart_add_item: has read the quantity of the row
       "gone",      \* cart_add_item: the row it has read was deleted
       "checkout",  \* checkout: has read the cart
       "confirm",   \* webhook: has payment and order, locks the products
       "clear",     \* webhook: the cart's items are deleted, the cart is not
       "patch"}     \* AdminPromoDetailView.patch: has read the promo code

Idle == [pc |-> "idle", user |-> NoUser, product |-> NoProduct, seen |-> 0,
         order |-> NoOrder, key |-> NoKey, cart |-> NoCart, todo |-> {},
         stock |-> NoPieces]

Txn == [pc : Pc, user : User \cup {NoUser}, product : Product \cup {NoProduct},
        seen : Nat, order : Order \cup {NoOrder}, key : Key \cup {NoKey},
        cart : CartRow, todo : SUBSET Product, stock : Pieces]

(* Mutant: objects.get instead of select_for_update on the order. *)
ReadOrderWithoutLock(o) == TRUE

CanLockOrder(o) == orderLock[o] = NoWorker

(* Mutant: objects.get instead of select_for_update on the product. *)
ReadProductWithoutLock(p) == TRUE

CanLockProduct(p) == stockLock[p] = NoWorker

Unlock(w) ==
    /\ orderLock' = [o \in Order |-> IF orderLock[o] = w THEN NoWorker ELSE orderLock[o]]
    /\ stockLock' = [p \in Product |-> IF stockLock[p] = w THEN NoWorker ELSE stockLock[p]]

(* Requests that have read an item which is now deleted. *)
Orphaned(u, S) ==
    {w \in Worker : txn[w].pc = "update" /\ txn[w].user = u /\ txn[w].product \in S}

(* A webhook has deleted the items of u's cart and not committed. *)
BeingCleared(u) == \E w \in Worker : txn[w].pc = "clear" /\ txn[w].user = u

Init ==
    /\ stock = Opening
    /\ cart = Filled
    /\ edits = 0
    /\ used = 0
    /\ order = [o \in Order |-> NoRow]
    /\ due = [o \in Order |-> 0]
    /\ captured = [o \in Order |-> 0]
    /\ orderLock = [o \in Order |-> NoWorker]
    /\ stockLock = [p \in Product |-> NoWorker]
    /\ txn = [w \in Worker |-> Idle]
    /\ taken = [o \in Order |-> 0]
    /\ reopened = [o \in Order |-> 0]
    /\ passedBy = {}
    /\ failed = {}
    /\ overwritten = 0

-----------------------------------------------------------------------------
(* The cart *)

(* The bound of the model. *)
Edit ==
    /\ edits < MaxEdits
    /\ edits' = edits + 1

(* cart_add_item: two get_or_create, for the cart and for the item.  The
   unique constraints make a second insert of the same row wait for the
   first one. *)
BeginAdd(w, u, p) ==
    LET c == cart[u] IN
    /\ txn[w].pc = "idle"
    /\ p \in Active
    /\ c.quantity[p] < MaxQuantity
    /\ c.quantity[p] = 0 =>
        \A v \in Worker : txn[v].pc = "insert" /\ txn[v].user = u =>
            c.exists /\ txn[v].product # p
    /\ txn' = [txn EXCEPT ![w] =
                [Idle EXCEPT !.pc = IF c.quantity[p] = 0 THEN "insert" ELSE "update",
                             !.user = u, !.product = p, !.seen = c.quantity[p]]]
    /\ Edit
    /\ UNCHANGED <<rows, history, locks, stripe>>

CommitInsert(w) ==
    LET t == txn[w] IN
    /\ t.pc = "insert"
    /\ cart' = [cart EXCEPT ![t.user] = WithItem(@, t.product, 1)]
    /\ txn' = [txn EXCEPT ![w] = Idle]
    /\ UNCHANGED <<stock, used, order, history, locks, stripe, edits>>

(* item.quantity += quantity, from the quantity that was read. *)
CommitUpdate(w) ==
    LET t == txn[w] IN
    /\ t.pc = "update"
    /\ ~BeingCleared(t.user)
    /\ cart' = [cart EXCEPT ![t.user] = WithItem(@, t.product, t.seen + 1)]
    /\ txn' = [txn EXCEPT ![w] = Idle]
    /\ UNCHANGED <<stock, used, order, history, locks, stripe, edits>>

(* The row is gone: save(update_fields=...) raises. *)
UpdateNothing(w) ==
    /\ txn[w].pc = "gone"
    /\ txn' = [txn EXCEPT ![w] = Idle]
    /\ UNCHANGED <<rows, history, locks, stripe, edits>>

(* cart_update_item with a positive quantity. *)
SetQuantity(u, p, n) ==
    /\ p \in InCart(cart[u])
    /\ ~BeingCleared(u)
    /\ cart' = [cart EXCEPT ![u] = WithItem(@, p, n)]
    /\ Edit
    /\ UNCHANGED <<stock, used, order, history, locks, stripe, txn>>

(* cart_remove_item, and cart_update_item with quantity 0. *)
RemoveItem(u, p) ==
    /\ p \in InCart(cart[u])
    /\ ~BeingCleared(u)
    /\ cart' = [cart EXCEPT ![u] = WithoutItem(@, p)]
    /\ txn' = [w \in Worker |-> IF w \in Orphaned(u, {p})
                               THEN [txn[w] EXCEPT !.pc = "gone"] ELSE txn[w]]
    /\ Edit
    /\ UNCHANGED <<stock, used, order, history, locks, stripe>>

(* cart_apply_promo of a code that is active, in its window, and whose minimum
   the cart reaches; the count is read without a lock. *)
ApplyPromo(u) ==
    /\ cart[u].exists /\ ~BeingCleared(u)
    /\ UsageLimit # 0 => used < UsageLimit
    /\ cart' = [cart EXCEPT ![u].promo = TRUE]
    /\ Edit
    /\ UNCHANGED <<stock, used, order, history, locks, stripe, txn>>

-----------------------------------------------------------------------------
(* checkout *)

(* The bound of the model: a primary key is left for every checkout. *)
KeysSuffice ==
    Cardinality({w \in Worker : txn[w].pc = "checkout"}) < Cardinality(Order \ Placed)

(* The key matches no order (one that does is answered with that order),
   the cart has items and every product is active. *)
BeginCheckout(w, u, k) ==
    /\ txn[w].pc = "idle"
    /\ KeysSuffice
    /\ k # NoKey => \A o \in Placed : order[o].user = u => order[o].key # k
    /\ InCart(cart[u]) # {}
    /\ InCart(cart[u]) \subseteq Active
    /\ txn' = [txn EXCEPT ![w] = [Idle EXCEPT !.pc = "checkout", !.user = u,
                                              !.key = k, !.seen = used,
                                              !.cart = cart[u]]]
    /\ UNCHANGED <<rows, history, locks, stripe, edits>>

(* Mutant: promo.used_count += 1 on the row that came with the cart. *)
OneMoreThanRead(w) == txn[w].seen + 1

OneMoreUse(w) == used + 1

(* Payment, Order and OrderItem rows, and one more use of the promo code,
   counted by the database: used_count = used_count + 1. *)
CommitCheckout(w, o) ==
    LET t == txn[w] IN
    /\ t.pc = "checkout"
    /\ o \notin Placed
    /\ order' = [order EXCEPT ![o] =
                    [status |-> "pending", user |-> t.user, quantity |-> t.cart.quantity,
                     lines |-> t.cart.lines, promo |-> t.cart.promo, key |-> t.key,
                     payment |-> "open"]]
    /\ used' = IF t.cart.promo THEN OneMoreUse(w) ELSE used
    /\ txn' = [txn EXCEPT ![w] = Idle]
    /\ UNCHANGED <<stock, cart, history, locks, stripe, edits>>

(* Stripe captures an intent of the order.  The checkout makes one intent,
   POST /payments/intent another while the payment has not succeeded. *)
Capture(o) ==
    /\ o \in Placed
    /\ captured[o] < Intents[o]
    /\ captured' = [captured EXCEPT ![o] = @ + 1]
    /\ due' = [due EXCEPT ![o] = @ + 1]
    /\ UNCHANGED <<rows, history, locks, txn, edits>>

(* _on_payment_intent_failed, for an earlier attempt, after the payment has
   succeeded; before that the payment is open and stays so. *)
LateDecline(o) ==
    /\ order[o].payment = "succeeded"
    /\ CanLockOrder(o)
    /\ order' = [order EXCEPT ![o].payment = "open"]
    /\ Edit
    /\ UNCHANGED <<stock, cart, used, history, locks, stripe, txn>>

-----------------------------------------------------------------------------
(* The webhook: _on_payment_intent_succeeded and confirm_order_payment in one
   transaction.  A delivered event is never delivered again: its record is
   committed before the handler runs (Payments). *)

Deliver(o) ==
    /\ due[o] > 0
    /\ CanLockOrder(o)
    /\ due' = [due EXCEPT ![o] = @ - 1]

BeginConfirm(w, o) ==
    /\ txn[w].pc = "idle"
    /\ Deliver(o)
    /\ order[o].payment # "succeeded"
    /\ order[o].status = "pending"
    /\ orderLock' = [orderLock EXCEPT ![o] = w]
    /\ txn' = [txn EXCEPT ![w] = [Idle EXCEPT !.pc = "confirm", !.user = order[o].user,
                                              !.order = o, !.todo = Sold(o)]]
    /\ UNCHANGED <<rows, history, stockLock, captured, edits>>

(* The payment has succeeded already. *)
SkipPaid(o) ==
    /\ Deliver(o)
    /\ order[o].payment = "succeeded"
    /\ UNCHANGED <<rows, history, locks, captured, txn, edits>>

(* The payment succeeds, but an administrator has given the order another
   status: confirm_order_payment finds no pending order and returns. *)
PassBy(o) ==
    /\ Deliver(o)
    /\ order[o].payment # "succeeded"
    /\ order[o].status # "pending"
    /\ order' = [order EXCEPT ![o].payment = "succeeded"]
    /\ passedBy' = passedBy \cup {o}
    /\ UNCHANGED <<stock, cart, used, taken, reopened, failed, overwritten, locks,
                   captured, txn, edits>>

(* The first product in the order of the items that is not locked yet. *)
IsNext(w, p) ==
    LET lines == order[txn[w].order].lines IN
    \E i \in DOMAIN lines :
        /\ lines[i] = p
        /\ p \in txn[w].todo
        /\ \A j \in 1..(i - 1) : lines[j] \notin txn[w].todo

LockProduct(w, p) ==
    /\ txn[w].pc = "confirm"
    /\ IsNext(w, p)
    /\ CanLockProduct(p)
    /\ stockLock' = [stockLock EXCEPT ![p] = w]
    /\ txn' = [txn EXCEPT ![w].todo = @ \ {p}, ![w].stock[p] = stock[p]]
    /\ UNCHANGED <<rows, history, orderLock, stripe, edits>>

(* Every product is locked.  Cart.objects.filter(...).delete() first deletes
   the items it sees, then the cart. *)
BeginClear(w) ==
    LET c == cart[txn[w].user] IN
    /\ txn[w].pc = "confirm"
    /\ txn[w].todo = {}
    /\ ~BeingCleared(txn[w].user)
    /\ txn' = [txn EXCEPT ![w].pc = "clear", ![w].cart = c]
    /\ UNCHANGED <<rows, history, locks, stripe, edits>>

(* A new item's row refers to the cart: deleting the cart waits for it. *)
ItemOnItsWay(u) == \E w \in Worker : txn[w].pc = "insert" /\ txn[w].user = u

CartGrew(w) == InCart(cart[txn[w].user]) \ InCart(txn[w].cart) # {}

Draw(have, want) == IF want <= have THEN have - want ELSE 0

CommitConfirm(w) ==
    LET t == txn[w]
        o == t.order IN
    /\ t.pc = "clear"
    /\ t.cart.exists => ~ItemOnItsWay(t.user) /\ ~CartGrew(w)
    /\ stock' = [p \in Product |->
                    IF p \in Tracked \cap Sold(o)
                    THEN Draw(t.stock[p], order[o].quantity[p]) ELSE stock[p]]
    /\ order' = [order EXCEPT ![o].status = "paid", ![o].payment = "succeeded"]
    /\ cart' = IF t.cart.exists THEN [cart EXCEPT ![t.user] = NoCart] ELSE cart
    /\ taken' = [taken EXCEPT ![o] = @ + 1]
    /\ Unlock(w)
    /\ txn' = [v \in Worker |->
                  IF v = w THEN Idle
                  ELSE IF t.cart.exists /\ v \in Orphaned(t.user, Product)
                       THEN [txn[v] EXCEPT !.pc = "gone"] ELSE txn[v]]
    /\ UNCHANGED <<used, reopened, passedBy, failed, overwritten, stripe, edits>>

(* The handler raises: everything it did is rolled back, its event stays
   recorded. *)
FailConfirm(w) ==
    /\ txn[w].pc \in {"confirm", "clear"}
    /\ failed' = failed \cup {txn[w].order}
    /\ Unlock(w)
    /\ txn' = [txn EXCEPT ![w] = Idle]
    /\ UNCHANGED <<rows, taken, reopened, passedBy, overwritten, stripe, edits>>

(* Mutant: the handler catches the exception, and the event is answered. *)
GiveUpQuietly(w) ==
    /\ txn[w].pc = "clear"
    /\ txn[w].cart.exists /\ ~ItemOnItsWay(txn[w].user) /\ CartGrew(w)
    /\ Unlock(w)
    /\ txn' = [txn EXCEPT ![w] = Idle]
    /\ UNCHANGED <<rows, history, stripe, edits>>

(* An item came into the cart while it was being deleted: the foreign key
   of its row fails when the handler commits. *)
CartOutlivesDelete(w) ==
    /\ txn[w].pc = "clear"
    /\ txn[w].cart.exists /\ ~ItemOnItsWay(txn[w].user) /\ CartGrew(w)
    /\ FailConfirm(w)

WaitsFor(w, v) ==
    /\ txn[w].pc = "confirm"
    /\ \E p \in Product : IsNext(w, p) /\ stockLock[p] = v

(* Two handlers that lock the same products in different orders. *)
DeadlockVictim(w) ==
    /\ \E v \in Worker \ {w} : WaitsFor(w, v) /\ WaitsFor(v, w)
    /\ FailConfirm(w)

(* Any other exception, or a dead worker; nothing is committed. *)
Abort(w) ==
    /\ txn[w].pc \in {"insert", "update", "checkout", "patch"}
    /\ txn' = [txn EXCEPT ![w] = Idle]
    /\ UNCHANGED <<rows, history, locks, stripe, edits>>

-----------------------------------------------------------------------------
(* The administrator *)

(* AdminInventoryView.patch writes the stock column only. *)
SetStock(p, n) ==
    /\ stockLock[p] = NoWorker
    /\ stock' = [stock EXCEPT ![p] = n]
    /\ Edit
    /\ UNCHANGED <<cart, used, order, history, locks, stripe, txn>>

(* AdminOrderStatusView.patch saves the order it has read with any status;
   of the columns it writes back only the status ever changes.  An order that
   is pending again may be confirmed again. *)
SetOrderStatus(o, s) ==
    /\ o \in Placed
    /\ orderLock[o] = NoWorker
    /\ order' = [order EXCEPT ![o].status = s]
    /\ reopened' = IF s = "pending" THEN [reopened EXCEPT ![o] = taken[o]] ELSE reopened
    /\ Edit
    /\ UNCHANGED <<stock, cart, used, taken, passedBy, failed, overwritten, locks,
                   stripe, txn>>

(* AdminPromoDetailView.patch reads the row, then saves all its columns, with
   used_count as it was read. *)
BeginPatch(w) ==
    /\ txn[w].pc = "idle"
    /\ txn' = [txn EXCEPT ![w] = [Idle EXCEPT !.pc = "patch", !.seen = used]]
    /\ Edit
    /\ UNCHANGED <<rows, history, locks, stripe>>

CommitPatch(w) ==
    /\ txn[w].pc = "patch"
    /\ used' = txn[w].seen
    /\ overwritten' = overwritten + (used - txn[w].seen)
    /\ txn' = [txn EXCEPT ![w] = Idle]
    /\ UNCHANGED <<stock, cart, order, taken, reopened, passedBy, failed, locks,
                   stripe, edits>>

-----------------------------------------------------------------------------

CartStep ==
    \E u \in User :
        \/ ApplyPromo(u)
        \/ \E p \in Product :
            \/ RemoveItem(u, p)
            \/ \E n \in 1..MaxQuantity : SetQuantity(u, p, n)

AdminStep ==
    \/ \E p \in Product, n \in Counts : SetStock(p, n)
    \/ \E o \in Order, s \in AdminStatus : SetOrderStatus(o, s)

Begin(w) ==
    \/ BeginPatch(w)
    \/ \E u \in User :
        \/ \E p \in Product : BeginAdd(w, u, p)
        \/ \E k \in Key \cup {NoKey} : BeginCheckout(w, u, k)

(* The worker goes on with its request. *)
Proceed(w) ==
    \/ CommitInsert(w) \/ CommitUpdate(w) \/ UpdateNothing(w)
    \/ \E o \in Order : CommitCheckout(w, o)
    \/ \E p \in Product : LockProduct(w, p)
    \/ BeginClear(w) \/ CommitConfirm(w) \/ CartOutlivesDelete(w)
    \/ CommitPatch(w)

Webhook(o) ==
    \/ SkipPaid(o) \/ PassBy(o)
    \/ \E w \in Worker : BeginConfirm(w, o)

Next ==
    \/ CartStep
    \/ AdminStep
    \/ \E o \in Order : Capture(o) \/ LateDecline(o) \/ Webhook(o)
    \/ \E w \in Worker :
        \/ Begin(w) \/ Proceed(w) \/ DeadlockVictim(w)
        \/ FailConfirm(w) \/ Abort(w)

Spec == Init /\ [][Next]_vars

-----------------------------------------------------------------------------
(* Properties *)

(* Rows and requests are well-formed; PositiveIntegerField columns (stock,
   used_count, quantities) never go below zero. *)
ShopTypeOK ==
    /\ stock \in Pieces
    /\ cart \in [User -> CartRow]
    /\ used \in Nat
    /\ order \in [Order -> OrderRow \cup {NoRow}]
    /\ due \in [Order -> Nat] /\ captured \in [Order -> Nat]
    /\ orderLock \in [Order -> Worker \cup {NoWorker}]
    /\ stockLock \in [Product -> Worker \cup {NoWorker}]
    /\ txn \in [Worker -> Txn]
    /\ taken \in [Order -> Nat] /\ reopened \in [Order -> Nat]
    /\ passedBy \subseteq Order /\ failed \subseteq Order
    /\ overwritten \in Int
    /\ edits \in 0..MaxEdits

Confirming(w) == txn[w].pc \in {"confirm", "clear"}

(* What a confirmation has seen under its locks still holds when it writes:
   the order is pending and not paid, every product it has locked has the
   stock it read.  (confirm_order_payment: "under select_for_update() -- no
   oversell") *)
StockReadsStayFresh ==
    \A w \in Worker : Confirming(w) =>
        LET o == txn[w].order IN
        /\ o \in Placed
        /\ orderLock[o] = w
        /\ order[o].status = "pending" /\ order[o].payment # "succeeded"
        /\ txn[w].user = order[o].user
        /\ txn[w].todo \subseteq Sold(o)
        /\ txn[w].pc = "clear" => txn[w].todo = {}
        /\ \A p \in Sold(o) \ txn[w].todo :
            stockLock[p] = w /\ txn[w].stock[p] = stock[p]

(* The shop implements the ledger: an order draws all its pieces in one step
   and, until an administrator reopens it, at most once, however many captures,
   declines and handlers there are, and nothing else but an administrator's
   count changes the stock. *)
Ledger == INSTANCE StockLedger
            WITH shelf <- stock,
                 basket <- [o \in Order |-> order[o].quantity],
                 drawn <- {o \in Order : taken[o] > reopened[o]}

RefinesStock == Ledger!Spec

(* Payment, order and stock agree.  Stock is taken at most once for each
   capture the webhook has been told of, and not again until an administrator
   sets the order back to pending; a pending order has had none taken since.
   A payment that succeeded has had its stock taken, unless the order was not
   pending when the webhook came.  (An administrator who reopens a paid order,
   a late decline and a second capture do take its stock twice.) *)
PaidIsTaken ==
    \A o \in Order :
        /\ taken[o] + due[o] <= captured[o]
        /\ taken[o] <= reopened[o] + 1
        /\ order[o].status = "pending" => taken[o] = reopened[o]
        /\ order[o].payment = "succeeded" => taken[o] > 0 \/ o \in passedBy

(* used_count is the number of orders placed with the promo code, less the
   uses that an administrator's patch wrote over with the count it had read. *)
PromoAccounted ==
    used + overwritten = Cardinality({o \in Order : order[o].promo})

(* No captured order is forgotten: once its webhooks have been answered its
   stock is taken, or it was not pending any more, or a handler of it failed
   for all to see.  Crossed locks and a cart that grows while it is deleted
   end in that last way. *)
DeliveredIsSettled ==
    \A o \in Order :
        captured[o] > 0 /\ due[o] = 0 /\ orderLock[o] = NoWorker =>
            taken[o] > 0 \/ o \in passedBy \cup failed
=============================================================================
