----------------------------- MODULE ShopProofs -----------------------------
(***************************************************************************)
(* Proofs about Shop, for any products, stocks, customers, orders and      *)
(* number of workers.                                                      *)
(*                                                                         *)
(* The argument: a confirmation owns the lock of its order and of every    *)
(* product it has read, so what it read is what it overwrites              *)
(* (StockReadsStayFresh); every taking, and every confirmation under way,  *)
(* has used up a capture of its own (Account), and an order found pending  *)
(* has had nothing taken since it was placed or reopened (PaidIsTaken);    *)
(* hence it is one step of StockLedger (ImplementsStock).                  *)
(***************************************************************************)
EXTENDS Shop, FiniteSetTheorems, TLAPS

(* The requests whose fields are used, by where they are. *)
WorkOf(t) ==
    /\ t.pc \in {"insert", "update", "checkout", "confirm", "clear"} => t.user \in User
    /\ t.pc \in {"insert", "update"} => t.product \in Product
    /\ t.pc \in {"confirm", "clear"} => t.order \in Order
    /\ t.pc = "checkout" => InCart(t.cart) # {}

Work == \A w \in Worker : WorkOf(txn[w])

Typed == ShopTypeOK /\ Work

-----------------------------------------------------------------------------
(* Carts, whatever their lines *)

LEMMA NoPiecesType == NoPieces \in Pieces
  BY DEF NoPieces, Pieces

LEMMA IdleType == Idle \in Txn /\ Idle.pc = "idle" /\ WorkOf(Idle)
  BY NoPiecesType DEF Idle, Txn, Pc, CartRow, NoCart, WorkOf

LEMMA LinesType ==
    ASSUME NEW s \in Seq(Product), NEW p \in Product, NEW k
    PROVE  Append(s, p) \in Seq(Product) /\ Without(s, k) \in Seq(Product)
  <1>1. Len(s) \in Nat /\ \A i \in 1..Len(s) : s[i] \in Product
    OBVIOUS
  <1>2. CASE Len(s) = 0
    <2>1. Without(s, k) = << >>
      BY <1>2 DEF Without
    <2>. QED
      BY <2>1
  <1>3. CASE Len(s) > 0
    <2>. DEFINE n == Len(s) - 1
    <2>1. n \in Nat
      BY <1>1, <1>3
    <2>2. \A i \in 1..n : s[i] \in Product /\ s[i + 1] \in Product
      BY <1>1, <1>3
    <2>. QED
      BY <2>1, <2>2 DEF Without
  <1>. QED
    BY <1>1, <1>2, <1>3

(* A cart row with one item changed. *)
LEMMA ChangedRow ==
    ASSUME NEW E, NEW P, NEW L,
           NEW c \in [exists : E, quantity : [Product -> Nat], lines : L, promo : P],
           NEW p \in Product, NEW n \in Nat, NEW e \in E, NEW l \in L
    PROVE  [c EXCEPT !.exists = e, !.quantity[p] = n, !.lines = l]
                \in [exists : E, quantity : [Product -> Nat], lines : L, promo : P]
  OBVIOUS

LEMMA ChangedCartType ==
    ASSUME NEW c \in CartRow, NEW p \in Product, NEW n \in Nat,
           NEW e \in BOOLEAN, NEW l \in Seq(Product), NEW d,
           d = [c EXCEPT !.exists = e, !.quantity[p] = n, !.lines = l]
    PROVE  d \in CartRow
  <1>. SUFFICES [c EXCEPT !.exists = e, !.quantity[p] = n, !.lines = l] \in CartRow
    OBVIOUS
  <1>. QED
    BY ChangedRow, Zenon DEF CartRow, Pieces

LEMMA WithItemType ==
    ASSUME NEW c \in CartRow, NEW p \in Product, NEW n \in Nat
    PROVE  WithItem(c, p, n) \in CartRow
  <1>1. PICK l \in Seq(Product) :
            WithItem(c, p, n) = [c EXCEPT !.exists = TRUE, !.quantity[p] = n, !.lines = l]
    <2>1. c.lines \in Seq(Product) /\ Append(c.lines, p) \in Seq(Product)
      BY LinesType DEF CartRow
    <2>. QED
      BY <2>1, Zenon DEF WithItem
  <1>2. TRUE \in BOOLEAN
    OBVIOUS
  <1>3. \A e \in BOOLEAN : \A d :
            d = [c EXCEPT !.exists = e, !.quantity[p] = n, !.lines = l] => d \in CartRow
    BY ChangedCartType, Zenon
  <1>. QED
    BY <1>1, <1>2, <1>3, Zenon

LEMMA WithoutItemType ==
    ASSUME NEW c \in CartRow, NEW p \in Product
    PROVE  WithoutItem(c, p) \in CartRow
  <1>1. PICK l \in Seq(Product) :
            WithoutItem(c, p) = [c EXCEPT !.quantity[p] = 0, !.lines = l]
    <2>. DEFINE k == CHOOSE i \in DOMAIN c.lines : c.lines[i] = p
    <2>1. c.lines \in Seq(Product)
      BY DEF CartRow
    <2>2. Without(c.lines, k) \in Seq(Product)
      BY <2>1, LinesType
    <2>. QED
      BY <2>2, Zenon DEF WithoutItem
  <1>2. WithoutItem(c, p)
            = [c EXCEPT !.exists = c.exists, !.quantity[p] = 0, !.lines = l]
    BY <1>1 DEF CartRow
  <1>3. c.exists \in BOOLEAN /\ 0 \in Nat
    BY DEF CartRow
  <1>4. \A e \in BOOLEAN : \A d :
            d = [c EXCEPT !.exists = e, !.quantity[p] = 0, !.lines = l] => d \in CartRow
    BY <1>3, ChangedCartType, Zenon
  <1>. QED
    BY <1>2, <1>3, <1>4, Zenon

LEMMA InitTyped == Init => Typed
  <1>. SUFFICES ASSUME Init PROVE Typed
    OBVIOUS
  <1>1. ShopTypeOK
    BY IdleType, FilledAssumption, ShopAssumption DEF Init, ShopTypeOK, Pieces
  <1>2. Work
    BY <1>1, IdleType DEF Init, Work, ShopTypeOK
  <1>. QED
    BY <1>1, <1>2 DEF Typed

-----------------------------------------------------------------------------
(* Every step keeps the types *)

(* Worker w begins, continues or ends a request. *)
LEMMA OneTxn ==
    ASSUME ShopTypeOK, Work, NEW w \in Worker, NEW t \in Txn,
           WorkOf(t), txn' = [txn EXCEPT ![w] = t]
    PROVE  txn' \in [Worker -> Txn] /\ Work'
  BY DEF ShopTypeOK, Work

LEMMA EndedTxn ==
    ASSUME ShopTypeOK, Work, NEW w \in Worker,
           txn' = [txn EXCEPT ![w] = Idle]
    PROVE  txn' \in [Worker -> Txn] /\ Work'
  BY OneTxn, IdleType DEF ShopTypeOK

(* Some requests find the row they have read deleted. *)
LEMMA OrphanedType ==
    ASSUME NEW t \in Txn
    PROVE  [t EXCEPT !.pc = "gone"] \in Txn /\ WorkOf([t EXCEPT !.pc = "gone"])
  BY DEF Txn, Pc, WorkOf

LEMMA UnlockType ==
    ASSUME ShopTypeOK, NEW w \in Worker, Unlock(w)
    PROVE  /\ orderLock' \in [Order -> Worker \cup {NoWorker}]
           /\ stockLock' \in [Product -> Worker \cup {NoWorker}]
  BY DEF ShopTypeOK, Unlock

(* A cart row written for user u. *)
LEMMA CartWritten ==
    ASSUME ShopTypeOK, NEW u \in User, NEW c \in CartRow,
           cart' = [cart EXCEPT ![u] = c]
    PROVE  cart' \in [User -> CartRow]
  BY DEF ShopTypeOK

(* The bound of the model. *)
LEMMA EditType ==
    ASSUME ShopTypeOK, Edit
    PROVE  edits' \in 0..MaxEdits
  BY ShopAssumption DEF ShopTypeOK, Edit

LEMMA CartStepTyped ==
    ASSUME Typed, NEW u \in User,
           \/ ApplyPromo(u)
           \/ \E p \in Product :
                \/ RemoveItem(u, p)
                \/ \E n \in 1..MaxQuantity : SetQuantity(u, p, n)
    PROVE  Typed'
  <1>1. ShopTypeOK
    BY DEF Typed
  <1>2. cart[u] \in CartRow
    BY <1>1 DEF ShopTypeOK
  <1>. USE DEF rows, history, locks, stripe
  <1>3. CASE ApplyPromo(u)
    <2>1. [cart[u] EXCEPT !.promo = TRUE] \in CartRow
      BY <1>2 DEF CartRow
    <2>2. cart' = [cart EXCEPT ![u] = [cart[u] EXCEPT !.promo = TRUE]]
      BY <1>3 DEF ApplyPromo
    <2>3. cart' \in [User -> CartRow]
      BY <1>1, <2>1, <2>2, CartWritten
    <2>. QED
      BY <1>1, <1>3, <2>3, EditType DEF ApplyPromo, Typed, ShopTypeOK, Work
  <1>4. ASSUME NEW p \in Product, NEW n \in 1..MaxQuantity, SetQuantity(u, p, n)
        PROVE  Typed'
    <2>0. n \in Nat
      BY ShopAssumption
    <2>1. WithItem(cart[u], p, n) \in CartRow
      BY <1>2, <2>0, WithItemType
    <2>2. cart' \in [User -> CartRow]
      BY <1>1, <1>4, <2>1, CartWritten DEF SetQuantity
    <2>3. edits' \in 0..MaxEdits
      BY <1>1, <1>4, EditType DEF SetQuantity
    <2>. QED
      BY <1>1, <1>4, <2>2, <2>3 DEF SetQuantity, Typed, ShopTypeOK, Work
  <1>5. ASSUME NEW p \in Product, RemoveItem(u, p)
        PROVE  Typed'
    <2>1. WithoutItem(cart[u], p) \in CartRow
      BY <1>2, WithoutItemType
    <2>2. cart' \in [User -> CartRow]
      BY <1>1, <1>5, <2>1, CartWritten DEF RemoveItem
    <2>3. edits' \in 0..MaxEdits
      BY <1>1, <1>5, EditType DEF RemoveItem
    <2>4. txn' \in [Worker -> Txn] /\ Work'
      BY <1>1, <1>5, OrphanedType DEF RemoveItem, ShopTypeOK, Typed, Work
    <2>. QED
      BY <1>1, <1>5, <2>2, <2>3, <2>4 DEF RemoveItem, Typed, ShopTypeOK
  <1>. QED
    BY <1>3, <1>4, <1>5

LEMMA AddStepTyped ==
    ASSUME Typed, NEW w \in Worker,
           \/ \E u \in User, p \in Product : BeginAdd(w, u, p)
           \/ CommitInsert(w) \/ CommitUpdate(w) \/ UpdateNothing(w)
    PROVE  Typed'
  <1>1. ShopTypeOK
    BY DEF Typed
  <1>. USE DEF rows, history, locks, stripe
  <1>2. Idle \in Txn /\ txn[w] \in Txn /\ WorkOf(txn[w]) /\ Work
    BY <1>1, IdleType DEF ShopTypeOK, Typed, Work
  <1>3. ASSUME NEW u \in User, NEW p \in Product, BeginAdd(w, u, p)
        PROVE  Typed'
    <2>1. cart[u].quantity[p] \in Nat
      BY <1>1 DEF ShopTypeOK, CartRow, Pieces
    <2>2. PICK pc \in {"insert", "update"} :
            txn' = [txn EXCEPT ![w] = [Idle EXCEPT !.pc = pc, !.user = u,
                                !.product = p, !.seen = cart[u].quantity[p]]]
      BY <1>3 DEF BeginAdd
    <2>. DEFINE t == [Idle EXCEPT !.pc = pc, !.user = u, !.product = p,
                                  !.seen = cart[u].quantity[p]]
    <2>3. t \in Txn /\ WorkOf(t)
      BY <1>2, <2>1 DEF Txn, Pc, WorkOf
    <2>. HIDE DEF t
    <2>4. txn' = [txn EXCEPT ![w] = t]
      BY <2>2 DEF t
    <2>5. txn' \in [Worker -> Txn] /\ Work'
      BY <1>1, <1>2, <2>3, <2>4, OneTxn
    <2>6. edits' \in 0..MaxEdits
      BY <1>1, <1>3, EditType DEF BeginAdd
    <2>. QED
      BY <1>1, <1>3, <2>5, <2>6 DEF BeginAdd, Typed, ShopTypeOK
  <1>4. ASSUME NEW n \in Nat, txn[w].pc \in {"insert", "update"},
               cart' = [cart EXCEPT ![txn[w].user] =
                            WithItem(@, txn[w].product, n)],
               txn' = [txn EXCEPT ![w] = Idle],
               UNCHANGED <<stock, used, order, history, locks, stripe, edits>>
        PROVE  Typed'
    <2>1. txn[w].user \in User /\ txn[w].product \in Product
      BY <1>2, <1>4 DEF WorkOf
    <2>2. cart[txn[w].user] \in CartRow
      BY <1>1, <2>1 DEF ShopTypeOK
    <2>3. WithItem(cart[txn[w].user], txn[w].product, n) \in CartRow
      BY <2>1, <2>2, WithItemType
    <2>4. cart' \in [User -> CartRow]
      BY <1>1, <1>4, <2>1, <2>3, CartWritten
    <2>5. txn' \in [Worker -> Txn] /\ Work'
      BY <1>1, <1>2, <1>4, EndedTxn
    <2>. QED
      BY <1>1, <1>4, <2>4, <2>5 DEF Typed, ShopTypeOK
  <1>5. txn[w].seen + 1 \in Nat
    BY <1>2 DEF Txn
  <1>6. CASE UpdateNothing(w)
    BY <1>1, <1>2, <1>6, EndedTxn DEF UpdateNothing, Typed, ShopTypeOK
  <1>7. CASE CommitInsert(w)
    BY <1>4, <1>7 DEF CommitInsert
  <1>8. CASE CommitUpdate(w)
    BY <1>4, <1>5, <1>8 DEF CommitUpdate
  <1>. QED
    BY <1>3, <1>6, <1>7, <1>8

LEMMA CheckoutTyped ==
    ASSUME Typed, NEW w \in Worker,
           \/ \E u \in User, k \in Key \cup {NoKey} : BeginCheckout(w, u, k)
           \/ \E o \in Order : CommitCheckout(w, o)
    PROVE  Typed'
  <1>1. ShopTypeOK
    BY DEF Typed
  <1>. USE DEF rows, history, locks, stripe
  <1>2. Idle \in Txn /\ txn[w] \in Txn /\ Work
    BY <1>1, IdleType DEF ShopTypeOK, Typed
  <1>3. ASSUME NEW u \in User, NEW k \in Key \cup {NoKey}, BeginCheckout(w, u, k)
        PROVE  Typed'
    <2>. DEFINE t == [Idle EXCEPT !.pc = "checkout", !.user = u, !.key = k,
                                  !.seen = used, !.cart = cart[u]]
    <2>1. cart[u] \in CartRow /\ used \in Nat /\ InCart(cart[u]) # {}
      BY <1>1, <1>3 DEF ShopTypeOK, BeginCheckout
    <2>2. t \in Txn /\ WorkOf(t)
      BY <1>2, <2>1 DEF Txn, Pc, WorkOf
    <2>3. txn' = [txn EXCEPT ![w] = t]
      BY <1>3 DEF BeginCheckout
    <2>. HIDE DEF t
    <2>4. txn' \in [Worker -> Txn] /\ Work'
      BY <1>1, <1>2, <2>2, <2>3, OneTxn
    <2>. QED
      BY <1>1, <1>3, <2>4 DEF BeginCheckout, Typed, ShopTypeOK
  <1>4. ASSUME NEW o \in Order, CommitCheckout(w, o)
        PROVE  Typed'
    <2>. DEFINE t == txn[w]
                r == [status |-> "pending", user |-> t.user,
                      quantity |-> t.cart.quantity, lines |-> t.cart.lines,
                      promo |-> t.cart.promo, key |-> t.key, payment |-> "open"]
    <2>1. /\ t.user \in User /\ t.key \in Key \cup {NoKey} /\ t.cart \in CartRow
          /\ t.seen \in Nat
      BY <1>2, <1>4 DEF CommitCheckout, Typed, Work, WorkOf, Txn
    <2>2. r \in OrderRow
      BY <2>1 DEF OrderRow, CartRow, OrderStatus
    <2>3. order' = [order EXCEPT ![o] = r]
      BY <1>4 DEF CommitCheckout
    <2>. HIDE DEF r
    <2>4. order' \in [Order -> OrderRow \cup {NoRow}]
      BY <1>1, <2>2, <2>3 DEF ShopTypeOK
    <2>5. used' \in Nat
      BY <1>1, <1>4 DEF CommitCheckout, OneMoreUse, ShopTypeOK
    <2>6. txn' \in [Worker -> Txn] /\ Work'
      BY <1>1, <1>2, <1>4, EndedTxn DEF CommitCheckout
    <2>. QED
      BY <1>1, <1>4, <2>4, <2>5, <2>6 DEF CommitCheckout, Typed, ShopTypeOK
  <1>. QED
    BY <1>3, <1>4

(* An order row that keeps its user, its items and its key. *)
LEMMA OrderWritten ==
    ASSUME ShopTypeOK, NEW o \in Order, order[o] # NoRow,
           NEW st \in OrderStatus, NEW py \in {"open", "succeeded"},
           order' = [order EXCEPT ![o].status = st, ![o].payment = py]
    PROVE  order' \in [Order -> OrderRow \cup {NoRow}]
  <1>1. order[o] \in OrderRow
    BY DEF ShopTypeOK
  <1>2. [order[o] EXCEPT !.status = st, !.payment = py] \in OrderRow
    BY <1>1 DEF OrderRow
  <1>3. order' = [order EXCEPT ![o] = [order[o] EXCEPT !.status = st, !.payment = py]]
    BY <1>1 DEF ShopTypeOK
  <1>. QED
    BY <1>2, <1>3 DEF ShopTypeOK

LEMMA StatusWritten ==
    ASSUME ShopTypeOK, NEW o \in Order, order[o] # NoRow,
           NEW st \in OrderStatus, order' = [order EXCEPT ![o].status = st]
    PROVE  order' \in [Order -> OrderRow \cup {NoRow}]
  <1>1. order[o] \in OrderRow
    BY DEF ShopTypeOK
  <1>2. [order[o] EXCEPT !.status = st] \in OrderRow
    BY <1>1 DEF OrderRow
  <1>. QED
    BY <1>2 DEF ShopTypeOK

LEMMA PaymentWritten ==
    ASSUME ShopTypeOK, NEW o \in Order, order[o] # NoRow,
           NEW py \in {"open", "succeeded"}, order' = [order EXCEPT ![o].payment = py]
    PROVE  order' \in [Order -> OrderRow \cup {NoRow}]
  <1>1. order[o] \in OrderRow
    BY DEF ShopTypeOK
  <1>2. [order[o] EXCEPT !.payment = py] \in OrderRow
    BY <1>1 DEF OrderRow
  <1>. QED
    BY <1>2 DEF ShopTypeOK

(* Webhooks are due for captures of placed orders, and confirm those. *)
DueIsCaptured ==
    /\ \A o \in Order :
        due[o] <= captured[o] /\ (captured[o] > 0 => o \in Placed)
    /\ \A w \in Worker : Confirming(w) => captured[txn[w].order] > 0

LEMMA PlacedRow ==
    ASSUME ShopTypeOK, NEW o \in Placed
    PROVE  o \in Order /\ order[o] \in OrderRow /\ order[o] # NoRow
  BY DEF Placed, NoRow, ShopTypeOK

LEMMA DueOrder ==
    ASSUME ShopTypeOK, DueIsCaptured, NEW o \in Order, Deliver(o)
    PROVE  o \in Placed /\ due' \in [Order -> Nat]
  <1>1. due[o] \in Nat /\ captured[o] \in Nat /\ due[o] > 0
    BY DEF ShopTypeOK, Deliver
  <1>2. o \in Placed
    BY <1>1 DEF DueIsCaptured
  <1>3. due[o] - 1 \in Nat
    BY <1>1
  <1>. QED
    BY <1>2, <1>3 DEF ShopTypeOK, Deliver

LEMMA PaymentStepTyped ==
    ASSUME Typed, DueIsCaptured, NEW o \in Order,
           Capture(o) \/ LateDecline(o) \/ SkipPaid(o) \/ PassBy(o)
    PROVE  Typed'
  <1>1. ShopTypeOK
    BY DEF Typed
  <1>2. Work
    BY DEF Typed
  <1>. USE DEF rows, history, locks, stripe
  <1>3. CASE Capture(o)
    <2>1. captured \in [Order -> Nat] /\ due \in [Order -> Nat]
      BY <1>1 DEF ShopTypeOK
    <2>2. captured' \in [Order -> Nat] /\ due' \in [Order -> Nat]
      BY <1>3, <2>1 DEF Capture
    <2>. QED
      BY <1>1, <1>2, <1>3, <2>2 DEF Capture, Typed, ShopTypeOK, Work
  <1>4. CASE LateDecline(o)
    <2>1. order[o] # NoRow
      BY <1>4 DEF LateDecline, NoRow
    <2>2. order' \in [Order -> OrderRow \cup {NoRow}]
      BY <1>1, <1>4, <2>1, PaymentWritten DEF LateDecline
    <2>. QED
      BY <1>1, <1>2, <1>4, <2>2, EditType DEF LateDecline, Typed, ShopTypeOK, Work
  <1>5. CASE SkipPaid(o)
    <2>1. due' \in [Order -> Nat]
      BY <1>1, <1>5, DueOrder DEF SkipPaid
    <2>. QED
      BY <1>1, <1>2, <1>5, <2>1 DEF SkipPaid, Typed, ShopTypeOK, Work
  <1>6. CASE PassBy(o)
    <2>1. o \in Placed /\ due' \in [Order -> Nat]
      BY <1>1, <1>6, DueOrder DEF PassBy
    <2>2. order' \in [Order -> OrderRow \cup {NoRow}]
      BY <1>1, <1>6, <2>1, PlacedRow, PaymentWritten DEF PassBy
    <2>. QED
      BY <1>1, <1>2, <1>6, <2>1, <2>2 DEF PassBy, Typed, ShopTypeOK, Work
  <1>. QED
    BY <1>3, <1>4, <1>5, <1>6

LEMMA ConfirmTyped ==
    ASSUME Typed, DueIsCaptured, StockReadsStayFresh, NEW w \in Worker,
           \/ \E o \in Order : BeginConfirm(w, o)
           \/ \E p \in Product : LockProduct(w, p)
           \/ BeginClear(w) \/ CommitConfirm(w) \/ FailConfirm(w)
    PROVE  Typed'
  <1>1. ShopTypeOK
    BY DEF Typed
  <1>. USE DEF rows, history, locks, stripe
  <1>2. Idle \in Txn /\ txn[w] \in Txn /\ Work /\ WorkOf(txn[w])
    BY <1>1, IdleType DEF ShopTypeOK, Typed, Work
  <1>3. ASSUME NEW o \in Order, BeginConfirm(w, o)
        PROVE  Typed'
    <2>. DEFINE t == [Idle EXCEPT !.pc = "confirm", !.user = order[o].user,
                                  !.order = o, !.todo = Sold(o)]
    <2>1. o \in Placed /\ due' \in [Order -> Nat]
      BY <1>1, <1>3, DueOrder DEF BeginConfirm
    <2>2. order[o].user \in User /\ Sold(o) \in SUBSET Product
      BY <1>1, <2>1, PlacedRow DEF OrderRow, Sold
    <2>3. t \in Txn /\ WorkOf(t)
      BY <1>2, <2>2 DEF Txn, Pc, WorkOf
    <2>4. txn' = [txn EXCEPT ![w] = t]
      BY <1>3 DEF BeginConfirm
    <2>. HIDE DEF t
    <2>5. txn' \in [Worker -> Txn] /\ Work'
      BY <1>1, <1>2, <2>3, <2>4, OneTxn
    <2>. QED
      BY <1>1, <1>3, <2>1, <2>5 DEF BeginConfirm, Typed, ShopTypeOK
  <1>4. ASSUME NEW p \in Product, LockProduct(w, p)
        PROVE  Typed'
    <2>. DEFINE t == [txn[w] EXCEPT !.todo = txn[w].todo \ {p}, !.stock[p] = stock[p]]
    <2>1. stock[p] \in Nat /\ txn[w].pc = "confirm"
      BY <1>1, <1>4 DEF ShopTypeOK, Pieces, LockProduct
    <2>2. t \in Txn /\ WorkOf(t)
      BY <1>2, <2>1 DEF Txn, Pc, WorkOf, Pieces
    <2>3. txn' = [txn EXCEPT ![w] = t]
      BY <1>1, <1>4 DEF LockProduct, ShopTypeOK
    <2>. HIDE DEF t
    <2>4. txn' \in [Worker -> Txn] /\ Work'
      BY <1>1, <1>2, <2>2, <2>3, OneTxn
    <2>. QED
      BY <1>1, <1>4, <2>4 DEF LockProduct, Typed, ShopTypeOK
  <1>5. CASE BeginClear(w)
    <2>. DEFINE t == [txn[w] EXCEPT !.pc = "clear", !.cart = cart[txn[w].user]]
    <2>1. txn[w].user \in User /\ txn[w].order \in Order
      BY <1>2, <1>5 DEF BeginClear, WorkOf
    <2>2. cart[txn[w].user] \in CartRow
      BY <1>1, <2>1 DEF ShopTypeOK
    <2>3. t \in Txn /\ WorkOf(t)
      BY <1>2, <2>1, <2>2 DEF Txn, Pc, WorkOf
    <2>4. txn' = [txn EXCEPT ![w] = t]
      BY <1>1, <1>5 DEF BeginClear, ShopTypeOK
    <2>. HIDE DEF t
    <2>5. txn' \in [Worker -> Txn] /\ Work'
      BY <1>1, <1>2, <2>3, <2>4, OneTxn
    <2>. QED
      BY <1>1, <1>5, <2>5 DEF BeginClear, Typed, ShopTypeOK
  <1>6. CASE CommitConfirm(w)
    <2>. DEFINE t == txn[w]
                o == t.order
    <2>1. /\ o \in Placed /\ t.user \in User /\ t.stock \in Pieces
      BY <1>2, <1>6
      DEF CommitConfirm, StockReadsStayFresh, Confirming, WorkOf, Txn
    <2>2. order[o] \in OrderRow /\ order[o] # NoRow /\ o \in Order
      BY <1>1, <2>1, PlacedRow
    <2>3. order' \in [Order -> OrderRow \cup {NoRow}]
      BY <1>1, <1>6, <2>2, OrderWritten DEF CommitConfirm, OrderStatus
    <2>4. \A p \in Product : /\ t.stock[p] \in Nat /\ stock[p] \in Nat
                             /\ order[o].quantity[p] \in Nat
      BY <1>1, <2>1, <2>2 DEF ShopTypeOK, OrderRow, Pieces
    <2>5. \A p \in Product : Draw(t.stock[p], order[o].quantity[p]) \in Nat
      BY <2>4 DEF Draw
    <2>6. stock' \in Pieces
      BY <1>6, <2>4, <2>5 DEF CommitConfirm, Pieces
    <2>7. cart' \in [User -> CartRow]
      <3>1. NoCart \in CartRow
        BY NoPiecesType DEF NoCart, CartRow
      <3>2. cart' = cart \/ cart' = [cart EXCEPT ![t.user] = NoCart]
        BY <1>6 DEF CommitConfirm
      <3>. QED
        BY <1>1, <2>1, <3>1, <3>2, CartWritten DEF ShopTypeOK
    <2>8. txn' \in [Worker -> Txn] /\ Work'
      <3>1. txn' = [v \in Worker |->
                      IF v = w THEN Idle
                      ELSE IF t.cart.exists /\ v \in Orphaned(t.user, Product)
                           THEN [txn[v] EXCEPT !.pc = "gone"] ELSE txn[v]]
        BY <1>6 DEF CommitConfirm
      <3>2. ASSUME NEW v \in Worker
            PROVE  txn'[v] \in Txn /\ WorkOf(txn'[v])
        <4>1. /\ txn[v] \in Txn /\ WorkOf(txn[v])
              /\ [txn[v] EXCEPT !.pc = "gone"] \in Txn
              /\ WorkOf([txn[v] EXCEPT !.pc = "gone"])
          BY <1>1, <1>2, OrphanedType DEF ShopTypeOK, Work
        <4>2. Idle \in Txn /\ WorkOf(Idle)
          BY <1>1, IdleType DEF ShopTypeOK
        <4>. QED
          BY <3>1, <4>1, <4>2
      <3>. QED
        BY <3>1, <3>2 DEF Work
    <2>9. taken' \in [Order -> Nat]
      <3>1. taken \in [Order -> Nat]
        BY <1>1 DEF ShopTypeOK
      <3>2. taken' = [taken EXCEPT ![txn[w].order] = taken[txn[w].order] + 1]
        BY <1>6 DEF CommitConfirm
      <3>. QED
        BY <2>2, <3>1, <3>2
    <2>10. /\ orderLock' \in [Order -> Worker \cup {NoWorker}]
           /\ stockLock' \in [Product -> Worker \cup {NoWorker}]
      BY <1>1, <1>6, UnlockType DEF CommitConfirm
    <2>. QED
      BY <1>1, <1>6, <2>3, <2>6, <2>7, <2>8, <2>9, <2>10
      DEF CommitConfirm, Typed, ShopTypeOK
  <1>7. CASE FailConfirm(w)
    <2>1. txn' \in [Worker -> Txn] /\ Work'
      BY <1>1, <1>2, <1>7, EndedTxn DEF FailConfirm
    <2>2. failed' \subseteq Order
      BY <1>1, <1>2, <1>7 DEF FailConfirm, WorkOf, ShopTypeOK
    <2>. QED
      BY <1>1, <1>7, <2>1, <2>2, UnlockType DEF FailConfirm, Typed, ShopTypeOK
  <1>. QED
    BY <1>3, <1>4, <1>5, <1>6, <1>7

LEMMA AdminStepTyped ==
    ASSUME Typed,
           \/ AdminStep
           \/ \E w \in Worker : BeginPatch(w) \/ CommitPatch(w) \/ Abort(w)
    PROVE  Typed'
  <1>1. ShopTypeOK
    BY DEF Typed
  <1>. USE DEF rows, history, locks, stripe
  <1>2. Work
    BY DEF Typed
  <1>3. ASSUME NEW p \in Product, NEW n \in Counts, SetStock(p, n)
        PROVE  Typed'
    <2>1. stock' \in Pieces
      BY <1>1, <1>3, ShopAssumption DEF SetStock, ShopTypeOK, Pieces
    <2>. QED
      BY <1>1, <1>2, <1>3, <2>1, EditType DEF SetStock, Typed, ShopTypeOK, Work
  <1>4. ASSUME NEW o \in Order, NEW st \in AdminStatus, SetOrderStatus(o, st)
        PROVE  Typed'
    <2>1. st \in OrderStatus /\ order[o] # NoRow
      BY <1>1, <1>4, ShopAssumption, PlacedRow DEF SetOrderStatus, OrderStatus
    <2>2. order' \in [Order -> OrderRow \cup {NoRow}]
      BY <1>1, <1>4, <2>1, StatusWritten DEF SetOrderStatus
    <2>3. reopened' \in [Order -> Nat]
      BY <1>1, <1>4 DEF SetOrderStatus, ShopTypeOK
    <2>. QED
      BY <1>1, <1>2, <1>4, <2>2, <2>3, EditType DEF SetOrderStatus, Typed, ShopTypeOK, Work
  <1>5. ASSUME NEW w \in Worker, BeginPatch(w) \/ CommitPatch(w) \/ Abort(w)
        PROVE  Typed'
    <2>1. txn[w] \in Txn /\ Idle \in Txn /\ used \in Nat
      BY <1>1, IdleType DEF ShopTypeOK
    <2>2. CASE BeginPatch(w)
      <3>. DEFINE t == [Idle EXCEPT !.pc = "patch", !.seen = used]
      <3>1. t \in Txn /\ WorkOf(t)
        <4>1. t \in Txn /\ t.pc = "patch"
          BY <2>1 DEF Txn, Pc
        <4>. HIDE DEF t
        <4>. QED
          BY <4>1 DEF WorkOf
      <3>2. txn' = [txn EXCEPT ![w] = t]
        BY <2>2 DEF BeginPatch
      <3>. HIDE DEF t
      <3>3. txn' \in [Worker -> Txn] /\ Work'
        BY <1>1, <1>2, <3>1, <3>2, OneTxn
      <3>. QED
        BY <1>1, <2>2, <3>3, EditType DEF BeginPatch, Typed, ShopTypeOK
    <2>3. CASE CommitPatch(w)
      <3>1. used' \in Nat /\ overwritten' \in Int
        BY <1>1, <2>1, <2>3 DEF CommitPatch, ShopTypeOK, Txn
      <3>2. txn' \in [Worker -> Txn] /\ Work'
        BY <1>1, <1>2, <2>3, EndedTxn DEF CommitPatch
      <3>. QED
        BY <1>1, <2>3, <3>1, <3>2 DEF CommitPatch, Typed, ShopTypeOK
    <2>4. CASE Abort(w)
      <3>1. txn' \in [Worker -> Txn] /\ Work'
        BY <1>1, <1>2, <2>4, EndedTxn DEF Abort
      <3>. QED
        BY <1>1, <2>4, <3>1 DEF Abort, Typed, ShopTypeOK
    <2>. QED
      BY <1>5, <2>2, <2>3, <2>4
  <1>. QED
    BY <1>3, <1>4, <1>5 DEF AdminStep

-----------------------------------------------------------------------------
(* What a confirmation has read stays fresh *)

(* StockReadsStayFresh, for one worker. *)
SeesStock(w) ==
    Confirming(w) =>
        LET o == txn[w].order IN
        /\ o \in Placed
        /\ orderLock[o] = w
        /\ order[o].status = "pending" /\ order[o].payment # "succeeded"
        /\ txn[w].user = order[o].user
        /\ txn[w].todo \subseteq Sold(o)
        /\ txn[w].pc = "clear" => txn[w].todo = {}
        /\ \A p \in Sold(o) \ txn[w].todo :
            stockLock[p] = w /\ txn[w].stock[p] = stock[p]

(* An order is locked by the confirmation that works on it. *)
LockIsHeld(o) ==
    orderLock[o] \in Worker =>
        Confirming(orderLock[o]) /\ txn[orderLock[o]].order = o

LocksAreHeld == \A o \in Order : LockIsHeld(o)

LEMMA SeesStockOf ==
    StockReadsStayFresh <=> \A w \in Worker : SeesStock(w)
  BY DEF StockReadsStayFresh, SeesStock

(* Requests that confirm go on as they were, and no other begins to. *)
SameConfirmations ==
    \A w \in Worker : Confirming(w) \/ Confirming(w)' => txn'[w] = txn[w]

Quiet == SameConfirmations /\ UNCHANGED <<order, stock, orderLock, stockLock>>

LEMMA QuietFresh ==
    ASSUME StockReadsStayFresh, LocksAreHeld, Quiet
    PROVE  StockReadsStayFresh' /\ LocksAreHeld'
  <1>1. ASSUME NEW w \in Worker PROVE SeesStock(w)'
    BY SeesStockOf
    DEF Quiet, SameConfirmations, SeesStock, Confirming, Placed, Sold
  <1>2. ASSUME NEW o \in Order PROVE LockIsHeld(o)'
    BY DEF Quiet, SameConfirmations, LocksAreHeld, LockIsHeld, Confirming
  <1>. QED
    BY <1>1, <1>2 DEF StockReadsStayFresh, SeesStock, LocksAreHeld

(* Worker w, not confirming, begins or ends a request of another kind. *)
LEMMA OtherRequest ==
    ASSUME Typed, NEW w \in Worker, ~Confirming(w), NEW t, ~(t.pc \in {"confirm", "clear"}),
           txn' = [txn EXCEPT ![w] = t]
    PROVE  SameConfirmations
  BY DEF Typed, ShopTypeOK, SameConfirmations, Confirming

LEMMA QuietSteps ==
    ASSUME Typed,
           \/ CartStep
           \/ \E o \in Order : Capture(o) \/ SkipPaid(o)
           \/ \E w \in Worker :
                \/ Begin(w)
                \/ CommitInsert(w) \/ CommitUpdate(w) \/ UpdateNothing(w)
                \/ CommitPatch(w) \/ Abort(w)
    PROVE  Quiet
  <1>. USE DEF rows, history, locks, stripe
  <1>0. ShopTypeOK
    BY DEF Typed
  <1>1. Idle.pc = "idle" /\ Idle \in Txn
    BY <1>0, IdleType DEF ShopTypeOK
  <1>2. CASE UNCHANGED txn /\ UNCHANGED <<order, stock, orderLock, stockLock>>
    BY <1>2 DEF Quiet, SameConfirmations
  <1>3. ASSUME NEW u \in User, NEW p \in Product, RemoveItem(u, p)
        PROVE  Quiet
    <2>1. ASSUME NEW w \in Worker PROVE Confirming(w) \/ Confirming(w)' => txn'[w] = txn[w]
      <3>1. txn'[w] = IF w \in Orphaned(u, {p})
                      THEN [txn[w] EXCEPT !.pc = "gone"] ELSE txn[w]
        BY <1>3 DEF RemoveItem
      <3>2. txn[w] \in Txn
        BY <1>0 DEF ShopTypeOK
      <3>3. CASE w \in Orphaned(u, {p})
        <4>1. txn'[w].pc = "gone" /\ txn[w].pc = "update"
          BY <3>1, <3>2, <3>3 DEF Txn, Orphaned
        <4>. QED
          BY <4>1 DEF Confirming
      <3>. QED
        BY <3>1, <3>3
    <2>. QED
      BY <1>3, <2>1 DEF RemoveItem, Quiet, SameConfirmations
  <1>4. ASSUME NEW w \in Worker, txn[w].pc \in {"insert", "update", "gone", "patch", "checkout"},
               txn' = [txn EXCEPT ![w] = Idle],
               UNCHANGED <<order, stock, orderLock, stockLock>>
        PROVE  Quiet
    BY <1>1, <1>4, OtherRequest DEF Quiet, Confirming
  <1>5. ASSUME NEW w \in Worker, Begin(w)
        PROVE  Quiet
    <2>1. txn[w].pc = "idle" /\ UNCHANGED <<order, stock, orderLock, stockLock>>
      BY <1>5 DEF Begin, BeginPatch, BeginAdd, BeginCheckout
    <2>2. CASE BeginPatch(w)
      <3>. DEFINE t == [Idle EXCEPT !.pc = "patch", !.seen = used]
      <3>1. t.pc = "patch" /\ txn' = [txn EXCEPT ![w] = t]
        BY <1>1, <2>2 DEF BeginPatch, Txn
      <3>. HIDE DEF t
      <3>. QED
        BY <2>1, <3>1, OtherRequest DEF Quiet, Confirming
    <2>3. ASSUME NEW u \in User, NEW p \in Product, BeginAdd(w, u, p)
          PROVE  Quiet
      <3>1. PICK pc \in {"insert", "update"} :
                txn' = [txn EXCEPT ![w] = [Idle EXCEPT !.pc = pc, !.user = u,
                                    !.product = p, !.seen = cart[u].quantity[p]]]
        BY <2>3 DEF BeginAdd
      <3>. DEFINE t == [Idle EXCEPT !.pc = pc, !.user = u, !.product = p,
                                    !.seen = cart[u].quantity[p]]
      <3>2. t.pc = pc /\ txn' = [txn EXCEPT ![w] = t]
        BY <1>1, <3>1 DEF Txn
      <3>. HIDE DEF t
      <3>. QED
        BY <2>1, <3>2, OtherRequest DEF Quiet, Confirming
    <2>4. ASSUME NEW u \in User, NEW k \in Key \cup {NoKey}, BeginCheckout(w, u, k)
          PROVE  Quiet
      <3>. DEFINE t == [Idle EXCEPT !.pc = "checkout", !.user = u, !.key = k,
                                    !.seen = used, !.cart = cart[u]]
      <3>1. t.pc = "checkout" /\ txn' = [txn EXCEPT ![w] = t]
        BY <1>1, <2>4 DEF BeginCheckout, Txn
      <3>. HIDE DEF t
      <3>. QED
        BY <2>1, <3>1, OtherRequest DEF Quiet, Confirming
    <2>. QED
      BY <1>5, <2>2, <2>3, <2>4 DEF Begin
  <1>6. ASSUME NEW u \in User, NEW p \in Product,
               ApplyPromo(u) \/ \E n \in 1..MaxQuantity : SetQuantity(u, p, n)
        PROVE  Quiet
    BY <1>2, <1>6 DEF ApplyPromo, SetQuantity
  <1>7. ASSUME NEW u \in User, ApplyPromo(u)
        PROVE  Quiet
    BY <1>2, <1>7 DEF ApplyPromo
  <1>8. ASSUME NEW o \in Order, Capture(o) \/ SkipPaid(o)
        PROVE  Quiet
    BY <1>2, <1>8 DEF Capture, SkipPaid, Deliver
  <1>9. ASSUME NEW w \in Worker,
               \/ CommitInsert(w) \/ CommitUpdate(w) \/ UpdateNothing(w)
               \/ CommitPatch(w) \/ Abort(w)
        PROVE  Quiet
    BY <1>4, <1>9 DEF CommitInsert, CommitUpdate, UpdateNothing, CommitPatch, Abort
  <1>. QED
    BY <1>3, <1>5, <1>6, <1>7, <1>8, <1>9 DEF CartStep

(* Order o, which no confirmation works on, is placed or changes. *)
LEMMA OrderStepFresh ==
    ASSUME Typed, StockReadsStayFresh, LocksAreHeld, NEW o \in Order,
           o \notin Placed \/ orderLock[o] = NoWorker,
           \A q \in Order \ {o} : order'[q] = order[q],
           SameConfirmations, UNCHANGED <<stock, orderLock, stockLock>>
    PROVE  StockReadsStayFresh' /\ LocksAreHeld'
  <1>1. ASSUME NEW w \in Worker PROVE SeesStock(w)'
    <2>. SUFFICES ASSUME Confirming(w)' PROVE SeesStock(w)'
      BY DEF SeesStock
    <2>1. txn'[w] = txn[w] /\ Confirming(w) /\ SeesStock(w)
      BY SeesStockOf DEF SameConfirmations, Confirming
    <2>2. txn[w].order \in Order \ {o}
      BY <2>1, ShopAssumption DEF SeesStock, Placed
    <2>3. order'[txn[w].order] = order[txn[w].order]
      BY <2>2
    <2>. QED
      BY <2>1, <2>2, <2>3 DEF SeesStock, Confirming, Placed, Sold
  <1>2. ASSUME NEW q \in Order PROVE LockIsHeld(q)'
    BY DEF SameConfirmations, LocksAreHeld, LockIsHeld, Confirming
  <1>. QED
    BY <1>1, <1>2 DEF StockReadsStayFresh, SeesStock, LocksAreHeld

(* Worker w's confirmation ends; it wrote only what it had locked. *)
LEMMA EndConfirmFresh ==
    ASSUME Typed, StockReadsStayFresh, LocksAreHeld, NEW w \in Worker,
           Confirming(w), Unlock(w),
           ~Confirming(w)',
           \A x \in Worker \ {w} : Confirming(x) \/ Confirming(x)' => txn'[x] = txn[x],
           \A q \in Order : orderLock[q] # w => order'[q] = order[q],
           \A p \in Product : stockLock[p] # w => stock'[p] = stock[p]
    PROVE  StockReadsStayFresh' /\ LocksAreHeld'
  <1>1. ASSUME NEW x \in Worker PROVE SeesStock(x)'
    <2>. SUFFICES ASSUME Confirming(x)' PROVE SeesStock(x)'
      BY DEF SeesStock
    <2>1. x # w /\ txn'[x] = txn[x] /\ Confirming(x) /\ SeesStock(x)
      BY SeesStockOf DEF Confirming
    <2>. DEFINE o == txn[x].order
    <2>2. o \in Order /\ orderLock[o] = x /\ order'[o] = order[o]
      BY <2>1 DEF SeesStock, Placed
    <2>3. orderLock'[o] = x
      BY <2>1, <2>2 DEF Unlock
    <2>4. ASSUME NEW p \in Sold(o) \ txn[x].todo
          PROVE  stockLock'[p] = x /\ txn[x].stock[p] = stock'[p]
      <3>1. p \in Product /\ stockLock[p] = x /\ txn[x].stock[p] = stock[p]
        BY <2>1, <2>4 DEF SeesStock, Sold
      <3>. QED
        BY <2>1, <3>1 DEF Unlock
    <2>5. Sold(o)' = Sold(o) /\ o \in Placed'
      BY <2>1, <2>2 DEF Sold, SeesStock, Placed
    <2>. QED
      BY <2>1, <2>2, <2>3, <2>4, <2>5 DEF SeesStock, Sold
  <1>2. ASSUME NEW q \in Order PROVE LockIsHeld(q)'
    BY ShopAssumption DEF Unlock, LocksAreHeld, LockIsHeld, Confirming
  <1>. QED
    BY <1>1, <1>2 DEF StockReadsStayFresh, SeesStock, LocksAreHeld

LEMMA ConfirmFresh ==
    ASSUME Typed, DueIsCaptured, StockReadsStayFresh, LocksAreHeld, NEW w \in Worker,
           \/ \E o \in Order : BeginConfirm(w, o)
           \/ \E p \in Product : LockProduct(w, p)
           \/ BeginClear(w) \/ CommitConfirm(w) \/ FailConfirm(w)
    PROVE  StockReadsStayFresh' /\ LocksAreHeld'
  <1>. USE DEF rows, history, locks, stripe
  <1>0. ShopTypeOK
    BY DEF Typed
  <1>1. /\ Idle.pc = "idle" /\ Idle \in Txn /\ txn \in [Worker -> Txn]
        /\ orderLock \in [Order -> Worker \cup {NoWorker}]
        /\ stockLock \in [Product -> Worker \cup {NoWorker}]
    BY <1>0, IdleType DEF ShopTypeOK
  <1>2. ASSUME NEW o \in Order, BeginConfirm(w, o)
        PROVE  StockReadsStayFresh' /\ LocksAreHeld'
    <2>. DEFINE t == [Idle EXCEPT !.pc = "confirm", !.user = order[o].user,
                                  !.order = o, !.todo = Sold(o)]
    <2>1. /\ o \in Placed /\ orderLock[o] = NoWorker /\ txn[w].pc = "idle"
          /\ order[o].status = "pending" /\ order[o].payment # "succeeded"
          /\ orderLock' = [orderLock EXCEPT ![o] = w]
          /\ UNCHANGED <<order, stock, stockLock>>
      BY <1>0, <1>2, DueOrder DEF BeginConfirm, Deliver, CanLockOrder
    <2>2. /\ txn' = [txn EXCEPT ![w] = t]
          /\ t.pc = "confirm" /\ t.user = order[o].user /\ t.order = o
          /\ t.todo = Sold(o)
      BY <1>1, <1>2 DEF BeginConfirm, Txn
    <2>. HIDE DEF t
    <2>3. ASSUME NEW x \in Worker PROVE SeesStock(x)'
      <3>1. CASE x = w
        BY <1>1, <2>1, <2>2, <3>1 DEF SeesStock, Placed, Sold
      <3>2. CASE x # w
        <4>1. txn'[x] = txn[x] /\ SeesStock(x)
          BY <1>1, <2>2, <3>2, SeesStockOf
        <4>2. Confirming(x) => txn[x].order # o
          BY <2>1, <4>1, ShopAssumption DEF SeesStock
        <4>. QED
          BY <1>1, <2>1, <4>1, <4>2 DEF SeesStock, Confirming, Placed, Sold
      <3>. QED
        BY <3>1, <3>2
    <2>4. ASSUME NEW q \in Order PROVE LockIsHeld(q)'
      <3>1. CASE q = o
        BY <1>1, <2>1, <2>2, <3>1 DEF LockIsHeld, Confirming
      <3>2. CASE q # o
        <4>1. orderLock'[q] = orderLock[q] /\ LockIsHeld(q)
          BY <1>1, <2>1, <3>2 DEF LocksAreHeld
        <4>2. orderLock[q] # w
          BY <2>1, <4>1 DEF LockIsHeld, Confirming
        <4>. QED
          BY <1>1, <2>2, <4>1, <4>2 DEF LockIsHeld, Confirming
      <3>. QED
        BY <3>1, <3>2
    <2>. QED
      BY <2>3, <2>4 DEF StockReadsStayFresh, SeesStock, LocksAreHeld
  <1>3. ASSUME NEW p \in Product, LockProduct(w, p)
        PROVE  StockReadsStayFresh' /\ LocksAreHeld'
    <2>. DEFINE t == [txn[w] EXCEPT !.todo = txn[w].todo \ {p}, !.stock[p] = stock[p]]
    <2>1. /\ stockLock[p] = NoWorker /\ txn[w].pc = "confirm"
          /\ stockLock' = [stockLock EXCEPT ![p] = w]
          /\ UNCHANGED <<order, stock, orderLock>>
      BY <1>3 DEF LockProduct, CanLockProduct
    <2>2. /\ txn' = [txn EXCEPT ![w] = t]
          /\ t.pc = "confirm" /\ t.user = txn[w].user /\ t.order = txn[w].order
          /\ t.todo = txn[w].todo \ {p}
          /\ t.stock = [txn[w].stock EXCEPT ![p] = stock[p]]
          /\ txn[w].stock \in Pieces
      BY <1>1, <1>3, <2>1 DEF LockProduct, Txn
    <2>. HIDE DEF t
    <2>3. ASSUME NEW x \in Worker PROVE SeesStock(x)'
      <3>0. SeesStock(x)
        BY SeesStockOf
      <3>1. CASE x = w
        BY <1>1, <2>1, <2>2, <3>0, <3>1
        DEF SeesStock, Confirming, Placed, Sold, Pieces
      <3>2. CASE x # w
        <4>1. txn'[x] = txn[x]
          BY <1>1, <2>2, <3>2
        <4>2. \A q \in Product : stockLock[q] = x => stockLock'[q] = x
          BY <1>1, <2>1, ShopAssumption
        <4>. QED
          BY <2>1, <3>0, <4>1, <4>2 DEF SeesStock, Confirming, Placed, Sold
      <3>. QED
        BY <3>1, <3>2
    <2>4. ASSUME NEW q \in Order PROVE LockIsHeld(q)'
      BY <1>1, <2>1, <2>2 DEF LocksAreHeld, LockIsHeld, Confirming
    <2>. QED
      BY <2>3, <2>4 DEF StockReadsStayFresh, SeesStock, LocksAreHeld
  <1>4. CASE BeginClear(w)
    <2>. DEFINE t == [txn[w] EXCEPT !.pc = "clear", !.cart = cart[txn[w].user]]
    <2>1. /\ txn[w].pc = "confirm" /\ txn[w].todo = {}
          /\ UNCHANGED <<order, stock, orderLock, stockLock>>
      BY <1>4 DEF BeginClear
    <2>2. /\ txn' = [txn EXCEPT ![w] = t]
          /\ t.pc = "clear" /\ t.user = txn[w].user /\ t.order = txn[w].order
          /\ t.todo = txn[w].todo /\ t.stock = txn[w].stock
      BY <1>1, <1>4 DEF BeginClear, Txn
    <2>. HIDE DEF t
    <2>3. ASSUME NEW x \in Worker PROVE SeesStock(x)'
      BY <1>1, <2>1, <2>2, SeesStockOf DEF SeesStock, Confirming, Placed, Sold
    <2>4. ASSUME NEW q \in Order PROVE LockIsHeld(q)'
      BY <1>1, <2>1, <2>2 DEF LocksAreHeld, LockIsHeld, Confirming
    <2>. QED
      BY <2>3, <2>4 DEF StockReadsStayFresh, SeesStock, LocksAreHeld
  <1>5. CASE CommitConfirm(w)
    <2>1. Confirming(w) /\ SeesStock(w) /\ txn[w].pc = "clear"
      BY <1>5, SeesStockOf DEF CommitConfirm, Confirming
    <2>2. \A q \in Order : orderLock[q] # w => order'[q] = order[q]
      <3>1. order' = [order EXCEPT ![txn[w].order].status = "paid",
                                   ![txn[w].order].payment = "succeeded"]
        BY <1>5 DEF CommitConfirm
      <3>2. orderLock[txn[w].order] = w
        BY <2>1 DEF SeesStock
      <3>. QED
        BY <1>0, <3>1, <3>2 DEF ShopTypeOK
    <2>3. \A p \in Product : stockLock[p] # w => stock'[p] = stock[p]
      <3>1. \A p \in Sold(txn[w].order) : stockLock[p] = w
        BY <2>1 DEF SeesStock
      <3>. QED
        BY <1>5, <3>1 DEF CommitConfirm
    <2>4. /\ ~Confirming(w)'
          /\ \A x \in Worker \ {w} : Confirming(x) \/ Confirming(x)' => txn'[x] = txn[x]
      <3>1. PICK S \in SUBSET Worker :
                /\ \A x \in S : txn[x].pc = "update"
                /\ txn' = [v \in Worker |->
                            IF v = w THEN Idle
                            ELSE IF v \in S THEN [txn[v] EXCEPT !.pc = "gone"]
                            ELSE txn[v]]
        <4>. DEFINE T == {v \in Worker : /\ txn[w].cart.exists
                                         /\ v \in Orphaned(txn[w].user, Product)}
        <4>1. /\ T \in SUBSET Worker
              /\ \A x \in T : txn[x].pc = "update"
              /\ txn' = [v \in Worker |->
                            IF v = w THEN Idle
                            ELSE IF v \in T THEN [txn[v] EXCEPT !.pc = "gone"]
                            ELSE txn[v]]
          BY <1>5 DEF CommitConfirm, Orphaned
        <4>. HIDE DEF T
        <4>. QED
          BY <4>1
      <3>2. ASSUME NEW x \in S PROVE [txn[x] EXCEPT !.pc = "gone"].pc = "gone"
        BY <1>1 DEF Txn
      <3>. QED
        BY <1>1, <3>1, <3>2 DEF Confirming
    <2>5. Unlock(w)
      BY <1>5 DEF CommitConfirm
    <2>. QED
      BY <2>1, <2>2, <2>3, <2>4, <2>5, EndConfirmFresh
  <1>6. CASE FailConfirm(w)
    <2>1. /\ Confirming(w) /\ Unlock(w) /\ UNCHANGED <<order, stock>>
          /\ txn' = [txn EXCEPT ![w] = Idle]
      BY <1>6 DEF FailConfirm, Confirming
    <2>2. /\ ~Confirming(w)'
          /\ \A x \in Worker \ {w} : txn'[x] = txn[x]
      BY <1>1, <2>1 DEF Confirming
    <2>. QED
      BY <2>1, <2>2, EndConfirmFresh
  <1>. QED
    BY <1>2, <1>3, <1>4, <1>5, <1>6

LEMMA StepStockFresh ==
    ASSUME Typed, DueIsCaptured, StockReadsStayFresh, LocksAreHeld, Next
    PROVE  StockReadsStayFresh' /\ LocksAreHeld'
  <1>. USE DEF rows, history, locks, stripe
  <1>0. ShopTypeOK
    BY DEF Typed
  <1>1. CASE Quiet
    BY <1>1, QuietFresh
  <1>2. ASSUME NEW w \in Worker, NEW o \in Order, CommitCheckout(w, o)
        PROVE  StockReadsStayFresh' /\ LocksAreHeld'
    <2>1. Idle.pc = "idle" /\ txn[w].pc = "checkout"
      BY <1>0, <1>2, IdleType DEF ShopTypeOK, CommitCheckout
    <2>2. SameConfirmations
      BY <1>2, <2>1, OtherRequest DEF CommitCheckout, Confirming
    <2>. QED
      BY <1>0, <1>2, <2>2, OrderStepFresh DEF CommitCheckout, ShopTypeOK
  <1>3. ASSUME NEW o \in Order, LateDecline(o) \/ PassBy(o)
        PROVE  StockReadsStayFresh' /\ LocksAreHeld'
    BY <1>0, <1>3, OrderStepFresh
    DEF LateDecline, PassBy, Deliver, CanLockOrder, ShopTypeOK, SameConfirmations
  <1>4. ASSUME NEW o \in Order, NEW st \in AdminStatus, SetOrderStatus(o, st)
        PROVE  StockReadsStayFresh' /\ LocksAreHeld'
    BY <1>0, <1>4, OrderStepFresh DEF SetOrderStatus, ShopTypeOK, SameConfirmations
  <1>5. ASSUME NEW p \in Product, NEW n \in Counts, SetStock(p, n)
        PROVE  StockReadsStayFresh' /\ LocksAreHeld'
    <2>1. ASSUME NEW w \in Worker PROVE SeesStock(w)'
      <3>1. SeesStock(w) /\ stockLock[p] # w
        BY <1>5, SeesStockOf, ShopAssumption DEF SetStock
      <3>2. \A q \in Product : stockLock[q] = w => stock'[q] = stock[q]
        BY <1>0, <1>5, <3>1 DEF SetStock, ShopTypeOK, Pieces
      <3>. QED
        BY <1>5, <3>1, <3>2 DEF SetStock, SeesStock, Confirming, Placed, Sold
    <2>2. ASSUME NEW q \in Order PROVE LockIsHeld(q)'
      BY <1>5 DEF SetStock, LocksAreHeld, LockIsHeld, Confirming
    <2>. QED
      BY <2>1, <2>2 DEF StockReadsStayFresh, SeesStock, LocksAreHeld
  <1>. QED
    BY <1>1, <1>2, <1>3, <1>4, <1>5, QuietSteps, ConfirmFresh
    DEF Next, AdminStep, Webhook, Proceed, CartOutlivesDelete, DeadlockVictim

-----------------------------------------------------------------------------
(* Captures, stock taken and payments of an order *)

(* 1 while a confirmation of order o is under way. *)
InHand(o) == IF orderLock[o] = NoWorker THEN 0 ELSE 1

Account(o) ==
    /\ taken[o] + due[o] + InHand(o) <= captured[o]
    /\ reopened[o] <= taken[o] /\ taken[o] <= reopened[o] + 1
    /\ captured[o] > 0 => o \in Placed
    /\ o \in Placed => Sold(o) # {}
    /\ order[o].status = "pending" => taken[o] = reopened[o]
    /\ order[o].payment = "succeeded" => taken[o] > 0 \/ o \in passedBy
    /\ captured[o] > 0 /\ due[o] = 0 /\ orderLock[o] = NoWorker =>
            taken[o] > 0 \/ o \in passedBy \cup failed

OrdersAccounted == \A o \in Order : Account(o)

ConfirmsCaptures == \A w \in Worker : Confirming(w) => captured[txn[w].order] > 0

PlacedSell == \A o \in Placed : Sold(o) # {}

LEMMA OrderNumbers ==
    ASSUME ShopTypeOK, NEW o \in Order
    PROVE  /\ due[o] \in Nat /\ captured[o] \in Nat /\ taken[o] \in Nat
           /\ reopened[o] \in Nat /\ InHand(o) \in {0, 1}
  BY DEF ShopTypeOK, InHand

LEMMA AccountsOf ==
    ASSUME ShopTypeOK, OrdersAccounted, ConfirmsCaptures
    PROVE  DueIsCaptured /\ PlacedSell /\ PaidIsTaken /\ DeliveredIsSettled
  <1>1. ASSUME NEW o \in Order
        PROVE  taken[o] + due[o] <= captured[o] /\ due[o] <= captured[o]
    BY <1>1, OrderNumbers DEF OrdersAccounted, Account
  <1>. QED
    BY <1>1 DEF DueIsCaptured, PlacedSell, PaidIsTaken, DeliveredIsSettled,
                OrdersAccounted, Account, ConfirmsCaptures, Placed

LEMMA SameAccount ==
    ASSUME NEW o \in Order, Account(o), order'[o] = order[o],
           orderLock'[o] = orderLock[o], due'[o] = due[o],
           captured'[o] = captured[o], taken'[o] = taken[o],
           reopened'[o] = reopened[o],
           passedBy \subseteq passedBy', failed \subseteq failed'
    PROVE  Account(o)'
  BY DEF Account, InHand, Placed, Sold

LEMMA DeclinedAccount ==
    ASSUME Typed, NEW o \in Order, Account(o), o \in Placed,
           order' = [order EXCEPT ![o].payment = "open"],
           UNCHANGED <<orderLock, due, captured, taken, reopened, passedBy, failed>>
    PROVE  \A q \in Order : Account(q) => Account(q)'
  <1>0. ShopTypeOK
    BY DEF Typed
  <1>1. order[o] \in OrderRow
    BY <1>0, PlacedRow
  <1>2. /\ order'[o].quantity = order[o].quantity
        /\ order'[o].status = order[o].status /\ order'[o].payment = "open"
    BY <1>0, <1>1 DEF ShopTypeOK, OrderRow
  <1>3. Account(o)'
    BY <1>2 DEF Account, InHand, Placed, Sold
  <1>4. ASSUME NEW q \in Order \ {o}, Account(q) PROVE Account(q)'
    BY <1>0, <1>4, SameAccount DEF ShopTypeOK
  <1>. QED
    BY <1>3, <1>4

(* An administrator sets the status; "pending" opens the order again. *)
LEMMA StatusSetAccount ==
    ASSUME Typed, NEW o \in Order, NEW st \in AdminStatus, SetOrderStatus(o, st)
    PROVE  \A q \in Order : Account(q) => Account(q)'
  <1>. USE DEF rows, history, locks, stripe
  <1>0. ShopTypeOK
    BY DEF Typed
  <1>1. /\ order[o] \in OrderRow /\ o \in Placed
        /\ order' = [order EXCEPT ![o].status = st]
        /\ reopened' = IF st = "pending" THEN [reopened EXCEPT ![o] = taken[o]]
                       ELSE reopened
        /\ UNCHANGED <<orderLock, due, captured, taken, passedBy, failed>>
    BY <1>0, PlacedRow DEF SetOrderStatus
  <1>2. /\ order'[o].quantity = order[o].quantity
        /\ order'[o].status = st /\ order'[o].payment = order[o].payment
        /\ \A q \in Order \ {o} : order'[q] = order[q]
    BY <1>0, <1>1 DEF ShopTypeOK, OrderRow
  <1>3. /\ reopened'[o] = IF st = "pending" THEN taken[o] ELSE reopened[o]
        /\ \A q \in Order \ {o} : reopened'[q] = reopened[q]
    BY <1>0, <1>1 DEF ShopTypeOK
  <1>4. ASSUME Account(o) PROVE Account(o)'
    <2>1. taken[o] \in Nat /\ reopened[o] \in Nat
      BY <1>0, OrderNumbers
    <2>2. /\ reopened'[o] <= taken[o] /\ taken[o] <= reopened'[o] + 1
          /\ st = "pending" => taken[o] = reopened'[o]
      BY <1>3, <1>4, <2>1 DEF Account
    <2>3. st # "none"
      BY ShopAssumption DEF OrderStatus
    <2>. QED
      BY <1>1, <1>2, <1>4, <2>2, <2>3 DEF Account, InHand, Placed, Sold
  <1>5. ASSUME NEW q \in Order \ {o}, Account(q) PROVE Account(q)'
    BY <1>1, <1>2, <1>3, <1>5, SameAccount
  <1>. QED
    BY <1>4, <1>5

LEMMA AccountsStep ==
    ASSUME Typed, StockReadsStayFresh, LocksAreHeld, OrdersAccounted, ConfirmsCaptures, Next
    PROVE  OrdersAccounted'
  <1>. USE DEF rows, history, locks, stripe
  <1>0. ShopTypeOK
    BY DEF Typed
  <1>1. CASE UNCHANGED <<order, orderLock, due, captured, taken, reopened, passedBy, failed>>
    BY <1>1 DEF OrdersAccounted, Account, InHand, Placed, Sold
  <1>2. /\ orderLock \in [Order -> Worker \cup {NoWorker}]
        /\ due \in [Order -> Nat] /\ captured \in [Order -> Nat]
        /\ taken \in [Order -> Nat] /\ DOMAIN order = Order
    BY <1>0 DEF ShopTypeOK
  <1>3. ASSUME NEW o \in Order, Capture(o)
        PROVE  OrdersAccounted'
    <2>1. /\ o \in Placed /\ captured'[o] = captured[o] + 1 /\ due'[o] = due[o] + 1
          /\ \A q \in Order \ {o} : captured'[q] = captured[q] /\ due'[q] = due[q]
          /\ UNCHANGED <<order, orderLock, taken, reopened, passedBy, failed>>
      BY <1>2, <1>3 DEF Capture
    <2>2. PICK i \in {0, 1} : i = InHand(o)
      BY <1>0, OrderNumbers
    <2>3. /\ taken'[o] + due'[o] + InHand(o)' <= captured'[o]
          /\ captured'[o] > 0 /\ due'[o] # 0
      <3>1. taken[o] + due[o] + i <= captured[o] /\ InHand(o)' = i
        BY <2>1, <2>2 DEF OrdersAccounted, Account, InHand
      <3>. QED
        BY <1>0, <2>1, <3>1, OrderNumbers
    <2>5. Account(o)'
      BY <2>1, <2>3 DEF OrdersAccounted, Account, InHand, Placed, Sold
    <2>4. ASSUME NEW q \in Order \ {o} PROVE Account(q)'
      BY <2>1, SameAccount DEF OrdersAccounted
    <2>. QED
      BY <2>4, <2>5 DEF OrdersAccounted
  <1>4. ASSUME NEW o \in Order, Deliver(o)
        PROVE  /\ o \in Placed /\ captured[o] > 0 /\ orderLock[o] = NoWorker
               /\ taken[o] + due'[o] + 1 <= captured[o]
               /\ taken[o] + due'[o] + 0 <= captured[o]
               /\ \A q \in Order \ {o} : due'[q] = due[q]
    <2>1. /\ due[o] > 0 /\ orderLock[o] = NoWorker /\ due'[o] = due[o] - 1
          /\ \A q \in Order \ {o} : due'[q] = due[q]
      BY <1>2, <1>4 DEF Deliver, CanLockOrder
    <2>2. InHand(o) = 0
      BY <2>1 DEF InHand
    <2>3. taken[o] + due[o] + 0 <= captured[o]
      BY <2>2 DEF OrdersAccounted, Account
    <2>4. /\ captured[o] > 0 /\ taken[o] + due'[o] + 1 <= captured[o]
          /\ taken[o] + due'[o] + 0 <= captured[o]
      BY <1>0, <2>1, <2>3, OrderNumbers
    <2>. QED
      BY <2>1, <2>4 DEF OrdersAccounted, Account
  <1>5. ASSUME NEW o \in Order, SkipPaid(o)
        PROVE  OrdersAccounted'
    <2>1. Deliver(o) /\ order[o].payment = "succeeded"
          /\ UNCHANGED <<order, orderLock, captured, taken, reopened, passedBy, failed>>
      BY <1>5 DEF SkipPaid
    <2>2. Account(o)'
      BY <1>4, <2>1 DEF OrdersAccounted, Account, InHand, Placed, Sold
    <2>3. ASSUME NEW q \in Order \ {o} PROVE Account(q)'
      BY <1>4, <2>1, SameAccount DEF OrdersAccounted
    <2>. QED
      BY <2>2, <2>3 DEF OrdersAccounted
  <1>6. ASSUME NEW o \in Order, PassBy(o)
        PROVE  OrdersAccounted'
    <2>1. /\ Deliver(o) /\ order' = [order EXCEPT ![o].payment = "succeeded"]
          /\ passedBy' = passedBy \cup {o}
          /\ UNCHANGED <<orderLock, captured, taken, reopened, failed>>
      BY <1>6 DEF PassBy
    <2>2. order[o] \in OrderRow
      BY <1>0, <1>4, <2>1, PlacedRow
    <2>3. /\ order'[o].status = order[o].status
          /\ order'[o].quantity = order[o].quantity
      BY <1>2, <2>1, <2>2 DEF OrderRow
    <2>4. Account(o)'
      BY <1>4, <2>1, <2>3 DEF OrdersAccounted, Account, InHand, Placed, Sold
    <2>5. ASSUME NEW q \in Order \ {o} PROVE Account(q)'
      <3>1. order'[q] = order[q]
        BY <1>2, <2>1
      <3>. QED
        BY <1>4, <2>1, <3>1, SameAccount DEF OrdersAccounted
    <2>. QED
      BY <2>4, <2>5 DEF OrdersAccounted
  <1>7. ASSUME NEW o \in Order, LateDecline(o)
        PROVE  OrdersAccounted'
    <2>1. o \in Placed
      <3>1. order[o] # NoRow
        BY <1>7 DEF LateDecline, NoRow
      <3>2. order[o] \in OrderRow
        BY <1>0, <3>1 DEF ShopTypeOK
      <3>. QED
        BY <3>2 DEF Placed, OrderRow, OrderStatus
    <2>. QED
      BY <1>7, <2>1, DeclinedAccount DEF LateDecline, OrdersAccounted
  <1>8. ASSUME NEW o \in Order, NEW st \in AdminStatus, SetOrderStatus(o, st)
        PROVE  OrdersAccounted'
    BY <1>8, StatusSetAccount DEF OrdersAccounted
  <1>9. ASSUME NEW w \in Worker, NEW o \in Order, CommitCheckout(w, o)
        PROVE  OrdersAccounted'
    <2>1. /\ o \notin Placed /\ txn[w].pc = "checkout"
          /\ order' = [order EXCEPT ![o] =
                        [status |-> "pending", user |-> txn[w].user,
                         quantity |-> txn[w].cart.quantity,
                         lines |-> txn[w].cart.lines, promo |-> txn[w].cart.promo,
                         key |-> txn[w].key, payment |-> "open"]]
          /\ UNCHANGED <<orderLock, due, captured, taken, reopened, passedBy, failed>>
      BY <1>9 DEF CommitCheckout
    <2>2. InCart(txn[w].cart) # {}
      BY <2>1 DEF Typed, Work, WorkOf
    <2>3. captured[o] = 0 /\ taken[o] = reopened[o]
      <3>1. captured[o] = 0 /\ taken[o] + due[o] + InHand(o) <= captured[o]
            /\ reopened[o] <= taken[o]
        BY <1>2, <2>1 DEF OrdersAccounted, Account
      <3>. QED
        BY <1>0, <3>1, OrderNumbers
    <2>4. /\ order'[o].status = "pending" /\ order'[o].payment = "open"
          /\ order'[o].quantity = txn[w].cart.quantity
      BY <1>2, <2>1
    <2>5. Account(o)'
      BY <2>1, <2>2, <2>3, <2>4 DEF OrdersAccounted, Account, InHand, Placed, Sold, InCart
    <2>6. ASSUME NEW q \in Order \ {o} PROVE Account(q)'
      <3>1. order'[q] = order[q]
        BY <1>2, <2>1
      <3>. QED
        BY <2>1, <3>1, SameAccount DEF OrdersAccounted
    <2>. QED
      BY <2>5, <2>6 DEF OrdersAccounted
  <1>10. ASSUME NEW w \in Worker, NEW o \in Order, BeginConfirm(w, o)
         PROVE  OrdersAccounted'
    <2>1. /\ Deliver(o) /\ orderLock' = [orderLock EXCEPT ![o] = w]
          /\ UNCHANGED <<order, captured, taken, reopened, passedBy, failed>>
      BY <1>10 DEF BeginConfirm
    <2>4. orderLock'[o] = w /\ w # NoWorker
      BY <1>2, <2>1, ShopAssumption
    <2>2. Account(o)'
      BY <1>4, <2>1, <2>4 DEF OrdersAccounted, Account, InHand, Placed, Sold
    <2>3. ASSUME NEW q \in Order \ {o} PROVE Account(q)'
      <3>1. orderLock'[q] = orderLock[q]
        BY <1>2, <2>1
      <3>. QED
        BY <1>4, <2>1, <3>1, SameAccount DEF OrdersAccounted
    <2>. QED
      BY <2>2, <2>3 DEF OrdersAccounted
  <1>11. ASSUME NEW w \in Worker, CommitConfirm(w)
         PROVE  OrdersAccounted'
    <2>. PICK o : o = txn[w].order
      OBVIOUS
    <2>1. /\ Confirming(w) /\ SeesStock(w) /\ Unlock(w)
          /\ order' = [order EXCEPT ![o].status = "paid", ![o].payment = "succeeded"]
          /\ taken' = [taken EXCEPT ![o] = taken[o] + 1]
          /\ UNCHANGED <<due, captured, reopened, passedBy, failed>>
      BY <1>11, SeesStockOf DEF CommitConfirm, Confirming
    <2>2. /\ o \in Placed /\ o \in Order /\ order[o].status = "pending"
          /\ captured[o] > 0 /\ orderLock[o] = w
      BY <2>1 DEF SeesStock, ConfirmsCaptures, Placed
    <2>3. order[o] \in OrderRow
      BY <1>0, <2>2, PlacedRow
    <2>4. /\ order'[o].status = "paid" /\ order'[o].payment = "succeeded"
          /\ order'[o].quantity = order[o].quantity /\ taken'[o] = taken[o] + 1
      <3>1. order'[o] = [order[o] EXCEPT !.status = "paid", !.payment = "succeeded"]
        BY <1>2, <2>1, <2>2
      <3>2. taken'[o] = taken[o] + 1
        BY <1>2, <2>1, <2>2
      <3>. QED
        BY <2>3, <3>1, <3>2 DEF OrderRow
    <2>5. Account(o)'
      <3>1. taken[o] + due[o] + 1 <= captured[o] /\ taken[o] = reopened[o] /\ Sold(o) # {}
        <4>1. InHand(o) = 1
          BY <2>2, ShopAssumption DEF InHand
        <4>. QED
          BY <2>2, <4>1 DEF OrdersAccounted, Account
      <3>2. Sold(o)' # {} /\ (o \in Placed)'
        BY <2>2, <2>4, <3>1 DEF Sold, Placed
      <3>3. InHand(o)' = 0
        BY <1>2, <2>1, <2>2 DEF Unlock, InHand
      <3>4. taken'[o] + due'[o] + 0 <= captured'[o] /\ taken'[o] > 0
            /\ reopened'[o] <= taken'[o] /\ taken'[o] <= reopened'[o] + 1
        BY <1>0, <2>1, <2>2, <2>4, <3>1, OrderNumbers
      <3>. QED
        BY <2>4, <3>2, <3>3, <3>4 DEF Account
    <2>6. ASSUME NEW q \in Order \ {o} PROVE Account(q)'
      <3>1. order'[q] = order[q] /\ taken'[q] = taken[q]
        BY <1>2, <2>1, <2>2
      <3>2. orderLock[q] # w
        BY <2>6 DEF LocksAreHeld, LockIsHeld
      <3>3. orderLock'[q] = orderLock[q]
        BY <2>1, <3>2 DEF Unlock
      <3>. QED
        BY <2>1, <3>1, <3>3, SameAccount DEF OrdersAccounted
    <2>. QED
      BY <2>2, <2>5, <2>6 DEF OrdersAccounted
  <1>12. ASSUME NEW w \in Worker, FailConfirm(w)
         PROVE  OrdersAccounted'
    <2>. PICK o : o = txn[w].order
      OBVIOUS
    <2>1. /\ Unlock(w) /\ failed' = failed \cup {o}
          /\ UNCHANGED <<order, taken, reopened, due, captured, passedBy>>
      BY <1>12 DEF FailConfirm
    <2>2. ASSUME NEW q \in Order, q # o PROVE Account(q)'
      <3>1. orderLock[q] # w
        BY <2>2 DEF LocksAreHeld, LockIsHeld
      <3>2. orderLock'[q] = orderLock[q]
        BY <2>1, <2>2, <3>1 DEF Unlock
      <3>. QED
        BY <2>1, <2>2, <3>2, SameAccount DEF OrdersAccounted
    <2>3. ASSUME o \in Order PROVE Account(o)'
      <3>1. orderLock'[o] = orderLock[o] \/ orderLock'[o] = NoWorker
        BY <2>1, <2>3 DEF Unlock
      <3>2. InHand(o)' = InHand(o) \/ InHand(o)' = 0
        BY <3>1 DEF InHand
      <3>3. taken[o] + due[o] + InHand(o) <= captured[o]
        BY <2>3 DEF OrdersAccounted, Account
      <3>4. taken[o] + due[o] + InHand(o)' <= captured[o]
        BY <1>0, <2>3, <3>2, <3>3, OrderNumbers
      <3>. QED
        BY <2>1, <2>3, <3>4 DEF OrdersAccounted, Account, Placed, Sold
    <2>. QED
      BY <2>2, <2>3 DEF OrdersAccounted
  <1>13. CASE AdminStep
    BY <1>1, <1>8, <1>13 DEF AdminStep, SetStock
  <1>14. CASE CartStep
    BY <1>1, <1>14 DEF CartStep, ApplyPromo, RemoveItem, SetQuantity
  <1>15. ASSUME NEW w \in Worker,
                \/ Begin(w) \/ CommitInsert(w) \/ CommitUpdate(w) \/ UpdateNothing(w)
                \/ \E p \in Product : LockProduct(w, p)
                \/ BeginClear(w) \/ CommitPatch(w) \/ Abort(w)
         PROVE  OrdersAccounted'
    BY <1>1, <1>15
    DEF Begin, BeginPatch, BeginAdd, BeginCheckout, CommitInsert, CommitUpdate,
        UpdateNothing, LockProduct, BeginClear, CommitPatch, Abort
  <1>. QED
    BY <1>3, <1>5, <1>6, <1>7, <1>9, <1>10, <1>11, <1>12, <1>13, <1>14, <1>15
    DEF Next, Webhook, Proceed, CartOutlivesDelete, DeadlockVictim

LEMMA ConfirmsCapturesStep ==
    ASSUME Typed, OrdersAccounted, ConfirmsCaptures, Next
    PROVE  ConfirmsCaptures'
  <1>. USE DEF rows, history, locks, stripe
  <1>0. ShopTypeOK
    BY DEF Typed
  <1>1. /\ due \in [Order -> Nat] /\ captured \in [Order -> Nat]
        /\ txn \in [Worker -> Txn] /\ Idle.pc = "idle" /\ Idle \in Txn
    BY <1>0, IdleType DEF ShopTypeOK
  <1>2. ASSUME SameConfirmations, UNCHANGED captured
        PROVE  ConfirmsCaptures'
    BY <1>2 DEF ConfirmsCaptures, SameConfirmations, Confirming
  <1>3. ASSUME NEW o \in Order, Capture(o)
        PROVE  ConfirmsCaptures'
    <2>1. \A w \in Worker : Confirming(w) => txn[w].order \in Order
      BY DEF Typed, Work, WorkOf, Confirming
    <2>. QED
      BY <1>1, <1>3, <2>1 DEF Capture, ConfirmsCaptures, Confirming
  <1>4. ASSUME NEW w \in Worker, NEW o \in Order, BeginConfirm(w, o)
        PROVE  ConfirmsCaptures'
    <2>1. captured[o] > 0
      <3>1. due[o] > 0 /\ taken[o] + due[o] + InHand(o) <= captured[o]
        BY <1>4 DEF BeginConfirm, Deliver, OrdersAccounted, Account
      <3>. QED
        BY <1>0, <3>1, OrderNumbers
    <2>2. /\ \A x \in Worker \ {w} : txn'[x] = txn[x]
          /\ txn'[w].order = o /\ UNCHANGED captured
      BY <1>1, <1>4 DEF BeginConfirm, Txn
    <2>. QED
      BY <2>1, <2>2 DEF ConfirmsCaptures, Confirming
  <1>5. ASSUME NEW w \in Worker, NEW p \in Product, LockProduct(w, p)
        PROVE  ConfirmsCaptures'
    <2>1. /\ \A x \in Worker \ {w} : txn'[x] = txn[x]
          /\ txn'[w].order = txn[w].order /\ Confirming(w) /\ UNCHANGED captured
      BY <1>1, <1>5 DEF LockProduct, Txn, Confirming
    <2>. QED
      BY <2>1 DEF ConfirmsCaptures, Confirming
  <1>6. ASSUME NEW w \in Worker, BeginClear(w)
        PROVE  ConfirmsCaptures'
    <2>1. /\ \A x \in Worker \ {w} : txn'[x] = txn[x]
          /\ txn'[w].order = txn[w].order /\ Confirming(w) /\ UNCHANGED captured
      BY <1>1, <1>6 DEF BeginClear, Txn, Confirming
    <2>. QED
      BY <2>1 DEF ConfirmsCaptures, Confirming
  <1>7. ASSUME NEW w \in Worker, CommitConfirm(w)
        PROVE  ConfirmsCaptures'
    <2>1. ASSUME NEW x \in Worker, Confirming(x)'
          PROVE  txn'[x] = txn[x]
      <3>1. txn'[x] = IF x = w THEN Idle
                      ELSE IF txn[w].cart.exists /\ x \in Orphaned(txn[w].user, Product)
                           THEN [txn[x] EXCEPT !.pc = "gone"] ELSE txn[x]
        BY <1>7 DEF CommitConfirm
      <3>2. txn[x] \in Txn /\ txn'[x].pc \in {"confirm", "clear"}
        BY <1>1, <2>1 DEF Confirming
      <3>3. [txn[x] EXCEPT !.pc = "gone"].pc = "gone"
        BY <3>2 DEF Txn
      <3>. QED
        BY <1>1, <3>1, <3>2, <3>3
    <2>. QED
      BY <1>7, <2>1 DEF CommitConfirm, ConfirmsCaptures, Confirming
  <1>8. ASSUME NEW w \in Worker, FailConfirm(w)
        PROVE  ConfirmsCaptures'
    BY <1>1, <1>8 DEF FailConfirm, ConfirmsCaptures, Confirming
  <1>9. ASSUME NEW w \in Worker, NEW o \in Order, CommitCheckout(w, o)
        PROVE  ConfirmsCaptures'
    BY <1>1, <1>9 DEF CommitCheckout, ConfirmsCaptures, Confirming
  <1>10. ASSUME NEW o \in Order, LateDecline(o) \/ PassBy(o)
         PROVE  ConfirmsCaptures'
    BY <1>10 DEF LateDecline, PassBy, ConfirmsCaptures, Confirming
  <1>11. CASE AdminStep
    BY <1>11 DEF AdminStep, SetStock, SetOrderStatus, ConfirmsCaptures, Confirming
  <1>12. ASSUME Quiet, UNCHANGED captured
         PROVE  ConfirmsCaptures'
    BY <1>2, <1>12 DEF Quiet
  <1>13. CASE CartStep
    BY <1>12, <1>13, QuietSteps DEF CartStep, ApplyPromo, RemoveItem, SetQuantity
  <1>14. ASSUME NEW o \in Order, SkipPaid(o)
         PROVE  ConfirmsCaptures'
    BY <1>12, <1>14, QuietSteps DEF SkipPaid
  <1>15. ASSUME NEW w \in Worker,
                \/ Begin(w) \/ CommitInsert(w) \/ CommitUpdate(w) \/ UpdateNothing(w)
                \/ CommitPatch(w) \/ Abort(w)
         PROVE  ConfirmsCaptures'
    <2>1. UNCHANGED captured
      BY <1>15
      DEF Begin, BeginPatch, BeginAdd, BeginCheckout, CommitInsert, CommitUpdate,
          UpdateNothing, CommitPatch, Abort
    <2>. QED
      BY <1>12, <1>15, <2>1, QuietSteps
  <1>. QED
    BY <1>3, <1>4, <1>5, <1>6, <1>7, <1>8, <1>9, <1>10, <1>11, <1>13, <1>14, <1>15
    DEF Next, Webhook, Proceed, CartOutlivesDelete, DeadlockVictim

-----------------------------------------------------------------------------
(* Uses of the promo code *)

WithPromo == {o \in Order : order[o].promo}

LEMMA SamePromos ==
    ASSUME PromoAccounted, UNCHANGED <<used, overwritten>>,
           \A o \in Order : order'[o].promo = order[o].promo
    PROVE  PromoAccounted'
  <1>1. WithPromo' = WithPromo
    BY DEF WithPromo
  <1>. QED
    BY <1>1 DEF PromoAccounted, WithPromo

LEMMA PromoStep ==
    ASSUME Typed, StockReadsStayFresh, DueIsCaptured, PromoAccounted, Next
    PROVE  PromoAccounted'
  <1>. USE DEF rows, history, locks, stripe
  <1>0. ShopTypeOK
    BY DEF Typed
  <1>1. /\ order \in [Order -> OrderRow \cup {NoRow}] /\ used \in Nat
        /\ overwritten \in Int /\ txn \in [Worker -> Txn]
    BY <1>0 DEF ShopTypeOK
  <1>2. CASE UNCHANGED <<order, used, overwritten>>
    BY <1>2, SamePromos
  <1>3. ASSUME NEW w \in Worker, NEW o \in Order, CommitCheckout(w, o)
        PROVE  PromoAccounted'
    <2>1. /\ order[o].status = "none"
          /\ order' = [order EXCEPT ![o] =
                        [status |-> "pending", user |-> txn[w].user,
                         quantity |-> txn[w].cart.quantity,
                         lines |-> txn[w].cart.lines, promo |-> txn[w].cart.promo,
                         key |-> txn[w].key, payment |-> "open"]]
          /\ used' = IF txn[w].cart.promo THEN used + 1 ELSE used
          /\ overwritten' = overwritten
      BY <1>3 DEF CommitCheckout, Placed, OneMoreUse
    <2>2. ~order[o].promo
      BY <1>1, <2>1 DEF OrderRow, OrderStatus, NoRow
    <2>3. /\ order'[o].promo = txn[w].cart.promo
          /\ \A q \in Order \ {o} : order'[q].promo = order[q].promo
      BY <1>1, <2>1
    <2>4. IsFiniteSet(WithPromo) /\ o \notin WithPromo
      BY <2>2, ShopAssumption, FS_Subset DEF WithPromo
    <2>5. Cardinality(WithPromo) \in Nat
          /\ used + overwritten = Cardinality(WithPromo)
      BY <2>4, FS_CardinalityType DEF PromoAccounted, WithPromo
    <2>6. CASE txn[w].cart.promo
      <3>1. WithPromo' = WithPromo \cup {o}
        BY <2>3, <2>6 DEF WithPromo
      <3>2. Cardinality(WithPromo') = Cardinality(WithPromo) + 1
        BY <2>4, <3>1, FS_AddElement
      <3>3. used' + overwritten' = Cardinality(WithPromo')
        BY <1>1, <2>1, <2>5, <2>6, <3>2
      <3>. QED
        BY <3>3 DEF PromoAccounted, WithPromo
    <2>7. CASE ~txn[w].cart.promo
      <3>1. WithPromo' = WithPromo
        BY <2>2, <2>3, <2>7 DEF WithPromo
      <3>. QED
        BY <2>1, <2>7, <3>1 DEF PromoAccounted, WithPromo
    <2>. QED
      BY <2>6, <2>7
  <1>4. ASSUME NEW w \in Worker, CommitPatch(w)
        PROVE  PromoAccounted'
    <2>1. /\ used' = txn[w].seen /\ overwritten' = overwritten + (used - txn[w].seen)
          /\ txn[w].seen \in Nat /\ order' = order
      BY <1>1, <1>4 DEF CommitPatch, Txn
    <2>2. used' + overwritten' = used + overwritten
      BY <1>1, <2>1
    <2>. QED
      BY <2>1, <2>2 DEF PromoAccounted
  <1>5. ASSUME NEW o \in Order, LateDecline(o) \/ PassBy(o)
        PROVE  PromoAccounted'
    <2>1. /\ UNCHANGED <<used, overwritten>>
          /\ \E py : order' = [order EXCEPT ![o].payment = py]
      BY <1>5 DEF LateDecline, PassBy
    <2>2. order[o] # NoRow
      <3>1. CASE LateDecline(o)
        BY <3>1 DEF LateDecline, NoRow
      <3>2. CASE PassBy(o)
        BY <1>0, <3>2, DueOrder, PlacedRow DEF PassBy
      <3>. QED
        BY <1>5, <3>1, <3>2
    <2>3. order[o] \in OrderRow
      BY <1>1, <2>2
    <2>4. \A q \in Order : order'[q].promo = order[q].promo
      BY <1>1, <2>1, <2>3 DEF OrderRow
    <2>. QED
      BY <2>1, <2>4, SamePromos
  <1>6. ASSUME NEW o \in Order, NEW st \in AdminStatus, SetOrderStatus(o, st)
        PROVE  PromoAccounted'
    <2>1. /\ UNCHANGED <<used, overwritten>> /\ o \in Placed
          /\ order' = [order EXCEPT ![o].status = st]
      BY <1>6 DEF SetOrderStatus
    <2>2. order[o] \in OrderRow
      BY <1>0, <2>1, PlacedRow
    <2>3. \A q \in Order : order'[q].promo = order[q].promo
      BY <1>1, <2>1, <2>2 DEF OrderRow
    <2>. QED
      BY <2>1, <2>3, SamePromos
  <1>7. ASSUME NEW w \in Worker, CommitConfirm(w)
        PROVE  PromoAccounted'
    <2>. PICK o : o = txn[w].order
      OBVIOUS
    <2>1. /\ UNCHANGED <<used, overwritten>> /\ o \in Placed
          /\ order' = [order EXCEPT ![o].status = "paid", ![o].payment = "succeeded"]
      BY <1>7 DEF CommitConfirm, StockReadsStayFresh, Confirming
    <2>2. order[o] \in OrderRow /\ o \in Order
      BY <1>0, <2>1, PlacedRow
    <2>3. order'[o] = [order[o] EXCEPT !.status = "paid", !.payment = "succeeded"]
      BY <1>1, <2>1, <2>2
    <2>4. order'[o].promo = order[o].promo
      BY <2>2, <2>3 DEF OrderRow
    <2>5. \A q \in Order : order'[q].promo = order[q].promo
      BY <1>1, <2>1, <2>4
    <2>. QED
      BY <2>1, <2>5, SamePromos
  <1>8. CASE AdminStep
    BY <1>2, <1>6, <1>8 DEF AdminStep, SetStock
  <1>9. CASE CartStep
    BY <1>2, <1>9 DEF CartStep, ApplyPromo, RemoveItem, SetQuantity
  <1>10. ASSUME NEW o \in Order,
                \/ Capture(o) \/ SkipPaid(o)
                \/ \E w \in Worker : BeginConfirm(w, o)
         PROVE  PromoAccounted'
    BY <1>2, <1>10 DEF Capture, SkipPaid, BeginConfirm
  <1>11. ASSUME NEW w \in Worker,
                \/ Begin(w) \/ CommitInsert(w) \/ CommitUpdate(w) \/ UpdateNothing(w)
                \/ \E p \in Product : LockProduct(w, p)
                \/ BeginClear(w) \/ FailConfirm(w) \/ Abort(w)
         PROVE  PromoAccounted'
    BY <1>2, <1>11
    DEF Begin, BeginPatch, BeginAdd, BeginCheckout, CommitInsert, CommitUpdate,
        UpdateNothing, LockProduct, BeginClear, FailConfirm, Abort
  <1>. QED
    BY <1>3, <1>4, <1>5, <1>7, <1>8, <1>9, <1>10, <1>11
    DEF Next, Webhook, Proceed, CartOutlivesDelete, DeadlockVictim

-----------------------------------------------------------------------------
(* The invariant *)

ShopInv ==
    /\ Typed
    /\ StockReadsStayFresh /\ LocksAreHeld
    /\ OrdersAccounted /\ ConfirmsCaptures
    /\ PromoAccounted

LEMMA Accounted == ShopInv => DueIsCaptured /\ PlacedSell /\ PaidIsTaken /\ DeliveredIsSettled
  BY AccountsOf DEF ShopInv, Typed

LEMMA ShopInvInit == Init => ShopInv
  <1>. SUFFICES ASSUME Init PROVE ShopInv
    OBVIOUS
  <1>1. \A w \in Worker : ~Confirming(w)
    BY DEF Init, Idle, Confirming
  <1>2. StockReadsStayFresh /\ LocksAreHeld
    BY <1>1, ShopAssumption DEF Init, StockReadsStayFresh, LocksAreHeld, LockIsHeld
  <1>3. OrdersAccounted /\ ConfirmsCaptures
    <2>1. ASSUME NEW o \in Order PROVE Account(o)
      <3>1. /\ due[o] = 0 /\ captured[o] = 0 /\ taken[o] = 0 /\ reopened[o] = 0
            /\ order[o] = NoRow /\ InHand(o) = 0
        BY DEF Init, InHand
      <3>2. NoRow.status = "none" /\ NoRow.payment = "none"
        BY DEF NoRow
      <3>. QED
        BY <3>1, <3>2 DEF Account, Placed
    <2>. QED
      BY <1>1, <2>1 DEF OrdersAccounted, ConfirmsCaptures
  <1>4. WithPromo = {}
    BY DEF Init, NoRow, WithPromo
  <1>5. PromoAccounted
    <2>1. used = 0 /\ overwritten = 0
      BY DEF Init
    <2>2. Cardinality(WithPromo) = 0
      BY <1>4, FS_EmptySet
    <2>. QED
      BY <2>1, <2>2 DEF PromoAccounted, WithPromo
  <1>. QED
    BY <1>2, <1>3, <1>5, InitTyped DEF ShopInv

LEMMA StepTyped ==
    ASSUME ShopInv, Next
    PROVE  Typed'
  <1>. USE Accounted DEF ShopInv
  <1>1. CASE CartStep
    BY <1>1, CartStepTyped DEF CartStep
  <1>2. ASSUME NEW w \in Worker, Begin(w)
        PROVE  Typed'
    BY <1>2, AddStepTyped, CheckoutTyped, AdminStepTyped DEF Begin
  <1>3. ASSUME NEW w \in Worker, CommitInsert(w) \/ CommitUpdate(w) \/ UpdateNothing(w)
        PROVE  Typed'
    BY <1>3, AddStepTyped
  <1>4. ASSUME NEW w \in Worker, NEW o \in Order, CommitCheckout(w, o)
        PROVE  Typed'
    BY <1>4, CheckoutTyped
  <1>5. ASSUME NEW w \in Worker,
               \/ \E o \in Order : BeginConfirm(w, o)
               \/ \E p \in Product : LockProduct(w, p)
               \/ BeginClear(w) \/ CommitConfirm(w) \/ FailConfirm(w)
        PROVE  Typed'
    BY <1>5, ConfirmTyped
  <1>6. ASSUME NEW w \in Worker, CommitPatch(w) \/ Abort(w)
        PROVE  Typed'
    BY <1>6, AdminStepTyped
  <1>7. CASE AdminStep
    BY <1>7, AdminStepTyped
  <1>8. ASSUME NEW o \in Order, Capture(o) \/ LateDecline(o) \/ SkipPaid(o) \/ PassBy(o)
        PROVE  Typed'
    BY <1>8, PaymentStepTyped
  <1>. QED
    BY <1>1, <1>2, <1>3, <1>4, <1>5, <1>6, <1>7, <1>8
    DEF Next, Proceed, Webhook, CartOutlivesDelete, DeadlockVictim

LEMMA ShopInvStep == ShopInv /\ [Next]_vars => ShopInv'
  <1>1. ASSUME ShopInv, Next
        PROVE  ShopInv'
    <2>1. OrdersAccounted' /\ ConfirmsCaptures'
      BY <1>1, AccountsStep, ConfirmsCapturesStep DEF ShopInv
    <2>2. Typed' /\ StockReadsStayFresh' /\ LocksAreHeld' /\ PromoAccounted'
      BY <1>1, Accounted, StepTyped, StepStockFresh, PromoStep DEF ShopInv
    <2>. QED
      BY <2>1, <2>2 DEF ShopInv
  <1>2. ASSUME ShopInv, UNCHANGED vars
        PROVE  ShopInv'
    <2>. USE <1>2 DEF vars, rows, history, locks, stripe
    <2>1. Typed'
      BY DEF ShopInv, Typed, ShopTypeOK, Work
    <2>2. StockReadsStayFresh' /\ LocksAreHeld'
      BY QuietFresh DEF ShopInv, Quiet, SameConfirmations
    <2>3. OrdersAccounted' /\ ConfirmsCaptures'
      BY DEF ShopInv, OrdersAccounted, ConfirmsCaptures, Account, InHand,
             Placed, Sold, Confirming
    <2>4. PromoAccounted'
      BY SamePromos DEF ShopInv
    <2>. QED
      BY <2>1, <2>2, <2>3, <2>4 DEF ShopInv
  <1>. QED
    BY <1>1, <1>2

LEMMA ShopInvariant == Spec => []ShopInv
  BY ShopInvInit, ShopInvStep, PTL DEF Spec

-----------------------------------------------------------------------------
(* Theorems *)

(* Rows and requests stay well-formed: stock, used_count and the quantities of
   carts and orders, PositiveIntegerField columns, never go below zero. *)
THEOREM ShopTypeCorrect == Spec => []ShopTypeOK
  BY ShopInvariant, PTL DEF ShopInv, Typed

(* What confirm_order_payment read of its order and of the products it has
   locked is what the rows hold when it writes, for any number of handlers,
   declines and administrators. *)
THEOREM FreshStock == Spec => []StockReadsStayFresh
  BY ShopInvariant, PTL DEF ShopInv

(* Every taking of an order's stock has used up a capture of its own; until an
   administrator sets the order back to pending there is at most one; and a
   succeeded payment has had its stock taken unless the order was not pending
   when the webhook came.  An administrator may set any status. *)
THEOREM PaidTakenOnce == Spec => []PaidIsTaken
  BY ShopInvariant, Accounted, PTL

(* Every use of the promo code is counted or was written over by a patch. *)
THEOREM PromoUses == Spec => []PromoAccounted
  BY ShopInvariant, PTL DEF ShopInv

(* A captured order whose webhooks have all been answered was settled, was
   not pending any more, or a handler of it failed. *)
THEOREM NoneForgotten == Spec => []DeliveredIsSettled
  BY ShopInvariant, Accounted, PTL

-----------------------------------------------------------------------------
(* The shop implements the ledger of its stock *)

Basket == [o \in Order |-> order[o].quantity]

Drawn == {o \in Order : taken[o] > reopened[o]}

LEMMA SameBaskets ==
    ASSUME \A o \in Order : order'[o].quantity = order[o].quantity
    PROVE  UNCHANGED Basket
  BY DEF Basket

LEMMA InitLedger == Init => Ledger!Init
  BY DEF Init, Ledger!Init, Ledger!Nothing, NoRow, NoPieces

LEMMA StockStutters ==
    ASSUME UNCHANGED <<stock, taken, reopened>>,
           \A o \in Order : order'[o].quantity = order[o].quantity
    PROVE  UNCHANGED Ledger!vars
  BY DEF Ledger!vars

(* An order is placed. *)
LEMMA CheckoutPlaces ==
    ASSUME ShopInv, NEW w \in Worker, NEW o \in Order, CommitCheckout(w, o)
    PROVE  Ledger!Place(o)
  <1>. USE DEF ShopInv, rows, history, locks, stripe
  <1>0. ShopTypeOK
    BY DEF Typed
  <1>1. /\ o \notin Placed /\ order[o] = NoRow
        /\ order' = [order EXCEPT ![o] =
                        [status |-> "pending", user |-> txn[w].user,
                         quantity |-> txn[w].cart.quantity,
                         lines |-> txn[w].cart.lines, promo |-> txn[w].cart.promo,
                         key |-> txn[w].key, payment |-> "open"]]
        /\ UNCHANGED <<stock, taken, reopened>>
    BY <1>0 DEF CommitCheckout, Placed, ShopTypeOK, OrderRow, OrderStatus
  <1>2. o \notin Drawn
    <2>1. captured[o] = 0 /\ taken[o] + due[o] + InHand(o) <= captured[o]
      BY <1>0, <1>1, OrderNumbers DEF OrdersAccounted, Account
    <2>. QED
      BY <1>0, <2>1, OrderNumbers DEF Drawn
  <1>3. txn[w].cart.quantity \in [Product -> Nat]
    BY <1>0 DEF ShopTypeOK, Txn, CartRow, Pieces
  <1>4. Basket[o] = NoPieces /\ Basket'[o] = txn[w].cart.quantity
    BY <1>0, <1>1 DEF Basket, NoRow, ShopTypeOK
  <1>5. Basket' = [Basket EXCEPT ![o] = Basket'[o]]
    BY <1>0, <1>1 DEF Basket, ShopTypeOK
  <1>. QED
    BY <1>1, <1>2, <1>3, <1>4, <1>5
    DEF Ledger!Place, Ledger!Nothing, NoPieces, Basket, Drawn

(* A confirmation draws all the order's pieces. *)
LEMMA ConfirmDraws ==
    ASSUME ShopInv, NEW w \in Worker, CommitConfirm(w)
    PROVE  \E o \in Order : Ledger!Draw(o)
  <1>. USE Accounted DEF ShopInv
  <1>0. ShopTypeOK
    BY DEF Typed
  <1>. PICK o : o = txn[w].order
    OBVIOUS
  <1>1. /\ SeesStock(w) /\ Confirming(w) /\ txn[w].pc = "clear"
        /\ order' = [order EXCEPT ![o].status = "paid", ![o].payment = "succeeded"]
        /\ taken' = [taken EXCEPT ![o] = taken[o] + 1]
        /\ stock' = [p \in Product |->
                        IF p \in Tracked \cap Sold(o)
                        THEN Draw(txn[w].stock[p], order[o].quantity[p])
                        ELSE stock[p]]
        /\ UNCHANGED reopened
    BY SeesStockOf DEF CommitConfirm, Confirming
  <1>2. /\ o \in Placed /\ order[o].status = "pending"
        /\ \A p \in Sold(o) : txn[w].stock[p] = stock[p]
    BY <1>1 DEF SeesStock
  <1>3. o \in Order /\ order[o] \in OrderRow
    BY <1>0, <1>2, PlacedRow
  <1>4. taken[o] \in Nat /\ taken[o] = reopened[o]
    BY <1>0, <1>2, <1>3, OrderNumbers DEF PaidIsTaken
  <1>5. Drawn' = Drawn \cup {o} /\ o \notin Drawn
    <2>1. taken'[o] = taken[o] + 1 /\ \A q \in Order \ {o} : taken'[q] = taken[q]
      BY <1>0, <1>1, <1>3 DEF ShopTypeOK
    <2>2. taken'[o] > reopened[o] /\ ~(taken[o] > reopened[o])
      BY <1>4, <2>1
    <2>. QED
      BY <1>1, <1>3, <2>1, <2>2 DEF Drawn
  <1>6. Basket' = Basket
    <2>1. order'[o] = [order[o] EXCEPT !.status = "paid", !.payment = "succeeded"]
      BY <1>0, <1>1, <1>3 DEF ShopTypeOK
    <2>2. order'[o].quantity = order[o].quantity
      BY <1>3, <2>1 DEF OrderRow
    <2>3. \A q \in Order : order'[q].quantity = order[q].quantity
      BY <1>0, <1>1, <2>2 DEF ShopTypeOK
    <2>. QED
      BY <2>3 DEF Basket
  <1>7. order[o].quantity # NoPieces
    BY <1>2 DEF PlacedSell, Sold, NoPieces
  <1>8. \A p \in Product : stock[p] \in Nat /\ order[o].quantity[p] \in Nat
    BY <1>0, <1>3 DEF ShopTypeOK, OrderRow, Pieces
  <1>9. stock' = [p \in Product |->
                    IF p \in Tracked
                    THEN Ledger!TakeAway(stock[p], order[o].quantity[p]) ELSE stock[p]]
    <2>1. ASSUME NEW p \in Product
          PROVE  (IF p \in Tracked \cap Sold(o)
                  THEN Draw(txn[w].stock[p], order[o].quantity[p]) ELSE stock[p])
                = (IF p \in Tracked
                   THEN Ledger!TakeAway(stock[p], order[o].quantity[p]) ELSE stock[p])
      <3>1. CASE p \in Sold(o)
        BY <1>2, <3>1 DEF Draw, Ledger!TakeAway
      <3>2. CASE p \notin Sold(o)
        <4>1. order[o].quantity[p] = 0
          BY <1>8, <3>2 DEF Sold
        <4>. QED
          BY <1>8, <3>2, <4>1 DEF Ledger!TakeAway
      <3>. QED
        BY <3>1, <3>2
    <2>. QED
      BY <1>1, <2>1
  <1>10. Ledger!Draw(o)
    BY <1>3, <1>5, <1>6, <1>7, <1>9
    DEF Ledger!Draw, Ledger!Nothing, NoPieces, Basket, Drawn
  <1>. QED
    BY <1>3, <1>10

(* An administrator sets the status of an order: when the stock was taken and
   the status is pending, the order is reopened. *)
LEMMA StatusReopens ==
    ASSUME ShopInv, NEW o \in Order, NEW st \in AdminStatus, SetOrderStatus(o, st)
    PROVE  UNCHANGED Ledger!vars \/ Ledger!Reopen(o)
  <1>. USE DEF rows, history, locks, stripe
  <1>0. ShopTypeOK
    BY DEF ShopInv, Typed
  <1>1. /\ o \in Placed /\ order' = [order EXCEPT ![o].status = st]
        /\ reopened' = IF st = "pending" THEN [reopened EXCEPT ![o] = taken[o]]
                       ELSE reopened
        /\ UNCHANGED <<stock, taken>>
    BY DEF SetOrderStatus
  <1>2. order[o] \in OrderRow /\ DOMAIN order = Order
    BY <1>0, <1>1, PlacedRow DEF ShopTypeOK
  <1>3. \A q \in Order : order'[q].quantity = order[q].quantity
    BY <1>1, <1>2 DEF OrderRow
  <1>4. /\ taken[o] \in Nat /\ reopened[o] \in Nat /\ reopened[o] <= taken[o]
    BY <1>0, OrderNumbers DEF ShopInv, OrdersAccounted, Account
  <1>5. CASE st # "pending"
    BY <1>1, <1>3, <1>5, StockStutters
  <1>6. CASE st = "pending"
    <2>1. /\ reopened'[o] = taken[o]
          /\ \A q \in Order \ {o} : reopened'[q] = reopened[q]
      BY <1>0, <1>1, <1>6 DEF ShopTypeOK
    <2>2. Drawn' = Drawn \ {o}
      BY <1>1, <1>4, <2>1 DEF Drawn
    <2>3. Basket' = Basket
      BY <1>3, SameBaskets
    <2>4. CASE o \in Drawn
      BY <1>1, <2>2, <2>3, <2>4 DEF Ledger!Reopen, Basket, Drawn
    <2>5. CASE o \notin Drawn
      BY <1>1, <2>2, <2>3, <2>5 DEF Ledger!vars, Basket, Drawn
    <2>. QED
      BY <2>4, <2>5
  <1>. QED
    BY <1>5, <1>6

(* An administrator counts a product. *)
LEMMA SetStockCounts ==
    ASSUME ShopInv, NEW p \in Product, NEW n \in Counts, SetStock(p, n)
    PROVE  Ledger!Count(p)
  <1>0. ShopTypeOK
    BY DEF ShopInv, Typed
  <1>1. /\ stock' = [stock EXCEPT ![p] = n] /\ stock \in [Product -> Nat]
        /\ UNCHANGED <<order, taken, reopened>> /\ n \in Nat
    BY <1>0, ShopAssumption DEF SetStock, rows, history, ShopTypeOK, Pieces
  <1>. QED
    BY <1>1 DEF Ledger!Count

LEMMA StepLedger ==
    ASSUME ShopInv, Next
    PROVE  [Ledger!Next]_(Ledger!vars)
  <1>. USE DEF rows, history, locks, stripe
  <1>0. ShopTypeOK
    BY DEF ShopInv, Typed
  <1>1. CASE UNCHANGED <<order, stock, taken, reopened>>
    BY <1>1, StockStutters
  <1>2. ASSUME NEW w \in Worker, NEW o \in Order, CommitCheckout(w, o)
        PROVE  Ledger!Next
    BY <1>2, CheckoutPlaces DEF Ledger!Next
  <1>3. ASSUME NEW w \in Worker, CommitConfirm(w)
        PROVE  Ledger!Next
    BY <1>3, ConfirmDraws DEF Ledger!Next
  <1>4. ASSUME NEW p \in Product, NEW n \in Counts, SetStock(p, n)
        PROVE  Ledger!Next
    BY <1>4, SetStockCounts DEF Ledger!Next
  <1>5. ASSUME NEW o \in Order, NEW py, order[o] # NoRow,
               order' = [order EXCEPT ![o].payment = py], UNCHANGED <<stock, taken, reopened>>
        PROVE  UNCHANGED Ledger!vars
    <2>1. order[o] \in OrderRow /\ DOMAIN order = Order
      BY <1>0, <1>5 DEF ShopTypeOK
    <2>2. \A q \in Order : order'[q].quantity = order[q].quantity
      BY <1>5, <2>1 DEF OrderRow
    <2>. QED
      BY <1>5, <2>2, StockStutters
  <1>6. ASSUME NEW o \in Order, LateDecline(o)
        PROVE  UNCHANGED Ledger!vars
    <2>1. order[o] # NoRow
      BY <1>6 DEF LateDecline, NoRow
    <2>2. /\ order' = [order EXCEPT ![o].payment = "open"]
          /\ UNCHANGED <<stock, taken, reopened>>
      BY <1>6 DEF LateDecline
    <2>. QED
      BY <1>5, <2>1, <2>2
  <1>7. ASSUME NEW o \in Order, PassBy(o)
        PROVE  UNCHANGED Ledger!vars
    <2>1. order[o] # NoRow
      BY <1>0, <1>7, Accounted, DueOrder, PlacedRow DEF PassBy
    <2>. QED
      BY <1>5, <1>7, <2>1 DEF PassBy
  <1>8. ASSUME NEW o \in Order, NEW st \in AdminStatus, SetOrderStatus(o, st)
        PROVE  [Ledger!Next]_(Ledger!vars)
    BY <1>8, StatusReopens DEF Ledger!Next
  <1>9. CASE CartStep
    BY <1>1, <1>9 DEF CartStep, ApplyPromo, RemoveItem, SetQuantity
  <1>10. ASSUME NEW o \in Order,
                \/ Capture(o) \/ SkipPaid(o)
                \/ \E w \in Worker : BeginConfirm(w, o)
         PROVE  UNCHANGED Ledger!vars
    BY <1>10, StockStutters DEF Capture, SkipPaid, BeginConfirm
  <1>11. ASSUME NEW w \in Worker,
                \/ Begin(w) \/ CommitInsert(w) \/ CommitUpdate(w) \/ UpdateNothing(w)
                \/ \E p \in Product : LockProduct(w, p)
                \/ BeginClear(w) \/ FailConfirm(w) \/ CommitPatch(w) \/ Abort(w)
         PROVE  UNCHANGED Ledger!vars
    <2>1. UNCHANGED <<order, stock, taken, reopened>>
      BY <1>11
      DEF Begin, BeginPatch, BeginAdd, BeginCheckout, CommitInsert, CommitUpdate,
          UpdateNothing, LockProduct, BeginClear, FailConfirm, CommitPatch, Abort
    <2>. QED
      BY <2>1, StockStutters
  <1>. QED
    BY <1>2, <1>3, <1>4, <1>6, <1>7, <1>8, <1>9, <1>10, <1>11
    DEF Next, AdminStep, Webhook, Proceed, CartOutlivesDelete, DeadlockVictim

(* Under any interleaving of checkouts, webhooks, declines, failures and
   administrators, the stock changes as StockLedger says: an order draws all
   it sold in one step, and once unless an administrator reopens it. *)
THEOREM ImplementsStock == Spec => RefinesStock
  <1>1. ShopInv /\ [Next]_vars => [Ledger!Next]_(Ledger!vars)
    <2>1. ASSUME UNCHANGED vars PROVE UNCHANGED Ledger!vars
      BY <2>1, StockStutters DEF vars, rows, history
    <2>. QED
      BY <2>1, StepLedger
  <1>. QED
    BY <1>1, InitLedger, ShopInvariant, PTL DEF Spec, RefinesStock, Ledger!Spec
=============================================================================
