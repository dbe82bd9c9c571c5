--------------------------- MODULE LoyaltyProofs ---------------------------
(* Proofs about Payments and Loyalty: the wallet ledger, what counts as paid,
   and the points, tiers and referrals that a fulfilled payment earns. *)
EXTENDS Loyalty, FiniteSetTheorems, TLAPS

(***************************************************************************)
(* Payments                                                                *)
(***************************************************************************)

(* Events known to the system or to Stripe. *)
Events == undelivered \cup recorded

IsCapture(e) == e.type = "payment_intent.succeeded"

(* What a request works on, by where it is. *)
Works(w) ==
    LET r == req[w] IN
    /\ r.pc \in {"topUp", "debit"} =>
            r.user \in User /\ Len(entries[r.user]) < MaxEntries
    /\ r.pc \in {"confirm", "debit"} =>
            /\ r.payment \in Payment
            /\ r.user = Owner[r.payment] /\ r.amount = Amount[r.payment]
    /\ r.pc \in {"intent", "saveIntent"} => r.payment \in Payment
    /\ r.pc = "handle" => r.event \in recorded

RequestsWork == \A w \in Worker : Works(w)

(* Every capture event is of a captured payment, a payment has one. *)
CaptureEvents ==
    /\ \A e \in Events : IsCapture(e) => stripe[e.payment] = "captured"
    /\ \A e, f \in Events :
            IsCapture(e) /\ IsCapture(f) /\ e.payment = f.payment => e = f

Handles(w, e) == req[w].pc = "handle" /\ req[w].event = e

(* Who handles a capture is alone with it and finds its payment unfulfilled;
   the capture of a fulfilled payment has been recorded. *)
HandledOnce ==
    /\ \A e \in Events, v, w \in Worker : Handles(v, e) /\ Handles(w, e) => v = w
    /\ \A e \in Events, w \in Worker :
            Handles(w, e) /\ IsCapture(e) => rewarded[e.payment] = 0
    /\ \A p \in Payment : rewarded[p] > 0 =>
            \E e \in recorded : IsCapture(e) /\ e.payment = p

WalletInv == TypeOK /\ RequestsWork /\ WalletReadsStayFresh /\ WalletLedger

PaidInv ==
    WalletInv /\ CaptureEvents /\ HandledOnce /\ SucceededIsFunded /\ FulfilledOnce
-----------------------------------------------------------------------------
(* Types *)

LEMMA InitTypeOK == Init => TypeOK
  BY PaymentsAssumption DEF Init, TypeOK, PaymentStatus, Idle, Request, Pc

LEMMA IdleType == Idle \in Request
  BY DEF Idle, Request, Pc

LEMMA EndRequestType ==
    ASSUME TypeOK, NEW w \in Worker, EndRequest(w)
    PROVE  /\ walletLock' \in [User -> Worker \cup {NoWorker}]
           /\ req' \in [Worker -> Request]
  BY DEF TypeOK, EndRequest, Idle, Request, Pc

LEMMA PostEntries ==
    ASSUME TypeOK, NEW u \in User, NEW seen \in Int, NEW delta \in Int,
           NEW p, Post(u, seen, delta, p)
    PROVE  \A v \in User : entries'[v] =
              IF v = u THEN Append(entries[u], [delta |-> delta, after |-> seen + delta,
                                                payment |-> p])
              ELSE entries[v]
  BY DEF Post, TypeOK

LEMMA PostType ==
    ASSUME TypeOK, NEW u \in User, NEW seen \in Int, NEW delta \in Int,
           NEW p \in Payment \cup {NoPayment},
           seen + delta \in Nat, Len(entries[u]) < MaxEntries, Post(u, seen, delta, p)
    PROVE  /\ balance' \in [User -> Nat]
           /\ entries' \in [User -> Seq(Entry)]
           /\ \A v \in User : Len(entries'[v]) <= MaxEntries
  <1>. DEFINE e == [delta |-> delta, after |-> seen + delta, payment |-> p]
  <1>1. e \in Entry
    BY DEF Entry
  <1>2. balance' = [balance EXCEPT ![u] = seen + delta]
    BY DEF Post
  <1>3. \A v \in User : entries'[v] = IF v = u THEN Append(entries[u], e) ELSE entries[v]
    BY PostEntries
  <1>5. entries' = [entries EXCEPT ![u] = Append(entries[u], e)]
    BY DEF Post, TypeOK
  <1>4. Append(entries[u], e) \in Seq(Entry) /\ Len(Append(entries[u], e)) <= MaxEntries
    BY <1>1, PaymentsAssumption DEF TypeOK
  <1>. QED
    BY <1>2, <1>3, <1>4, <1>5 DEF TypeOK

LEMMA StepTypeOK ==
    ASSUME WalletInv, [Next]_vars
    PROVE  TypeOK'
  <1>. USE DEF WalletInv
  <1>1. ASSUME NEW w \in Worker, NEW u \in User, NEW a \in TopUp, BeginTopUp(w, u, a)
        PROVE  TypeOK'
    <2>2. a \in Nat /\ balance[u] \in Int
      BY PaymentsAssumption DEF TypeOK
    <2>1. [Idle EXCEPT !.pc = "topUp", !.user = u, !.amount = a, !.seen = balance[u]]
            \in Request
      BY <2>2, IdleType DEF Request, Pc
    <2>. QED
      BY <1>1, <2>1 DEF TypeOK, BeginTopUp, rows, external
  <1>2. ASSUME NEW w \in Worker, CommitTopUp(w) PROVE TypeOK'
    <2>. DEFINE r == req[w]
    <2>1. /\ r.user \in User /\ Len(entries[r.user]) < MaxEntries
          /\ r.seen = balance[r.user] /\ r.amount \in Nat
      BY <1>2 DEF CommitTopUp, TypeOK, Request, RequestsWork, Works, WalletReadsStayFresh, FreshWallet
    <2>2. r.seen \in Int /\ r.seen + r.amount \in Nat
      BY <2>1 DEF TypeOK
    <2>3. Post(r.user, r.seen, r.amount, NoPayment) /\ EndRequest(w)
      BY <1>2 DEF CommitTopUp
    <2>4. /\ balance' \in [User -> Nat]
          /\ entries' \in [User -> Seq(Entry)]
          /\ \A v \in User : Len(entries'[v]) <= MaxEntries
      BY <2>1, <2>2, <2>3, PostType
    <2>. QED
      BY <1>2, <2>3, <2>4, EndRequestType DEF TypeOK, CommitTopUp, external
  <1>3. ASSUME NEW w \in Worker, NEW p \in Payment, BeginConfirm(w, p) \/ BeginIntent(w, p)
        PROVE  TypeOK'
    <2>1. /\ [Idle EXCEPT !.pc = "confirm", !.payment = p, !.user = Owner[p],
                          !.amount = Amount[p]] \in Request
          /\ [Idle EXCEPT !.pc = "intent", !.payment = p] \in Request
      BY IdleType, PaymentsAssumption DEF Request, Pc
    <2>2. CASE BeginConfirm(w, p)
      BY <2>1, <2>2 DEF TypeOK, BeginConfirm, rows, external
    <2>3. CASE BeginIntent(w, p)
      BY <2>1, <2>3 DEF TypeOK, BeginIntent, rows, external
    <2>. QED
      BY <1>3, <2>2, <2>3
  <1>4. ASSUME NEW w \in Worker, CommitCash(w) PROVE TypeOK'
    BY <1>4, EndRequestType DEF TypeOK, CommitCash, PaymentStatus, external
  <1>5. ASSUME NEW w \in Worker, LockWalletForDebit(w) PROVE TypeOK'
    <2>1. req[w].user \in User
      BY <1>5, PaymentsAssumption DEF LockWalletForDebit, RequestsWork, Works
    <2>. QED
      <3>. DEFINE r == req[w]
      <3>4. r \in Request /\ balance[r.user] \in Int
        BY <2>1 DEF TypeOK
      <3>1. [r EXCEPT !.pc = "debit", !.seen = balance[r.user]] \in Request
        <4>. HIDE DEF r
        <4>. QED BY <3>4 DEF Request, Pc
      <3>2. req' = [req EXCEPT ![w] = [req[w] EXCEPT !.pc = "debit",
                                                    !.seen = balance[req[w].user]]]
        BY <1>5 DEF LockWalletForDebit, TypeOK
      <3>3. walletLock' \in [User -> Worker \cup {NoWorker}]
        BY <1>5, <2>1 DEF LockWalletForDebit, TypeOK
      <3>. QED
        BY <1>5, <3>1, <3>2, <3>3 DEF TypeOK, LockWalletForDebit, rows, external
  <1>6. ASSUME NEW w \in Worker, RefuseConfirm(w) \/ Abort(w) \/ HandleNothing(w)
        PROVE  TypeOK'
    BY <1>6, EndRequestType
    DEF TypeOK, RefuseConfirm, Abort, HandleNothing, Answer, rows, external
  <1>7. ASSUME NEW w \in Worker, CommitDebit(w) PROVE TypeOK'
    <2>. DEFINE r == req[w]
    <2>1. /\ r.user \in User /\ r.payment \in Payment /\ Len(entries[r.user]) < MaxEntries
          /\ r.seen = balance[r.user] /\ r.amount \in Nat /\ r.seen >= r.amount
      BY <1>7 DEF CommitDebit, TypeOK, Request, RequestsWork, Works, WalletReadsStayFresh, FreshWallet
    <2>2. r.seen \in Int /\ -r.amount \in Int /\ r.seen + (-r.amount) \in Nat
      BY <2>1 DEF TypeOK
    <2>3. Post(r.user, r.seen, -r.amount, r.payment) /\ EndRequest(w)
      BY <1>7 DEF CommitDebit
    <2>4. /\ balance' \in [User -> Nat]
          /\ entries' \in [User -> Seq(Entry)]
          /\ \A v \in User : Len(entries'[v]) <= MaxEntries
      BY <2>1, <2>2, <2>3, PostType
    <2>. QED
      BY <1>7, <2>1, <2>3, <2>4, EndRequestType DEF TypeOK, CommitDebit, PaymentStatus, external
  <1>8. ASSUME NEW w \in Worker, CallStripe(w) PROVE TypeOK'
    <2>1. req[w].payment \in Payment
      BY <1>8 DEF CallStripe, RequestsWork, Works
    <2>2. [req[w] EXCEPT !.pc = "saveIntent"] \in Request
      BY DEF TypeOK, Request, Pc
    <2>3. req' = [req EXCEPT ![w] = [req[w] EXCEPT !.pc = "saveIntent"]]
      BY <1>8 DEF CallStripe
    <2>4. stripe' \in [Payment -> {"none", "open", "captured"}]
      BY <1>8, <2>1 DEF CallStripe, TypeOK
    <2>. QED
      BY <1>8, <2>2, <2>3, <2>4 DEF TypeOK, CallStripe, rows
  <1>9. ASSUME NEW w \in Worker, SaveIntent(w) PROVE TypeOK'
    BY <1>9, EndRequestType DEF TypeOK, SaveIntent, PaymentStatus, external
  <1>10. ASSUME NEW w \in Worker, HandleSucceeded(w) PROVE TypeOK'
    <2>1. req[w].event.payment \in Payment
      BY <1>10 DEF HandleSucceeded, TypeOK, RequestsWork, Works, Event
    <2>2. rewarded' \in [Payment -> Nat] /\ status' \in [Payment -> PaymentStatus]
      BY <1>10, <2>1 DEF HandleSucceeded, TypeOK, PaymentStatus
    <2>. QED
      BY <1>10, <2>2, EndRequestType DEF TypeOK, HandleSucceeded, Answer
  <1>11. ASSUME NEW w \in Worker, HandleFailed(w) PROVE TypeOK'
    BY <1>11, EndRequestType DEF TypeOK, HandleFailed, PaymentStatus, Answer
  <1>12. ASSUME NEW w \in Worker, HandlerFails(w) PROVE TypeOK'
    BY <1>12, EndRequestType, PaymentsAssumption DEF TypeOK, HandlerFails, rows
  <1>13. ASSUME NEW p \in Payment, Decline(p) PROVE TypeOK'
    <2>1. [type |-> "payment_intent.payment_failed", payment |-> p, attempt |-> declines[p]]
            \in Event
      BY DEF TypeOK, Event
    <2>2. declines' \in [Payment -> 0 .. MaxDeclines]
      BY <1>13, PaymentsAssumption DEF TypeOK, Decline
    <2>. QED
      BY <1>13, <2>1, <2>2 DEF TypeOK, Decline, rows
  <1>14. ASSUME NEW p \in Payment, Capture(p) PROVE TypeOK'
    <2>1. [type |-> "payment_intent.succeeded", payment |-> p, attempt |-> declines[p]]
            \in Event
      BY DEF TypeOK, Event
    <2>. QED
      BY <1>14, <2>1 DEF TypeOK, Capture, rows
  <1>15. ASSUME NEW e \in Event, NEW w \in Worker, Deliver(w, e) PROVE TypeOK'
    <2>1. [Idle EXCEPT !.pc = "handle", !.event = e] \in Request
      BY IdleType DEF Request, Pc
    <2>. QED
      BY <1>15, <2>1 DEF TypeOK, Deliver, external
  <1>16. ASSUME NEW e \in Event, NEW w \in Worker, AnswerDuplicate(w, e) PROVE TypeOK'
    BY <1>16 DEF TypeOK, AnswerDuplicate, rows
  <1>17. CASE UNCHANGED vars
    BY <1>17 DEF TypeOK, vars, rows, external
  <1>. QED
    BY <1>1, <1>2, <1>3, <1>4, <1>5, <1>6, <1>7, <1>8, <1>9, <1>10, <1>11, <1>12,
       <1>13, <1>14, <1>15, <1>16, <1>17 DEF Next, Begin, Proceed, Redeliver
-----------------------------------------------------------------------------
(* Wallets *)

LEMMA InitWallets == Init => RequestsWork /\ WalletReadsStayFresh /\ WalletLedger
  BY PaymentsAssumption
  DEF Init, RequestsWork, Works, WalletReadsStayFresh, FreshWallet, WalletLedger, After, Idle

LEMMA EndRequestKeeps ==
    ASSUME TypeOK, NEW w \in Worker, EndRequest(w)
    PROVE  /\ req'[w] = Idle
           /\ \A x \in Worker \ {w} :
                /\ req'[x] = req[x]
                /\ \A u \in User : walletLock[u] = x => walletLock'[u] = x
  BY DEF TypeOK, EndRequest

LEMMA IdleWorks ==
    ASSUME NEW w \in Worker, req'[w] = Idle
    PROVE  Works(w)' /\ FreshWallet(w)'
  BY DEF Works, FreshWallet, Idle

(* A request that is not at work now keeps what it relies on when neither it
   nor the wallet it has locked changes. *)
LEMMA OthersWork ==
    ASSUME WalletInv, NEW x \in Worker, req'[x] = req[x], recorded \subseteq recorded',
           req[x].pc \in {"topUp", "debit"} =>
                /\ walletLock'[req[x].user] = walletLock[req[x].user]
                /\ balance'[req[x].user] = balance[req[x].user]
                /\ entries'[req[x].user] = entries[req[x].user]
    PROVE  Works(x)' /\ FreshWallet(x)'
  BY DEF WalletInv, RequestsWork, Works, WalletReadsStayFresh, FreshWallet

LEMMA SameLedger ==
    ASSUME WalletLedger, UNCHANGED <<balance, entries>>
    PROVE  WalletLedger'
  BY DEF WalletLedger, After

(* A request ends and no wallet changes. *)
LEMMA EndWallets ==
    ASSUME WalletInv, NEW w \in Worker, EndRequest(w),
           UNCHANGED <<balance, entries, recorded>>
    PROVE  RequestsWork' /\ WalletReadsStayFresh' /\ WalletLedger'
  <1>1. ASSUME NEW x \in Worker PROVE Works(x)' /\ FreshWallet(x)'
    <2>1. CASE x = w
      BY <2>1, EndRequestKeeps, IdleWorks DEF WalletInv
    <2>2. CASE x # w
      <3>1. req'[x] = req[x]
        BY <2>2, EndRequestKeeps DEF WalletInv
      <3>2. req[x].pc \in {"topUp", "debit"} =>
                walletLock'[req[x].user] = walletLock[req[x].user]
        BY <2>2, EndRequestKeeps
        DEF WalletInv, RequestsWork, Works, WalletReadsStayFresh, FreshWallet
      <3>. QED
        BY <3>1, <3>2, OthersWork
    <2>. QED
      BY <2>1, <2>2
  <1>. QED
    BY <1>1, SameLedger DEF WalletInv, RequestsWork, WalletReadsStayFresh

(* The holder of a wallet's lock changes it and ends: the entry it adds
   starts from the balance the last one left. *)
LEMMA PostWallets ==
    ASSUME WalletInv, NEW w \in Worker, req[w].pc \in {"topUp", "debit"},
           NEW delta \in Int, NEW p,
           Post(req[w].user, req[w].seen, delta, p), EndRequest(w), UNCHANGED recorded
    PROVE  RequestsWork' /\ WalletReadsStayFresh' /\ WalletLedger'
  <1>. DEFINE u == req[w].user
  <1>1. u \in User /\ walletLock[u] = w /\ req[w].seen = balance[u] /\ balance[u] \in Nat
    BY DEF WalletInv, TypeOK, RequestsWork, Works, WalletReadsStayFresh, FreshWallet
  <1>. DEFINE e == [delta |-> delta, after |-> balance[u] + delta, payment |-> p]
  <1>2. /\ balance' = [balance EXCEPT ![u] = balance[u] + delta]
        /\ entries' = [entries EXCEPT ![u] = Append(entries[u], e)]
    BY <1>1 DEF Post, WalletInv, TypeOK
  <1>3. ASSUME NEW x \in Worker PROVE Works(x)' /\ FreshWallet(x)'
    <2>1. CASE x = w
      BY <2>1, EndRequestKeeps, IdleWorks DEF WalletInv
    <2>2. CASE x # w
      <3>1. req'[x] = req[x]
        BY <2>2, EndRequestKeeps DEF WalletInv
      <3>2. req[x].pc \in {"topUp", "debit"} =>
                /\ walletLock[req[x].user] = x /\ req[x].user \in User
                /\ walletLock'[req[x].user] = walletLock[req[x].user]
        BY <2>2, EndRequestKeeps
        DEF WalletInv, RequestsWork, Works, WalletReadsStayFresh, FreshWallet
      <3>3. req[x].pc \in {"topUp", "debit"} => req[x].user # u
        BY <3>2, <1>1, <2>2
      <3>. QED
        BY <3>1, <3>2, <3>3, <1>1, <1>2, OthersWork DEF WalletInv, TypeOK
    <2>. QED
      BY <2>1, <2>2
  <1>4. WalletLedger'
    <2>. SUFFICES ASSUME NEW v \in User
                  PROVE  /\ balance'[v] = After(v, Len(entries[v]))'
                         /\ \A i \in 1 .. Len(entries'[v]) :
                                entries'[v][i].after = After(v, i - 1)' + entries'[v][i].delta
      BY DEF WalletLedger
    <2>1. CASE v # u
      BY <2>1, <1>1, <1>2 DEF WalletInv, TypeOK, WalletLedger, After
    <2>2. CASE v = u
      <3>0. PICK n \in Nat : n = Len(entries[v])
        BY DEF WalletInv, TypeOK
      <3>1. n = Len(entries[v]) /\ entries[v] \in Seq(Entry)
        BY <3>0 DEF WalletInv, TypeOK
      <3>2. entries'[v] = Append(entries[v], e) /\ balance'[v] = balance[v] + delta
        BY <2>2, <1>2 DEF WalletInv, TypeOK
      <3>3. /\ Len(entries'[v]) = n + 1
            /\ entries'[v][n + 1] = e
            /\ \A i \in 1 .. n : entries'[v][i] = entries[v][i]
        BY <3>1, <3>2
      <3>4. \A i \in 0 .. n : After(v, i)' = After(v, i)
        BY <3>1, <3>3 DEF After
      <3>5. balance[v] = After(v, n)
        BY <3>1 DEF WalletInv, WalletLedger
      <3>6. balance'[v] = After(v, n + 1)'
        BY <2>2, <3>1, <3>2, <3>3 DEF After
      <3>7. ASSUME NEW i \in 1 .. n + 1
            PROVE  entries'[v][i].after = After(v, i - 1)' + entries'[v][i].delta
        <4>1. CASE i = n + 1
          BY <4>1, <2>2, <3>1, <3>3, <3>4, <3>5
        <4>2. CASE i \in 1 .. n
          <5>1. entries[v][i].after = After(v, i - 1) + entries[v][i].delta
            BY <4>2, <3>1 DEF WalletInv, WalletLedger
          <5>. QED
            BY <4>2, <5>1, <3>1, <3>3, <3>4
        <4>. QED
          BY <4>1, <4>2, <3>1
      <3>. QED
        BY <2>2, <3>3, <3>6, <3>7
    <2>. QED
      BY <2>1, <2>2
  <1>. QED
    BY <1>3, <1>4 DEF RequestsWork, WalletReadsStayFresh
(* No wallet changes, and worker w, if any, begins or goes on as req' says. *)
LEMMA QuietWallets ==
    ASSUME WalletInv, NEW w \in Worker, Works(w)', FreshWallet(w)',
           \A x \in Worker \ {w} : req'[x] = req[x],
           recorded \subseteq recorded', UNCHANGED <<balance, entries>>,
           \A u \in User : walletLock'[u] = walletLock[u] \/ walletLock[u] = NoWorker
    PROVE  RequestsWork' /\ WalletReadsStayFresh' /\ WalletLedger'
  <1>1. ASSUME NEW x \in Worker \ {w} PROVE Works(x)' /\ FreshWallet(x)'
    <2>1. req[x].pc \in {"topUp", "debit"} =>
              walletLock'[req[x].user] = walletLock[req[x].user]
      BY PaymentsAssumption
      DEF WalletInv, RequestsWork, Works, WalletReadsStayFresh, FreshWallet
    <2>. QED
      BY <2>1, OthersWork
  <1>. QED
    BY <1>1, SameLedger DEF WalletInv, RequestsWork, WalletReadsStayFresh

LEMMA SameWallets ==
    ASSUME WalletInv, UNCHANGED <<req, walletLock, balance, entries>>,
           recorded \subseteq recorded'
    PROVE  RequestsWork' /\ WalletReadsStayFresh' /\ WalletLedger'
  <1>1. ASSUME NEW x \in Worker PROVE Works(x)' /\ FreshWallet(x)'
    BY OthersWork
  <1>. QED
    BY <1>1, SameLedger DEF WalletInv, RequestsWork, WalletReadsStayFresh

LEMMA StepWallets ==
    ASSUME WalletInv, [Next]_vars
    PROVE  RequestsWork' /\ WalletReadsStayFresh' /\ WalletLedger'
  <1>. DEFINE Goal == RequestsWork' /\ WalletReadsStayFresh' /\ WalletLedger'
  <1>1. ASSUME NEW w \in Worker, NEW u \in User, NEW a \in TopUp, BeginTopUp(w, u, a)
        PROVE  Goal
    <2>1. req'[w] = [Idle EXCEPT !.pc = "topUp", !.user = u, !.amount = a, !.seen = balance[u]]
      BY <1>1 DEF BeginTopUp, WalletInv, TypeOK
    <2>2. Works(w)' /\ FreshWallet(w)'
      BY <1>1, <2>1 DEF BeginTopUp, WalletInv, TypeOK, Works, FreshWallet, Idle, rows
    <2>. QED
      BY <1>1, <2>2, QuietWallets
      DEF BeginTopUp, CanLockWallet, WalletInv, TypeOK, rows
  <1>2. ASSUME NEW w \in Worker, CommitTopUp(w) PROVE Goal
    <2>1. req[w].amount \in Int
      BY DEF WalletInv, TypeOK, Request
    <2>2. /\ Post(req[w].user, req[w].seen, req[w].amount, NoPayment) /\ EndRequest(w)
          /\ req[w].pc \in {"topUp", "debit"} /\ UNCHANGED recorded
      BY <1>2 DEF CommitTopUp
    <2>. QED
      BY <2>1, <2>2, PostWallets
  <1>3. ASSUME NEW w \in Worker, NEW p \in Payment, BeginConfirm(w, p) PROVE Goal
    <2>1. req'[w] = [Idle EXCEPT !.pc = "confirm", !.payment = p, !.user = Owner[p],
                                 !.amount = Amount[p]]
      BY <1>3 DEF BeginConfirm, WalletInv, TypeOK
    <2>2. Works(w)' /\ FreshWallet(w)'
      BY <2>1 DEF Works, FreshWallet, Idle
    <2>. QED
      BY <1>3, <2>2, QuietWallets DEF BeginConfirm, WalletInv, TypeOK, rows
  <1>4. ASSUME NEW w \in Worker, NEW p \in Payment, BeginIntent(w, p) PROVE Goal
    <2>1. req'[w] = [Idle EXCEPT !.pc = "intent", !.payment = p]
      BY <1>4 DEF BeginIntent, WalletInv, TypeOK
    <2>2. Works(w)' /\ FreshWallet(w)'
      BY <2>1 DEF Works, FreshWallet, Idle
    <2>. QED
      BY <1>4, <2>2, QuietWallets DEF BeginIntent, WalletInv, TypeOK, rows
  <1>5. ASSUME NEW w \in Worker, LockWalletForDebit(w) PROVE Goal
    <2>. DEFINE r == req[w]
    <2>1. /\ r.payment \in Payment /\ r.user = Owner[r.payment] /\ r.user \in User
          /\ r.amount = Amount[r.payment] /\ r \in Request
      BY <1>5, PaymentsAssumption DEF LockWalletForDebit, WalletInv, TypeOK, RequestsWork, Works
    <2>2. req'[w] = [r EXCEPT !.pc = "debit", !.seen = balance[r.user]]
      BY <1>5 DEF LockWalletForDebit, WalletInv, TypeOK
    <2>3. /\ req'[w].pc = "debit" /\ req'[w].seen = balance[r.user]
          /\ req'[w].user = r.user /\ req'[w].amount = r.amount
          /\ req'[w].payment = r.payment
      BY <2>1, <2>2 DEF Request
    <2>4. /\ UNCHANGED <<balance, entries, recorded>>
          /\ walletLock' = [walletLock EXCEPT ![r.user] = w]
          /\ walletLock[r.user] = NoWorker /\ balance[r.user] >= r.amount
          /\ Len(entries[r.user]) < MaxEntries
      BY <1>5 DEF LockWalletForDebit, CanLockWallet, rows
    <2>5. Works(w)' /\ FreshWallet(w)'
      BY <2>1, <2>3, <2>4 DEF WalletInv, TypeOK, Works, FreshWallet
    <2>6. \A x \in Worker \ {w} : req'[x] = req[x]
      BY <1>5 DEF LockWalletForDebit, WalletInv, TypeOK
    <2>7. \A u \in User : walletLock'[u] = walletLock[u] \/ walletLock[u] = NoWorker
      BY <2>4 DEF WalletInv, TypeOK
    <2>. QED
      BY <2>4, <2>5, <2>6, <2>7, QuietWallets
  <1>6. ASSUME NEW w \in Worker, CommitDebit(w) PROVE Goal
    <2>1. -req[w].amount \in Int
      BY DEF WalletInv, TypeOK, Request
    <2>. QED
      BY <1>6, <2>1, PostWallets DEF CommitDebit
  <1>7. ASSUME NEW w \in Worker,
               \/ CommitCash(w) \/ RefuseConfirm(w) \/ SaveIntent(w) \/ Abort(w)
               \/ HandleSucceeded(w) \/ HandleNothing(w) \/ HandleFailed(w)
               \/ HandlerFails(w)
        PROVE  Goal
    <2>1. EndRequest(w) /\ UNCHANGED <<balance, entries, recorded>>
      BY <1>7 DEF CommitCash, RefuseConfirm, SaveIntent, Abort, HandleSucceeded,
                  HandleNothing, HandleFailed, HandlerFails, rows
    <2>. QED
      BY <2>1, EndWallets
  <1>8. ASSUME NEW w \in Worker, CallStripe(w) PROVE Goal
    <2>1. req'[w] = [req[w] EXCEPT !.pc = "saveIntent"] /\ req[w] \in Request
      BY <1>8 DEF CallStripe, WalletInv, TypeOK
    <2>2. req'[w].pc = "saveIntent" /\ req'[w].payment = req[w].payment
      BY <2>1 DEF Request
    <2>3. Works(w)' /\ FreshWallet(w)'
      BY <1>8, <2>2 DEF CallStripe, WalletInv, RequestsWork, Works, FreshWallet
    <2>. QED
      BY <1>8, <2>3, QuietWallets DEF CallStripe, WalletInv, TypeOK, rows
  <1>9. ASSUME NEW e \in Event, NEW w \in Worker, Deliver(w, e) PROVE Goal
    <2>1. req'[w] = [Idle EXCEPT !.pc = "handle", !.event = e]
      BY <1>9 DEF Deliver, WalletInv, TypeOK
    <2>2. Works(w)' /\ FreshWallet(w)'
      BY <1>9, <2>1 DEF Deliver, Works, FreshWallet, Idle
    <2>. QED
      BY <1>9, <2>2, QuietWallets DEF Deliver, WalletInv, TypeOK
  <1>10. ASSUME NEW p \in Payment, Decline(p) \/ Capture(p) PROVE Goal
    BY <1>10, SameWallets DEF Decline, Capture, rows
  <1>11. ASSUME NEW e \in Event, NEW w \in Worker, AnswerDuplicate(w, e) PROVE Goal
    BY <1>11, SameWallets DEF AnswerDuplicate, rows
  <1>12. CASE UNCHANGED vars
    BY <1>12, SameWallets DEF vars, rows
  <1>. QED
    BY <1>1, <1>2, <1>3, <1>4, <1>5, <1>6, <1>7, <1>8, <1>9, <1>10, <1>11, <1>12
    DEF Next, Begin, Proceed, Redeliver

(* The inductive invariant of the wallets. *)
THEOREM WalletInvariance == Spec => []WalletInv
  <1>1. Init => WalletInv
    BY InitTypeOK, InitWallets DEF WalletInv
  <1>2. WalletInv /\ [Next]_vars => WalletInv'
    BY StepTypeOK, StepWallets DEF WalletInv
  <1>. QED
    BY <1>1, <1>2, PTL DEF Spec

(* Rows and requests keep their types: no wallet is ever overdrawn, whatever
   top-ups and debits run at the same time. *)
THEOREM TypeCorrect == Spec => []TypeOK
  BY WalletInvariance, PTL DEF WalletInv

(* top_up_wallet and deduct_wallet write on what they read under the lock. *)
THEOREM FreshWallets == Spec => []WalletReadsStayFresh
  BY WalletInvariance, PTL DEF WalletInv

(* The entries of every wallet chain up to its balance. *)
THEOREM LedgerAddsUp == Spec => []WalletLedger
  BY WalletInvariance, PTL DEF WalletInv
-----------------------------------------------------------------------------
(* What counts as paid *)

LEMMA InitPaid == Init => CaptureEvents /\ HandledOnce /\ SucceededIsFunded /\ FulfilledOnce
  BY DEF Init, CaptureEvents, HandledOnce, Handles, SucceededIsFunded, FulfilledOnce, Events, Idle

LEMMA StepCaptureEvents ==
    ASSUME PaidInv, [Next]_vars
    PROVE  CaptureEvents'
  <1>. USE DEF PaidInv
  <1>1. ASSUME NEW p \in Payment, Capture(p) PROVE CaptureEvents'
    <2>. DEFINE c == [type |-> "payment_intent.succeeded", payment |-> p, attempt |-> declines[p]]
    <2>1. /\ stripe[p] = "open" /\ stripe' = [stripe EXCEPT ![p] = "captured"]
          /\ Events' = Events \cup {c}
      BY <1>1 DEF Capture, Events, rows
    <2>2. \A e \in Events : e \in Event /\ (IsCapture(e) => e.payment # p)
      BY <2>1 DEF CaptureEvents, Events, WalletInv, TypeOK
    <2>3. \A e \in Events : IsCapture(e) => stripe'[e.payment] = "captured"
      BY <2>1, <2>2 DEF CaptureEvents, Event, WalletInv, TypeOK
    <2>4. stripe'[c.payment] = "captured" /\ c.payment = p
      BY <2>1 DEF WalletInv, TypeOK
    <2>. HIDE DEF c
    <2>. QED
      BY <2>1, <2>2, <2>3, <2>4 DEF CaptureEvents, IsCapture
  <1>2. ASSUME NEW p \in Payment, Decline(p) PROVE CaptureEvents'
    <2>. DEFINE d == [type |-> "payment_intent.payment_failed", payment |-> p,
                      attempt |-> declines[p]]
    <2>1. Events' = Events \cup {d} /\ ~IsCapture(d) /\ UNCHANGED stripe
      BY <1>2 DEF Decline, Events, IsCapture, rows
    <2>. HIDE DEF d
    <2>. QED
      BY <2>1 DEF CaptureEvents, IsCapture
  <1>3. ASSUME NEW w \in Worker, CallStripe(w) PROVE CaptureEvents'
    <2>1. Events' = Events /\ req[w].payment \in Payment
      BY <1>3 DEF CallStripe, Events, rows, WalletInv, RequestsWork, Works
    <2>2. \A p \in Payment : stripe[p] = "captured" => stripe'[p] = "captured"
      BY <1>3 DEF CallStripe, WalletInv, TypeOK
    <2>3. \A e \in Events : e.payment \in Payment
      BY DEF Events, WalletInv, TypeOK, Event
    <2>. QED
      BY <2>1, <2>2, <2>3 DEF CaptureEvents, IsCapture
  <1>4. ASSUME Events' \subseteq Events, UNCHANGED stripe PROVE CaptureEvents'
    BY <1>4 DEF CaptureEvents, IsCapture
  <1>5. ASSUME NEW w \in Worker,
               \/ \E u \in User, a \in TopUp : BeginTopUp(w, u, a)
               \/ \E p \in Payment : BeginConfirm(w, p) \/ BeginIntent(w, p)
               \/ CommitTopUp(w) \/ CommitCash(w) \/ LockWalletForDebit(w)
               \/ RefuseConfirm(w) \/ CommitDebit(w) \/ SaveIntent(w) \/ Abort(w)
               \/ HandlerFails(w)
        PROVE  Events' \subseteq Events /\ UNCHANGED stripe
    BY <1>5 DEF BeginTopUp, BeginConfirm, BeginIntent, CommitTopUp, CommitCash,
                LockWalletForDebit, RefuseConfirm, CommitDebit, SaveIntent, Abort,
                HandlerFails, Events, rows, external
  <1>6. ASSUME NEW w \in Worker, HandleSucceeded(w) \/ HandleNothing(w) \/ HandleFailed(w)
        PROVE  Events' \subseteq Events /\ UNCHANGED stripe
    BY <1>6 DEF HandleSucceeded, HandleNothing, HandleFailed, Answer, Events, rows
  <1>7. ASSUME NEW e \in Event, NEW w \in Worker, Deliver(w, e) \/ AnswerDuplicate(w, e)
        PROVE  Events' \subseteq Events /\ UNCHANGED stripe
    BY <1>7 DEF Deliver, AnswerDuplicate, Events, rows, external
  <1>8. CASE UNCHANGED vars
    BY <1>8, <1>4 DEF vars, rows, external, Events
  <1>. QED
    BY <1>1, <1>2, <1>3, <1>4, <1>5, <1>6, <1>7, <1>8 DEF Next, Begin, Proceed, Redeliver

(* Nobody begins to handle an event, nobody is rewarded. *)
LEMMA KeepHandled ==
    ASSUME PaidInv, UNCHANGED rewarded, recorded \subseteq recorded',
           \A x \in Worker : req'[x].pc = "handle" =>
                req[x].pc = "handle" /\ req'[x].event = req[x].event
    PROVE  HandledOnce'
  <1>1. ASSUME NEW x \in Worker, NEW e, Handles(x, e)'
        PROVE  Handles(x, e) /\ e \in Events
    BY <1>1 DEF Handles, PaidInv, WalletInv, RequestsWork, Works, Events
  <1>2. \A e \in Events', v, w \in Worker : Handles(v, e)' /\ Handles(w, e)' => v = w
    BY <1>1 DEF PaidInv, HandledOnce
  <1>3. \A e \in Events', w \in Worker :
            Handles(w, e)' /\ IsCapture(e) => rewarded'[e.payment] = 0
    BY <1>1 DEF PaidInv, HandledOnce
  <1>4. \A p \in Payment : rewarded'[p] > 0 =>
            \E e \in recorded' : IsCapture(e) /\ e.payment = p
    BY DEF PaidInv, HandledOnce
  <1>. QED
    BY <1>2, <1>3, <1>4 DEF HandledOnce, IsCapture

LEMMA StepHandledOnce ==
    ASSUME PaidInv, [Next]_vars
    PROVE  HandledOnce'
  <1>. USE DEF PaidInv
  <1>1. ASSUME NEW w \in Worker, HandleSucceeded(w) PROVE HandledOnce'
    <2>. PICK e : e = req[w].event
      OBVIOUS
    <2>. DEFINE p == e.payment
    <2>1. /\ e \in recorded /\ IsCapture(e) /\ e \in Events /\ Handles(w, e)
          /\ p \in Payment /\ recorded' = recorded
          /\ rewarded' = [rewarded EXCEPT ![p] = rewarded[p] + 1]
      BY <1>1 DEF HandleSucceeded, IsCapture, Handles, Events, WalletInv, TypeOK, Event,
                  RequestsWork, Works
    <2>2. ASSUME NEW x \in Worker, NEW f, Handles(x, f)'
          PROVE  x # w /\ Handles(x, f) /\ f \in recorded
      BY <1>1, <2>2, EndRequestKeeps
      DEF HandleSucceeded, Handles, Idle, WalletInv, RequestsWork, Works
    <2>3. ASSUME NEW x \in Worker, NEW f, Handles(x, f)', IsCapture(f)
          PROVE  rewarded'[f.payment] = 0
      <3>1. f \in Events /\ f # e
        BY <2>1, <2>2, <2>3 DEF HandledOnce, Events
      <3>2. f.payment \in Payment \ {p}
        BY <2>1, <2>3, <3>1 DEF CaptureEvents, Events, WalletInv, TypeOK, Event
      <3>. QED
        BY <2>1, <2>2, <2>3, <3>1, <3>2 DEF HandledOnce, WalletInv, TypeOK
    <2>4. \A q \in Payment : rewarded'[q] > 0 =>
              \E f \in recorded' : IsCapture(f) /\ f.payment = q
      BY <2>1 DEF HandledOnce, WalletInv, TypeOK
    <2>5. \A f \in Events', v, x \in Worker : Handles(v, f)' /\ Handles(x, f)' => v = x
      BY <2>2 DEF HandledOnce, Events
    <2>. QED
      BY <2>3, <2>4, <2>5 DEF HandledOnce, IsCapture
  <1>2. ASSUME NEW e \in Event, NEW w \in Worker, Deliver(w, e) PROVE HandledOnce'
    <2>1. /\ e \in Events \ recorded /\ recorded' = recorded \cup {e} /\ rewarded' = rewarded
          /\ req' = [req EXCEPT ![w] = [Idle EXCEPT !.pc = "handle", !.event = e]]
      BY <1>2 DEF Deliver, Events
    <2>2. ASSUME NEW x \in Worker, NEW f, Handles(x, f)'
          PROVE  IF x = w THEN f = e ELSE Handles(x, f) /\ f \in recorded
      BY <2>1, <2>2 DEF Handles, Idle, WalletInv, TypeOK, RequestsWork, Works
    <2>3. IsCapture(e) => rewarded[e.payment] = 0
      <3>1. e.payment \in Payment /\ rewarded[e.payment] \in Nat
        BY DEF WalletInv, TypeOK, Event
      <3>2. IsCapture(e) => ~ \E f \in recorded : IsCapture(f) /\ f.payment = e.payment
        BY <2>1 DEF CaptureEvents, Events
      <3>. QED
        BY <3>1, <3>2 DEF HandledOnce
    <2>4. \A f \in Events', v, x \in Worker : Handles(v, f)' /\ Handles(x, f)' => v = x
      BY <2>1, <2>2 DEF HandledOnce, Events
    <2>5. \A f \in Events', x \in Worker :
              Handles(x, f)' /\ IsCapture(f) => rewarded'[f.payment] = 0
      BY <2>1, <2>2, <2>3 DEF HandledOnce, Events
    <2>6. \A p \in Payment : rewarded'[p] > 0 =>
              \E f \in recorded' : IsCapture(f) /\ f.payment = p
      BY <2>1 DEF HandledOnce
    <2>. QED
      BY <2>4, <2>5, <2>6 DEF HandledOnce, IsCapture
  <1>3. ASSUME NEW w \in Worker, EndRequest(w), UNCHANGED <<recorded, rewarded>>
        PROVE  HandledOnce'
    BY <1>3, EndRequestKeeps, KeepHandled DEF Idle, WalletInv
  <1>4. ASSUME NEW w \in Worker,
               \/ CommitTopUp(w) \/ CommitCash(w) \/ RefuseConfirm(w) \/ CommitDebit(w)
               \/ SaveIntent(w) \/ Abort(w) \/ HandleNothing(w) \/ HandleFailed(w)
               \/ HandlerFails(w)
        PROVE  HandledOnce'
    <2>1. EndRequest(w) /\ UNCHANGED <<recorded, rewarded>>
      BY <1>4 DEF CommitTopUp, CommitCash, RefuseConfirm, CommitDebit, SaveIntent, Abort,
                  HandleNothing, HandleFailed, HandlerFails, rows
    <2>. QED
      BY <2>1, <1>3
  <1>5. ASSUME NEW w \in Worker,
               \/ \E u \in User, a \in TopUp : BeginTopUp(w, u, a)
               \/ \E p \in Payment : BeginConfirm(w, p) \/ BeginIntent(w, p)
               \/ LockWalletForDebit(w) \/ CallStripe(w)
        PROVE  HandledOnce'
    <2>1. UNCHANGED <<recorded, rewarded>>
      BY <1>5 DEF BeginTopUp, BeginConfirm, BeginIntent, LockWalletForDebit, CallStripe, rows
    <2>2. req'[w].pc # "handle" /\ \A x \in Worker \ {w} : req'[x] = req[x]
      <3>1. req[w] \in Request
        BY DEF WalletInv, TypeOK
      <3>2. CASE LockWalletForDebit(w) \/ CallStripe(w)
        BY <3>1, <3>2 DEF LockWalletForDebit, CallStripe, WalletInv, TypeOK, Request
      <3>3. CASE \E u \in User, a \in TopUp : BeginTopUp(w, u, a)
        BY <3>3 DEF BeginTopUp, WalletInv, TypeOK, Idle
      <3>4. CASE \E p \in Payment : BeginConfirm(w, p)
        BY <3>4 DEF BeginConfirm, WalletInv, TypeOK, Idle
      <3>5. CASE \E p \in Payment : BeginIntent(w, p)
        BY <3>5 DEF BeginIntent, WalletInv, TypeOK, Idle
      <3>. QED
        BY <1>5, <3>2, <3>3, <3>4, <3>5
    <2>. QED
      BY <2>1, <2>2, KeepHandled
  <1>6. ASSUME UNCHANGED <<req, recorded, rewarded>> PROVE HandledOnce'
    BY <1>6, KeepHandled
  <1>7. ASSUME NEW p \in Payment, Decline(p) \/ Capture(p) PROVE HandledOnce'
    BY <1>6, <1>7 DEF Decline, Capture, rows
  <1>8. ASSUME NEW e \in Event, NEW w \in Worker, AnswerDuplicate(w, e) PROVE HandledOnce'
    BY <1>6, <1>8 DEF AnswerDuplicate, rows
  <1>9. CASE UNCHANGED vars
    BY <1>6, <1>9 DEF vars, rows
  <1>. QED
    BY <1>1, <1>2, <1>4, <1>5, <1>7, <1>8, <1>9 DEF Next, Begin, Proceed, Redeliver

(* Stripe captures once and for all. *)
LEMMA CapturedStays ==
    ASSUME PaidInv, [Next]_vars
    PROVE  \A p \in Payment : stripe[p] = "captured" => stripe'[p] = "captured"
  <1>. USE DEF PaidInv
  <1>1. ASSUME NEW w \in Worker, CallStripe(w)
        PROVE  \A p \in Payment : stripe[p] = "captured" => stripe'[p] = "captured"
    BY <1>1 DEF CallStripe, WalletInv, TypeOK
  <1>2. ASSUME NEW q \in Payment, Capture(q)
        PROVE  \A p \in Payment : stripe[p] = "captured" => stripe'[p] = "captured"
    BY <1>2 DEF Capture, WalletInv, TypeOK
  <1>3. \/ \E w \in Worker : CallStripe(w)
        \/ \E q \in Payment : Capture(q)
        \/ stripe' = stripe
    BY DEF Next, Begin, Proceed, Redeliver, BeginTopUp, BeginConfirm, BeginIntent,
           CommitTopUp, CommitCash, LockWalletForDebit, RefuseConfirm, CommitDebit,
           SaveIntent, Abort, Decline, Deliver, AnswerDuplicate, Answer, HandleSucceeded,
           HandleNothing, HandleFailed, HandlerFails, vars, rows, external
  <1>. QED
    BY <1>1, <1>2, <1>3

LEMMA StepFulfilled ==
    ASSUME PaidInv, [Next]_vars
    PROVE  FulfilledOnce'
  <1>. USE DEF PaidInv
  <1>1. \A p \in Payment : stripe[p] = "captured" => stripe'[p] = "captured"
    BY CapturedStays
  <1>2. ASSUME NEW w \in Worker, HandleSucceeded(w) PROVE FulfilledOnce'
    <2>. PICK e : e = req[w].event
      OBVIOUS
    <2>1. /\ e \in Events /\ IsCapture(e) /\ Handles(w, e) /\ e.payment \in Payment
          /\ rewarded' = [rewarded EXCEPT ![e.payment] = rewarded[e.payment] + 1]
      BY <1>2 DEF HandleSucceeded, IsCapture, Handles, Events, WalletInv, TypeOK, Event,
                  RequestsWork, Works
    <2>2. rewarded[e.payment] = 0 /\ stripe[e.payment] = "captured"
      BY <2>1 DEF HandledOnce, CaptureEvents
    <2>. QED
      BY <1>1, <2>1, <2>2 DEF FulfilledOnce, WalletInv, TypeOK
  <1>3. (\E w \in Worker : HandleSucceeded(w)) \/ rewarded' = rewarded
    BY DEF Next, Begin, Proceed, Redeliver, BeginTopUp, BeginConfirm, BeginIntent,
           CommitTopUp, CommitCash, LockWalletForDebit, RefuseConfirm, CommitDebit,
           CallStripe, SaveIntent, Abort, Decline, Capture, Deliver, AnswerDuplicate,
           HandleNothing, HandleFailed, HandlerFails, vars, rows
  <1>. QED
    BY <1>1, <1>2, <1>3 DEF FulfilledOnce, WalletInv, TypeOK

(* The entry that shows a payment's debit. *)
Debited(p) == \E i \in 1 .. Len(entries[Owner[p]]) : entries[Owner[p]][i].payment = p

Grows(u) ==
    /\ Len(entries[u]) <= Len(entries'[u])
    /\ \A i \in 1 .. Len(entries[u]) : entries'[u][i] = entries[u][i]

LEMMA AppendGrows ==
    ASSUME NEW S, NEW s \in Seq(S), NEW e \in S, NEW t, t = Append(s, e)
    PROVE  /\ Len(s) \in Nat /\ Len(t) = Len(s) + 1 /\ t[Len(s) + 1] = e
           /\ \A i \in 1 .. Len(s) : t[i] = s[i]
  OBVIOUS

LEMMA PostGrows ==
    ASSUME WalletInv, NEW w \in Worker, req[w].pc \in {"topUp", "debit"},
           NEW delta \in Int, NEW q \in Payment \cup {NoPayment},
           Post(req[w].user, req[w].seen, delta, q)
    PROVE  /\ \A u \in User : Grows(u)
           /\ LET n == Len(entries'[req[w].user])
              IN  n \in Nat \ {0} /\ entries'[req[w].user][n].payment = q
  <1>. DEFINE u == req[w].user
              e == [delta |-> delta, after |-> req[w].seen + delta, payment |-> q]
  <1>1. u \in User /\ req[w].seen \in Int
    BY DEF WalletInv, TypeOK, Request, RequestsWork, Works
  <1>2. \A v \in User : entries'[v] = IF v = u THEN Append(entries[u], e) ELSE entries[v]
    BY <1>1, PostEntries DEF WalletInv
  <1>3. \A v \in User : entries[v] \in Seq(Entry)
    BY DEF WalletInv, TypeOK
  <1>4. e.payment = q /\ e \in Entry
    BY <1>1 DEF Entry
  <1>. HIDE DEF e
  <1>5. entries[u] \in Seq(Entry) /\ entries'[u] = Append(entries[u], e)
    BY <1>1, <1>2, <1>3
  <1>6. /\ Len(entries[u]) \in Nat /\ Len(entries'[u]) = Len(entries[u]) + 1
        /\ entries'[u][Len(entries[u]) + 1] = e
        /\ \A i \in 1 .. Len(entries[u]) : entries'[u][i] = entries[u][i]
    BY <1>4, <1>5, AppendGrows
  <1>7. Grows(u)
    BY <1>6 DEF Grows
  <1>8. \A v \in User \ {u} : Grows(v)
    BY <1>2, <1>3 DEF Grows
  <1>. QED
    BY <1>4, <1>6, <1>7, <1>8

LEMMA EntriesGrow ==
    ASSUME WalletInv, [Next]_vars
    PROVE  \A u \in User : Grows(u)
  <1>1. ASSUME NEW w \in Worker, CommitTopUp(w) PROVE \A u \in User : Grows(u)
    <2>1. req[w].amount \in Int
      BY DEF WalletInv, TypeOK, Request
    <2>. QED
      BY <1>1, <2>1, PostGrows DEF CommitTopUp
  <1>2. ASSUME NEW w \in Worker, CommitDebit(w) PROVE \A u \in User : Grows(u)
    <2>1. -req[w].amount \in Int /\ req[w].payment \in Payment
      BY <1>2 DEF CommitDebit, WalletInv, TypeOK, Request, RequestsWork, Works
    <2>. QED
      BY <1>2, <2>1, PostGrows DEF CommitDebit
  <1>3. \/ \E w \in Worker : CommitTopUp(w) \/ CommitDebit(w)
        \/ entries' = entries
    BY DEF Next, Begin, Proceed, Redeliver, BeginTopUp, BeginConfirm, BeginIntent,
           CommitCash, LockWalletForDebit, RefuseConfirm, CallStripe, SaveIntent, Abort,
           Decline, Capture, Deliver, AnswerDuplicate, HandleSucceeded, HandleNothing,
           HandleFailed, HandlerFails, vars, rows
  <1>4. CASE entries' = entries
    BY <1>4 DEF Grows, WalletInv, TypeOK
  <1>. QED
    BY <1>1, <1>2, <1>3, <1>4

LEMMA StepFunded ==
    ASSUME PaidInv, [Next]_vars
    PROVE  SucceededIsFunded'
  <1>. USE DEF PaidInv
  <1>. DEFINE Funded(p) == stripe[p] = "captured" \/ Method[p] = "cash" \/ Debited(p)
              PaidFor == \A p \in Payment : status'[p] = "succeeded" => Funded(p)'
  <1>1. ASSUME NEW p \in Payment, Funded(p) PROVE Funded(p)'
    <2>1. Owner[p] \in User /\ Grows(Owner[p]) /\ entries[Owner[p]] \in Seq(Entry)
      BY EntriesGrow, PaymentsAssumption DEF WalletInv, TypeOK
    <2>2. Len(entries[Owner[p]]) \in Nat /\ Len(entries'[Owner[p]]) \in Nat
      BY <2>1, StepTypeOK DEF TypeOK
    <2>3. Debited(p) => Debited(p)'
      BY <2>1, <2>2 DEF Debited, Grows
    <2>. QED
      BY <1>1, <2>3, CapturedStays
  <1>2. \A p \in Payment : status[p] = "succeeded" => Funded(p)
    BY DEF SucceededIsFunded, Debited
  <1>3. ASSUME NEW p \in Payment, Funded(p)',
               \A q \in Payment \ {p} : status'[q] = status[q]
        PROVE  PaidFor
    BY <1>1, <1>2, <1>3
  <1>4. ASSUME \A p \in Payment : status'[p] \in {status[p], "requires_action", "failed"}
        PROVE  PaidFor
    BY <1>1, <1>2, <1>4
  <1>5. ASSUME NEW w \in Worker, CommitCash(w) PROVE PaidFor
    <2>1. req[w].payment \in Payment /\ Method[req[w].payment] = "cash"
      BY <1>5 DEF CommitCash, WalletInv, RequestsWork, Works
    <2>. QED
      BY <1>3, <1>5, <2>1 DEF CommitCash, WalletInv, TypeOK
  <1>6. ASSUME NEW w \in Worker, CommitDebit(w) PROVE PaidFor
    <2>. PICK p : p = req[w].payment
      OBVIOUS
    <2>1. p \in Payment /\ req[w].user = Owner[p] /\ -req[w].amount \in Int
      BY <1>6 DEF CommitDebit, WalletInv, TypeOK, Request, RequestsWork, Works
    <2>2. LET n == Len(entries'[Owner[p]])
          IN  n \in Nat \ {0} /\ entries'[Owner[p]][n].payment = p
      BY <1>6, <2>1, PostGrows DEF CommitDebit
    <2>3. Debited(p)'
      BY <2>2 DEF Debited
    <2>4. \A q \in Payment \ {p} : status'[q] = status[q]
      BY <1>6 DEF CommitDebit, WalletInv, TypeOK
    <2>. QED
      BY <1>3, <2>1, <2>3, <2>4
  <1>7. ASSUME NEW w \in Worker, HandleSucceeded(w) PROVE PaidFor
    <2>. PICK p : p = req[w].event.payment
      OBVIOUS
    <2>1. p \in Payment /\ stripe'[p] = "captured"
      BY <1>7 DEF HandleSucceeded, Answer, IsCapture, CaptureEvents, Events, WalletInv,
                  TypeOK, Event, RequestsWork, Works
    <2>2. \A q \in Payment \ {p} : status'[q] = status[q]
      BY <1>7 DEF HandleSucceeded, WalletInv, TypeOK
    <2>. QED
      BY <1>3, <2>1, <2>2
  <1>8. ASSUME NEW w \in Worker, SaveIntent(w) \/ HandleFailed(w) PROVE PaidFor
    BY <1>4, <1>8 DEF SaveIntent, HandleFailed, WalletInv, TypeOK
  <1>9. \/ \E w \in Worker : \/ CommitCash(w) \/ CommitDebit(w) \/ HandleSucceeded(w)
                             \/ SaveIntent(w) \/ HandleFailed(w)
        \/ status' = status
    BY DEF Next, Begin, Proceed, Redeliver, BeginTopUp, BeginConfirm, BeginIntent,
           CommitTopUp, LockWalletForDebit, RefuseConfirm, CallStripe, Abort,
           Decline, Capture, Deliver, AnswerDuplicate, HandleNothing, HandlerFails,
           vars, rows
  <1>10. PaidFor
    BY <1>4, <1>5, <1>6, <1>7, <1>8, <1>9
  <1>. QED
    BY <1>10 DEF SucceededIsFunded, Debited

LEMMA PaidStep ==
    ASSUME PaidInv, [Next]_vars
    PROVE  PaidInv'
  <1>1. WalletInv'
    BY StepTypeOK, StepWallets DEF PaidInv, WalletInv
  <1>. QED
    BY <1>1, StepCaptureEvents, StepHandledOnce, StepFunded, StepFulfilled DEF PaidInv

(* The inductive invariant of what is paid. *)
THEOREM PaidInvariance == Spec => []PaidInv
  <1>1. Init => PaidInv
    BY InitTypeOK, InitWallets, InitPaid DEF PaidInv, WalletInv
  <1>2. PaidInv /\ [Next]_vars => PaidInv'
    BY PaidStep
  <1>. QED
    BY <1>1, <1>2, PTL DEF Spec

(* "succeeded" needs a capture at Stripe, a debit of the owner's wallet or
   cash, however confirmations, intents and webhooks interleave. *)
THEOREM PaidIsFunded == Spec => []SucceededIsFunded
  BY PaidInvariance, PTL DEF PaidInv

(* handle_webhook fulfils a payment at most once, and only a captured one,
   however often Stripe delivers its events and in whatever order. *)
THEOREM FulfilledAtMostOnce == Spec => []FulfilledOnce
  BY PaidInvariance, PTL DEF PaidInv

(***************************************************************************)
(* Loyalty                                                                 *)
(***************************************************************************)

(* What a fulfilment has in hand: the capture its worker handles, and a
   referral only for the referrer of who paid for a booking. *)
AwardHolds(w) ==
    /\ Open(w) => req[w].pc = "handle" /\ IsCapture(req[w].event)
    /\ award[w].at = "referred" <=> award[w].referral # NoReferral
    /\ award[w].referral # NoReferral =>
        /\ PaymentOf(w) \in Booked
        /\ Referee[award[w].referral] = UserOf(w)

AwardsHold == \A w \in Worker : AwardHolds(w)

(* Points that were read had been earned. *)
EarnedBefore(w) ==
    /\ Open(w) => award[w].own.points <= Earned(UserOf(w))
    /\ award[w].referral # NoReferral =>
            award[w].referrer.points <= Earned(Referrer[award[w].referral])

ReadsAreEarned == \A w \in Worker : EarnedBefore(w)

SameCounts(row, read) ==
    row.points = read.points /\ row.washes = read.washes /\ row.tier = read.tier

(* The row of a user whose fulfilments have not met is as it was read. *)
FreshAward(w) ==
    /\ Open(w) /\ UserOf(w) \notin crossed => SameCounts(loyalty[UserOf(w)], award[w].own)
    /\ award[w].referral # NoReferral /\ Referrer[award[w].referral] \notin crossed =>
            SameCounts(loyalty[Referrer[award[w].referral]], award[w].referrer)

AwardReadsStayFresh == \A w \in Worker : FreshAward(w)

(* A payment is passed over when it is fulfilled. *)
PassedOverArePaid == \A p \in passedOver : rewarded[p] > 0

AwardInv == LoyaltyTypeOK /\ AwardsHold /\ FulfilmentExcludes /\ PassedOverArePaid

PointsInv == ReadsAreEarned /\ AwardReadsStayFresh /\ PointsAccounted

LoyaltyInv == AwardInv /\ PointsInv /\ TierEarned /\ FirstBookingRewardsReferral

-----------------------------------------------------------------------------
(* The largest and the smallest of finitely many numbers *)

HasMinimal(T) == \E U \in T : \A V \in T : V \subseteq U => V = U

(* Of any subsets of a finite set one is minimal. *)
LEMMA MinimalSubset ==
    ASSUME NEW S, IsFiniteSet(S), NEW T \in SUBSET (SUBSET S), T # {}
    PROVE  HasMinimal(T)
  <1>1. T \subseteq FiniteSubsetsOf(S)
    BY FS_Subset DEF FiniteSubsetsOf
  <1>2. IsWellFoundedOn(StrictSubsetOrdering(S), FiniteSubsetsOf(S))
    BY FS_StrictSubsetOrderingWellFounded
  <1>3. PICK U \in T : \A V \in T : ~ (<<V, U>> \in StrictSubsetOrdering(S))
    BY <1>1, <1>2, WFMin, Zenon
  <1>4. ASSUME NEW V \in T, V \subseteq U, V # U PROVE FALSE
    <2>1. <<V, U>> \in (SUBSET S) \X (SUBSET S)
      BY <1>4
    <2>2. <<V, U>> \in StrictSubsetOrdering(S)
      BY <1>4, <2>1 DEF StrictSubsetOrdering
    <2>. QED
      BY <1>3, <2>2
  <1>. QED
    BY <1>4 DEF HasMinimal

(* A finite set of numbers that is not empty has a largest one: of the sets
   of those above a member one is minimal, and it is empty. *)
LEMMA MaxIsThere ==
    ASSUME NEW S, IsFiniteSet(S), S \subseteq Int, S # {}
    PROVE  Max(S) \in S /\ \A y \in S : Max(S) >= y
  <1>. DEFINE above(x) == {y \in S : y > x}
  <1>. PICK T : T = {above(x) : x \in S}
    OBVIOUS
  <1>1. T \in SUBSET (SUBSET S) /\ T # {}
    OBVIOUS
  <1>6. HasMinimal(T)
    BY <1>1, MinimalSubset
  <1>2. PICK U \in T : \A V \in T : V \subseteq U => V = U
    BY <1>6 DEF HasMinimal
  <1>3. PICK x \in S : U = above(x)
    OBVIOUS
  <1>4. ASSUME NEW y \in S, y > x PROVE FALSE
    <2>1. x \in Int /\ y \in Int
      OBVIOUS
    <2>2. above(y) \subseteq U
      <3>1. ASSUME NEW z \in S, z > y PROVE z > x
        BY <1>4, <2>1, <3>1
      <3>. QED
        BY <1>3, <3>1
    <2>3. y \in U /\ y \notin above(y)
      BY <1>3, <1>4, <2>1
    <2>4. above(y) \in T
      OBVIOUS
    <2>. QED
      BY <1>2, <2>2, <2>3, <2>4
  <1>5. \A y \in S : x >= y
    BY <1>4
  <1>. QED
    BY <1>5 DEF Max

LEMMA MinIsThere ==
    ASSUME NEW S, IsFiniteSet(S), S \subseteq Int, S # {}
    PROVE  Min(S) \in S /\ \A y \in S : Min(S) <= y
  <1>. DEFINE below(x) == {y \in S : y < x}
  <1>. PICK T : T = {below(x) : x \in S}
    OBVIOUS
  <1>1. T \in SUBSET (SUBSET S) /\ T # {}
    OBVIOUS
  <1>6. HasMinimal(T)
    BY <1>1, MinimalSubset
  <1>2. PICK U \in T : \A V \in T : V \subseteq U => V = U
    BY <1>6 DEF HasMinimal
  <1>3. PICK x \in S : U = below(x)
    OBVIOUS
  <1>4. ASSUME NEW y \in S, y < x PROVE FALSE
    <2>1. x \in Int /\ y \in Int
      OBVIOUS
    <2>2. below(y) \subseteq U
      <3>1. ASSUME NEW z \in S, z < y PROVE z < x
        BY <1>4, <2>1, <3>1
      <3>. QED
        BY <1>3, <3>1
    <2>3. y \in U /\ y \notin below(y)
      BY <1>3, <1>4, <2>1
    <2>4. below(y) \in T
      OBVIOUS
    <2>. QED
      BY <1>2, <2>2, <2>3, <2>4
  <1>5. \A y \in S : x <= y
    BY <1>4
  <1>. QED
    BY <1>5 DEF Min

-----------------------------------------------------------------------------
(* Tiers *)

LEMMA TierOf ==
    ASSUME NEW n \in Nat
    PROVE  /\ BestTier(n) \in Threshold \cup {NoTier}
           /\ BestTier(n) \in Int /\ BestTier(n) >= NoTier /\ BestTier(n) <= n
           /\ \A t \in Threshold : t <= n => t <= BestTier(n)
  <1>. DEFINE S == {t \in Threshold : t <= n} \cup {NoTier}
  <1>1. IsFiniteSet({t \in Threshold : t <= n})
    BY FS_Subset, LoyaltyAssumption
  <1>2. IsFiniteSet(S)
    BY <1>1, FS_AddElement
  <1>12. Threshold \subseteq Int /\ NoTier \in Int /\ NoTier <= n
    BY LoyaltyAssumption DEF NoTier
  <1>3. S \subseteq Int /\ NoTier \in S /\ NoTier <= n
    BY <1>12
  <1>9. \A t \in S : t <= n
    BY <1>3
  <1>7. \A t \in Threshold : t <= n => t \in S
    OBVIOUS
  <1>10. S \subseteq Threshold \cup {NoTier}
    OBVIOUS
  <1>5. BestTier(n) = Max(S)
    BY DEF BestTier
  <1>. HIDE DEF S
  <1>4. Max(S) \in S /\ \A y \in S : Max(S) >= y
    BY <1>2, <1>3, MaxIsThere
  <1>6. Max(S) \in Int /\ NoTier \in Int
    BY <1>3, <1>4 DEF NoTier
  <1>11. \A t \in Threshold : t \in Int
    BY LoyaltyAssumption
  <1>. QED
    BY <1>3, <1>4, <1>5, <1>6, <1>7, <1>9, <1>10, <1>11

(* More washes, no lower tier. *)
LEMMA TierGrows ==
    ASSUME NEW m \in Nat, NEW n \in Nat, m <= n
    PROVE  BestTier(m) <= BestTier(n)
  <1>1. CASE BestTier(m) = NoTier
    BY <1>1, TierOf
  <1>2. CASE BestTier(m) \in Threshold
    <2>1. BestTier(m) \in Int /\ BestTier(m) <= m
      BY TierOf
    <2>. QED
      BY <1>2, <2>1, TierOf
  <1>. QED
    BY <1>1, <1>2, TierOf

-----------------------------------------------------------------------------
(* Fulfilments as steps of Payments *)

(* A step of a fulfilment changes no payment before it commits; the commit is
   the step in which Payments fulfils the payment. *)
LEMMA StepOfPayments ==
    ASSUME [LoyaltyNext]_allVars
    PROVE  [Next]_vars
  <1>1. CASE UNCHANGED allVars
    BY <1>1 DEF allVars
  <1>2. ASSUME NEW w \in Worker, AwardStep(w) PROVE HandleSucceeded(w) \/ UNCHANGED vars
    BY <1>2 DEF AwardStep, BeginAward, Credit, LockReferral, CommitAward, CommitReward
  <1>3. ASSUME NEW w \in Worker, PaymentStep(w) PROVE Proceed(w)
    BY <1>3 DEF PaymentStep, Proceed
  <1>4. ASSUME NEW w \in Worker, RollBack(w) PROVE Abort(w) \/ HandlerFails(w)
    BY <1>4 DEF RollBack
  <1>5. ASSUME NEW p \in Payment, CompleteBooking(p) PROVE UNCHANGED vars
    BY <1>5 DEF CompleteBooking
  <1>6. ASSUME NEW u \in User, ViewStatus(u) PROVE UNCHANGED vars
    BY <1>6 DEF ViewStatus
  <1>. QED
    BY <1>1, <1>2, <1>3, <1>4, <1>5, <1>6 DEF LoyaltyNext, Next, Begin, Proceed

(* The webhook's transaction, step by step and with its locks, does what
   Payments says of it in one step. *)
THEOREM ImplementsPayments == LoyaltySpec => Spec
  <1>1. LoyaltyInit => Init
    BY DEF LoyaltyInit
  <1>2. [LoyaltyNext]_allVars => [Next]_vars
    BY StepOfPayments
  <1>. QED
    BY <1>1, <1>2, PTL DEF LoyaltySpec, Spec

-----------------------------------------------------------------------------
(* Open fulfilments *)

LEMMA OpenHandles ==
    ASSUME PaidInv, AwardInv, NEW w \in Worker, Open(w)
    PROVE  /\ req[w].pc = "handle" /\ req[w].event \in Events
           /\ PaymentOf(w) \in Payment /\ UserOf(w) \in User
           /\ rewarded[PaymentOf(w)] = 0
           /\ status[PaymentOf(w)] # "succeeded"
  <1>1. req[w].pc = "handle" /\ IsCapture(req[w].event)
    BY DEF AwardInv, AwardsHold, AwardHolds
  <1>2. req[w].event \in recorded /\ recorded \subseteq Event
    BY <1>1 DEF PaidInv, WalletInv, RequestsWork, Works, TypeOK
  <1>3. PaymentOf(w) \in Payment
    BY <1>2 DEF PaymentOf, Event
  <1>4. UserOf(w) \in User
    BY <1>3, PaymentsAssumption DEF UserOf
  <1>5. req[w].event \in Events
    BY <1>2 DEF Events
  <1>6. rewarded[PaymentOf(w)] = 0
    BY <1>1, <1>5 DEF PaidInv, HandledOnce, Handles, PaymentOf
  <1>. QED
    BY <1>1, <1>3, <1>4, <1>5, <1>6 DEF AwardInv, FulfilmentExcludes

(* A worker without a fulfilment has no referral in hand and holds no row. *)
LEMMA ClosedHoldsNothing ==
    ASSUME AwardsHold, NEW w \in Worker, ~Open(w)
    PROVE  award[w].at = "none" /\ award[w].referral = NoReferral /\ Holds(w) = {}
  BY DEF AwardsHold, AwardHolds, Open, Holds

LEMMA NoAwardType == NoAward \in Award /\ NoPoints \in LoyaltyRow
  BY DEF NoAward, Award, NoPoints, LoyaltyRow, NoTier

LEMMA ReferralInHand ==
    ASSUME AwardInv, NEW w \in Worker, award[w].referral # NoReferral
    PROVE  /\ award[w].referral \in Referral /\ Open(w)
           /\ Referrer[award[w].referral] \in User
           /\ Referee[award[w].referral] = UserOf(w)
           /\ Referrer[award[w].referral] # UserOf(w)
           /\ rewardState[award[w].referral] = "pending"
           /\ PaymentOf(w) \in Booked
  <1>1. award[w].referral \in Referral
    BY DEF AwardInv, LoyaltyTypeOK, Award
  <1>2. award[w].at = "referred"
    BY DEF AwardInv, AwardsHold, AwardHolds
  <1>. QED
    BY <1>1, <1>2, LoyaltyAssumption
    DEF AwardInv, AwardsHold, AwardHolds, Open, FulfilmentExcludes

-----------------------------------------------------------------------------
(* Fulfilments that go on or are undone *)

KeepsAward(v) ==
    /\ award'[v] = award[v]
    /\ Open(v) => req'[v] = req[v] /\ status'[PaymentOf(v)] # "succeeded"

LEMMA KeptAward ==
    ASSUME AwardInv, NEW v \in Worker, award'[v] = NoAward \/ KeepsAward(v)
    PROVE  /\ Open(v)' => /\ Open(v) /\ award'[v] = award[v] /\ req'[v] = req[v]
                          /\ PaymentOf(v)' = PaymentOf(v) /\ UserOf(v)' = UserOf(v)
                          /\ status'[PaymentOf(v)] # "succeeded"
           /\ ~Open(v)' => award'[v].at = "none" /\ award'[v].referral = NoReferral
           /\ Holds(v)' \subseteq Holds(v)
  <1>1. CASE award'[v] = NoAward
    BY <1>1 DEF NoAward, Open, Holds
  <1>2. CASE KeepsAward(v) /\ Open(v)
    <2>1. Open(v)' /\ PaymentOf(v)' = PaymentOf(v) /\ UserOf(v)' = UserOf(v)
      BY <1>2 DEF KeepsAward, Open, PaymentOf, UserOf
    <2>. QED
      BY <1>2, <2>1 DEF KeepsAward, Holds
  <1>3. CASE KeepsAward(v) /\ ~Open(v)
    <2>1. award[v].at = "none" /\ award[v].referral = NoReferral /\ award'[v] = award[v]
      BY <1>3, ClosedHoldsNothing DEF AwardInv, KeepsAward
    <2>. QED
      BY <2>1 DEF Open, Holds
  <1>. QED
    BY <1>1, <1>2, <1>3

LEMMA SameEarned ==
    ASSUME UNCHANGED <<rewarded, rewardState>>
    PROVE  \A u : Paid(u)' = Paid(u) /\ Earned(u)' = Earned(u)
  BY DEF Paid, Earned, RewardsOf, PointsFor

LEMMA FewerAwards ==
    ASSUME LoyaltyInv, UNCHANGED <<loyalty, rewardState, completed, crossed, passedOver, rewarded>>,
           award' \in [Worker -> Award],
           \A v \in Worker : award'[v] = NoAward \/ KeepsAward(v)
    PROVE  LoyaltyInv'
  <1>. USE DEF LoyaltyInv
  <1>1. ASSUME NEW v \in Worker
        PROVE  /\ Open(v)' => /\ Open(v) /\ award'[v] = award[v] /\ req'[v] = req[v]
                              /\ PaymentOf(v)' = PaymentOf(v) /\ UserOf(v)' = UserOf(v)
                              /\ status'[PaymentOf(v)] # "succeeded"
               /\ ~Open(v)' => award'[v].at = "none" /\ award'[v].referral = NoReferral
               /\ Holds(v)' \subseteq Holds(v)
    BY KeptAward
  <1>2. LoyaltyTypeOK' /\ PassedOverArePaid'
    BY DEF AwardInv, LoyaltyTypeOK, PassedOverArePaid
  <1>3. AwardsHold'
    <2>. SUFFICES ASSUME NEW v \in Worker PROVE AwardHolds(v)'
      BY DEF AwardsHold
    <2>1. AwardHolds(v)
      BY DEF AwardInv, AwardsHold
    <2>. QED
      BY <1>1, <2>1 DEF AwardHolds, Open
  <1>4. FulfilmentExcludes'
    <2>. SUFFICES ASSUME NEW v \in Worker, NEW w \in Worker
         PROVE  /\ Open(w)' => status'[PaymentOf(w)'] # "succeeded"
                /\ award'[w].referral # NoReferral => rewardState'[award'[w].referral] = "pending"
                /\ v # w /\ Open(v)' /\ Open(w)' =>
                    /\ PaymentOf(v)' # PaymentOf(w)'
                    /\ award'[v].referral = award'[w].referral => award'[v].referral = NoReferral
                    /\ Holds(v)' \cap Holds(w)' = {}
      BY DEF FulfilmentExcludes
    <2>1. Open(w)' => status'[PaymentOf(w)'] # "succeeded"
      BY <1>1
    <2>2. award'[w].referral # NoReferral => rewardState'[award'[w].referral] = "pending"
      BY <1>1 DEF AwardInv, FulfilmentExcludes
    <2>3. v # w /\ Open(v)' /\ Open(w)' =>
                    /\ PaymentOf(v)' # PaymentOf(w)'
                    /\ award'[v].referral = award'[w].referral => award'[v].referral = NoReferral
                    /\ Holds(v)' \cap Holds(w)' = {}
      <3>1. v # w /\ Open(v) /\ Open(w) =>
                    /\ PaymentOf(v) # PaymentOf(w)
                    /\ award[v].referral = award[w].referral => award[v].referral = NoReferral
                    /\ Holds(v) \cap Holds(w) = {}
        BY DEF AwardInv, FulfilmentExcludes
      <3>2. Holds(v)' \subseteq Holds(v) /\ Holds(w)' \subseteq Holds(w)
        BY <1>1
      <3>. QED
        BY <1>1, <3>1, <3>2
    <2>. QED
      BY <2>1, <2>2, <2>3
  <1>5. \A u : Paid(u)' = Paid(u) /\ Earned(u)' = Earned(u)
    BY SameEarned
  <1>6. ReadsAreEarned'
    <2>. SUFFICES ASSUME NEW v \in Worker PROVE EarnedBefore(v)'
      BY DEF ReadsAreEarned
    <2>1. EarnedBefore(v)
      BY DEF PointsInv, ReadsAreEarned
    <2>. QED
      BY <1>1, <1>5, <2>1 DEF EarnedBefore
  <1>7. AwardReadsStayFresh'
    <2>. SUFFICES ASSUME NEW v \in Worker PROVE FreshAward(v)'
      BY DEF AwardReadsStayFresh
    <2>1. FreshAward(v)
      BY DEF PointsInv, AwardReadsStayFresh
    <2>. QED
      BY <1>1, <2>1 DEF FreshAward
  <1>8. PointsAccounted'
    BY <1>5 DEF PointsInv, PointsAccounted
  <1>9. TierEarned'
    BY <1>5 DEF TierEarned, WashesToNext, Higher
  <1>10. FirstBookingRewardsReferral'
    BY <1>5 DEF FirstBookingRewardsReferral
  <1>. QED
    BY <1>2, <1>3, <1>4, <1>6, <1>7, <1>8, <1>9, <1>10 DEF AwardInv, PointsInv

(* Steps of other requests: who has a fulfilment open is at the webhook, and
   its payment is locked. *)
LEMMA QuietPayments ==
    ASSUME PaidInv, AwardInv, UNCHANGED loyaltyVars,
           \/ \E w \in Worker : PaymentStep(w)
           \/ \E w \in Worker, p \in Payment : BeginIntent(w, p)
           \/ \E p \in Payment : Capture(p)
           \/ \E e \in Event : Redeliver(e)
    PROVE  rewarded' = rewarded /\ \A v \in Worker : KeepsAward(v)
  <1>0. TypeOK
    BY DEF PaidInv, WalletInv
  <1>. DEFINE Goal == rewarded' = rewarded /\ \A v \in Worker : KeepsAward(v)
  <1>1. ASSUME rewarded' = rewarded,
               \A v \in Worker : Open(v) => req'[v] = req[v] /\ status'[PaymentOf(v)] # "succeeded"
        PROVE  Goal
    BY <1>1 DEF KeepsAward, loyaltyVars
  <1>2. ASSUME NEW v \in Worker, Open(v)
        PROVE  req[v].pc = "handle" /\ PaymentOf(v) \in Payment
               /\ status[PaymentOf(v)] # "succeeded"
    BY <1>2, OpenHandles
  <1>3. ASSUME NEW w \in Worker, PaymentStep(w) PROVE Goal
    <2>1. CASE CallStripe(w)
      BY <1>0, <1>1, <1>2, <2>1 DEF CallStripe, rows, TypeOK
    <2>2. CASE SaveIntent(w)
      <3>1. \A v \in Worker \ {w} : req'[v] = req[v]
        BY <1>0, <2>2, EndRequestKeeps DEF SaveIntent
      <3>2. \A p \in Payment : status'[p] = "succeeded" => status[p] = "succeeded"
        BY <1>0, <2>2 DEF SaveIntent, TypeOK
      <3>. QED
        BY <1>1, <1>2, <2>2, <3>1, <3>2 DEF SaveIntent
    <2>3. CASE HandleNothing(w)
      <3>1. \A v \in Worker \ {w} : req'[v] = req[v]
        BY <1>0, <2>3, EndRequestKeeps DEF HandleNothing
      <3>2. ~Open(w)
        BY <1>2, <2>3 DEF HandleNothing, PaymentOf
      <3>. QED
        BY <1>1, <1>2, <2>3, <3>1, <3>2 DEF HandleNothing, rows
    <2>. QED
      BY <1>3, <2>1, <2>2, <2>3 DEF PaymentStep
  <1>4. ASSUME NEW w \in Worker, NEW p \in Payment, BeginIntent(w, p) PROVE Goal
    BY <1>0, <1>1, <1>2, <1>4 DEF BeginIntent, rows, TypeOK
  <1>5. ASSUME NEW p \in Payment, Capture(p) PROVE Goal
    BY <1>1, <1>2, <1>5 DEF Capture, rows
  <1>6. ASSUME NEW e \in Event, NEW w \in Worker, Deliver(w, e) \/ AnswerDuplicate(w, e)
        PROVE  Goal
    BY <1>0, <1>1, <1>2, <1>6 DEF Deliver, AnswerDuplicate, rows, TypeOK
  <1>. QED
    BY <1>3, <1>4, <1>5, <1>6 DEF Redeliver

LEMMA QuietStep ==
    ASSUME PaidInv, LoyaltyInv, UNCHANGED loyaltyVars,
           \/ \E w \in Worker : PaymentStep(w)
           \/ \E w \in Worker, p \in Payment : BeginIntent(w, p)
           \/ \E p \in Payment : Capture(p)
           \/ \E e \in Event : Redeliver(e)
    PROVE  LoyaltyInv'
  <1>1. rewarded' = rewarded /\ \A v \in Worker : KeepsAward(v)
    BY QuietPayments DEF LoyaltyInv
  <1>. QED
    BY <1>1, FewerAwards DEF loyaltyVars, LoyaltyInv, AwardInv, LoyaltyTypeOK

LEMMA RollBackStep ==
    ASSUME PaidInv, LoyaltyInv, NEW w \in Worker, RollBack(w)
    PROVE  LoyaltyInv'
  <1>1. /\ award' = [award EXCEPT ![w] = NoAward]
        /\ UNCHANGED <<loyalty, rewardState, completed, crossed, passedOver, rewarded, status>>
    BY DEF RollBack, Abort, HandlerFails, rows
  <1>2. \A v \in Worker \ {w} : req'[v] = req[v]
    BY EndRequestKeeps DEF RollBack, Abort, HandlerFails, PaidInv, WalletInv
  <1>3. award \in [Worker -> Award]
    BY DEF LoyaltyInv, AwardInv, LoyaltyTypeOK
  <1>4. \A v \in Worker : award'[v] = NoAward \/ KeepsAward(v)
    BY <1>1, <1>2, <1>3, OpenHandles DEF KeepsAward, LoyaltyInv
  <1>. QED
    BY <1>1, <1>3, <1>4, FewerAwards, NoAwardType

-----------------------------------------------------------------------------
(* A fulfilment begins, credits its user, locks a referral *)

(* Worker w reads or writes on under its locks; nothing is committed. *)
LEMMA AwardGoesOn ==
    ASSUME LoyaltyInv, NEW w \in Worker,
           UNCHANGED <<vars, loyalty, rewardState, completed, crossed, passedOver>>,
           NEW a \in Award, award' = [award EXCEPT ![w] = a], a.at # "none",
           PaymentOf(w) \in Payment, status[PaymentOf(w)] # "succeeded",
           AwardHolds(w)', EarnedBefore(w)', FreshAward(w)',
           a.referral # NoReferral => rewardState[a.referral] = "pending",
           \A v \in Worker \ {w} : Open(v) =>
                /\ PaymentOf(v) # PaymentOf(w)
                /\ award[v].referral = a.referral => a.referral = NoReferral
                /\ Holds(v) \cap Holds(w)' = {}
    PROVE  LoyaltyInv'
  <1>. USE DEF LoyaltyInv
  <1>0. LoyaltyTypeOK
    BY DEF AwardInv
  <1>1. award'[w] = a /\ \A v \in Worker \ {w} : award'[v] = award[v]
    BY <1>0 DEF LoyaltyTypeOK
  <1>2. req' = req /\ status' = status /\ rewarded' = rewarded
    BY DEF vars, rows
  <1>3. \A v \in Worker : PaymentOf(v)' = PaymentOf(v) /\ UserOf(v)' = UserOf(v)
    BY <1>2 DEF PaymentOf, UserOf
  <1>4. \A v \in Worker \ {w} : Open(v)' = Open(v) /\ Holds(v)' = Holds(v)
    BY <1>1, <1>3 DEF Open, Holds
  <1>5. LoyaltyTypeOK' /\ PassedOverArePaid'
    BY <1>0, <1>2 DEF AwardInv, LoyaltyTypeOK, PassedOverArePaid
  <1>6. AwardsHold'
    <2>. SUFFICES ASSUME NEW v \in Worker \ {w} PROVE AwardHolds(v)'
      BY DEF AwardsHold
    <2>1. AwardHolds(v)
      BY DEF AwardInv, AwardsHold
    <2>. QED
      BY <1>1, <1>2, <1>3, <1>4, <2>1 DEF AwardHolds
  <1>7. \A u : Paid(u)' = Paid(u) /\ Earned(u)' = Earned(u)
    BY <1>2, SameEarned
  <1>8. ReadsAreEarned'
    <2>. SUFFICES ASSUME NEW v \in Worker \ {w} PROVE EarnedBefore(v)'
      BY DEF ReadsAreEarned
    <2>1. EarnedBefore(v)
      BY DEF PointsInv, ReadsAreEarned
    <2>. QED
      BY <1>1, <1>3, <1>4, <1>7, <2>1 DEF EarnedBefore
  <1>9. AwardReadsStayFresh'
    <2>. SUFFICES ASSUME NEW v \in Worker \ {w} PROVE FreshAward(v)'
      BY DEF AwardReadsStayFresh
    <2>1. FreshAward(v)
      BY DEF PointsInv, AwardReadsStayFresh
    <2>. QED
      BY <1>1, <1>3, <1>4, <2>1 DEF FreshAward
  <1>10. PointsAccounted' /\ FirstBookingRewardsReferral'
    BY <1>7 DEF PointsInv, PointsAccounted, FirstBookingRewardsReferral
  <1>11. TierEarned'
    BY <1>7 DEF TierEarned, WashesToNext, Higher
  <1>12. FulfilmentExcludes'
    <2>. SUFFICES ASSUME NEW v \in Worker, NEW x \in Worker
         PROVE  /\ Open(x)' => status'[PaymentOf(x)'] # "succeeded"
                /\ award'[x].referral # NoReferral => rewardState'[award'[x].referral] = "pending"
                /\ v # x /\ Open(v)' /\ Open(x)' =>
                    /\ PaymentOf(v)' # PaymentOf(x)'
                    /\ award'[v].referral = award'[x].referral => award'[v].referral = NoReferral
                    /\ Holds(v)' \cap Holds(x)' = {}
      BY DEF FulfilmentExcludes
    <2>1. Open(x)' => status'[PaymentOf(x)'] # "succeeded"
      BY <1>2, <1>3, <1>4 DEF AwardInv, FulfilmentExcludes
    <2>2. award'[x].referral # NoReferral => rewardState'[award'[x].referral] = "pending"
      BY <1>1 DEF AwardInv, FulfilmentExcludes
    <2>3. ASSUME v # x, Open(v)', Open(x)'
          PROVE  /\ PaymentOf(v)' # PaymentOf(x)'
                 /\ award'[v].referral = award'[x].referral => award'[v].referral = NoReferral
                 /\ Holds(v)' \cap Holds(x)' = {}
      <3>1. CASE v # w /\ x # w
        BY <1>1, <1>3, <1>4, <2>3, <3>1 DEF AwardInv, FulfilmentExcludes
      <3>2. CASE v = w
        BY <1>1, <1>3, <1>4, <2>3, <3>2
      <3>3. CASE x = w
        BY <1>1, <1>3, <1>4, <2>3, <3>3
      <3>. QED
        BY <3>1, <3>2, <3>3
    <2>. QED
      BY <2>1, <2>2, <2>3
  <1>. QED
    BY <1>5, <1>6, <1>8, <1>9, <1>10, <1>11, <1>12 DEF AwardInv, PointsInv

LEMMA BeginAwardStep ==
    ASSUME PaidInv, LoyaltyInv, NEW w \in Worker, BeginAward(w)
    PROVE  LoyaltyInv'
  <1>. DEFINE u == UserOf(w)
              a == [NoAward EXCEPT !.at = "read", !.own = loyalty[u]]
  <1>0. LoyaltyTypeOK /\ PointsAccounted
    BY DEF LoyaltyInv, AwardInv, PointsInv
  <1>1. req[w].event \in Event
    BY DEF BeginAward, PaidInv, WalletInv, TypeOK, RequestsWork, Works
  <1>2. PaymentOf(w) \in Payment /\ u \in User
    BY <1>1, PaymentsAssumption DEF PaymentOf, UserOf, Event
  <1>3. loyalty[u] \in LoyaltyRow
    BY <1>0, <1>2 DEF LoyaltyTypeOK
  <1>4. /\ a \in Award /\ a.at = "read" /\ a.own = loyalty[u]
        /\ a.referral = NoReferral
    BY <1>3, NoAwardType DEF Award, NoAward
  <1>5. award' = [award EXCEPT ![w] = a]
        /\ UNCHANGED <<vars, loyalty, rewardState, completed, crossed, passedOver>>
    BY DEF BeginAward
  <1>. HIDE DEF a, u
  <1>6. award'[w] = a
    BY <1>0, <1>5 DEF LoyaltyTypeOK
  <1>7. PaymentOf(w)' = PaymentOf(w) /\ UserOf(w)' = u
    BY <1>5 DEF PaymentOf, UserOf, vars, u
  <1>8. AwardHolds(w)'
    BY <1>4, <1>5, <1>6 DEF AwardHolds, Open, BeginAward, IsCapture, vars
  <1>9. \A v : Earned(v)' = Earned(v)
    BY <1>5, SameEarned DEF vars, rows
  <1>10. EarnedBefore(w)'
    BY <1>0, <1>2, <1>4, <1>6, <1>7, <1>9 DEF EarnedBefore, PointsAccounted
  <1>11. FreshAward(w)'
    BY <1>4, <1>5, <1>6, <1>7 DEF FreshAward, SameCounts
  <1>12. \A v \in Worker \ {w} : Open(v) =>
            PaymentOf(v) # PaymentOf(w) /\ Holds(v) \cap Holds(w)' = {}
    <2>1. Holds(w)' \subseteq {x \in User : x = u /\ ~loyalty[u].exists}
      BY <1>4, <1>6, <1>7 DEF Holds
    <2>. QED
      BY <2>1 DEF BeginAward, CanLockPayment, CanGetOrCreate, CanWrite, u
  <1>. QED
    BY <1>2, <1>4, <1>5, <1>8, <1>10, <1>11, <1>12, AwardGoesOn DEF BeginAward

LEMMA CreditStep ==
    ASSUME PaidInv, LoyaltyInv, NEW w \in Worker, Credit(w)
    PROVE  LoyaltyInv'
  <1>. DEFINE a == [award[w] EXCEPT !.at = "credited"]
  <1>0. AwardInv /\ LoyaltyTypeOK /\ award[w] \in Award
    BY DEF LoyaltyInv, AwardInv, LoyaltyTypeOK
  <1>1. Open(w) /\ award[w].referral = NoReferral
    BY <1>0 DEF Credit, Open, AwardInv, AwardsHold, AwardHolds
  <1>2. /\ PaymentOf(w) \in Payment /\ UserOf(w) \in User
        /\ status[PaymentOf(w)] # "succeeded"
    BY <1>0, <1>1, OpenHandles
  <1>4. /\ a \in Award /\ a.at = "credited" /\ a.own = award[w].own
        /\ a.referral = NoReferral
    BY <1>0, <1>1 DEF Award
  <1>5. award' = [award EXCEPT ![w] = a]
        /\ UNCHANGED <<vars, loyalty, rewardState, completed, crossed, passedOver>>
    BY DEF Credit
  <1>. HIDE DEF a
  <1>6. award'[w] = a
    BY <1>0, <1>5 DEF LoyaltyTypeOK
  <1>7. PaymentOf(w)' = PaymentOf(w) /\ UserOf(w)' = UserOf(w)
    BY <1>5 DEF PaymentOf, UserOf, vars
  <1>8. AwardHolds(w)'
    BY <1>0, <1>1, <1>4, <1>5, <1>6 DEF AwardInv, AwardsHold, AwardHolds, vars
  <1>9. \A v : Earned(v)' = Earned(v)
    BY <1>5, SameEarned DEF vars, rows
  <1>10. EarnedBefore(w) /\ FreshAward(w)
    BY DEF LoyaltyInv, PointsInv, ReadsAreEarned, AwardReadsStayFresh
  <1>11. EarnedBefore(w)' /\ FreshAward(w)'
    BY <1>1, <1>4, <1>5, <1>6, <1>7, <1>9, <1>10 DEF EarnedBefore, FreshAward
  <1>12. \A v \in Worker \ {w} : Open(v) =>
            PaymentOf(v) # PaymentOf(w) /\ Holds(v) \cap Holds(w)' = {}
    <2>1. Holds(w)' \subseteq {UserOf(w)}
      BY <1>4, <1>6, <1>7 DEF Holds
    <2>. QED
      BY <1>0, <1>1, <2>1 DEF Credit, CanWrite, AwardInv, FulfilmentExcludes
  <1>. QED
    BY <1>2, <1>4, <1>5, <1>8, <1>11, <1>12, AwardGoesOn

LEMMA LockReferralStep ==
    ASSUME PaidInv, LoyaltyInv, NEW w \in Worker, NEW r \in Referral, LockReferral(w, r)
    PROVE  LoyaltyInv'
  <1>. DEFINE u == Referrer[r]
              a == [award[w] EXCEPT !.at = "referred", !.referral = r, !.referrer = loyalty[u]]
  <1>0. AwardInv /\ LoyaltyTypeOK /\ award[w] \in Award /\ PointsAccounted
    BY DEF LoyaltyInv, AwardInv, LoyaltyTypeOK, PointsInv
  <1>1. Open(w) /\ award[w].referral = NoReferral /\ r # NoReferral /\ u \in User
    BY <1>0, LoyaltyAssumption DEF LockReferral, Open, AwardInv, AwardsHold, AwardHolds
  <1>2. /\ PaymentOf(w) \in Payment /\ UserOf(w) \in User
        /\ status[PaymentOf(w)] # "succeeded"
    BY <1>0, <1>1, OpenHandles
  <1>3. loyalty[u] \in LoyaltyRow
    BY <1>0, <1>1 DEF LoyaltyTypeOK
  <1>4. /\ a \in Award /\ a.at = "referred" /\ a.own = award[w].own
        /\ a.referral = r /\ a.referrer = loyalty[u]
    BY <1>0, <1>3 DEF Award
  <1>5. award' = [award EXCEPT ![w] = a]
        /\ UNCHANGED <<vars, loyalty, rewardState, completed, crossed, passedOver>>
    BY DEF LockReferral
  <1>13. /\ PaymentOf(w) \in Booked /\ Referee[r] = UserOf(w)
         /\ rewardState[r] = "pending"
    BY DEF LockReferral, PendingReferrals
  <1>14. Holds(w) = {UserOf(w)}
    BY <1>1, <1>2 DEF Holds, LockReferral
  <1>. HIDE DEF a
  <1>6. award'[w] = a
    BY <1>0, <1>5 DEF LoyaltyTypeOK
  <1>7. PaymentOf(w)' = PaymentOf(w) /\ UserOf(w)' = UserOf(w)
    BY <1>5 DEF PaymentOf, UserOf, vars
  <1>8. AwardHolds(w)'
    BY <1>0, <1>1, <1>4, <1>5, <1>6, <1>7, <1>13
    DEF AwardInv, AwardsHold, AwardHolds, Open, vars
  <1>9. \A v : Earned(v)' = Earned(v)
    BY <1>5, SameEarned DEF vars, rows
  <1>10. EarnedBefore(w) /\ FreshAward(w)
    BY DEF LoyaltyInv, PointsInv, ReadsAreEarned, AwardReadsStayFresh
  <1>11. EarnedBefore(w)'
    BY <1>0, <1>1, <1>4, <1>6, <1>7, <1>9, <1>10 DEF EarnedBefore, PointsAccounted
  <1>15. FreshAward(w)'
    BY <1>1, <1>4, <1>5, <1>6, <1>7, <1>10 DEF FreshAward, SameCounts
  <1>12. \A v \in Worker \ {w} : Open(v) =>
            /\ PaymentOf(v) # PaymentOf(w) /\ award[v].referral # r
            /\ Holds(v) \cap Holds(w)' = {}
    <2>. SUFFICES ASSUME NEW v \in Worker \ {w}, Open(v)
                  PROVE  /\ PaymentOf(v) # PaymentOf(w) /\ award[v].referral # r
                         /\ Holds(v) \cap Holds(w)' = {}
      OBVIOUS
    <2>1. Holds(w)' \subseteq {UserOf(w)} \cup {x \in User : x = u /\ ~loyalty[u].exists}
      BY <1>4, <1>6, <1>7 DEF Holds
    <2>2. PaymentOf(v) # PaymentOf(w) /\ UserOf(w) \notin Holds(v)
      BY <1>0, <1>1, <1>14 DEF AwardInv, FulfilmentExcludes
    <2>3. ~loyalty[u].exists => u \notin Holds(v)
      BY DEF LockReferral, CanGetOrCreate, CanWrite
    <2>4. award[v].referral # r
      BY DEF LockReferral, CanLockReferral
    <2>. QED
      BY <2>1, <2>2, <2>3, <2>4
  <1>. QED
    BY <1>1, <1>2, <1>4, <1>5, <1>8, <1>11, <1>12, <1>13, <1>15, AwardGoesOn

-----------------------------------------------------------------------------
(* What is earned *)

LEMMA PointsOf ==
    ASSUME NEW p \in Payment
    PROVE  /\ IsFiniteSet(PointsFor(p)) /\ Cardinality(PointsFor(p)) = Amount[p]
           /\ Amount[p] \in Nat \ {0}
  <1>1. Amount[p] \in Nat \ {0}
    BY PaymentsAssumption
  <1>2. IsFiniteSet(1 .. Amount[p]) /\ Cardinality(1 .. Amount[p]) = Amount[p]
    BY <1>1, FS_Interval
  <1>3. IsFiniteSet({p}) /\ Cardinality({p}) = 1
    BY FS_Singleton
  <1>4. /\ IsFiniteSet({p} \X (1 .. Amount[p]))
        /\ Cardinality({p} \X (1 .. Amount[p])) = Cardinality({p}) * Cardinality(1 .. Amount[p])
    BY <1>2, <1>3, FS_Product
  <1>. QED
    BY <1>1, <1>2, <1>3, <1>4 DEF PointsFor

PointsOfAll(P) == UNION {PointsFor(p) : p \in P}

LEMMA AllPointsFinite ==
    ASSUME NEW P \in SUBSET Payment
    PROVE  IsFiniteSet(PointsOfAll(P))
  <1>. DEFINE f == [p \in P |-> PointsFor(p)]
              T == {PointsFor(p) : p \in P}
  <1>1. IsFiniteSet(P)
    BY LoyaltyAssumption, FS_Subset
  <1>2. f \in Surjection(P, T)
    BY DEF Surjection
  <1>3. IsFiniteSet(T)
    BY <1>1, <1>2, FS_Surjection
  <1>4. \A t \in T : IsFiniteSet(t)
    BY PointsOf
  <1>. QED
    BY <1>3, <1>4, FS_UNION DEF PointsOfAll

LEMMA DisjointUnion ==
    ASSUME NEW S, NEW T, IsFiniteSet(S), IsFiniteSet(T), S \cap T = {}
    PROVE  Cardinality(S \cup T) = Cardinality(S) + Cardinality(T)
  <1>1. Cardinality(S) \in Nat /\ Cardinality(T) \in Nat
    BY FS_CardinalityType
  <1>2. Cardinality(S \cup T) = Cardinality(S) + Cardinality(T) - Cardinality(S \cap T)
    BY FS_Union
  <1>3. Cardinality(S \cap T) = 0
    BY FS_EmptySet
  <1>. QED
    BY <1>1, <1>2, <1>3

LEMMA OneMorePayment ==
    ASSUME NEW P \in SUBSET Payment, NEW p \in Payment, p \notin P
    PROVE  Cardinality(PointsOfAll(P \cup {p})) = Cardinality(PointsOfAll(P)) + Amount[p]
  <1>1. PointsOfAll(P \cup {p}) = PointsOfAll(P) \cup PointsFor(p)
    BY DEF PointsOfAll
  <1>2. PointsOfAll(P) \cap PointsFor(p) = {}
    BY DEF PointsOfAll, PointsFor
  <1>3. /\ IsFiniteSet(PointsOfAll(P)) /\ IsFiniteSet(PointsFor(p))
        /\ Cardinality(PointsFor(p)) = Amount[p]
    BY AllPointsFinite, PointsOf
  <1>. QED
    BY <1>1, <1>2, <1>3, DisjointUnion

LEMMA EarnedType ==
           \A u : /\ Cardinality(PointsOfAll(Paid(u))) \in Nat
                  /\ IsFiniteSet(RewardsOf(u)) /\ Cardinality(RewardsOf(u)) \in Nat
                  /\ Earned(u) \in Nat
                  /\ Earned(u) = Cardinality(PointsOfAll(Paid(u)))
                                    + ReferralPoints * Cardinality(RewardsOf(u))
  <1>. SUFFICES ASSUME NEW u
                PROVE  /\ Cardinality(PointsOfAll(Paid(u))) \in Nat
                       /\ IsFiniteSet(RewardsOf(u)) /\ Cardinality(RewardsOf(u)) \in Nat
                       /\ Earned(u) \in Nat
                       /\ Earned(u) = Cardinality(PointsOfAll(Paid(u)))
                                        + ReferralPoints * Cardinality(RewardsOf(u))
    OBVIOUS
  <1>1. Cardinality(PointsOfAll(Paid(u))) \in Nat
    BY AllPointsFinite, FS_CardinalityType DEF Paid
  <1>2. IsFiniteSet(RewardsOf(u))
    BY LoyaltyAssumption, FS_Subset DEF RewardsOf
  <1>3. Cardinality(RewardsOf(u)) \in Nat
    BY <1>2, FS_CardinalityType
  <1>4. Earned(u) = Cardinality(PointsOfAll(Paid(u)))
                        + ReferralPoints * Cardinality(RewardsOf(u))
    BY DEF Earned, PointsOfAll
  <1>. QED
    BY <1>1, <1>2, <1>3, <1>4 DEF ReferralPoints

-----------------------------------------------------------------------------
(* A fulfilment commits *)

(* The referral that a commit of w marks, if any. *)
RewardedBy(w) == {award[w].referral} \cap Referral

CommitsPayment(w) ==
    /\ Open(w) /\ PaymentOf(w) \in Payment /\ UserOf(w) \in User
    /\ rewarded[PaymentOf(w)] = 0
    /\ rewarded' = [rewarded EXCEPT ![PaymentOf(w)] = 1]
    /\ status' = [status EXCEPT ![PaymentOf(w)] = "succeeded"]
    /\ \A v \in Worker \ {w} : req'[v] = req[v]
    /\ award' = [award EXCEPT ![w] = NoAward]
    /\ completed' \subseteq completed

CommitsRows(w) ==
    /\ \A r \in RewardedBy(w) :
            /\ r = award[w].referral /\ r # NoReferral /\ r \in Referral
            /\ rewardState[r] = "pending" /\ PaymentOf(w) \in Booked
            /\ Referee[r] = UserOf(w) /\ Referrer[r] \in User /\ Referrer[r] # UserOf(w)
    /\ RewardedBy(w) = {} => award[w].referral = NoReferral /\ PendingReferrals(w) = {}
    /\ \A r \in Referral :
            rewardState'[r] = IF r \in RewardedBy(w) THEN "awarded" ELSE rewardState[r]
    /\ loyalty'[UserOf(w)] = Credited(w)
    /\ \A r \in RewardedBy(w) :
            loyalty'[Referrer[r]] = WithPoints(Referrer[r], award[w].referrer, ReferralPoints)
    /\ \A u \in User : u # UserOf(w) /\ (\A r \in RewardedBy(w) : u # Referrer[r]) =>
            loyalty'[u] = loyalty[u]
    /\ crossed' = CrossedBy(w, {UserOf(w)} \cup {Referrer[r] : r \in RewardedBy(w)})
    /\ passedOver' =
            IF PaymentOf(w) \in Booked /\ CompletedBefore(w) /\ RewardedBy(w) = {}
            THEN passedOver \cup {PaymentOf(w)} ELSE passedOver

LEMMA CommitEffects ==
    ASSUME PaidInv, AwardInv, NEW w \in Worker, CommitAward(w) \/ CommitReward(w)
    PROVE  CommitsPayment(w) /\ CommitsRows(w)
  <1>0. TypeOK /\ LoyaltyTypeOK
    BY DEF PaidInv, WalletInv, AwardInv
  <1>1. Open(w) /\ HandleSucceeded(w)
    BY DEF CommitAward, CommitReward, Open
  <1>2. /\ PaymentOf(w) \in Payment /\ UserOf(w) \in User /\ rewarded[PaymentOf(w)] = 0
    BY <1>1, OpenHandles
  <1>3. CommitsPayment(w)
    <2>1. \A v \in Worker \ {w} : req'[v] = req[v]
      BY <1>0, <1>1, EndRequestKeeps DEF HandleSucceeded
    <2>2. /\ rewarded' = [rewarded EXCEPT ![PaymentOf(w)] = 1]
          /\ status' = [status EXCEPT ![PaymentOf(w)] = "succeeded"]
      BY <1>0, <1>1, <1>2 DEF HandleSucceeded, PaymentOf, TypeOK
    <2>. QED
      BY <1>1, <1>2, <2>1, <2>2
      DEF CommitsPayment, CommitAward, CommitReward, Reconfirmed
  <1>4. CASE CommitAward(w)
    <2>1. award[w].referral = NoReferral
      BY <1>4 DEF CommitAward, AwardInv, AwardsHold, AwardHolds
    <2>2. RewardedBy(w) = {}
      BY <2>1, LoyaltyAssumption DEF RewardedBy
    <2>3. loyalty'[UserOf(w)] = Credited(w)
          /\ \A u \in User \ {UserOf(w)} : loyalty'[u] = loyalty[u]
      BY <1>0, <1>2, <1>4 DEF CommitAward, LoyaltyTypeOK
    <2>4. rewardState' = rewardState /\ crossed' = CrossedBy(w, {UserOf(w)})
          /\ PendingReferrals(w) = {}
          /\ passedOver' = IF PaymentOf(w) \in Booked /\ CompletedBefore(w)
                            THEN passedOver \cup {PaymentOf(w)} ELSE passedOver
      BY <1>4 DEF CommitAward
    <2>. QED
      BY <1>3, <2>1, <2>2, <2>3, <2>4 DEF CommitsRows
  <1>5. CASE CommitReward(w)
    <2>. DEFINE r == award[w].referral
    <2>1. r # NoReferral
      BY <1>5 DEF CommitReward, AwardInv, AwardsHold, AwardHolds
    <2>2. /\ r \in Referral /\ Referrer[r] \in User /\ Referee[r] = UserOf(w)
          /\ Referrer[r] # UserOf(w) /\ rewardState[r] = "pending" /\ PaymentOf(w) \in Booked
      BY <2>1, ReferralInHand
    <2>3. RewardedBy(w) = {r}
      BY <2>2 DEF RewardedBy
    <2>4. /\ loyalty'[UserOf(w)] = Credited(w)
          /\ loyalty'[Referrer[r]] = WithPoints(Referrer[r], award[w].referrer, ReferralPoints)
          /\ \A u \in User \ {UserOf(w), Referrer[r]} : loyalty'[u] = loyalty[u]
      BY <1>0, <1>2, <1>5, <2>2 DEF CommitReward, LoyaltyTypeOK
    <2>5. /\ rewardState' = [rewardState EXCEPT ![r] = "awarded"]
          /\ crossed' = CrossedBy(w, {UserOf(w), Referrer[r]})
          /\ passedOver' = passedOver
      BY <1>5 DEF CommitReward
    <2>6. \A x \in Referral :
            rewardState'[x] = IF x = r THEN "awarded" ELSE rewardState[x]
      BY <1>0, <2>2, <2>5 DEF LoyaltyTypeOK
    <2>. HIDE DEF r
    <2>7. {UserOf(w)} \cup {Referrer[x] : x \in {r}} = {UserOf(w), Referrer[r]}
      OBVIOUS
    <2>. QED
      BY <1>3, <2>1, <2>2, <2>3, <2>4, <2>5, <2>6, <2>7 DEF CommitsRows, r
  <1>. QED
    BY <1>4, <1>5

(* The payment is worth its amount to its owner, a referral 50 points to its
   referrer; nobody else earns. *)
LEMMA CommitEarns ==
    ASSUME PaidInv, AwardInv, NEW w \in Worker, CommitsPayment(w), CommitsRows(w)
    PROVE  /\ \A u : u = UserOf(w) =>
                /\ Paid(u)' = Paid(u) \cup {PaymentOf(w)} /\ PaymentOf(w) \notin Paid(u)
                /\ Earned(u)' = Earned(u) + Amount[PaymentOf(w)]
           /\ \A u : u # UserOf(w) => Paid(u)' = Paid(u)
           /\ \A r \in RewardedBy(w) :
                Earned(Referrer[r])' = Earned(Referrer[r]) + ReferralPoints
           /\ \A u : u # UserOf(w) /\ (\A r \in RewardedBy(w) : u # Referrer[r]) =>
                Earned(u)' = Earned(u)
  <1>. PICK p : p = PaymentOf(w)
    OBVIOUS
  <1>. PICK payer : payer = UserOf(w)
    OBVIOUS
  <1>0. TypeOK /\ LoyaltyTypeOK
    BY DEF PaidInv, WalletInv, AwardInv
  <1>1. /\ p \in Payment /\ payer \in User /\ rewarded[p] = 0
        /\ rewarded' = [rewarded EXCEPT ![p] = 1]
    BY DEF CommitsPayment
  <1>2. payer = Owner[p]
    BY DEF UserOf
  <1>3. \A q \in Payment : rewarded'[q] = IF q = p THEN 1 ELSE rewarded[q]
    BY <1>0, <1>1 DEF TypeOK
  <1>4. Paid(payer)' = Paid(payer) \cup {p} /\ p \notin Paid(payer)
    BY <1>1, <1>2, <1>3 DEF Paid
  <1>5. \A u : u # payer => Paid(u)' = Paid(u)
    BY <1>2, <1>3 DEF Paid
  <1>6. \A u : (\A r \in RewardedBy(w) : u # Referrer[r]) => RewardsOf(u)' = RewardsOf(u)
    BY DEF CommitsRows, RewardsOf
  <1>7. ASSUME NEW r \in RewardedBy(w)
        PROVE  /\ RewardsOf(Referrer[r])' = RewardsOf(Referrer[r]) \cup {r}
               /\ r \notin RewardsOf(Referrer[r])
    <2>1. RewardedBy(w) = {r}
      BY <1>7 DEF RewardedBy
    <2>2. r \in Referral /\ rewardState[r] = "pending"
          /\ \A x \in Referral : rewardState'[x] = IF x = r THEN "awarded" ELSE rewardState[x]
      BY <1>7, <2>1 DEF CommitsRows
    <2>. QED
      BY <2>2 DEF RewardsOf
  <1>8. \A u : Earned(u)' = Cardinality(PointsOfAll(Paid(u)'))
                    + ReferralPoints * Cardinality(RewardsOf(u)')
    BY DEF Earned, PointsOfAll, PointsFor
  <1>9. Cardinality(PointsOfAll(Paid(payer)')) = Cardinality(PointsOfAll(Paid(payer))) + Amount[p]
    BY <1>1, <1>4, OneMorePayment DEF Paid
  <1>10. Amount[p] \in Nat
    BY <1>1, PointsOf
  <1>11. Earned(payer)' = Earned(payer) + Amount[p]
    <2>1. \A r \in RewardedBy(w) : payer # Referrer[r]
      BY DEF CommitsRows
    <2>2. RewardsOf(payer)' = RewardsOf(payer)
      BY <1>6, <2>1
    <2>. QED
      BY <1>8, <1>9, <1>10, <2>2, EarnedType DEF ReferralPoints
  <1>12. ASSUME NEW r \in RewardedBy(w)
         PROVE  Earned(Referrer[r])' = Earned(Referrer[r]) + ReferralPoints
    <2>. DEFINE x == Referrer[r]
    <2>1. Paid(x)' = Paid(x)
      BY <1>5, <1>12 DEF CommitsRows
    <2>2. Cardinality(RewardsOf(x)') = Cardinality(RewardsOf(x)) + 1
      BY <1>7, EarnedType, FS_AddElement
    <2>. QED
      BY <1>8, <2>1, <2>2, EarnedType DEF ReferralPoints
  <1>13. \A u : u # payer /\ (\A r \in RewardedBy(w) : u # Referrer[r]) =>
                Earned(u)' = Earned(u)
    BY <1>5, <1>6, <1>8, EarnedType
  <1>. QED
    BY <1>4, <1>5, <1>11, <1>12, <1>13

(* What the other fulfilments have in hand does not change. *)
LEMMA OthersAfterCommit ==
    ASSUME PaidInv, AwardInv, NEW w \in Worker, CommitsPayment(w)
    PROVE  /\ ~Open(w)' /\ award'[w].at = "none" /\ award'[w].referral = NoReferral
           /\ \A v \in Worker \ {w} :
                /\ award'[v] = award[v] /\ req'[v] = req[v] /\ Open(v)' = Open(v)
                /\ PaymentOf(v)' = PaymentOf(v) /\ UserOf(v)' = UserOf(v)
                /\ Holds(v)' = Holds(v)
  <1>1. award \in [Worker -> Award] /\ award' = [award EXCEPT ![w] = NoAward]
    BY DEF AwardInv, LoyaltyTypeOK, CommitsPayment
  <1>2. award'[w] = NoAward /\ \A v \in Worker \ {w} : award'[v] = award[v]
    BY <1>1
  <1>3. ~Open(w)' /\ award'[w].at = "none" /\ award'[w].referral = NoReferral
    BY <1>2 DEF Open, NoAward
  <1>4. ASSUME NEW v \in Worker \ {w}
        PROVE  /\ award'[v] = award[v] /\ req'[v] = req[v] /\ Open(v)' = Open(v)
               /\ PaymentOf(v)' = PaymentOf(v) /\ UserOf(v)' = UserOf(v)
               /\ Holds(v)' = Holds(v)
    <2>1. req'[v] = req[v] /\ award'[v] = award[v]
      BY <1>2 DEF CommitsPayment
    <2>2. PaymentOf(v)' = PaymentOf(v) /\ UserOf(v)' = UserOf(v) /\ Open(v)' = Open(v)
      BY <2>1 DEF PaymentOf, UserOf, Open
    <2>. QED
      BY <2>1, <2>2 DEF Holds
  <1>. QED
    BY <1>3, <1>4

LEMMA WithPointsRow ==
    ASSUME LoyaltyTypeOK, NEW u \in User, NEW read \in LoyaltyRow, NEW n \in Nat
    PROVE  /\ WithPoints(u, read, n) \in LoyaltyRow
           /\ WithPoints(u, read, n).points = read.points + n
           /\ WithPoints(u, read, n).washes = loyalty[u].washes
           /\ WithPoints(u, read, n).tier = loyalty[u].tier
  <1>. PICK row \in LoyaltyRow : row = loyalty[u]
    BY DEF LoyaltyTypeOK
  <1>1. WithPoints(u, read, n) = [row EXCEPT !.exists = TRUE, !.points = read.points + n]
    BY DEF WithPoints
  <1>2. read.points + n \in Nat
    BY DEF LoyaltyRow
  <1>. QED
    BY <1>1, <1>2 DEF LoyaltyRow

LEMMA CreditedRow ==
    ASSUME LoyaltyTypeOK, NEW w \in Worker, PaymentOf(w) \in Payment, UserOf(w) \in User
    PROVE  /\ Credited(w) \in LoyaltyRow
           /\ Credited(w).points = award[w].own.points + Amount[PaymentOf(w)]
  <1>. DEFINE u == UserOf(w)
              read == award[w].own
              n == Amount[PaymentOf(w)]
  <1>1. loyalty[u] \in LoyaltyRow /\ read \in LoyaltyRow /\ n \in Nat
    BY PaymentsAssumption DEF LoyaltyTypeOK, Award
  <1>. HIDE DEF u, read, n
  <1>2. WithPoints(u, read, n) \in LoyaltyRow /\ WithPoints(u, read, n).points = read.points + n
    BY <1>1, WithPointsRow DEF u
  <1>3. WithWash(u, read, n) \in LoyaltyRow /\ WithWash(u, read, n).points = read.points + n
    <2>1. read.washes + 1 \in Nat
      BY <1>1 DEF LoyaltyRow
    <2>2. BestTier(read.washes + 1) \in Threshold \cup {NoTier}
      BY <2>1, TierOf
    <2>. QED
      BY <1>1, <2>1, <2>2 DEF WithWash, LoyaltyRow
  <1>. QED
    BY <1>2, <1>3 DEF Credited, u, read, n

LEMMA CommitAwards ==
    ASSUME PaidInv, AwardInv, NEW w \in Worker, CommitsPayment(w), CommitsRows(w),
           loyalty' \in [User -> LoyaltyRow],
           rewardState' \in [Referral -> {"pending", "awarded"}]
    PROVE  AwardInv'
  <1>0. TypeOK /\ LoyaltyTypeOK
    BY DEF PaidInv, WalletInv, AwardInv
  <1>1. /\ ~Open(w)' /\ award'[w].at = "none" /\ award'[w].referral = NoReferral
        /\ \A v \in Worker \ {w} :
                /\ award'[v] = award[v] /\ req'[v] = req[v] /\ Open(v)' = Open(v)
                /\ PaymentOf(v)' = PaymentOf(v) /\ UserOf(v)' = UserOf(v)
                /\ Holds(v)' = Holds(v)
    BY OthersAfterCommit
  <1>2. LoyaltyTypeOK'
    <2>1. crossed' \subseteq User
      BY <1>0 DEF CommitsRows, CommitsPayment, CrossedBy, LoyaltyTypeOK
    <2>2. /\ award' \in [Worker -> Award] /\ completed' \subseteq Booked
          /\ passedOver' \subseteq Booked
      BY <1>0, NoAwardType DEF CommitsPayment, CommitsRows, LoyaltyTypeOK
    <2>. QED
      BY <2>1, <2>2 DEF LoyaltyTypeOK
  <1>3. AwardsHold'
    <2>1. ASSUME NEW v \in Worker \ {w} PROVE AwardHolds(v)'
      BY <1>1 DEF AwardInv, AwardsHold, AwardHolds
    <2>2. AwardHolds(w)'
      BY <1>1 DEF AwardHolds
    <2>. QED
      BY <2>1, <2>2 DEF AwardsHold
  <1>4. PassedOverArePaid'
    BY <1>0, LoyaltyAssumption
    DEF AwardInv, PassedOverArePaid, CommitsPayment, CommitsRows, LoyaltyTypeOK, TypeOK
  <1>5. FulfilmentExcludes'
    <2>1. ASSUME NEW v \in Worker, Open(v)' PROVE status'[PaymentOf(v)'] # "succeeded"
      <3>1. v # w /\ PaymentOf(v) # PaymentOf(w) /\ status[PaymentOf(v)] # "succeeded"
        BY <1>1, <2>1 DEF AwardInv, FulfilmentExcludes, CommitsPayment
      <3>2. PaymentOf(v) \in Payment
        BY <1>1, <2>1, OpenHandles
      <3>. QED
        BY <1>0, <1>1, <3>1, <3>2 DEF CommitsPayment, TypeOK
    <2>2. ASSUME NEW v \in Worker, award'[v].referral # NoReferral
          PROVE  rewardState'[award'[v].referral] = "pending"
      <3>1. v # w /\ award[v].referral # NoReferral /\ award'[v] = award[v]
        BY <1>1, <2>2
      <3>2. /\ award[v].referral \in Referral /\ Open(v)
            /\ rewardState[award[v].referral] = "pending"
        BY <3>1, ReferralInHand
      <3>3. award[v].referral # award[w].referral
        BY <3>1, <3>2 DEF AwardInv, FulfilmentExcludes, CommitsPayment
      <3>. QED
        BY <3>1, <3>2, <3>3 DEF CommitsRows
    <2>3. ASSUME NEW v \in Worker, NEW x \in Worker, v # x, Open(v)', Open(x)'
          PROVE  /\ PaymentOf(v)' # PaymentOf(x)'
                 /\ award'[v].referral = award'[x].referral => award'[v].referral = NoReferral
                 /\ Holds(v)' \cap Holds(x)' = {}
      BY <1>1, <2>3 DEF AwardInv, FulfilmentExcludes
    <2>. QED
      BY <2>1, <2>2, <2>3 DEF FulfilmentExcludes
  <1>. QED
    BY <1>2, <1>3, <1>4, <1>5 DEF AwardInv

LEMMA CommitTypes ==
    ASSUME PaidInv, AwardInv, NEW w \in Worker, CommitAward(w) \/ CommitReward(w)
    PROVE  /\ loyalty' \in [User -> LoyaltyRow]
           /\ rewardState' \in [Referral -> {"pending", "awarded"}]
  <1>0. LoyaltyTypeOK /\ CommitsPayment(w) /\ CommitsRows(w)
    BY CommitEffects DEF AwardInv
  <1>1. Credited(w) \in LoyaltyRow
    BY <1>0, CreditedRow DEF CommitsPayment
  <1>2. CASE CommitAward(w)
    BY <1>0, <1>1, <1>2 DEF CommitAward, LoyaltyTypeOK
  <1>3. CASE CommitReward(w)
    <2>. DEFINE r == award[w].referral
    <2>1. r \in Referral /\ Referrer[r] \in User
      BY <1>3, ReferralInHand DEF CommitReward, AwardInv, AwardsHold, AwardHolds
    <2>2. loyalty[Referrer[r]] \in LoyaltyRow /\ award[w].referrer \in LoyaltyRow
      BY <1>0, <2>1 DEF LoyaltyTypeOK, Award
    <2>3. WithPoints(Referrer[r], award[w].referrer, ReferralPoints) \in LoyaltyRow
      BY <1>0, <2>1, <2>2, WithPointsRow DEF ReferralPoints
    <2>. QED
      BY <1>0, <1>1, <1>3, <2>1, <2>3 DEF CommitReward, LoyaltyTypeOK
  <1>. QED
    BY <1>2, <1>3

(* Nobody's points run ahead of what is earned, and those of a user whom no
   other fulfilment has read are exactly that. *)
LEMMA CommitPoints ==
    ASSUME PaidInv, LoyaltyInv, NEW w \in Worker, CommitsPayment(w), CommitsRows(w)
    PROVE  PointsInv'
  <1>0. AwardInv /\ LoyaltyTypeOK
    BY DEF LoyaltyInv, AwardInv
  <1>1. /\ ~Open(w)' /\ award'[w].at = "none" /\ award'[w].referral = NoReferral
        /\ \A v \in Worker \ {w} :
                /\ award'[v] = award[v] /\ req'[v] = req[v] /\ Open(v)' = Open(v)
                /\ PaymentOf(v)' = PaymentOf(v) /\ UserOf(v)' = UserOf(v)
                /\ Holds(v)' = Holds(v)
    BY <1>0, OthersAfterCommit
  <1>. PICK payer : payer = UserOf(w)
    OBVIOUS
  <1>. PICK n : n = Amount[PaymentOf(w)]
    OBVIOUS
  <1>2. payer \in User /\ Open(w) /\ n \in Nat
    BY PointsOf DEF CommitsPayment
  <1>3. /\ Earned(payer)' = Earned(payer) + n
        /\ \A r \in RewardedBy(w) : Earned(Referrer[r])' = Earned(Referrer[r]) + ReferralPoints
        /\ \A u : u # payer /\ (\A r \in RewardedBy(w) : u # Referrer[r]) =>
                Earned(u)' = Earned(u)
    BY <1>0, CommitEarns
  <1>4. \A u : Earned(u) \in Nat
    BY EarnedType
  <1>5. \A u : Earned(u)' \in Nat /\ Earned(u)' >= Earned(u)
    BY <1>2, <1>3, <1>4 DEF ReferralPoints
  <1>6. loyalty'[payer].points = award[w].own.points + n
    BY <1>0, CreditedRow DEF CommitsRows, CommitsPayment
  <1>7. \A r \in RewardedBy(w) :
            loyalty'[Referrer[r]].points = award[w].referrer.points + ReferralPoints
    BY <1>0, WithPointsRow DEF CommitsRows, ReferralPoints, LoyaltyTypeOK, Award
  <1>8. \A u \in User : u # payer /\ (\A r \in RewardedBy(w) : u # Referrer[r]) =>
            loyalty'[u] = loyalty[u]
    BY DEF CommitsRows
  <1>9. EarnedBefore(w) /\ FreshAward(w) /\ PointsAccounted
    BY DEF LoyaltyInv, PointsInv, ReadsAreEarned, AwardReadsStayFresh
  <1>10. \A r \in RewardedBy(w) :
            /\ r = award[w].referral /\ r # NoReferral /\ Referrer[r] \in User
            /\ Referrer[r] # payer
    BY DEF CommitsRows
  <1>11. award[w].own.points \in Nat /\ award[w].referrer.points \in Nat
         /\ \A u \in User : loyalty[u].points \in Nat
    BY <1>0 DEF LoyaltyTypeOK, Award, LoyaltyRow
  <1>12. crossed \subseteq crossed'
    BY DEF CommitsRows, CrossedBy
  <1>13. PointsAccounted'
    <2>. SUFFICES ASSUME NEW u \in User
         PROVE  /\ loyalty'[u].points <= Earned(u)'
                /\ loyalty'[u].points = Earned(u)' \/ u \in crossed'
      BY DEF PointsAccounted
    <2>0. loyalty[u].points <= Earned(u) /\ (loyalty[u].points = Earned(u) \/ u \in crossed)
      BY <1>9 DEF PointsAccounted
    <2>1. CASE u = payer
      <3>1. award[w].own.points <= Earned(u)
        BY <1>2, <1>9, <2>1 DEF EarnedBefore
      <3>2. u \notin crossed => loyalty[u].points = award[w].own.points
        BY <1>2, <1>9, <2>1 DEF FreshAward, SameCounts
      <3>3. /\ loyalty'[u].points = award[w].own.points + n
            /\ Earned(u)' = Earned(u) + n
            /\ Earned(u) \in Nat /\ award[w].own.points \in Nat /\ n \in Nat
        BY <1>2, <1>3, <1>4, <1>6, <1>11, <2>1
      <3>. QED
        BY <1>12, <2>0, <3>1, <3>2, <3>3
    <2>2. ASSUME NEW r \in RewardedBy(w), u = Referrer[r]
          PROVE  /\ loyalty'[u].points <= Earned(u)'
                 /\ loyalty'[u].points = Earned(u)' \/ u \in crossed'
      <3>1. award[w].referrer.points <= Earned(u)
        BY <1>9, <1>10, <2>2 DEF EarnedBefore
      <3>2. u \notin crossed => loyalty[u].points = award[w].referrer.points
        BY <1>9, <1>10, <2>2 DEF FreshAward, SameCounts
      <3>3. /\ loyalty'[u].points = award[w].referrer.points + ReferralPoints
            /\ Earned(u)' = Earned(u) + ReferralPoints
            /\ Earned(u) \in Nat /\ award[w].referrer.points \in Nat /\ ReferralPoints \in Nat
        BY <1>3, <1>4, <1>7, <1>11, <2>2 DEF ReferralPoints
      <3>. QED
        BY <1>12, <2>0, <3>1, <3>2, <3>3
    <2>3. CASE u # payer /\ (\A r \in RewardedBy(w) : u # Referrer[r])
      BY <1>3, <1>8, <1>12, <2>0, <2>3
    <2>. QED
      BY <2>1, <2>2, <2>3
  <1>14. ReadsAreEarned'
    <2>1. ASSUME NEW v \in Worker \ {w} PROVE EarnedBefore(v)'
      <3>1. EarnedBefore(v)
        BY DEF LoyaltyInv, PointsInv, ReadsAreEarned
      <3>2. award[v].own.points \in Nat /\ award[v].referrer.points \in Nat
        BY <1>0 DEF LoyaltyTypeOK, Award, LoyaltyRow
      <3>3. Open(v) => award[v].own.points <= Earned(UserOf(v))
        BY <3>1 DEF EarnedBefore
      <3>5. Open(v)' => award'[v].own.points <= Earned(UserOf(v))'
        <4>. PICK u : u = UserOf(v)
          OBVIOUS
        <4>1. award[v].own.points <= Earned(u) => award[v].own.points <= Earned(u)'
          BY <1>4, <1>5, <3>2
        <4>. QED
          BY <1>1, <3>3, <4>1 DEF Earned, Paid, RewardsOf
      <3>6. award'[v].referral # NoReferral =>
                award'[v].referrer.points <= Earned(Referrer[award[v].referral])'
        <4>. PICK u : u = Referrer[award[v].referral]
          OBVIOUS
        <4>1. award[v].referrer.points <= Earned(u) => award[v].referrer.points <= Earned(u)'
          BY <1>4, <1>5, <3>2
        <4>2. award[v].referral # NoReferral => award[v].referrer.points <= Earned(u)
          BY <3>1 DEF EarnedBefore
        <4>. QED
          BY <1>1, <4>1, <4>2 DEF Earned, Paid, RewardsOf
      <3>. QED
        BY <3>5, <3>6 DEF EarnedBefore
    <2>2. EarnedBefore(w)'
      BY <1>1 DEF EarnedBefore
    <2>. QED
      BY <2>1, <2>2 DEF ReadsAreEarned
  <1>15. AwardReadsStayFresh'
    <2>0. crossed' = crossed \cup {u \in {payer} \cup {Referrer[r] : r \in RewardedBy(w)} :
                                        \E v \in Worker \ {w} : u \in HasRead(v)}
      BY DEF CommitsRows, CrossedBy
    <2>1. ASSUME NEW v \in Worker \ {w} PROVE FreshAward(v)'
      <3>1. FreshAward(v)
        BY DEF LoyaltyInv, PointsInv, AwardReadsStayFresh
      <3>2. \A u \in User : u \in HasRead(v) /\ u \notin crossed' =>
                loyalty'[u] = loyalty[u] /\ u \notin crossed
        BY <1>8, <2>0
      <3>3. Open(v) => UserOf(v) \in User /\ UserOf(v) \in HasRead(v)
        BY <1>0, OpenHandles DEF HasRead
      <3>4. award[v].referral # NoReferral =>
                /\ Referrer[award[v].referral] \in User
                /\ Referrer[award[v].referral] \in HasRead(v)
        BY <1>0, ReferralInHand DEF HasRead
      <3>. QED
        BY <1>1, <3>1, <3>2, <3>3, <3>4 DEF FreshAward
    <2>2. FreshAward(w)'
      BY <1>1 DEF FreshAward
    <2>. QED
      BY <2>1, <2>2 DEF AwardReadsStayFresh
  <1>. QED
    BY <1>13, <1>14, <1>15 DEF PointsInv

-----------------------------------------------------------------------------
(* Tiers and the first booking *)

(* What the app announces leads to a higher tier. *)
LEMMA AnnouncedTier ==
    ASSUME NEW n \in Nat, NEW S, S = {t \in Threshold : t > n}, NEW d,
           d = IF S = {} THEN 0 ELSE Min(S) - n, d > 0
    PROVE  BestTier(n + d) > (IF n = 0 THEN NoTier ELSE BestTier(n))
  <1>1. S \in SUBSET Threshold /\ Threshold \subseteq Int
    BY LoyaltyAssumption
  <1>2. S # {}
    OBVIOUS
  <1>3. IsFiniteSet(S) /\ S \subseteq Int
    BY <1>1, FS_Subset, LoyaltyAssumption
  <1>4. Min(S) \in S
    BY <1>2, <1>3, MinIsThere
  <1>5. Min(S) \in Threshold /\ Min(S) > n /\ Min(S) \in Nat
    BY <1>4, LoyaltyAssumption
  <1>6. n + d = Min(S)
    BY <1>2, <1>5
  <1>7. BestTier(Min(S)) \in Int /\ BestTier(Min(S)) >= Min(S)
    BY <1>5, TierOf
  <1>8. /\ BestTier(n) \in Int /\ BestTier(n) <= n
        /\ NoTier \in Int /\ NoTier <= n
    BY TierOf DEF NoTier
  <1>. QED
    BY <1>5, <1>6, <1>7, <1>8

(* _update_tier, one wash after the tier was right, makes it right again. *)
LEMMA TierAfterWash ==
    ASSUME NEW n \in Nat, NEW t, NEW m, m = n + 1,
           t = IF n = 0 THEN NoTier ELSE BestTier(n)
    PROVE  (IF BestTier(m) \in {NoTier, t} THEN t ELSE BestTier(m)) = BestTier(m)
  <1>1. m \in Nat /\ n <= m
    OBVIOUS
  <1>2. BestTier(n) \in Int /\ BestTier(n) >= NoTier /\ BestTier(n) <= BestTier(m)
        /\ BestTier(m) \in Int /\ BestTier(m) >= NoTier
    BY <1>1, TierOf, TierGrows
  <1>3. CASE BestTier(m) = NoTier
    BY <1>2, <1>3 DEF NoTier
  <1>4. CASE BestTier(m) # NoTier
    BY <1>4
  <1>. QED
    BY <1>3, <1>4

LEMMA PaidBookingsFinite ==
    ASSUME NEW u
    PROVE  /\ IsFiniteSet(Paid(u) \cap Booked)
           /\ Cardinality(Paid(u) \cap Booked) \in Nat
  <1>1. IsFiniteSet(Paid(u) \cap Booked)
    BY LoyaltyAssumption, FS_Subset DEF Paid
  <1>. QED
    BY <1>1, FS_CardinalityType

LEMMA CommitTiers ==
    ASSUME PaidInv, LoyaltyInv, NEW w \in Worker, CommitsPayment(w), CommitsRows(w),
           loyalty' \in [User -> LoyaltyRow]
    PROVE  TierEarned'
  <1>0. AwardInv /\ LoyaltyTypeOK /\ TierEarned /\ FreshAward(w)
    BY DEF LoyaltyInv, AwardInv, PointsInv, AwardReadsStayFresh
  <1>. SUFFICES ASSUME NEW u \in User, u \notin crossed'
       PROVE  /\ loyalty'[u].washes = Cardinality(Paid(u)' \cap Booked)
              /\ loyalty'[u].tier = IF loyalty'[u].washes = 0 THEN NoTier
                                    ELSE BestTier(loyalty'[u].washes)
    <2>1. ASSUME NEW u \in User, u \notin crossed'
          PROVE  /\ loyalty'[u].washes = Cardinality(Paid(u)' \cap Booked)
                 /\ loyalty'[u].tier = IF loyalty'[u].washes = 0 THEN NoTier
                                       ELSE BestTier(loyalty'[u].washes)
                 /\ WashesToNext(u)' > 0 =>
                        BestTier(loyalty'[u].washes + WashesToNext(u)') > loyalty'[u].tier
      <3>1. /\ loyalty'[u].washes = Cardinality(Paid(u)' \cap Booked)
            /\ loyalty'[u].tier = IF loyalty'[u].washes = 0 THEN NoTier
                                  ELSE BestTier(loyalty'[u].washes)
        BY <2>1
      <3>2. loyalty'[u].washes \in Nat
        BY <2>1 DEF LoyaltyRow
      <3>. PICK n \in Nat : n = loyalty'[u].washes
        BY <3>2
      <3>. PICK S : S = {t \in Threshold : t > n}
        OBVIOUS
      <3>4. WashesToNext(u)' = IF S = {} THEN 0 ELSE Min(S) - n
        BY DEF WashesToNext, Higher
      <3>3. WashesToNext(u)' > 0 =>
                BestTier(loyalty'[u].washes + WashesToNext(u)') > loyalty'[u].tier
        BY <3>1, <3>4, AnnouncedTier
      <3>. QED
        BY <3>1, <3>3
    <2>. QED
      BY <2>1 DEF TierEarned
  <1>1. u \notin crossed
    BY DEF CommitsRows, CrossedBy
  <1>2. /\ loyalty[u].washes = Cardinality(Paid(u) \cap Booked)
        /\ loyalty[u].tier = IF loyalty[u].washes = 0 THEN NoTier
                             ELSE BestTier(loyalty[u].washes)
    BY <1>0, <1>1 DEF TierEarned
  <1>3. CASE u # UserOf(w)
    <2>1. Paid(u)' = Paid(u)
      BY <1>0, <1>3, CommitEarns
    <2>2. CASE \A r \in RewardedBy(w) : u # Referrer[r]
      BY <1>2, <1>3, <2>1, <2>2 DEF CommitsRows
    <2>3. ASSUME NEW r \in RewardedBy(w), u = Referrer[r]
          PROVE  loyalty'[u].washes = loyalty[u].washes /\ loyalty'[u].tier = loyalty[u].tier
      <3>1. loyalty'[u] = WithPoints(u, award[w].referrer, ReferralPoints)
        BY <2>3 DEF CommitsRows
      <3>2. award[w].referrer \in LoyaltyRow /\ ReferralPoints \in Nat
        BY <1>0 DEF LoyaltyTypeOK, Award, ReferralPoints
      <3>. QED
        BY <1>0, <3>1, <3>2, WithPointsRow
    <2>. QED
      BY <1>2, <2>1, <2>2, <2>3
  <1>4. CASE u = UserOf(w)
    <2>1. /\ Paid(u)' = Paid(u) \cup {PaymentOf(w)} /\ PaymentOf(w) \notin Paid(u)
          /\ loyalty'[u] = Credited(w)
          /\ PaymentOf(w) \in Payment
      BY <1>0, <1>4, CommitEarns DEF CommitsRows, CommitsPayment
    <2>2. CASE PaymentOf(w) \notin Booked
      <3>1. Paid(u)' \cap Booked = Paid(u) \cap Booked
        BY <2>1, <2>2
      <3>2. Credited(w) = WithPoints(u, award[w].own, Amount[PaymentOf(w)])
        BY <1>4, <2>2 DEF Credited
      <3>3. loyalty'[u].washes = loyalty[u].washes /\ loyalty'[u].tier = loyalty[u].tier
        BY <1>0, <2>1, <3>2, WithPointsRow, PointsOf DEF LoyaltyTypeOK, Award
      <3>. QED
        BY <1>2, <3>1, <3>3
    <2>3. CASE PaymentOf(w) \in Booked
      <3>. PICK n \in Nat : n = Cardinality(Paid(u) \cap Booked)
        BY PaidBookingsFinite
      <3>1. Paid(u)' \cap Booked = (Paid(u) \cap Booked) \cup {PaymentOf(w)}
        BY <2>1, <2>3
      <3>2. Cardinality(Paid(u)' \cap Booked) = n + 1
        BY <2>1, <3>1, PaidBookingsFinite, FS_AddElement
      <3>3. award[w].own.washes = n /\ award[w].own.tier = loyalty[u].tier
        BY <1>0, <1>1, <1>2, <1>4 DEF FreshAward, SameCounts, CommitsPayment
      <3>. PICK m : m = n + 1
        OBVIOUS
      <3>4. /\ loyalty'[u].washes = m
            /\ loyalty'[u].tier = IF BestTier(m) \in {NoTier, loyalty[u].tier}
                                  THEN loyalty[u].tier ELSE BestTier(m)
        BY <1>4, <2>1, <2>3, <3>3 DEF Credited, WithWash
      <3>5. loyalty'[u].tier = BestTier(m)
        BY <1>2, <3>4, TierAfterWash
      <3>. QED
        BY <3>2, <3>4, <3>5
    <2>. QED
      BY <2>2, <2>3
  <1>. QED
    BY <1>3, <1>4

LEMMA CommitFirstBooking ==
    ASSUME PaidInv, LoyaltyInv, NEW w \in Worker, CommitsPayment(w), CommitsRows(w)
    PROVE  FirstBookingRewardsReferral'
  <1>0. AwardInv /\ LoyaltyTypeOK /\ FirstBookingRewardsReferral
    BY DEF LoyaltyInv, AwardInv
  <1>. SUFFICES ASSUME NEW u \in User, ReferralsOf(u) # {}
       PROVE  ((Paid(u)' \cap Booked) \ passedOver' # {})
                    = (\E r \in ReferralsOf(u) : rewardState'[r] = "awarded")
    BY DEF FirstBookingRewardsReferral, ReferralsOf
  <1>1. ((Paid(u) \cap Booked) \ passedOver # {})
            = (\E r \in ReferralsOf(u) : rewardState[r] = "awarded")
    BY <1>0 DEF FirstBookingRewardsReferral
  <1>2. \A r \in Referral :
            /\ rewardState'[r] = IF r \in RewardedBy(w) THEN "awarded" ELSE rewardState[r]
            /\ r \in RewardedBy(w) => Referee[r] = UserOf(w) /\ PaymentOf(w) \in Booked
    BY DEF CommitsRows
  <1>5. PaymentOf(w) \notin passedOver
    BY <1>0 DEF AwardInv, PassedOverArePaid, CommitsPayment
  <1>6. passedOver' =
            IF PaymentOf(w) \in Booked /\ CompletedBefore(w) /\ RewardedBy(w) = {}
            THEN passedOver \cup {PaymentOf(w)} ELSE passedOver
    BY DEF CommitsRows
  <1>3. CASE u # UserOf(w)
    <2>1. Paid(u)' = Paid(u)
      BY <1>0, <1>3, CommitEarns
    <2>2. \A r \in ReferralsOf(u) : rewardState'[r] = rewardState[r]
      BY <1>2, <1>3 DEF ReferralsOf
    <2>3. PaymentOf(w) \notin Paid(u)
      BY <1>3 DEF Paid, UserOf
    <2>4. (Paid(u)' \cap Booked) \ passedOver' = (Paid(u) \cap Booked) \ passedOver
      BY <1>6, <2>1, <2>3
    <2>. QED
      BY <1>1, <2>2, <2>4
  <1>4. CASE u = UserOf(w)
    <2>1. Paid(u)' = Paid(u) \cup {PaymentOf(w)}
      BY <1>0, <1>4, CommitEarns
    <2>2. CASE PaymentOf(w) \notin Booked
      <3>1. (Paid(u)' \cap Booked) \ passedOver' = (Paid(u) \cap Booked) \ passedOver
        BY <1>6, <2>1, <2>2
      <3>2. \A r \in ReferralsOf(u) : rewardState'[r] = rewardState[r]
        BY <1>2, <2>2 DEF ReferralsOf
      <3>. QED
        BY <1>1, <3>1, <3>2
    <2>3. CASE PaymentOf(w) \in Booked /\ RewardedBy(w) # {}
      <3>1. PaymentOf(w) \in (Paid(u)' \cap Booked) \ passedOver'
        BY <1>5, <1>6, <2>1, <2>3
      <3>. PICK r : r \in RewardedBy(w)
        BY <2>3
      <3>2. r \in ReferralsOf(u) /\ rewardState'[r] = "awarded"
        BY <1>2, <1>4 DEF ReferralsOf, RewardedBy
      <3>. QED
        BY <3>1, <3>2
    <2>4. CASE PaymentOf(w) \in Booked /\ RewardedBy(w) = {}
      <3>1. PendingReferrals(w) = {}
        BY <2>4 DEF CommitsRows
      <3>2. \A r \in Referral : rewardState'[r] = rewardState[r]
        BY <1>2, <2>4
      <3>3. CASE CompletedBefore(w)
        <4>1. (Paid(u)' \cap Booked) \ passedOver' = (Paid(u) \cap Booked) \ passedOver
          <5>1. PaymentOf(w) \notin Paid(u)
            BY <1>0, <1>4, CommitEarns
          <5>. QED
            BY <1>6, <2>1, <2>4, <3>3, <5>1
        <4>. QED
          BY <1>1, <3>2, <4>1 DEF ReferralsOf
      <3>4. CASE ~CompletedBefore(w)
        <4>1. PaymentOf(w) \in (Paid(u)' \cap Booked) \ passedOver'
          BY <1>5, <1>6, <2>1, <2>4, <3>4
        <4>2. \A r \in ReferralsOf(u) : rewardState[r] # "pending"
          BY <1>4, <2>4, <3>1, <3>4 DEF PendingReferrals, ReferralsOf
        <4>3. \A r \in ReferralsOf(u) : rewardState[r] = "awarded"
          BY <1>0, <4>2 DEF LoyaltyTypeOK, ReferralsOf
        <4>. QED
          BY <3>2, <4>1, <4>3 DEF ReferralsOf
      <3>. QED
        BY <3>3, <3>4
    <2>. QED
      BY <2>2, <2>3, <2>4
  <1>. QED
    BY <1>3, <1>4

LEMMA CommitStep ==
    ASSUME PaidInv, LoyaltyInv, NEW w \in Worker, CommitAward(w) \/ CommitReward(w)
    PROVE  LoyaltyInv'
  <1>1. CommitsPayment(w) /\ CommitsRows(w)
    BY CommitEffects DEF LoyaltyInv
  <1>2. /\ loyalty' \in [User -> LoyaltyRow]
        /\ rewardState' \in [Referral -> {"pending", "awarded"}]
    BY CommitTypes DEF LoyaltyInv
  <1>3. AwardInv'
    BY <1>1, <1>2, CommitAwards DEF LoyaltyInv
  <1>4. PointsInv'
    BY <1>1, CommitPoints
  <1>5. TierEarned'
    BY <1>1, <1>2, CommitTiers
  <1>6. FirstBookingRewardsReferral'
    BY <1>1, CommitFirstBooking
  <1>. QED
    BY <1>3, <1>4, <1>5, <1>6 DEF LoyaltyInv

-----------------------------------------------------------------------------
(* Steps that no fulfilment takes *)

LEMMA ViewStatusStep ==
    ASSUME PaidInv, LoyaltyInv, NEW u \in User, ViewStatus(u)
    PROVE  LoyaltyInv'
  <1>0. LoyaltyTypeOK
    BY DEF LoyaltyInv, AwardInv
  <1>1. UNCHANGED <<vars, rewardState, completed, award, crossed, passedOver>>
    BY DEF ViewStatus
  <1>2. req' = req /\ status' = status /\ rewarded' = rewarded
    BY <1>1 DEF vars, rows
  <1>. PICK row \in LoyaltyRow : row = loyalty[u]
    BY <1>0 DEF LoyaltyTypeOK
  <1>3. loyalty' = [loyalty EXCEPT ![u] = [row EXCEPT !.exists = TRUE]]
    BY DEF ViewStatus
  <1>4. [row EXCEPT !.exists = TRUE] \in LoyaltyRow
    BY DEF LoyaltyRow
  <1>5. loyalty' \in [User -> LoyaltyRow]
    BY <1>0, <1>3, <1>4 DEF LoyaltyTypeOK
  <1>6. \A v \in User : SameCounts(loyalty'[v], loyalty[v])
    BY <1>0, <1>3 DEF LoyaltyTypeOK, LoyaltyRow, SameCounts
  <1>7. \A w : PaymentOf(w)' = PaymentOf(w) /\ UserOf(w)' = UserOf(w)
                /\ Open(w)' = Open(w) /\ Holds(w)' = Holds(w)
    BY <1>1, <1>2 DEF PaymentOf, UserOf, Open, Holds
  <1>8. \A v : Paid(v)' = Paid(v) /\ Earned(v)' = Earned(v)
    BY <1>1, <1>2, SameEarned
  <1>9. AwardInv'
    <2>1. LoyaltyTypeOK' /\ PassedOverArePaid'
      BY <1>0, <1>1, <1>2, <1>5 DEF LoyaltyTypeOK, LoyaltyInv, AwardInv, PassedOverArePaid
    <2>2. AwardsHold'
      BY <1>1, <1>2, <1>7 DEF LoyaltyInv, AwardInv, AwardsHold, AwardHolds
    <2>3. FulfilmentExcludes'
      BY <1>1, <1>2, <1>7 DEF LoyaltyInv, AwardInv, FulfilmentExcludes
    <2>. QED
      BY <2>1, <2>2, <2>3 DEF AwardInv
  <1>10. ReadsAreEarned'
    BY <1>1, <1>7, <1>8 DEF LoyaltyInv, PointsInv, ReadsAreEarned, EarnedBefore
  <1>11. AwardReadsStayFresh'
    <2>. SUFFICES ASSUME NEW w \in Worker PROVE FreshAward(w)'
      BY DEF AwardReadsStayFresh
    <2>1. FreshAward(w)
      BY DEF LoyaltyInv, PointsInv, AwardReadsStayFresh
    <2>2. /\ Open(w) => UserOf(w) \in User
          /\ award[w].referral # NoReferral => Referrer[award[w].referral] \in User
      BY OpenHandles, ReferralInHand DEF LoyaltyInv
    <2>. QED
      BY <1>1, <1>6, <1>7, <2>1, <2>2 DEF FreshAward, SameCounts
  <1>12. PointsAccounted'
    BY <1>1, <1>6, <1>8 DEF LoyaltyInv, PointsInv, PointsAccounted, SameCounts
  <1>13. TierEarned'
    BY <1>1, <1>6, <1>8
    DEF LoyaltyInv, TierEarned, WashesToNext, Higher, SameCounts
  <1>14. FirstBookingRewardsReferral'
    BY <1>1, <1>8 DEF LoyaltyInv, FirstBookingRewardsReferral
  <1>. QED
    BY <1>9, <1>10, <1>11, <1>12, <1>13, <1>14 DEF LoyaltyInv, PointsInv

LEMMA CompleteBookingStep ==
    ASSUME LoyaltyInv, NEW p \in Payment, CompleteBooking(p)
    PROVE  LoyaltyInv'
  <1>1. UNCHANGED <<vars, loyalty, rewardState, award, crossed, passedOver>>
    BY DEF CompleteBooking
  <1>2. req' = req /\ status' = status /\ rewarded' = rewarded
    BY <1>1 DEF vars, rows
  <1>3. \A w : PaymentOf(w)' = PaymentOf(w) /\ UserOf(w)' = UserOf(w)
                /\ Open(w)' = Open(w) /\ Holds(w)' = Holds(w)
    BY <1>1, <1>2 DEF PaymentOf, UserOf, Open, Holds
  <1>4. \A v : Paid(v)' = Paid(v) /\ Earned(v)' = Earned(v)
    BY <1>1, <1>2, SameEarned
  <1>5. AwardInv'
    <2>1. LoyaltyTypeOK' /\ PassedOverArePaid'
      BY <1>1, <1>2 DEF CompleteBooking, LoyaltyTypeOK, LoyaltyInv, AwardInv, PassedOverArePaid
    <2>2. AwardsHold'
      BY <1>1, <1>2, <1>3 DEF LoyaltyInv, AwardInv, AwardsHold, AwardHolds
    <2>3. FulfilmentExcludes'
      BY <1>1, <1>2, <1>3 DEF LoyaltyInv, AwardInv, FulfilmentExcludes
    <2>. QED
      BY <2>1, <2>2, <2>3 DEF AwardInv
  <1>6. PointsInv'
    BY <1>1, <1>3, <1>4
    DEF LoyaltyInv, PointsInv, ReadsAreEarned, EarnedBefore, AwardReadsStayFresh, FreshAward,
        PointsAccounted
  <1>7. TierEarned'
    BY <1>1, <1>4 DEF LoyaltyInv, TierEarned, WashesToNext, Higher
  <1>8. FirstBookingRewardsReferral'
    BY <1>1, <1>4 DEF LoyaltyInv, FirstBookingRewardsReferral
  <1>. QED
    BY <1>5, <1>6, <1>7, <1>8 DEF LoyaltyInv

-----------------------------------------------------------------------------

LEMMA InitLoyalty == LoyaltyInit => LoyaltyInv
  <1>. SUFFICES ASSUME LoyaltyInit PROVE LoyaltyInv
    OBVIOUS
  <1>1. \A w \in Worker : award[w] = NoAward
    BY DEF LoyaltyInit
  <1>2. AwardInv
    <2>1. LoyaltyTypeOK
      BY NoAwardType DEF LoyaltyInit, LoyaltyTypeOK
    <2>2. AwardsHold
      BY <1>1 DEF AwardsHold, AwardHolds, Open, NoAward
    <2>3. FulfilmentExcludes
      BY <1>1 DEF FulfilmentExcludes, Open, NoAward
    <2>4. PassedOverArePaid
      BY DEF LoyaltyInit, PassedOverArePaid
    <2>. QED
      BY <2>1, <2>2, <2>3, <2>4 DEF AwardInv
  <1>3. ReadsAreEarned /\ AwardReadsStayFresh
    BY <1>1 DEF ReadsAreEarned, EarnedBefore, AwardReadsStayFresh, FreshAward, Open, NoAward
  <1>4. \A u : Paid(u) = {} /\ RewardsOf(u) = {}
    BY DEF LoyaltyInit, Init, Paid, RewardsOf
  <1>5. \A u : Earned(u) = 0
    <2>1. \A u : UNION {PointsFor(p) : p \in Paid(u)} = {}
      BY <1>4
    <2>. QED
      BY <1>4, <2>1, FS_EmptySet DEF Earned, ReferralPoints
  <1>6. PointsAccounted
    BY <1>5 DEF PointsAccounted, LoyaltyInit, NoPoints
  <1>7. TierEarned
    <2>. SUFFICES ASSUME NEW u \in User
         PROVE  /\ loyalty[u].washes = Cardinality(Paid(u) \cap Booked)
                /\ loyalty[u].tier = IF loyalty[u].washes = 0 THEN NoTier
                                     ELSE BestTier(loyalty[u].washes)
                /\ WashesToNext(u) > 0 =>
                        BestTier(loyalty[u].washes + WashesToNext(u)) > loyalty[u].tier
      BY DEF TierEarned
    <2>1. loyalty[u].washes = 0 /\ loyalty[u].tier = NoTier
      BY DEF LoyaltyInit, NoPoints
    <2>2. Paid(u) \cap Booked = {}
      BY <1>4
    <2>. PICK S : S = {t \in Threshold : t > 0}
      OBVIOUS
    <2>3. WashesToNext(u) = IF S = {} THEN 0 ELSE Min(S) - 0
      BY <2>1 DEF WashesToNext, Higher
    <2>4. WashesToNext(u) > 0 => BestTier(0 + WashesToNext(u)) > NoTier
      BY <2>3, AnnouncedTier
    <2>. QED
      BY <2>1, <2>2, <2>4, FS_EmptySet
  <1>8. FirstBookingRewardsReferral
    BY <1>4 DEF FirstBookingRewardsReferral, LoyaltyInit, ReferralsOf
  <1>. QED
    BY <1>2, <1>3, <1>6, <1>7, <1>8 DEF LoyaltyInv, PointsInv

(* The inductive invariant of points, tiers and referrals. *)
THEOREM LoyaltyInvariance == LoyaltySpec => [](PaidInv /\ LoyaltyInv)
  <1>1. LoyaltyInit => PaidInv /\ LoyaltyInv
    BY InitTypeOK, InitWallets, InitPaid, InitLoyalty DEF LoyaltyInit, PaidInv, WalletInv
  <1>2. PaidInv /\ LoyaltyInv /\ [LoyaltyNext]_allVars => PaidInv' /\ LoyaltyInv'
    <2>. SUFFICES ASSUME PaidInv, LoyaltyInv, [LoyaltyNext]_allVars PROVE PaidInv' /\ LoyaltyInv'
      OBVIOUS
    <2>1. PaidInv'
      BY StepOfPayments, PaidStep
    <2>2. ASSUME NEW w \in Worker, AwardStep(w) PROVE LoyaltyInv'
      BY <2>2, BeginAwardStep, CreditStep, LockReferralStep, CommitStep DEF AwardStep
    <2>3. ASSUME NEW w \in Worker, PaymentStep(w) PROVE LoyaltyInv'
      BY <2>3, QuietStep DEF PaymentStep
    <2>4. ASSUME NEW w \in Worker, NEW p \in Payment, BeginIntent(w, p), UNCHANGED loyaltyVars
          PROVE  LoyaltyInv'
      BY <2>4, QuietStep
    <2>5. ASSUME NEW p \in Payment, Capture(p), UNCHANGED loyaltyVars PROVE LoyaltyInv'
      BY <2>5, QuietStep
    <2>6. ASSUME NEW e \in Event, Redeliver(e), UNCHANGED loyaltyVars PROVE LoyaltyInv'
      BY <2>6, QuietStep
    <2>7. ASSUME UNCHANGED allVars PROVE LoyaltyInv'
      <3>1. UNCHANGED <<loyaltyVars, rewarded, req, status>>
        BY <2>7 DEF allVars, vars, rows
      <3>3. /\ loyalty' = loyalty /\ rewardState' = rewardState
            /\ completed' = completed /\ crossed' = crossed /\ rewarded' = rewarded
            /\ passedOver' = passedOver
            /\ award' \in [Worker -> Award]
        BY <3>1 DEF loyaltyVars, LoyaltyInv, AwardInv, LoyaltyTypeOK
      <3>2. \A v \in Worker : KeepsAward(v)
        BY <3>1, OpenHandles DEF KeepsAward, LoyaltyInv, loyaltyVars
      <3>. QED
        BY <3>2, <3>3, FewerAwards
    <2>8. LoyaltyInv'
      BY <2>2, <2>3, <2>4, <2>5, <2>6, <2>7, RollBackStep, ViewStatusStep, CompleteBookingStep
      DEF LoyaltyNext
    <2>. QED
      BY <2>1, <2>8
  <1>. QED
    BY <1>1, <1>2, PTL DEF LoyaltySpec

(* A payment is fulfilled by one transaction at a time and a referral
   rewarded by one: LockPayment, LockReferral and the row locks of the
   loyalty table keep the fulfilments of different workers apart. *)
THEOREM FulfilmentsExclude == LoyaltySpec => []FulfilmentExcludes
  BY LoyaltyInvariance, PTL DEF LoyaltyInv, AwardInv

(* The loyalty, referral and fulfilment rows keep their types. *)
THEOREM LoyaltyTypes == LoyaltySpec => []LoyaltyTypeOK
  BY LoyaltyInvariance, PTL DEF LoyaltyInv, AwardInv

(* Nobody holds more points than the fulfilled payments and the rewarded
   referrals are worth, and who holds fewer was credited by two fulfilments
   one of which had read the row before the other wrote it. *)
THEOREM PointsAreAccounted == LoyaltySpec => []PointsAccounted
  BY LoyaltyInvariance, PTL DEF LoyaltyInv, PointsInv

(* Outside such a meeting the washes are the paid bookings, the tier is the
   one they reach, and the washes announced to the app lead to a higher one. *)
THEOREM TiersAreEarned == LoyaltySpec => []TierEarned
  BY LoyaltyInvariance, PTL DEF LoyaltyInv

(* A referral of a user is rewarded when the user has paid for a booking by
   card while no other one was completed, never before and not by a shop
   order, whatever other fulfilments run and whenever bookings are washed. *)
THEOREM FirstBookingRewards == LoyaltySpec => []FirstBookingRewardsReferral
  BY LoyaltyInvariance, PTL DEF LoyaltyInv
=============================================================================
