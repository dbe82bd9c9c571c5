--------------------------- MODULE AccountsProofs ---------------------------
(***************************************************************************)
(* Proofs about Accounts, for any accounts, phones, vehicles, addresses,   *)
(* codes and number of workers.                                            *)
(*                                                                         *)
(* The argument for the codes: a code is created in a row that was not     *)
(* there (CodesInOrder) and only whoever locked it while it was active     *)
(* consumes it (VerifiesLocked).  For vehicles, addresses and erasure:     *)
(* while no two requests of an account have met, what a request has read   *)
(* is still so when it writes (ReadsHold), although nothing is locked.     *)
(***************************************************************************)
EXTENDS Accounts, FiniteSetTheorems, TLAPS

(* The codes that exist are the first ones. *)
CodesInOrder ==
    \E k \in Nat : \A c \in Code : code[c] # NoCode <=> c <= k

(* A code being verified is active and locked by one request. *)
VerifiesLocked ==
    \A w \in Worker : req[w].pc = "verify" =>
        /\ req[w].code \in Code
        /\ code[req[w].code].state = "active"
        /\ \A v \in Worker : req[v].pc = "verify" /\ req[v].code = req[w].code => v = w

(* A login has been made with used and deleted codes only. *)
OpenedByUsed ==
    \A c \in Code :
        /\ code[c].state \in {"none", "active"} => opened[c] = 0
        /\ opened[c] <= 1

LoginInv == CodesInOrder /\ VerifiesLocked /\ OpenedByUsed

(* What request r of account a works on. *)
WorkOf(r) ==
    /\ r.pc \in {"idle", "code", "verify"} => r.account = NoAccount
    /\ r.pc \in {"create", "update", "delete"} =>
            r.account \in Account /\ r.item \in Item
    /\ r.pc = "patch" => r.account \in Account
    /\ r.pc \in {"create", "update"} => r.row.state = "live"
    /\ r.pc = "code" => r.phone \in Phone

(* Of an account no two requests of which met: what a request has read is
   what the rows hold, and nothing runs for an erased account. *)
HoldsFor(r) ==
    LET a == r.account
        i == r.item
        d == r.row.default IN
    /\ ~account[a].erased
    /\ r.pc = "create" => i \notin Live(a) /\ r.clear = ToClear(a, i, d)
    /\ r.pc = "update" =>
        /\ i \in Live(a)
        /\ r.clear = ToClear(a, i, d) \/ (r.clear = {} /\ d = item[a][i].default)
    /\ r.pc = "delete" => i \in Live(a)

ReadsHold ==
    \A w \in Worker : req[w].account \in Account \ met => HoldsFor(req[w])

(* Deleted rows stay, as deleted. *)
RemovedKept ==
    \A a \in Account \ met : \A i \in Item :
        <<a, i>> \in removed => item[a][i].state = "deleted"

-----------------------------------------------------------------------------
(* Rows and requests keep their types *)

LEMMA IdleType ==
    Idle \in Request /\ Idle.pc = "idle" /\ Idle.account = NoAccount
  BY DEF Idle, Request, Absent, ItemRow

(* A request w turns to. *)
LEMMA RequestTurns ==
    ASSUME TypeOK, NEW w \in Worker, NEW r \in Request, req' = [req EXCEPT ![w] = r]
    PROVE  /\ req' \in [Worker -> Request] /\ req'[w] = r
           /\ \A v \in Worker \ {w} : req'[v] = req[v]
  BY DEF TypeOK

LEMMA RequestEnds ==
    ASSUME TypeOK, NEW w \in Worker, EndRequest(w)
    PROVE  /\ req' \in [Worker -> Request] /\ req'[w] = Idle
           /\ \A v \in Worker \ {w} : req'[v] = req[v]
  BY IdleType, RequestTurns DEF EndRequest

(* What a request of an item writes. *)
LEMMA SavedType ==
    ASSUME TypeOK, NEW r \in Request, r.account \in Account
    PROVE  Saved(r) \in [Item -> ItemRow]
  <1>1. ASSUME NEW j \in Item
        PROVE  [item[r.account][j] EXCEPT !.default = FALSE] \in ItemRow
    <2>1. item[r.account][j] \in ItemRow
      BY DEF TypeOK
    <2>. QED
      BY <2>1 DEF ItemRow
  <1>2. r.row \in ItemRow
    BY DEF Request
  <1>3. \A j \in Item : item[r.account][j] \in ItemRow
    BY DEF TypeOK
  <1>. QED
    BY <1>1, <1>2, <1>3 DEF Saved

LEMMA ToClearType ==
    ASSUME NEW a, NEW i, NEW d
    PROVE  ToClear(a, i, d) \subseteq Item
  BY DEF ToClear, Defaults, Live

(* A row is used up, deleted or new. *)
LEMMA CodeTypes ==
    ASSUME NEW c \in CodeRow, NEW s \in {"used", "deleted", "active"}
    PROVE  /\ [c EXCEPT !.state = s] \in CodeRow
           /\ [c EXCEPT !.state = s].state = s
           /\ [c EXCEPT !.state = s] # NoCode
  BY DEF CodeRow, NoCode

(* Runs: a request begins. *)
LEMMA RunsReads ==
    ASSUME TypeOK, NEW w \in Worker, NEW pc, NEW a, NEW i, NEW row, NEW clear,
           Runs(w, pc, a, i, row, clear)
    PROVE  /\ req'[w].pc = pc /\ req'[w].account = a /\ req'[w].item = i
           /\ req'[w].row = row /\ req'[w].clear = clear
           /\ \A v \in Worker \ {w} : req'[v] = req[v]
           /\ UNCHANGED <<account, code, item, opened, doubled, removed, met>>
           /\ CanAct(a)
  <1>1. PICK r : r = [Idle EXCEPT !.pc = pc, !.account = a, !.item = i, !.row = row,
                                  !.clear = clear]
    OBVIOUS
  <1>2. r.pc = pc /\ r.account = a /\ r.item = i /\ r.row = row /\ r.clear = clear
    BY <1>1 DEF Idle
  <1>3. req' = [req EXCEPT ![w] = r]
    BY <1>1 DEF Runs
  <1>4. req'[w] = r /\ \A v \in Worker \ {w} : req'[v] = req[v]
    BY <1>3 DEF TypeOK
  <1>. QED
    BY <1>2, <1>4 DEF Runs

LEMMA RunsWork ==
    ASSUME TypeOK, \A v \in Worker : WorkOf(req[v]),
           NEW w \in Worker, NEW pc \in {"create", "update", "delete", "patch"},
           NEW a \in Account, NEW i \in Item \cup {NoItem}, pc # "patch" => i \in Item,
           NEW row \in ItemRow, NEW clear \in SUBSET Item,
           pc \in {"create", "update"} => row.state = "live",
           Runs(w, pc, a, i, row, clear)
    PROVE  TypeOK' /\ (\A v \in Worker : WorkOf(req[v]))'
  <1>1. /\ requests' = requests + 1 /\ requests < MaxRequests
        /\ UNCHANGED <<account, code, item, opened, doubled, removed, met>>
    BY DEF Runs
  <1>2. PICK r : r = [Idle EXCEPT !.pc = pc, !.account = a, !.item = i, !.row = row,
                                  !.clear = clear]
    OBVIOUS
  <1>3. req' = [req EXCEPT ![w] = r]
    BY <1>2 DEF Runs
  <1>4. /\ r \in Request /\ r.pc = pc /\ r.account = a /\ r.item = i
        /\ r.row = row /\ r.clear = clear
    BY <1>2 DEF Idle, Request
  <1>5. /\ req' \in [Worker -> Request] /\ req'[w] = r
        /\ \A v \in Worker \ {w} : req'[v] = req[v]
    BY <1>3, <1>4, RequestTurns
  <1>6. requests' \in 0 .. MaxRequests
    BY <1>1, AccountsAssumption DEF TypeOK
  <1>7. TypeOK'
    BY <1>1, <1>5, <1>6 DEF TypeOK
  <1>8. WorkOf(r)
    BY <1>4 DEF WorkOf
  <1>9. ASSUME NEW v \in Worker PROVE WorkOf(req[v])'
    BY <1>5, <1>8 DEF WorkOf
  <1>. QED
    BY <1>7, <1>9

(* A request ends; the rows may have changed. *)
LEMMA EndsWork ==
    ASSUME TypeOK, \A v \in Worker : WorkOf(req[v]), NEW w \in Worker, EndRequest(w)
    PROVE  (\A v \in Worker : WorkOf(req[v]))'
  <1>1. req'[w] = Idle /\ \A v \in Worker \ {w} : req'[v] = req[v]
    BY RequestEnds
  <1>2. ASSUME NEW v \in Worker PROVE WorkOf(req[v])'
    BY <1>1, IdleType DEF WorkOf
  <1>. QED
    BY <1>2

(* Types and requests through every step. *)
LEMMA LoginTypes ==
    ASSUME TypeOK, \A v \in Worker : WorkOf(req[v]), VerifiesLocked,
           NEW w \in Worker, LoginStep(w)
    PROVE  TypeOK' /\ (\A v \in Worker : WorkOf(req[v]))'
  <1>1. ASSUME NEW p \in Phone, BeginRequestCode(w, p)
        PROVE  TypeOK' /\ (\A v \in Worker : WorkOf(req[v]))'
    <2>1. PICK r : r = [Idle EXCEPT !.pc = "code", !.phone = p]
      OBVIOUS
    <2>2. /\ r \in Request /\ r.pc = "code" /\ r.phone = p /\ r.account = NoAccount
      BY <2>1 DEF Idle, Request, Absent, ItemRow
    <2>3. /\ req' = [req EXCEPT ![w] = r] /\ code' = UseUp(p)
          /\ doubled' \subseteq doubled \cup {p}
          /\ UNCHANGED <<account, item, requests, opened, removed, met>>
      BY <1>1, <2>1 DEF BeginRequestCode
    <2>4. /\ req' \in [Worker -> Request] /\ req'[w] = r
          /\ \A v \in Worker \ {w} : req'[v] = req[v]
      BY <2>2, <2>3, RequestTurns
    <2>5. code' \in [Code -> CodeRow]
      <3>1. ASSUME NEW c \in Code
            PROVE  (IF c \in ActiveCodes(p) THEN [code[c] EXCEPT !.state = "used"] ELSE code[c])
                        \in CodeRow
        BY CodeTypes DEF TypeOK
      <3>. QED
        BY <2>3, <3>1 DEF UseUp
    <2>6. TypeOK'
      BY <2>3, <2>4, <2>5 DEF TypeOK
    <2>7. WorkOf(r)
      BY <2>2 DEF WorkOf
    <2>8. ASSUME NEW v \in Worker PROVE WorkOf(req[v])'
      BY <2>4, <2>7 DEF WorkOf
    <2>. QED
      BY <2>6, <2>8
  <1>2. ASSUME NEW p \in Phone, NEW c \in Code, BeginVerify(w, p, c)
        PROVE  TypeOK' /\ (\A v \in Worker : WorkOf(req[v]))'
    <2>1. PICK r : r = [Idle EXCEPT !.pc = "verify", !.phone = p, !.code = c]
      OBVIOUS
    <2>2. /\ r \in Request /\ r.pc = "verify" /\ r.account = NoAccount
      BY <2>1 DEF Idle, Request, Absent, ItemRow
    <2>3. /\ req' = [req EXCEPT ![w] = r]
          /\ UNCHANGED <<account, code, item, history>>
      BY <1>2, <2>1 DEF BeginVerify
    <2>4. /\ req' \in [Worker -> Request] /\ req'[w] = r
          /\ \A v \in Worker \ {w} : req'[v] = req[v]
      BY <2>2, <2>3, RequestTurns
    <2>5. WorkOf(r)
      BY <2>2 DEF WorkOf
    <2>6. ASSUME NEW v \in Worker PROVE WorkOf(req[v])'
      BY <2>4, <2>5 DEF WorkOf
    <2>7. TypeOK'
      BY <2>3, <2>4 DEF TypeOK, history
    <2>. QED
      BY <2>6, <2>7
  <1>3. CASE CreateCode(w)
    <2>1. PICK c \in Code :
            code' = [code EXCEPT ![c] = [phone |-> req[w].phone, state |-> "active"]]
      BY <1>3 DEF CreateCode
    <2>2. /\ req[w].pc = "code" /\ EndRequest(w) /\ UNCHANGED <<account, item, history>>
      BY <1>3 DEF CreateCode
    <2>3. [phone |-> req[w].phone, state |-> "active"] \in CodeRow
      BY <2>2 DEF WorkOf, CodeRow
    <2>4. code' \in [Code -> CodeRow]
      BY <2>1, <2>3 DEF TypeOK
    <2>. QED
      BY <2>2, <2>4, RequestEnds, EndsWork DEF TypeOK, history
  <1>4. CASE CommitLogin(w)
    <2>. DEFINE c == req[w].code
                p == req[w].phone
    <2>1. /\ code' = [code EXCEPT ![c].state = "used"]
          /\ opened' = [opened EXCEPT ![c] = @ + 1]
          /\ EndRequest(w) /\ UNCHANGED <<item, requests, doubled, removed, met>>
      BY <1>4 DEF CommitLogin
    <2>2. \/ UNCHANGED account
          \/ \E a \in Account : account' = [account EXCEPT ![a] =
                        [NoUser EXCEPT !.phone = p, !.username = p, !.active = TRUE]]
      BY <1>4 DEF CommitLogin
    <2>3. p \in Phone \cup {NoPhone}
      BY DEF TypeOK, Request
    <2>4. [NoUser EXCEPT !.phone = p, !.username = p, !.active = TRUE] \in UserRow
      BY <2>3 DEF NoUser, UserRow
    <2>5. account' \in [Account -> UserRow]
      <3>. HIDE DEF p
      <3>. QED
        BY <2>2, <2>4 DEF TypeOK
    <2>6. code' \in [Code -> CodeRow]
      <3>1. c \in Code
        BY <1>4 DEF CommitLogin, VerifiesLocked
      <3>2. [code[c] EXCEPT !.state = "used"] \in CodeRow
        BY <3>1, CodeTypes DEF TypeOK
      <3>3. code' = [code EXCEPT ![c] = [code[c] EXCEPT !.state = "used"]]
        BY <2>1, <3>1 DEF TypeOK
      <3>. HIDE DEF c
      <3>. QED
        BY <3>2, <3>3 DEF TypeOK
    <2>7. opened' \in [Code -> Nat]
      <3>1. c \in Code
        BY <1>4 DEF CommitLogin, VerifiesLocked
      <3>. HIDE DEF c
      <3>2. opened[c] + 1 \in Nat
        BY <3>1 DEF TypeOK
      <3>. QED
        BY <2>1, <3>1, <3>2 DEF TypeOK
    <2>. QED
      BY <2>1, <2>5, <2>6, <2>7, RequestEnds, EndsWork DEF TypeOK
  <1>5. CASE FailLogin(w)
    BY <1>5, RequestEnds, EndsWork DEF FailLogin, TypeOK, history
  <1>. QED
    BY <1>1, <1>2, <1>3, <1>4, <1>5 DEF LoginStep

LEMMA ItemTypes ==
    ASSUME TypeOK, \A v \in Worker : WorkOf(req[v]), NEW w \in Worker,
           ItemStep(w) \/ ProfileStep(w)
    PROVE  TypeOK' /\ (\A v \in Worker : WorkOf(req[v]))'
  <1>1. ASSUME NEW a \in Account, NEW i \in Item, NEW d \in BOOLEAN,
               BeginCreate(w, a, i, d) \/ BeginUpdate(w, a, i, d)
        PROVE  TypeOK' /\ (\A v \in Worker : WorkOf(req[v]))'
    <2>1. PICK row : row = [state |-> "live", default |-> d]
      OBVIOUS
    <2>2. row \in ItemRow /\ row.state = "live"
      BY <2>1 DEF ItemRow
    <2>3. PICK pc \in {"create", "update"}, clear \in SUBSET Item : Runs(w, pc, a, i, row, clear)
      BY <1>1, <2>1, ToClearType DEF BeginCreate, BeginUpdate
    <2>. QED
      BY <2>2, <2>3, RunsWork
  <1>2. ASSUME NEW a \in Account, NEW i \in Item, BeginDelete(w, a, i)
        PROVE  TypeOK' /\ (\A v \in Worker : WorkOf(req[v]))'
    <2>1. item[a][i] \in ItemRow
      BY DEF TypeOK
    <2>. QED
      BY <1>2, <2>1, RunsWork DEF BeginDelete
  <1>3. ASSUME NEW a \in Account, BeginPatch(w, a)
        PROVE  TypeOK' /\ (\A v \in Worker : WorkOf(req[v]))'
    <2>1. Absent \in ItemRow
      BY DEF Absent, ItemRow
    <2>. QED
      BY <1>3, <2>1, RunsWork DEF BeginPatch
  <1>4. CASE CommitCreate(w) \/ CommitUpdate(w)
    <2>1. /\ req[w].pc \in {"create", "update"} /\ EndRequest(w)
          /\ item' = [item EXCEPT ![req[w].account] = Saved(req[w])]
          /\ met' = met \cup Overtakes(w)
          /\ UNCHANGED <<account, code, requests, opened, doubled, removed>>
      BY <1>4 DEF CommitCreate, CommitUpdate
    <2>2. req[w].account \in Account /\ req[w] \in Request
      BY <2>1 DEF WorkOf, TypeOK
    <2>3. Saved(req[w]) \in [Item -> ItemRow]
      BY <2>2, SavedType
    <2>4. item' \in [Account -> [Item -> ItemRow]]
      BY <2>1, <2>3 DEF TypeOK
    <2>5. Overtakes(w) \subseteq Account
      BY <2>2 DEF Overtakes
    <2>. QED
      BY <2>1, <2>4, <2>5, RequestEnds, EndsWork DEF TypeOK
  <1>5. CASE CommitDelete(w)
    <2>. DEFINE a == req[w].account
                i == req[w].item
    <2>1. /\ req[w].pc = "delete" /\ EndRequest(w)
          /\ item' = [item EXCEPT ![a][i].state = IF @ = "absent" THEN @ ELSE "deleted"]
          /\ removed' = removed \cup {<<a, i>>}
          /\ met' = met \cup Overtakes(w)
          /\ UNCHANGED <<account, code, requests, opened, doubled>>
      BY <1>5 DEF CommitDelete
    <2>2. a \in Account /\ i \in Item
      BY <2>1 DEF WorkOf
    <2>3. Overtakes(w) \subseteq Account
      BY <2>2 DEF Overtakes
    <2>. HIDE DEF a, i
    <2>4. item' \in [Account -> [Item -> ItemRow]]
      BY <2>1, <2>2 DEF TypeOK, ItemRow
    <2>. QED
      BY <2>1, <2>2, <2>3, <2>4, RequestEnds, EndsWork DEF TypeOK
  <1>6. CASE FailCreate(w)
    BY <1>6, RequestEnds, EndsWork DEF FailCreate, TypeOK, history
  <1>7. CASE CommitPatch(w)
    <2>. DEFINE a == req[w].account
    <2>1. /\ EndRequest(w) /\ UNCHANGED <<code, item, history>>
          /\ account' = [account EXCEPT ![a].email = TRUE]
      BY <1>7 DEF CommitPatch
    <2>. HIDE DEF a
    <2>2. account' \in [Account -> UserRow]
      BY <2>1 DEF TypeOK, UserRow
    <2>. QED
      BY <2>1, <2>2, RequestEnds, EndsWork DEF TypeOK, history
  <1>. QED
    BY <1>1, <1>2, <1>3, <1>4, <1>5, <1>6, <1>7 DEF ItemStep, ProfileStep

LEMMA OtherTypes ==
    ASSUME TypeOK, \A v \in Worker : WorkOf(req[v]),
           \/ \E c \in Code : CleanUp(c)
           \/ \E a \in Account : Deactivate(a) \/ Erase(a)
           \/ UNCHANGED vars
    PROVE  TypeOK' /\ (\A v \in Worker : WorkOf(req[v]))'
  <1>1. UNCHANGED req
    BY DEF CleanUp, Deactivate, Erase, vars
  <1>2. (\A v \in Worker : WorkOf(req[v]))'
    BY <1>1 DEF WorkOf
  <1>3. ASSUME NEW c \in Code, CleanUp(c) PROVE TypeOK'
    <2>1. [code[c] EXCEPT !.state = "deleted"] \in CodeRow
      BY CodeTypes DEF TypeOK
    <2>2. code' = [code EXCEPT ![c] = [code[c] EXCEPT !.state = "deleted"]]
      BY <1>3 DEF CleanUp, TypeOK
    <2>3. code' \in [Code -> CodeRow]
      BY <2>1, <2>2 DEF TypeOK
    <2>. QED
      BY <1>3, <2>3 DEF CleanUp, TypeOK, history
  <1>4. ASSUME NEW a \in Account, Deactivate(a) PROVE TypeOK'
    <2>1. account' \in [Account -> UserRow]
      BY <1>4 DEF Deactivate, TypeOK, UserRow
    <2>. QED
      BY <1>4, <2>1 DEF Deactivate, TypeOK, history
  <1>5. ASSUME NEW a \in Account, Erase(a) PROVE TypeOK'
    <2>1. PICK row : row = [account[a] EXCEPT !.phone = NoPhone, !.email = FALSE,
                                              !.active = FALSE, !.erased = TRUE]
      OBVIOUS
    <2>2. row \in UserRow
      <3>1. account[a] \in UserRow
        BY DEF TypeOK
      <3>. QED
        BY <2>1, <3>1 DEF UserRow
    <2>3. account' = [account EXCEPT ![a] = row]
      BY <1>5, <2>1 DEF Erase, TypeOK
    <2>4. account' \in [Account -> UserRow]
      BY <2>2, <2>3 DEF TypeOK
    <2>5. PICK its : its = [i \in Item |-> IF i \in ErasedItems(a) THEN Absent ELSE item[a][i]]
      OBVIOUS
    <2>6. its \in [Item -> ItemRow]
      <3>1. Absent \in ItemRow /\ \A i \in Item : item[a][i] \in ItemRow
        BY DEF TypeOK, Absent, ItemRow
      <3>. QED
        BY <2>5, <3>1
    <2>7. item' = [item EXCEPT ![a] = its]
      BY <1>5, <2>5 DEF Erase, TypeOK
    <2>8. item' \in [Account -> [Item -> ItemRow]]
      BY <2>6, <2>7 DEF TypeOK
    <2>9. met' \subseteq Account
      BY <1>5 DEF Erase, TypeOK
    <2>. QED
      BY <1>5, <2>4, <2>8, <2>9 DEF Erase, TypeOK
  <1>6. CASE UNCHANGED vars
    BY <1>6 DEF vars, history, TypeOK
  <1>. QED
    BY <1>2, <1>3, <1>4, <1>5, <1>6

-----------------------------------------------------------------------------
(* A code opens one session *)

(* How many codes there are. *)
LEMMA CodesCounted ==
    ASSUME NEW k \in Nat, \A c \in Code : code[c] # NoCode <=> c <= k, k <= MaxCodes
    PROVE  Cardinality({c \in Code : code[c] # NoCode}) = k
  <1>1. {c \in Code : code[c] # NoCode} = 1 .. k
    BY AccountsAssumption DEF Code
  <1>2. Cardinality(1 .. k) = k
    BY FS_Interval
  <1>. QED
    BY <1>1, <1>2

LEMMA CodesBounded ==
    ASSUME CodesInOrder
    PROVE  \E k \in 0 .. MaxCodes : \A c \in Code : code[c] # NoCode <=> c <= k
  <1>1. PICK k \in Nat : \A c \in Code : code[c] # NoCode <=> c <= k
    BY DEF CodesInOrder
  <1>2. CASE k <= MaxCodes
    BY <1>1, <1>2, AccountsAssumption
  <1>3. CASE k > MaxCodes
    <2>1. \A c \in Code : code[c] # NoCode <=> c <= MaxCodes
      BY <1>1, <1>3, AccountsAssumption DEF Code
    <2>. QED
      BY <2>1, AccountsAssumption
  <1>. QED
    BY <1>1, <1>2, <1>3, AccountsAssumption

(* Requests that have nothing to do with codes. *)
LEMMA LoginKept ==
    ASSUME LoginInv, UNCHANGED <<code, opened>>,
           \A v \in Worker : req'[v].pc = "verify" => req'[v] = req[v]
    PROVE  LoginInv'
  <1>1. CodesInOrder'
    BY DEF LoginInv, CodesInOrder
  <1>2. VerifiesLocked'
    BY DEF LoginInv, VerifiesLocked
  <1>3. OpenedByUsed'
    BY DEF LoginInv, OpenedByUsed
  <1>. QED
    BY <1>1, <1>2, <1>3 DEF LoginInv

(* The rows of codes change their state, never that they are there. *)
LEMMA CodesStay ==
    ASSUME CodesInOrder, \A c \in Code : code'[c] # NoCode <=> code[c] # NoCode
    PROVE  CodesInOrder'
  BY DEF CodesInOrder

LEMMA LoginBeginRequest ==
    ASSUME TypeOK, LoginInv, NEW w \in Worker, NEW p \in Phone, BeginRequestCode(w, p)
    PROVE  LoginInv'
  <1>1. /\ code' = UseUp(p) /\ UNCHANGED opened
        /\ \A c \in ActiveCodes(p) : ~Locked(c)
    BY DEF BeginRequestCode
  <1>2. ASSUME NEW v \in Worker, req'[v].pc = "verify" PROVE req'[v] = req[v]
    <2>1. [Idle EXCEPT !.pc = "code", !.phone = p].pc = "code"
      BY DEF Idle
    <2>. QED
      BY <1>2, <2>1 DEF BeginRequestCode, TypeOK
  <1>3. ASSUME NEW c \in Code
        PROVE  /\ c \in ActiveCodes(p) => code'[c].state = "used" /\ code'[c] # NoCode
               /\ c \notin ActiveCodes(p) => code'[c] = code[c]
               /\ c \in ActiveCodes(p) => code[c].state = "active" /\ code[c] # NoCode
    <2>1. code'[c] = IF c \in ActiveCodes(p) THEN [code[c] EXCEPT !.state = "used"] ELSE code[c]
      BY <1>1 DEF UseUp
    <2>2. c \in ActiveCodes(p) => code[c].state = "active" /\ code[c] # NoCode
      BY DEF ActiveCodes, NoCode
    <2>3. [code[c] EXCEPT !.state = "used"].state = "used"
          /\ [code[c] EXCEPT !.state = "used"] # NoCode
      BY CodeTypes DEF TypeOK
    <2>. QED
      BY <2>1, <2>2, <2>3
  <1>4. CodesInOrder'
    BY <1>3, CodesStay DEF LoginInv
  <1>5. ASSUME NEW v \in Worker, req'[v].pc = "verify"
        PROVE  /\ req'[v].code \in Code
               /\ code'[req'[v].code].state = "active"
               /\ \A u \in Worker :
                    req'[u].pc = "verify" /\ req'[u].code = req'[v].code => u = v
    <2>1. /\ req[v].pc = "verify" /\ req'[v] = req[v]
          /\ req[v].code \in Code /\ code[req[v].code].state = "active"
          /\ \A u \in Worker : req[u].pc = "verify" /\ req[u].code = req[v].code => u = v
      BY <1>2, <1>5 DEF LoginInv, VerifiesLocked
    <2>2. req[v].code \notin ActiveCodes(p)
      BY <1>1, <2>1 DEF Locked
    <2>. QED
      BY <1>2, <1>3, <2>1, <2>2
  <1>6. OpenedByUsed'
    BY <1>1, <1>3 DEF LoginInv, OpenedByUsed
  <1>. QED
    BY <1>4, <1>5, <1>6 DEF LoginInv, VerifiesLocked

LEMMA LoginCreateCode ==
    ASSUME TypeOK, LoginInv, NEW w \in Worker, CreateCode(w)
    PROVE  LoginInv'
  <1>1. PICK k \in 0 .. MaxCodes : \A c \in Code : code[c] # NoCode <=> c <= k
    BY CodesBounded DEF LoginInv
  <1>2. PICK n : n = k + 1
    OBVIOUS
  <1>3. Cardinality({c \in Code : code[c] # NoCode}) = k
    BY <1>1, CodesCounted, AccountsAssumption
  <1>4. PICK row : row = [phone |-> req[w].phone, state |-> "active"]
    OBVIOUS
  <1>5. /\ n \in Code /\ code' = [code EXCEPT ![n] = row]
        /\ UNCHANGED opened /\ EndRequest(w)
    BY <1>2, <1>3, <1>4 DEF CreateCode, history
  <1>6. row.state = "active" /\ row # NoCode
    BY <1>4 DEF NoCode
  <1>7. /\ code'[n] = row /\ code[n] = NoCode
        /\ \A c \in Code \ {n} : code'[c] = code[c]
    BY <1>1, <1>2, <1>5 DEF TypeOK
  <1>8. CodesInOrder'
    <2>1. n \in Nat
      BY <1>1, <1>2, AccountsAssumption
    <2>2. \A c \in Code : code'[c] # NoCode <=> c <= n
      BY <1>1, <1>2, <1>6, <1>7, AccountsAssumption DEF Code
    <2>. QED
      BY <2>1, <2>2 DEF CodesInOrder
  <1>9. \A v \in Worker : req'[v].pc = "verify" => req'[v] = req[v]
    BY <1>5, RequestEnds, IdleType
  <1>10. VerifiesLocked'
    BY <1>6, <1>7, <1>9 DEF LoginInv, VerifiesLocked
  <1>11. OpenedByUsed'
    <2>1. opened[n] = 0
      BY <1>5, <1>7 DEF LoginInv, OpenedByUsed, NoCode
    <2>. QED
      BY <1>5, <1>7, <2>1 DEF LoginInv, OpenedByUsed
  <1>. QED
    BY <1>8, <1>10, <1>11 DEF LoginInv

LEMMA LoginVerify ==
    ASSUME TypeOK, LoginInv, NEW w \in Worker, NEW p \in Phone, NEW c \in Code,
           BeginVerify(w, p, c)
    PROVE  LoginInv'
  <1>1. PICK r : r = [Idle EXCEPT !.pc = "verify", !.phone = p, !.code = c]
    OBVIOUS
  <1>2. r \in Request /\ r.code = c
    BY <1>1 DEF Idle, Request, Absent, ItemRow
  <1>3. /\ req' = [req EXCEPT ![w] = r] /\ UNCHANGED <<code, opened>>
        /\ code[c] = [phone |-> p, state |-> "active"] /\ ~Locked(c)
    BY <1>1 DEF BeginVerify, ActiveCodes, CanLockCode, history
  <1>4. req'[w] = r /\ \A v \in Worker \ {w} : req'[v] = req[v]
    BY <1>2, <1>3, RequestTurns
  <1>5. ASSUME NEW v \in Worker, req'[v].pc = "verify"
        PROVE  /\ req'[v].code \in Code
               /\ code'[req'[v].code].state = "active"
               /\ \A u \in Worker :
                    req'[u].pc = "verify" /\ req'[u].code = req'[v].code => u = v
    <2>1. CASE v = w
      BY <1>2, <1>3, <1>4, <1>5, <2>1 DEF Locked
    <2>2. CASE v # w
      BY <1>2, <1>3, <1>4, <1>5, <2>2 DEF LoginInv, VerifiesLocked, Locked
    <2>. QED
      BY <2>1, <2>2
  <1>6. CodesInOrder' /\ OpenedByUsed'
    BY <1>3 DEF LoginInv, CodesInOrder, OpenedByUsed
  <1>. QED
    BY <1>5, <1>6 DEF LoginInv, VerifiesLocked

(* A code is used or deleted that nobody else is verifying. *)
LEMMA LoginUses ==
    ASSUME TypeOK, LoginInv, NEW c \in Code, NEW s \in {"used", "deleted"},
           code[c].state \in {"active", "used"},
           code' = [code EXCEPT ![c].state = s],
           \/ UNCHANGED opened
           \/ opened' = [opened EXCEPT ![c] = @ + 1] /\ code[c].state = "active",
           \A v \in Worker : req'[v].pc = "verify" => req'[v] = req[v] /\ req[v].code # c
    PROVE  LoginInv'
  <1>1. code' = [code EXCEPT ![c] = [code[c] EXCEPT !.state = s]]
    BY DEF TypeOK
  <1>2. /\ [code[c] EXCEPT !.state = s].state = s
        /\ [code[c] EXCEPT !.state = s] # NoCode
    <2>1. code[c] \in CodeRow /\ s \in {"used", "deleted", "active"}
      BY DEF TypeOK
    <2>. QED
      BY <2>1 DEF CodeRow, NoCode
  <1>3. /\ code'[c].state = s /\ code'[c] # NoCode /\ code[c] # NoCode
        /\ \A b \in Code \ {c} : code'[b] = code[b]
    <2>1. code'[c] = [code[c] EXCEPT !.state = s]
      BY <1>1 DEF TypeOK
    <2>2. code[c] # NoCode
      BY DEF NoCode
    <2>3. \A b \in Code \ {c} : code'[b] = code[b]
      BY <1>1 DEF TypeOK
    <2>. QED
      BY <1>2, <2>1, <2>2, <2>3
  <1>4. CodesInOrder'
    BY <1>3, CodesStay DEF LoginInv
  <1>5. VerifiesLocked'
    BY <1>3 DEF LoginInv, VerifiesLocked
  <1>6. OpenedByUsed'
    <2>1. /\ opened'[c] <= 1
          /\ \A b \in Code \ {c} : opened'[b] = opened[b]
      BY DEF LoginInv, OpenedByUsed, TypeOK
    <2>. QED
      BY <1>3, <2>1 DEF LoginInv, OpenedByUsed
  <1>. QED
    BY <1>4, <1>5, <1>6 DEF LoginInv

LEMMA LoginStepKeeps ==
    ASSUME TypeOK, LoginInv, [Next]_vars
    PROVE  LoginInv'
  <1>1. ASSUME NEW w \in Worker, CommitLogin(w) PROVE LoginInv'
    <2>. DEFINE c == req[w].code
    <2>1. /\ req[w].pc = "verify" /\ EndRequest(w)
          /\ code' = [code EXCEPT ![c].state = "used"]
          /\ opened' = [opened EXCEPT ![c] = @ + 1]
      BY <1>1 DEF CommitLogin
    <2>2. /\ c \in Code /\ code[c].state = "active"
          /\ \A v \in Worker : req[v].pc = "verify" /\ req[v].code = c => v = w
      BY <2>1 DEF LoginInv, VerifiesLocked
    <2>3. \A v \in Worker : req'[v].pc = "verify" => req'[v] = req[v] /\ req[v].code # c
      BY <2>1, <2>2, RequestEnds, IdleType
    <2>. HIDE DEF c
    <2>. QED
      BY <2>1, <2>2, <2>3, LoginUses
  <1>2. ASSUME NEW c \in Code, CleanUp(c) PROVE LoginInv'
    BY <1>2, LoginUses DEF CleanUp, Locked, history
  <1>3. ASSUME NEW w \in Worker, FailLogin(w) \/ CommitPatch(w) PROVE LoginInv'
    <2>1. EndRequest(w) /\ UNCHANGED <<code, opened>>
      BY <1>3 DEF FailLogin, CommitPatch, history
    <2>. QED
      BY <2>1, RequestEnds, IdleType, LoginKept
  <1>4. ASSUME NEW w \in Worker, CommitCreate(w) \/ FailCreate(w) \/ CommitUpdate(w) \/ CommitDelete(w)
        PROVE  LoginInv'
    <2>1. EndRequest(w) /\ UNCHANGED <<code, opened>>
      BY <1>4 DEF CommitCreate, FailCreate, CommitUpdate, CommitDelete, history
    <2>. QED
      BY <2>1, RequestEnds, IdleType, LoginKept
  <1>5. ASSUME NEW w \in Worker, NEW pc \in {"create", "update", "delete", "patch"},
               NEW a, NEW i, NEW row, NEW clear, Runs(w, pc, a, i, row, clear)
        PROVE  LoginInv'
    <2>1. [Idle EXCEPT !.pc = pc, !.account = a, !.item = i, !.row = row, !.clear = clear].pc = pc
      BY DEF Idle
    <2>2. \A v \in Worker : req'[v].pc = "verify" => req'[v] = req[v]
      BY <1>5, <2>1 DEF Runs, TypeOK
    <2>3. UNCHANGED <<code, opened>>
      BY <1>5 DEF Runs
    <2>. QED
      BY <2>2, <2>3, LoginKept
  <1>6. ASSUME NEW w \in Worker, ItemStep(w) \/ ProfileStep(w) PROVE LoginInv'
    <2>1. CASE \E a \in Account, i \in Item, d \in BOOLEAN :
                    BeginCreate(w, a, i, d) \/ BeginUpdate(w, a, i, d)
      BY <1>5, <2>1 DEF BeginCreate, BeginUpdate
    <2>2. CASE \E a \in Account, i \in Item : BeginDelete(w, a, i)
      BY <1>5, <2>2 DEF BeginDelete
    <2>3. CASE \E a \in Account : BeginPatch(w, a)
      BY <1>5, <2>3 DEF BeginPatch
    <2>. QED
      BY <1>3, <1>4, <1>6, <2>1, <2>2, <2>3 DEF ItemStep, ProfileStep
  <1>7. ASSUME UNCHANGED <<code, opened, req>> PROVE LoginInv'
    BY <1>7, LoginKept
  <1>8. ASSUME NEW a \in Account, Deactivate(a) \/ Erase(a) PROVE LoginInv'
    BY <1>7, <1>8 DEF Deactivate, Erase, history
  <1>9. CASE UNCHANGED vars
    BY <1>7, <1>9 DEF vars, history
  <1>10. ASSUME NEW w \in Worker, LoginStep(w) PROVE LoginInv'
    BY <1>1, <1>3, <1>10, LoginBeginRequest, LoginCreateCode, LoginVerify DEF LoginStep
  <1>. QED
    BY <1>2, <1>6, <1>8, <1>9, <1>10 DEF Next

-----------------------------------------------------------------------------
(* Vehicles, addresses and erasure, account by account *)

(* One default of a kind in the rows of a. *)
DefaultOnce(a) ==
    \A i, j \in Live(a) :
        item[a][i].default /\ item[a][j].default /\ Kind(i) = Kind(j) => i = j

(* What holds of the rows of an account no two requests of which met. *)
RowsHold(a) ==
    /\ \A i \in Item : <<a, i>> \in removed => item[a][i].state = "deleted"
    /\ DefaultOnce(a)
    /\ account[a].erased => ~account[a].email /\ Live(a) = {}

ItemInv == ReadsHold /\ \A a \in Account \ met : RowsHold(a)

LEMMA ItemInvParts ==
    /\ ItemInv <=> ReadsHold /\ RemovedKept /\ OneDefault /\ ErasedStaysErased
    /\ ItemInv' <=> (ReadsHold /\ RemovedKept /\ OneDefault /\ ErasedStaysErased)'
  BY DEF ItemInv, RowsHold, DefaultOnce, RemovedKept, OneDefault, ErasedStaysErased

(* The rows of an account and what requests have read of them stay. *)
LEMMA RowsStay ==
    ASSUME NEW a \in Account, item'[a] = item[a],
           account'[a].erased = account[a].erased,
           account[a].erased => account'[a].email = account[a].email,
           \A i \in Item : <<a, i>> \in removed' => <<a, i>> \in removed,
           RowsHold(a)
    PROVE  RowsHold(a)'
  BY DEF RowsHold, DefaultOnce, Live

LEMMA ReadStays ==
    ASSUME NEW v \in Worker, req'[v] = req[v], NEW a \in Account, req[v].account = a,
           item'[a] = item[a], account'[a].erased = account[a].erased,
           HoldsFor(req[v])
    PROVE  HoldsFor(req[v])'
  <1>1. Live(a)' = Live(a)
    BY DEF Live
  <1>2. \A i, d : ToClear(a, i, d)' = ToClear(a, i, d)
    BY <1>1 DEF ToClear, Defaults
  <1>. QED
    BY <1>1, <1>2 DEF HoldsFor

(* Steps that change no item, erase nobody and begin no request. *)
LEMMA ItemsKept ==
    ASSUME ItemInv, UNCHANGED <<item, removed, met>>,
           \A a \in Account : account'[a].erased = account[a].erased,
           \A a \in Account \ met : account[a].erased => account'[a].email = account[a].email,
           \A v \in Worker : req'[v].account \in Account => req'[v] = req[v]
    PROVE  ItemInv'
  <1>1. ASSUME NEW v \in Worker, req'[v].account \in Account \ met' PROVE HoldsFor(req[v])'
    <2>1. req'[v] = req[v] /\ HoldsFor(req[v]) /\ req[v].account \in Account
      BY <1>1 DEF ItemInv, ReadsHold
    <2>. QED
      BY <2>1, ReadStays
  <1>2. ASSUME NEW a \in Account \ met' PROVE RowsHold(a)'
    BY <1>2, RowsStay DEF ItemInv
  <1>. QED
    BY <1>1, <1>2 DEF ItemInv, ReadsHold

(* Request w of account a writes rows of a and ends. *)
LEMMA ItemsWritten ==
    ASSUME TypeOK, \A v \in Worker : WorkOf(req[v]), ItemInv,
           NEW w \in Worker, NEW a \in Account, req[w].account = a, EndRequest(w),
           UNCHANGED account, met' = met \cup Overtakes(w),
           \A b \in Account \ {a} : item'[b] = item[b],
           \A b \in Account \ {a} : \A i \in Item : <<b, i>> \in removed' => <<b, i>> \in removed,
           a \notin met => RowsHold(a)'
    PROVE  ItemInv'
  <1>1. req'[w] = Idle /\ \A v \in Worker \ {w} : req'[v] = req[v]
    BY RequestEnds
  <1>2. ASSUME NEW v \in Worker, req'[v].account \in Account \ met' PROVE HoldsFor(req[v])'
    <2>1. v # w /\ req'[v] = req[v]
      BY <1>1, <1>2, IdleType, AccountsAssumption
    <2>2. req[v].pc # "idle"
      BY <1>2, <2>1, AccountsAssumption DEF WorkOf
    <2>3. req[v].account # a
      BY <1>2, <2>1, <2>2 DEF Overtakes
    <2>4. HoldsFor(req[v])
      BY <1>2, <2>1 DEF ItemInv, ReadsHold
    <2>. QED
      BY <1>2, <2>1, <2>3, <2>4, ReadStays
  <1>3. ASSUME NEW b \in Account \ met' PROVE RowsHold(b)'
    BY <1>3, RowsStay DEF ItemInv
  <1>. QED
    BY <1>2, <1>3 DEF ItemInv, ReadsHold

(* Request w begins for account a with reads that hold. *)
LEMMA ItemsRead ==
    ASSUME ItemInv, NEW w \in Worker,
           \A v \in Worker \ {w} : req'[v] = req[v],
           UNCHANGED <<account, item, removed, met>>,
           HoldsFor(req[w])'
    PROVE  ItemInv'
  <1>1. ASSUME NEW v \in Worker, req'[v].account \in Account \ met' PROVE HoldsFor(req[v])'
    <2>1. CASE v = w
      BY <2>1
    <2>2. CASE v # w
      BY <1>1, <2>2, ReadStays DEF ItemInv, ReadsHold
    <2>. QED
      BY <2>1, <2>2
  <1>2. ASSUME NEW a \in Account \ met' PROVE RowsHold(a)'
    BY <1>2, RowsStay DEF ItemInv
  <1>. QED
    BY <1>1, <1>2 DEF ItemInv, ReadsHold

LEMMA ItemsBegin ==
    ASSUME TypeOK, \A v \in Worker : WorkOf(req[v]), ItemInv, NEW w \in Worker, NEW a \in Account,
           \/ BeginPatch(w, a)
           \/ \E i \in Item : BeginDelete(w, a, i)
           \/ \E i \in Item, d \in BOOLEAN : BeginCreate(w, a, i, d) \/ BeginUpdate(w, a, i, d)
    PROVE  ItemInv'
  <1>1. ASSUME NEW pc \in {"create", "update", "delete", "patch"},
               NEW i \in Item \cup {NoItem}, pc # "patch" => i \in Item,
               NEW row \in ItemRow, NEW clear \in SUBSET Item,
               pc \in {"create", "update"} => row.state = "live",
               Runs(w, pc, a, i, row, clear),
               pc = "create" => i \notin Live(a) /\ clear = ToClear(a, i, row.default),
               pc = "update" =>
                    /\ i \in Live(a)
                    /\ \/ clear = ToClear(a, i, row.default)
                       \/ clear = {} /\ row.default = item[a][i].default,
               pc = "delete" => i \in Live(a)
        PROVE  ItemInv'
    <2>1. /\ req'[w].pc = pc /\ req'[w].account = a /\ req'[w].item = i
          /\ req'[w].row = row /\ req'[w].clear = clear
          /\ \A v \in Worker \ {w} : req'[v] = req[v]
          /\ UNCHANGED <<account, item, removed, met>> /\ CanAct(a)
      BY <1>1, RunsReads
    <2>2. Live(a)' = Live(a) /\ \A j, d : ToClear(a, j, d)' = ToClear(a, j, d)
      BY <2>1 DEF Live, ToClear, Defaults
    <2>3. HoldsFor(req[w])'
      BY <1>1, <2>1, <2>2 DEF HoldsFor, CanAct
    <2>. QED
      BY <2>1, <2>3, ItemsRead
  <1>2. CASE BeginPatch(w, a)
    <2>1. Absent \in ItemRow
      BY DEF Absent, ItemRow
    <2>. QED
      BY <1>1, <1>2, <2>1 DEF BeginPatch
  <1>3. ASSUME NEW i \in Item, BeginDelete(w, a, i) PROVE ItemInv'
    <2>1. item[a][i] \in ItemRow
      BY DEF TypeOK
    <2>. QED
      BY <1>1, <1>3, <2>1 DEF BeginDelete
  <1>4. ASSUME NEW i \in Item, NEW d \in BOOLEAN, BeginCreate(w, a, i, d) \/ BeginUpdate(w, a, i, d)
        PROVE  ItemInv'
    <2>1. PICK row : row = [state |-> "live", default |-> d]
      OBVIOUS
    <2>2. row \in ItemRow /\ row.state = "live" /\ row.default = d
      BY <2>1 DEF ItemRow
    <2>3. CASE BeginCreate(w, a, i, d)
      <3>1. i \notin Live(a) /\ Runs(w, "create", a, i, row, ToClear(a, i, d))
        BY <2>1, <2>3 DEF BeginCreate
      <3>. QED
        BY <1>1, <2>2, <3>1, ToClearType
    <2>4. CASE BeginUpdate(w, a, i, d)
      <3>1. PICK clear \in {ToClear(a, i, d)} \cup (IF d = item[a][i].default THEN {{}} ELSE {}) :
                Runs(w, "update", a, i, row, clear)
        BY <2>1, <2>4 DEF BeginUpdate
      <3>2. /\ i \in Live(a) /\ clear \in SUBSET Item
            /\ clear = ToClear(a, i, d) \/ (clear = {} /\ d = item[a][i].default)
        BY <2>4, <3>1, ToClearType DEF BeginUpdate
      <3>. QED
        BY <1>1, <2>2, <3>1, <3>2
    <2>. QED
      BY <1>4, <2>3, <2>4
  <1>. QED
    BY <1>2, <1>3, <1>4

(* A create or an update whose reads hold leaves one default of a kind. *)
LEMMA SavedHolds ==
    ASSUME TypeOK, \A v \in Worker : WorkOf(req[v]), ItemInv,
           NEW w \in Worker, NEW a \in Account, req[w].account = a, a \notin met,
           \/ req[w].pc = "create" /\ item[a][req[w].item] = Absent
           \/ req[w].pc = "update",
           item'[a] = Saved(req[w]), UNCHANGED <<account, removed>>
    PROVE  RowsHold(a)'
  <1>. DEFINE r == req[w]
              i == r.item
              d == r.row.default
  <1>1. /\ i \in Item /\ r.row.state = "live" /\ r.row \in ItemRow
        /\ HoldsFor(r) /\ RowsHold(a) /\ ~account[a].erased
    BY DEF WorkOf, TypeOK, Request, ItemInv, ReadsHold, HoldsFor
  <1>2. \/ r.clear = ToClear(a, i, d)
        \/ r.clear = {} /\ d = item[a][i].default /\ i \in Live(a)
    BY <1>1 DEF HoldsFor
  <1>3. /\ item'[a][i] = r.row
        /\ \A j \in Item \ {i} :
            item'[a][j] = IF j \in r.clear THEN [item[a][j] EXCEPT !.default = FALSE]
                          ELSE item[a][j]
    BY <1>1 DEF Saved
  <1>4. ASSUME NEW j \in Item \ {i}
        PROVE  /\ item'[a][j].state = item[a][j].state
               /\ item'[a][j].default = IF j \in r.clear THEN FALSE ELSE item[a][j].default
    <2>1. item[a][j] \in ItemRow
      BY DEF TypeOK
    <2>. QED
      BY <1>3, <2>1 DEF ItemRow
  <1>5. i \in Live(a)' /\ Live(a)' = Live(a) \cup {i}
    <2>1. i \in Live(a)'
      BY <1>1, <1>3 DEF Live
    <2>2. \A j \in Item \ {i} : j \in Live(a)' <=> j \in Live(a)
      BY <1>4 DEF Live
    <2>3. Live(a)' \subseteq Item /\ Live(a) \subseteq Item
      BY DEF Live
    <2>. QED
      BY <1>1, <2>1, <2>2, <2>3
  <1>6. <<a, i>> \notin removed
    <2>1. item[a][i].state # "deleted"
      BY <1>1 DEF HoldsFor, Live, Absent
    <2>. QED
      BY <1>1, <2>1 DEF RowsHold
  <1>7. \A j \in Item : <<a, j>> \in removed' => item'[a][j].state = "deleted"
    BY <1>1, <1>4, <1>6 DEF RowsHold
  <1>8. DefaultOnce(a)'
    <2>1. ASSUME NEW j \in Live(a)', NEW k \in Live(a)', j # k, Kind(j) = Kind(k),
                 item'[a][j].default, item'[a][k].default
          PROVE  FALSE
      <3>1. CASE j # i /\ k # i
        BY <1>1, <1>4, <1>5, <2>1, <3>1 DEF RowsHold, DefaultOnce, Live
      <3>2. ASSUME NEW l \in Live(a), l # i, d, Kind(l) = Kind(i), item'[a][l].default
            PROVE  FALSE
        <4>1. l \in Item /\ l \notin r.clear /\ item[a][l].default
          BY <1>4, <3>2 DEF Live
        <4>2. CASE r.clear = ToClear(a, i, d)
          BY <3>2, <4>1, <4>2 DEF ToClear, Defaults, Kind, Item
        <4>3. CASE d = item[a][i].default /\ i \in Live(a)
          BY <1>1, <3>2, <4>1, <4>3 DEF RowsHold, DefaultOnce
        <4>. QED
          BY <1>2, <4>2, <4>3
      <3>. QED
        BY <1>3, <1>5, <2>1, <3>1, <3>2
    <2>. QED
      BY <2>1 DEF DefaultOnce
  <1>. QED
    BY <1>1, <1>7, <1>8 DEF RowsHold

LEMMA DeletedHolds ==
    ASSUME TypeOK, \A v \in Worker : WorkOf(req[v]), ItemInv,
           NEW w \in Worker, NEW a \in Account, req[w].account = a, a \notin met,
           req[w].pc = "delete",
           item' = [item EXCEPT ![a][req[w].item].state = IF @ = "absent" THEN @ ELSE "deleted"],
           removed' = removed \cup {<<a, req[w].item>>}, UNCHANGED account
    PROVE  RowsHold(a)'
  <1>. DEFINE i == req[w].item
  <1>1. i \in Item /\ i \in Live(a) /\ RowsHold(a) /\ ~account[a].erased
    BY DEF WorkOf, ItemInv, ReadsHold, HoldsFor
  <1>. HIDE DEF i
  <1>2. /\ item'[a][i].state = "deleted"
        /\ \A j \in Item \ {i} : item'[a][j] = item[a][j]
    <2>1. item[a][i] \in ItemRow /\ item[a][i].state = "live"
      BY <1>1 DEF TypeOK, Live
    <2>2. item' = [item EXCEPT ![a][i].state = IF @ = "absent" THEN @ ELSE "deleted"]
      BY DEF i
    <2>. QED
      BY <1>1, <2>1, <2>2 DEF TypeOK, ItemRow
  <1>3. Live(a)' \subseteq Live(a) \ {i}
    BY <1>2 DEF Live
  <1>4. \A j \in Live(a)' : item'[a][j] = item[a][j]
    BY <1>2, <1>3 DEF Live
  <1>5. DefaultOnce(a)'
    BY <1>1, <1>3, <1>4 DEF RowsHold, DefaultOnce
  <1>6. \A j \in Item : <<a, j>> \in removed' => item'[a][j].state = "deleted"
    BY <1>1, <1>2 DEF RowsHold, i
  <1>. QED
    BY <1>1, <1>5, <1>6 DEF RowsHold

LEMMA ItemsCommit ==
    ASSUME TypeOK, \A v \in Worker : WorkOf(req[v]), ItemInv, NEW w \in Worker,
           CommitCreate(w) \/ CommitUpdate(w) \/ CommitDelete(w)
    PROVE  ItemInv'
  <1>1. PICK a : a = req[w].account
    OBVIOUS
  <1>2. /\ a \in Account /\ req[w].item \in Item /\ req[w].pc \in {"create", "update", "delete"}
        /\ EndRequest(w) /\ met' = met \cup Overtakes(w) /\ UNCHANGED account
    BY <1>1 DEF CommitCreate, CommitUpdate, CommitDelete, WorkOf
  <1>3. CASE CommitCreate(w) \/ CommitUpdate(w)
    <2>1. /\ item' = [item EXCEPT ![a] = Saved(req[w])] /\ UNCHANGED removed
          /\ \/ req[w].pc = "create" /\ item[a][req[w].item] = Absent
             \/ req[w].pc = "update"
      BY <1>1, <1>3 DEF CommitCreate, CommitUpdate
    <2>2. /\ item'[a] = Saved(req[w])
          /\ \A b \in Account \ {a} : item'[b] = item[b]
      BY <1>2, <2>1 DEF TypeOK
    <2>3. a \notin met => RowsHold(a)'
      BY <1>1, <1>2, <2>1, <2>2, SavedHolds
    <2>. QED
      BY <1>1, <1>2, <2>1, <2>2, <2>3, ItemsWritten
  <1>4. CASE CommitDelete(w)
    <2>1. /\ item' = [item EXCEPT ![a][req[w].item].state = IF @ = "absent" THEN @ ELSE "deleted"]
          /\ removed' = removed \cup {<<a, req[w].item>>} /\ req[w].pc = "delete"
      BY <1>1, <1>4 DEF CommitDelete
    <2>2. \A b \in Account \ {a} : item'[b] = item[b]
      BY <2>1 DEF TypeOK
    <2>3. \A b \in Account \ {a} : \A i \in Item : <<b, i>> \in removed' => <<b, i>> \in removed
      BY <2>1
    <2>4. a \notin met => RowsHold(a)'
      BY <1>1, <1>2, <2>1, DeletedHolds
    <2>. QED
      BY <1>1, <1>2, <2>2, <2>3, <2>4, ItemsWritten
  <1>. QED
    BY <1>3, <1>4

(* An account is erased while nothing runs for it, or its requests met. *)
LEMMA ItemsErase ==
    ASSUME TypeOK, ItemInv, NEW a \in Account, Erase(a)
    PROVE  ItemInv'
  <1>1. /\ UNCHANGED <<req, removed>>
        /\ met' = met \cup {b \in {a} : \E w \in Worker : req[w].account = b}
    BY DEF Erase
  <1>2. PICK row : row = [account[a] EXCEPT !.phone = NoPhone, !.email = FALSE,
                                            !.active = FALSE, !.erased = TRUE]
    OBVIOUS
  <1>3. account' = [account EXCEPT ![a] = row]
    BY <1>2 DEF Erase, TypeOK
  <1>4. /\ account'[a] = row /\ row.email = FALSE
        /\ \A b \in Account \ {a} : account'[b] = account[b]
    <2>1. account[a] \in UserRow
      BY DEF TypeOK
    <2>2. row.email = FALSE
      BY <1>2, <2>1 DEF UserRow
    <2>. QED
      BY <1>3, <2>2 DEF TypeOK
  <1>5. PICK its : its = [i \in Item |-> IF i \in Live(a) THEN Absent ELSE item[a][i]]
    OBVIOUS
  <1>6. item' = [item EXCEPT ![a] = its]
    BY <1>5 DEF Erase, ErasedItems, TypeOK
  <1>7. item'[a] = its /\ \A b \in Account \ {a} : item'[b] = item[b]
    BY <1>6 DEF TypeOK
  <1>8. Live(a)' = {}
    BY <1>5, <1>7 DEF Live, Absent
  <1>9. a \notin met => RowsHold(a)'
    <2>1. SUFFICES ASSUME a \notin met PROVE RowsHold(a)'
      OBVIOUS
    <2>2. RowsHold(a)
      BY <2>1 DEF ItemInv
    <2>3. ASSUME NEW i \in Item, <<a, i>> \in removed' PROVE item'[a][i].state = "deleted"
      <3>1. item[a][i].state = "deleted"
        BY <1>1, <2>2, <2>3 DEF RowsHold
      <3>2. i \notin Live(a)
        BY <3>1 DEF Live
      <3>. QED
        BY <1>5, <1>7, <3>1, <3>2
    <2>. QED
      BY <1>4, <1>8, <2>3 DEF RowsHold, DefaultOnce
  <1>10. ASSUME NEW v \in Worker, req'[v].account \in Account \ met' PROVE HoldsFor(req[v])'
    <2>1. req[v].account # a
      BY <1>1, <1>10
    <2>. QED
      BY <1>1, <1>4, <1>7, <1>10, <2>1, ReadStays DEF ItemInv, ReadsHold
  <1>11. ASSUME NEW b \in Account \ met' PROVE RowsHold(b)'
    <2>1. CASE b = a
      BY <1>1, <1>9, <1>11, <2>1
    <2>2. CASE b # a
      BY <1>1, <1>4, <1>7, <1>11, <2>2, RowsStay DEF ItemInv
    <2>. QED
      BY <2>1, <2>2
  <1>. QED
    BY <1>10, <1>11 DEF ItemInv, ReadsHold

LEMMA ItemsStep ==
    ASSUME TypeOK, \A v \in Worker : WorkOf(req[v]), ItemInv, [Next]_vars
    PROVE  ItemInv'
  <1>1. CASE UNCHANGED vars
    BY <1>1, ItemsKept DEF vars, history
  <1>2. ASSUME NEW a \in Account, Deactivate(a) PROVE ItemInv'
    <2>1. \A b \in Account : account'[b].erased = account[b].erased /\ account'[b].email = account[b].email
      BY <1>2 DEF Deactivate, TypeOK, UserRow
    <2>. QED
      BY <1>2, <2>1, ItemsKept DEF Deactivate, history
  <1>3. ASSUME NEW c \in Code, CleanUp(c) PROVE ItemInv'
    BY <1>3, ItemsKept DEF CleanUp, history
  <1>4. ASSUME NEW w \in Worker, NEW p \in Phone, BeginRequestCode(w, p) PROVE ItemInv'
    <2>1. [Idle EXCEPT !.pc = "code", !.phone = p].account = NoAccount
      BY DEF Idle
    <2>2. \A v \in Worker : req'[v].account \in Account => req'[v] = req[v]
      BY <1>4, <2>1, AccountsAssumption DEF BeginRequestCode, TypeOK
    <2>. QED
      BY <1>4, <2>2, ItemsKept DEF BeginRequestCode
  <1>5. ASSUME NEW w \in Worker, NEW p \in Phone, NEW c \in Code, BeginVerify(w, p, c) PROVE ItemInv'
    <2>1. [Idle EXCEPT !.pc = "verify", !.phone = p, !.code = c].account = NoAccount
      BY DEF Idle
    <2>2. \A v \in Worker : req'[v].account \in Account => req'[v] = req[v]
      BY <1>5, <2>1, AccountsAssumption DEF BeginVerify, TypeOK
    <2>. QED
      BY <1>5, <2>2, ItemsKept DEF BeginVerify, history
  <1>6. ASSUME NEW w \in Worker, EndRequest(w)
        PROVE  \A v \in Worker : req'[v].account \in Account => req'[v] = req[v]
    BY <1>6, RequestEnds, IdleType, AccountsAssumption
  <1>7. ASSUME NEW w \in Worker, CreateCode(w) \/ FailLogin(w) \/ FailCreate(w) PROVE ItemInv'
    BY <1>6, <1>7, ItemsKept DEF CreateCode, FailLogin, FailCreate, history
  <1>8. ASSUME NEW w \in Worker, CommitLogin(w) PROVE ItemInv'
    <2>1. PICK row : row = [NoUser EXCEPT !.phone = req[w].phone, !.username = req[w].phone,
                                          !.active = TRUE]
      OBVIOUS
    <2>2. row.erased = FALSE /\ NoUser.erased = FALSE
      BY <2>1 DEF NoUser
    <2>3. \/ UNCHANGED account
          \/ \E a \in Account : account[a] = NoUser /\ account' = [account EXCEPT ![a] = row]
      BY <1>8, <2>1 DEF CommitLogin, Exists
    <2>4. \A a \in Account :
            /\ account'[a].erased = account[a].erased
            /\ account[a].erased => account'[a].email = account[a].email
      BY <2>2, <2>3 DEF TypeOK
    <2>. QED
      BY <1>6, <1>8, <2>4, ItemsKept DEF CommitLogin
  <1>9. ASSUME NEW w \in Worker, CommitPatch(w) PROVE ItemInv'
    <2>1. PICK a : a = req[w].account
      OBVIOUS
    <2>2. /\ a \in Account /\ account' = [account EXCEPT ![a].email = TRUE] /\ EndRequest(w)
          /\ UNCHANGED <<item, history>>
      BY <1>9, <2>1 DEF CommitPatch, WorkOf
    <2>3. a \notin met => ~account[a].erased
      BY <2>1, <2>2 DEF ItemInv, ReadsHold, HoldsFor
    <2>4. /\ account'[a].erased = account[a].erased
          /\ \A b \in Account \ {a} : account'[b] = account[b]
      BY <2>2 DEF TypeOK, UserRow
    <2>. QED
      BY <1>6, <2>2, <2>3, <2>4, ItemsKept DEF history
  <1>10. ASSUME NEW w \in Worker, LoginStep(w) PROVE ItemInv'
    BY <1>4, <1>5, <1>7, <1>8, <1>10 DEF LoginStep
  <1>11. ASSUME NEW w \in Worker, ItemStep(w) PROVE ItemInv'
    <2>1. ASSUME NEW a \in Account,
                 \/ \E i \in Item : BeginDelete(w, a, i)
                 \/ \E i \in Item, d \in BOOLEAN : BeginCreate(w, a, i, d) \/ BeginUpdate(w, a, i, d)
          PROVE  ItemInv'
      BY <2>1, ItemsBegin
    <2>2. CASE CommitCreate(w) \/ CommitUpdate(w) \/ CommitDelete(w)
      BY <2>2, ItemsCommit
    <2>. QED
      BY <1>7, <1>11, <2>1, <2>2 DEF ItemStep
  <1>12. ASSUME NEW w \in Worker, ProfileStep(w) PROVE ItemInv'
    BY <1>9, <1>12, ItemsBegin DEF ProfileStep
  <1>. QED
    BY <1>1, <1>2, <1>3, <1>10, <1>11, <1>12, ItemsErase DEF Next

-----------------------------------------------------------------------------
(* Theorems *)

AccountsInv ==
    TypeOK /\ (\A w \in Worker : WorkOf(req[w])) /\ LoginInv /\ ItemInv

LEMMA InitAccounts == Init => AccountsInv
  <1>. SUFFICES ASSUME Init PROVE AccountsInv
    OBVIOUS
  <1>1. TypeOK
    BY IdleType, AccountsAssumption
    DEF Init, TypeOK, NoUser, UserRow, NoCode, CodeRow, Absent, ItemRow
  <1>2. \A w \in Worker : WorkOf(req[w])
    BY IdleType DEF Init, WorkOf
  <1>3. LoginInv
    <2>1. \A c \in Code : code[c] # NoCode <=> c <= 0
      BY AccountsAssumption DEF Init, Code
    <2>2. CodesInOrder
      BY <2>1 DEF CodesInOrder
    <2>3. VerifiesLocked /\ OpenedByUsed
      BY IdleType DEF Init, VerifiesLocked, OpenedByUsed
    <2>. QED
      BY <2>2, <2>3 DEF LoginInv
  <1>4. ItemInv
    <2>1. ReadsHold
      BY IdleType, AccountsAssumption DEF Init, ReadsHold
    <2>2. \A a \in Account : Live(a) = {} /\ ~account[a].erased
      BY DEF Init, Live, Absent, NoUser
    <2>3. \A a \in Account : RowsHold(a)
      BY <2>2 DEF Init, RowsHold, DefaultOnce
    <2>. QED
      BY <2>1, <2>3 DEF ItemInv
  <1>. QED
    BY <1>1, <1>2, <1>3, <1>4 DEF AccountsInv

LEMMA AccountsInvariant == Spec => []AccountsInv
  <1>1. ASSUME AccountsInv, [Next]_vars PROVE AccountsInv'
    <2>1. TypeOK' /\ (\A w \in Worker : WorkOf(req[w]))'
      BY <1>1, LoginTypes, ItemTypes, OtherTypes DEF AccountsInv, LoginInv, Next
    <2>. QED
      BY <1>1, <2>1, LoginStepKeeps, ItemsStep DEF AccountsInv
  <1>. QED
    BY InitAccounts, <1>1, PTL DEF Spec

(* Accounts, codes, items and requests keep their types. *)
THEOREM TypeCorrect == Spec => []TypeOK
  BY AccountsInvariant, PTL DEF AccountsInv

(* A code opens one session at most, and none while it is still active,
   however many requests verify it, replace it or clean it up. *)
THEOREM OpensOnce == Spec => []CodeOpensOnce
  <1>1. AccountsInv => CodeOpensOnce
    BY DEF AccountsInv, LoginInv, OpenedByUsed, CodeOpensOnce
  <1>. QED
    BY <1>1, AccountsInvariant, PTL

(* One default vehicle and one default address, although nothing is locked,
   as long as no two requests of the account meet. *)
THEOREM DefaultsAreSingle == Spec => []OneDefault
  BY ItemInvParts, AccountsInvariant, PTL DEF AccountsInv

(* Deleted vehicles and addresses do not come back unless requests met. *)
THEOREM DeletedForGood == Spec => []DeletedStaysDeleted
  <1>1. AccountsInv => DeletedStaysDeleted
    BY DEF AccountsInv, ItemInv, RowsHold, DeletedStaysDeleted, Live
  <1>. QED
    BY <1>1, AccountsInvariant, PTL

(* An erased account stays without email, vehicles and addresses unless a
   request of it was running. *)
THEOREM ErasedForGood == Spec => []ErasedStaysErased
  BY ItemInvParts, AccountsInvariant, PTL DEF AccountsInv

=============================================================================
