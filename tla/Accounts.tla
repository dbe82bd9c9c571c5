------------------------------ MODULE Accounts ------------------------------
(***************************************************************************)
(* Accounts: login by a one-time code, the profile, the vehicles and the   *)
(* addresses of a customer (apps/accounts), erasure (apps/audit/gdpr.py).  *)
(*                                                                         *)
(* The two endpoints of a login carry no token, so TenantMiddleware opens  *)
(* no transaction for them: requesting a code is two transactions, one     *)
(* that uses up the old codes and one that creates the new one; verifying  *)
(* a code is one.  Every other request is one transaction.  Statements     *)
(* read what is committed (READ COMMITTED), nothing but the code is read   *)
(* with a lock.  Tokens, checked by a library, are not modelled.           *)
(***************************************************************************)
EXTENDS Integers, FiniteSets

CONSTANTS
    Account,     \* primary keys of CustomUser rows
    Phone,
    Vehicle,     \* plates: (user, plate) is unique
    Address,     \* primary keys of Address rows
    MaxCodes,    \* bound: codes that are created
    MaxRequests, \* bound: requests about items and profiles
    Worker,
    NoPhone, NoAccount, NoItem

Item == Vehicle \cup Address

ASSUME AccountsAssumption ==
    /\ MaxCodes \in Nat /\ MaxRequests \in Nat
    /\ Vehicle \cap Address = {}
    /\ NoItem \notin Item /\ NoPhone \notin Phone /\ NoAccount \notin Account

VARIABLES
    account,     \* account[a]: the CustomUser row
    code,        \* code[c]: the OTPCode rows, in the order of their creation
    item,        \* item[a][i]: the Vehicle and Address rows of a
    req,         \* req[w]: the request worker w is running
    requests,    \* how many requests about items and profiles there were
    opened,      \* history, opened[c]: logins made with c
    doubled,     \* history: phones two requests for a code of which met
    removed,     \* history: <<a, i>> that were soft-deleted
    met          \* history: accounts with a row that a request wrote over
                 \* what another one had changed since it had read it

history == <<requests, opened, doubled, removed, met>>
vars == <<account, code, item, req, history>>

-----------------------------------------------------------------------------

Code == 1 .. MaxCodes

NoUser == [phone |-> NoPhone, username |-> NoPhone, active |-> FALSE, erased |-> FALSE,
           email |-> FALSE]
UserRow == [phone : Phone \cup {NoPhone}, username : Phone \cup {NoPhone},
            active : BOOLEAN, erased : BOOLEAN, email : BOOLEAN]

NoCode == [phone |-> NoPhone, state |-> "none"]
CodeRow == [phone : Phone \cup {NoPhone}, state : {"none", "active", "used", "deleted"}]

Absent == [state |-> "absent", default |-> FALSE]
ItemRow == [state : {"absent", "live", "deleted"}, default : BOOLEAN]

Idle == [pc |-> "idle", phone |-> NoPhone, code |-> 0, account |-> NoAccount,
         item |-> NoItem, row |-> Absent, clear |-> {}]
Request == [pc : {"idle", "code", "verify", "create", "update", "delete", "patch"},
            phone : Phone \cup {NoPhone}, code : Code \cup {0},
            account : Account \cup {NoAccount}, item : Item \cup {NoItem},
            row : ItemRow, clear : SUBSET Item]

Exists(a) == account[a] # NoUser

(* JWTAuthentication: the account is active and not deleted. *)
CanAct(a) == Exists(a) /\ account[a].active /\ ~account[a].erased

ActiveCodes(p) == {c \in Code : code[c] = [phone |-> p, state |-> "active"]}
Locked(c) == \E w \in Worker : req[w].pc = "verify" /\ req[w].code = c
EndRequest(w) == req' = [req EXCEPT ![w] = Idle]

Init ==
    /\ account = [a \in Account |-> NoUser]
    /\ code = [c \in Code |-> NoCode]
    /\ item = [a \in Account |-> [i \in Item |-> Absent]]
    /\ req = [w \in Worker |-> Idle]
    /\ requests = 0
    /\ opened = [c \in Code |-> 0]
    /\ doubled = {} /\ removed = {} /\ met = {}

-----------------------------------------------------------------------------
(* request_otp *)

(* The update that "invalidates any previous un-used OTP for this phone". *)
UseUp(p) == [c \in Code |-> IF c \in ActiveCodes(p) THEN [code[c] EXCEPT !.state = "used"]
                                                   ELSE code[c]]

BeginRequestCode(w, p) ==
    /\ req[w].pc = "idle"
    /\ code[MaxCodes] = NoCode
    /\ \A c \in ActiveCodes(p) : ~Locked(c)
    /\ code' = UseUp(p)
    /\ req' = [req EXCEPT ![w] = [Idle EXCEPT !.pc = "code", !.phone = p]]
    /\ doubled' = doubled \cup {q \in {p} : \E v \in Worker : req[v].pc = "code" /\ req[v].phone = q}
    /\ UNCHANGED <<account, item, requests, opened, removed, met>>

(* The new code is created and sent. *)
CreateCode(w) ==
    LET c == Cardinality({b \in Code : code[b] # NoCode}) + 1 IN
    /\ req[w].pc = "code"
    /\ c \in Code
    /\ code' = [code EXCEPT ![c] = [phone |-> req[w].phone, state |-> "active"]]
    /\ EndRequest(w)
    /\ UNCHANGED <<account, item, history>>

(* cleanup_expired_otps, and the code that is too old: deleted for good. *)
CleanUp(c) ==
    /\ code[c].state \in {"active", "used"}
    /\ ~Locked(c)
    /\ code' = [code EXCEPT ![c].state = "deleted"]
    /\ UNCHANGED <<account, item, req, history>>

-----------------------------------------------------------------------------
(* verify_otp_and_login *)

(* Mutant: the code is read without select_for_update. *)
ReadCodeWithoutLock(c) == TRUE

CanLockCode(c) == ~Locked(c)

(* The latest active code of the phone is locked and is the one that was
   entered.  A wrong one raises ConflictError: attempts, just incremented,
   is rolled back with everything else. *)
BeginVerify(w, p, c) ==
    /\ req[w].pc = "idle"
    /\ c \in ActiveCodes(p)
    /\ \A b \in ActiveCodes(p) : b <= c
    /\ CanLockCode(c)
    /\ req' = [req EXCEPT ![w] = [Idle EXCEPT !.pc = "verify", !.phone = p, !.code = c]]
    /\ UNCHANGED <<account, code, item, history>>

(* get_or_create looks through SoftDeleteManager for the phone only. *)
Registered(p) == {a \in Account : account[a].phone = p /\ ~account[a].erased}

(* phone and username are unique, in rows that are erased as well. *)
IsTaken(p) == \E a \in Account : p \in {account[a].phone, account[a].username}

(* The code is consumed, the user found or created, tokens are issued. *)
CommitLogin(w) ==
    LET p == req[w].phone
        c == req[w].code IN
    /\ req[w].pc = "verify"
    /\ code' = [code EXCEPT ![c].state = "used"]
    /\ opened' = [opened EXCEPT ![c] = @ + 1]
    /\ \/ Registered(p) # {} /\ UNCHANGED account
       \/ /\ ~IsTaken(p)
          /\ \E a \in Account :
                /\ ~Exists(a)
                /\ account' = [account EXCEPT ![a] =
                        [NoUser EXCEPT !.phone = p, !.username = p, !.active = TRUE]]
    /\ EndRequest(w)
    /\ UNCHANGED <<item, requests, doubled, removed, met>>

(* The insert breaks the unique username: the code stays active. *)
FailLogin(w) ==
    /\ req[w].pc = "verify"
    /\ Registered(req[w].phone) = {} /\ IsTaken(req[w].phone)
    /\ EndRequest(w)
    /\ UNCHANGED <<account, code, item, history>>

-----------------------------------------------------------------------------
(* Vehicles and addresses: the first step of a request is what it reads, the
   second one what it writes and its commit. *)

Live(a) == {i \in Item : item[a][i].state = "live"}
Kind(i) == IF i \in Vehicle THEN Vehicle ELSE Address
Defaults(a, i) == {j \in Kind(i) \cap Live(a) : item[a][j].default}

(* Mutant: a new default is added to the one there is. *)
ClearNothing(a, i, d) == {}

(* The rows that lose is_default when i takes it. *)
ToClear(a, i, d) == IF d THEN Defaults(a, i) \ {i} ELSE {}

Runs(w, pc, a, i, row, clear) ==
    /\ req[w].pc = "idle"
    /\ CanAct(a)
    /\ requests < MaxRequests
    /\ requests' = requests + 1
    /\ req' = [req EXCEPT ![w] = [Idle EXCEPT !.pc = pc, !.account = a, !.item = i,
                                              !.row = row, !.clear = clear]]
    /\ UNCHANGED <<account, code, item, opened, doubled, removed, met>>

(* create_vehicle, create_address: no live vehicle has the plate. *)
BeginCreate(w, a, i, d) ==
    /\ i \notin Live(a)
    /\ Runs(w, "create", a, i, [state |-> "live", default |-> d], ToClear(a, i, d))

(* Mutant: soft-deleted rows are found as well. *)
BeginUpdateOfAny(w, a, i, d) ==
    /\ item[a][i] # Absent
    /\ Runs(w, "update", a, i, [state |-> "live", default |-> d], ToClear(a, i, d))

(* update_vehicle, update_address: the row is read; nothing is cleared when
   the request leaves is_default as it is. *)
BeginUpdate(w, a, i, d) ==
    /\ i \in Live(a)
    /\ \E clear \in {ToClear(a, i, d)} \cup (IF d = item[a][i].default THEN {{}} ELSE {}) :
            Runs(w, "update", a, i, [state |-> "live", default |-> d], clear)

BeginDelete(w, a, i) ==
    /\ i \in Live(a)
    /\ Runs(w, "delete", a, i, item[a][i], {})

(* is_default goes, where it still is set, and the row of the request is
   saved, with every column as the request has read it. *)
Saved(r) ==
    [j \in Item |->
        IF j = r.item THEN r.row
        ELSE IF j \in r.clear THEN [item[r.account][j] EXCEPT !.default = FALSE]
        ELSE item[r.account][j]]

(* Requests of the account that have read what w is about to change. *)
Overtakes(w) ==
    {a \in {req[w].account} : \E v \in Worker \ {w} : req[v].account = a /\ req[v].pc # "idle"}

CommitCreate(w) ==
    LET r == req[w] IN
    /\ r.pc = "create"
    /\ item[r.account][r.item] = Absent
    /\ item' = [item EXCEPT ![r.account] = Saved(r)]
    /\ met' = met \cup Overtakes(w)
    /\ EndRequest(w)
    /\ UNCHANGED <<account, code, requests, opened, doubled, removed>>

(* unique_together (user, plate) counts soft-deleted vehicles too. *)
FailCreate(w) ==
    LET r == req[w] IN
    /\ r.pc = "create"
    /\ item[r.account][r.item] # Absent
    /\ EndRequest(w)
    /\ UNCHANGED <<account, code, item, history>>

(* save() of a row that is gone inserts it again. *)
CommitUpdate(w) ==
    LET r == req[w] IN
    /\ r.pc = "update"
    /\ item' = [item EXCEPT ![r.account] = Saved(r)]
    /\ met' = met \cup Overtakes(w)
    /\ EndRequest(w)
    /\ UNCHANGED <<account, code, requests, opened, doubled, removed>>

(* soft_delete writes is_deleted only. *)
CommitDelete(w) ==
    LET r == req[w] IN
    /\ r.pc = "delete"
    /\ item' = [item EXCEPT ![r.account][r.item].state = IF @ = "absent" THEN @ ELSE "deleted"]
    /\ removed' = removed \cup {<<r.account, r.item>>}
    /\ met' = met \cup Overtakes(w)
    /\ EndRequest(w)
    /\ UNCHANGED <<account, code, requests, opened, doubled>>

-----------------------------------------------------------------------------
(* The profile and the end of an account *)

BeginPatch(w, a) == Runs(w, "patch", a, NoItem, Absent, {})

(* update_profile saves the columns that were sent, here the email. *)
CommitPatch(w) ==
    LET a == req[w].account IN
    /\ req[w].pc = "patch"
    /\ account' = [account EXCEPT ![a].email = TRUE]
    /\ EndRequest(w)
    /\ UNCHANGED <<code, item, history>>

(* request_account_deletion, run by hand *)
Deactivate(a) ==
    /\ CanAct(a)
    /\ account' = [account EXCEPT ![a].active = FALSE]
    /\ UNCHANGED <<code, item, req, history>>

(* Mutant: addresses are erased, vehicles kept. *)
EraseAddresses(a) == Live(a) \cap Address

(* The items erase_user_data deletes: the soft-deleted ones stay. *)
ErasedItems(a) == Live(a)

(* erase_user_data, run by hand: phone and email become anonymous, username
   stays. *)
Erase(a) ==
    /\ Exists(a) /\ ~account[a].erased
    /\ account' = [account EXCEPT ![a] = [@ EXCEPT !.phone = NoPhone, !.email = FALSE,
                                                   !.active = FALSE, !.erased = TRUE]]
    /\ item' = [item EXCEPT ![a] = [i \in Item |-> IF i \in ErasedItems(a) THEN Absent ELSE @[i]]]
    /\ met' = met \cup {b \in {a} : \E w \in Worker : req[w].account = b}
    /\ UNCHANGED <<code, req, requests, opened, doubled, removed>>

-----------------------------------------------------------------------------

LoginStep(w) ==
    \/ \E p \in Phone : BeginRequestCode(w, p) \/ (\E c \in Code : BeginVerify(w, p, c))
    \/ CreateCode(w)
    \/ CommitLogin(w)
    \/ FailLogin(w)

ItemStep(w) ==
    \/ \E a \in Account, i \in Item, d \in BOOLEAN : BeginCreate(w, a, i, d) \/ BeginUpdate(w, a, i, d)
    \/ \E a \in Account, i \in Item : BeginDelete(w, a, i)
    \/ CommitCreate(w)
    \/ FailCreate(w)
    \/ CommitUpdate(w)
    \/ CommitDelete(w)

ProfileStep(w) == (\E a \in Account : BeginPatch(w, a)) \/ CommitPatch(w)

Next ==
    \/ \E w \in Worker : LoginStep(w) \/ ItemStep(w) \/ ProfileStep(w)
    \/ \E c \in Code : CleanUp(c)
    \/ \E a \in Account : Deactivate(a) \/ Erase(a)

Spec == Init /\ [][Next]_vars

-----------------------------------------------------------------------------
(* Properties *)

(* Rows and requests have their declared shape. *)
TypeOK ==
    /\ account \in [Account -> UserRow]
    /\ code \in [Code -> CodeRow]
    /\ item \in [Account -> [Item -> ItemRow]]
    /\ req \in [Worker -> Request]
    /\ requests \in 0 .. MaxRequests
    /\ opened \in [Code -> Nat]
    /\ doubled \subseteq Phone /\ removed \subseteq Account \X Item /\ met \subseteq Account

(* "An OTP is consumed on first successful verify (single-use)"
   (accounts/models.py): one login per code, however the requests interleave. *)
CodeOpensOnce == \A c \in Code : opened[c] <= (IF code[c].state = "active" THEN 0 ELSE 1)

(* "Invalidates any previous un-used OTP for this phone"
   (accounts/services.py): one code is active, unless two requests for one
   met between their two transactions. *)
OneActiveCode == \A p \in Phone \ doubled : Cardinality(ActiveCodes(p)) <= 1

(* A customer has one default vehicle and one default address, unless two
   requests of the account met: the rows are read without locks. *)
OneDefault ==
    \A a \in Account \ met : \A i, j \in Live(a) :
        item[a][i].default /\ item[a][j].default /\ Kind(i) = Kind(j) => i = j

(* What was deleted does not come back, unless an update that had read it
   before was saved after: save() writes is_deleted too. *)
DeletedStaysDeleted ==
    \A a \in Account \ met : \A i \in Item : <<a, i>> \in removed => i \notin Live(a)

(* "Anonymises all PII" (audit/gdpr.py): an erased account has no email and
   no vehicle or address in use, unless a request was running meanwhile. *)
ErasedStaysErased ==
    \A a \in Account \ met : account[a].erased => ~account[a].email /\ Live(a) = {}

=============================================================================
