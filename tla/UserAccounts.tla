------------------------------ MODULE UserAccounts ------------------------------
(***************************************************************************)
(* The user accounts of the API service: logins and the lock-out after     *)
(* failed ones (apps/api-service/src/auth), roles, activation, unlocking   *)
(* and deletion (apps/api-service/src/rbac), over the table `users` that   *)
(* every call reads and writes in separate round trips.                    *)
(*                                                                         *)
(* A call runs up to its next database round trip, or to the comparison of *)
(* the password hash, in one step; calls interleave between these steps,   *)
(* and any of them may fail there, which ends the call.  Changes are made  *)
(* to an entity that was read and is then saved: TypeORM's save reads the  *)
(* row again, writes the columns in which the entity differs, leaves out   *)
(* those that are undefined, and inserts the entity if the row is gone.    *)
(* Calls refused at their first check change nothing and are left out.     *)
(***************************************************************************)
EXTENDS Integers, FiniteSets

CONSTANTS
  Accounts,     \* ids that accounts may get
  Admins,       \* ids that role changes and deletions may be made by
  Roles,        \* the roles of an account
  Requests,     \* requests the service may handle at a time
  Changes,      \* the fields updateUser and its siblings may be called with
  MaxAttempts,  \* failed logins that lock an account
  LockTime,     \* for how long
  MaxFailed,    \* bound on the failed logins of an account
  LastTime      \* bound on the clock

NoUser == "none"
NoRole == "none"
NoLock == -1     \* lockedUntil is null
Undefined == -2  \* lockedUntil is left out of a save

ASSUME UserAccountsAssumption ==
  /\ NoUser \notin Accounts /\ NoRole \notin Roles
  /\ \A d \in Changes : /\ DOMAIN d \subseteq {"role", "isActive"}
                        /\ "role" \in DOMAIN d => d["role"] \in Roles
                        /\ "isActive" \in DOMAIN d => d["isActive"] \in BOOLEAN
  /\ MaxAttempts \in Nat \ {0} /\ LockTime \in Nat
  /\ MaxFailed \in Nat /\ LastTime \in Nat

\* A row of users, as far as calls decide on it; the role says whether it is there.
Rows ==
  [role : Roles \cup {NoRole}, isActive : BOOLEAN, failedLoginAttempts : Nat,
   lockedUntil : Nat \cup {NoLock}]
Columns == {"role", "isActive", "failedLoginAttempts", "lockedUntil"}
Absent ==
  [role |-> NoRole, isActive |-> FALSE, failedLoginAttempts |-> 0, lockedUntil |-> NoLock]

\* What a call is about: a login with the password still to be compared, the
\* record of a login, a failed one, an unlocking, a change of fields, a deletion.
Kinds == {"login", "recordLogin", "failed", "unlock", "change", "delete"}
Steps == {"idle", "compare", "record", "find", "load", "update", "insert", "remove"}
NoChange == <<>>

VARIABLES
  users,    \* the table
  calls,    \* the calls under way: where each is, for which account, with the
            \* entity it holds and the columns it found changed
  time,
  created,  \* the ids given so far
  failed,   \* per account: failed logins since it was last at rest with none counted
  left,     \* per account: the lock then still in force, which unlockUser and
            \* recordSuccessfulLogin leave when they reset the count
  decided   \* per account: what the last decision left once it was at rest

accountVars == <<users, calls, time, created, failed, left, decided>>

Idle ==
  [step |-> "idle", user |-> NoUser, kind |-> "login", change |-> NoChange,
   entity |-> Absent, changed |-> {}]

HasRow(u) == users[u].role # NoRole

\* isLocked; a null lockedUntil lies before any time.
IsLocked(row, t) == t < row.lockedUntil

CanAuthenticate(u) == users[u].isActive /\ ~IsLocked(users[u], time)

-----------------------------------------------------------------------------
(* Bookkeeping of the properties, part of every step. *)

\* A decision about an account: that it exists, its role, whether it is active.
Unsettled == [role |-> "unsettled", isActive |-> FALSE]
DecisionOf(row) == [role |-> row.role, isActive |-> row.isActive]

AtRest(u) == \A c \in Requests : calls[c].user # u
Deciding(u) == \E c \in Requests : calls[c].user = u /\ calls[c].kind \in {"change", "delete"}

Record ==
  decided' = [u \in Accounts |->
    IF Deciding(u)' THEN Unsettled
    ELSE IF decided[u] = Unsettled /\ AtRest(u)' THEN DecisionOf(users'[u])
    ELSE decided[u]]

Counted(u, counted) == IF u \in counted THEN failed[u] + 1 ELSE failed[u]
Cleared(u) == AtRest(u) /\ users[u].failedLoginAttempts = 0

\* A lock in force rests on n failures, or is the one that was left behind.
Rests(row, n, lock, t) == IsLocked(row, t) => n >= MaxAttempts \/ row.lockedUntil = lock

\* The lock left behind by a step: only one in force, and that there was a reason for.
Left(u, n) ==
  LET row == users[u]'
      lock == IF ~Cleared(u)' THEN left[u]
              ELSE IF Rests(row, n, left[u], time') THEN row.lockedUntil
              ELSE NoLock
  IN  IF time' < lock THEN lock ELSE NoLock

\* `counted` are the accounts for which this step counts a failed login.
Count(counted) ==
  /\ failed' = [u \in Accounts |-> IF Cleared(u)' THEN 0 ELSE Counted(u, counted)]
  /\ left' = [u \in Accounts |-> Left(u, Counted(u, counted))]

Start(c, u, step, kind, change) ==
  /\ calls[c].step = "idle"
  /\ u \in created
  /\ calls' = [calls EXCEPT ![c] = [Idle EXCEPT !.step = step, !.user = u,
                                                !.kind = kind, !.change = change]]
  /\ UNCHANGED <<users, time, created>>
  /\ Record /\ Count({})

-----------------------------------------------------------------------------
(* Calls of AuthService and RbacService *)

NewUser(role) ==
  [role |-> role, isActive |-> TRUE, failedLoginAttempts |-> 0, lockedUntil |-> NoLock]

\* createUser; of two calls for one email the unique index admits one.
CreateUser(u, role) ==
  /\ u \notin created
  /\ created' = created \cup {u}
  /\ users' = [users EXCEPT ![u] = NewUser(role)]
  /\ decided' = [decided EXCEPT ![u] = DecisionOf(NewUser(role))]
  /\ UNCHANGED <<calls, time>>
  /\ Count({})

\* validateUser: one query, the check of the account, then the hash.
ValidateUser(c, u) ==
  /\ HasRow(u) /\ CanAuthenticate(u)
  /\ Start(c, u, "compare", "login", NoChange)

ComparePassword(c) ==
  /\ calls[c].step = "compare"
  /\ \/ calls' = [calls EXCEPT ![c].step = "record"]
     \/ calls' = [calls EXCEPT ![c].step = "find", ![c].kind = "failed"]
  /\ UNCHANGED <<users, time, created>>
  /\ Record /\ Count({})

RecordLogin(c, u) == Start(c, u, "record", "recordLogin", NoChange)
RecordFailedLogin(c, u) == Start(c, u, "find", "failed", NoChange)
UnlockUser(c, u) == Start(c, u, "find", "unlock", NoChange)

\* updateUser and setUserActiveStatus ...
UpdateUser(c, u, change) == Start(c, u, "find", "change", change)

\* ... updateUserRole and deleteUser, which refuse the account's own user.
UpdateUserRole(c, u, role, by) ==
  u # by /\ Start(c, u, "find", "change", [role |-> role])
DeleteUser(c, u, by) ==
  u # by /\ Start(c, u, "find", "delete", NoChange)

-----------------------------------------------------------------------------
(* Round trips *)

\* The UPDATE of a successful login: recordSuccessfulLogin leaves lockedUntil
\* out (it is undefined), recordLogin sets it to null.
LoggedIn(row, kind) ==
  [row EXCEPT !.failedLoginAttempts = 0,
              !.lockedUntil = IF kind = "recordLogin" THEN NoLock ELSE @]

FinishLogin(c) ==
  LET call == calls[c]
  IN  /\ call.step = "record"
      /\ users' = [users EXCEPT ![call.user] =
           IF HasRow(call.user) THEN LoggedIn(@, call.kind) ELSE @]
      /\ calls' = [calls EXCEPT ![c] = Idle]
      /\ UNCHANGED <<time, created>>
      /\ Record /\ Count({})

MutAfterFailure(row) ==
  LET attempts == row.failedLoginAttempts + 1
  IN  [row EXCEPT !.failedLoginAttempts = attempts,
                  !.lockedUntil = IF attempts >= MaxAttempts - 1 THEN time + LockTime ELSE @]

AfterFailure(row) ==
  LET attempts == row.failedLoginAttempts + 1
  IN  [row EXCEPT !.failedLoginAttempts = attempts,
                  !.lockedUntil = IF attempts >= MaxAttempts THEN time + LockTime ELSE @]

WithChange(row, change) ==
  [row EXCEPT !.role = IF "role" \in DOMAIN change THEN change["role"] ELSE @,
              !.isActive = IF "isActive" \in DOMAIN change THEN change["isActive"] ELSE @]

\* unlockUser that also activates the account.
MutChanged(row, call) ==
  CASE call.kind = "failed" -> AfterFailure(row)
    [] call.kind = "unlock" -> [row EXCEPT !.failedLoginAttempts = 0, !.isActive = TRUE]
    [] call.kind = "change" -> WithChange(row, call.change)
    [] OTHER -> row

\* The entity of a call after its change, before it is saved.
Changed(row, call) ==
  CASE call.kind = "failed" -> AfterFailure(row)
    [] call.kind = "unlock" -> [row EXCEPT !.failedLoginAttempts = 0, !.lockedUntil = Undefined]
    [] call.kind = "change" -> WithChange(row, call.change)
    [] OTHER -> row

Found(u) == HasRow(u)

\* findOne and the change; an account that is not found ends the call.
FindById(c) ==
  LET call == calls[c]
      u == call.user
  IN  /\ call.step = "find"
      /\ call.kind = "failed" => failed[u] < MaxFailed
      /\ \/ /\ Found(u)
            /\ calls' = [calls EXCEPT
                 ![c].step = IF call.kind = "delete" THEN "remove" ELSE "load",
                 ![c].entity = Changed(users[u], call)]
         \/ /\ ~Found(u)
            /\ calls' = [calls EXCEPT ![c] = Idle]
      /\ UNCHANGED <<users, time, created>>
      /\ Record
      /\ Count(IF call.kind = "failed" THEN {u} ELSE {})

\* save, first half: the columns to update, or that there is a row to insert.
LoadForSave(c) ==
  LET call == calls[c]
      row == users[call.user]
  IN  /\ call.step = "load"
      /\ calls' = [calls EXCEPT
           ![c].step = IF HasRow(call.user) THEN "update" ELSE "insert",
           ![c].changed = {f \in Columns : call.entity[f] # row[f]
                                            /\ (f = "lockedUntil" => call.entity[f] # Undefined)}]
      /\ UNCHANGED <<users, time, created>>
      /\ Record /\ Count({})

\* save, second half.
Saved(row, call) ==
  LET value(f) == IF f \in call.changed THEN call.entity[f] ELSE row[f]
  IN  [role |-> value("role"), isActive |-> value("isActive"),
       failedLoginAttempts |-> value("failedLoginAttempts"),
       lockedUntil |-> value("lockedUntil")]

UpdateRow(c) ==
  LET call == calls[c]
  IN  /\ call.step = "update"
      /\ users' = [users EXCEPT ![call.user] = IF HasRow(call.user) THEN Saved(@, call) ELSE @]
      /\ calls' = [calls EXCEPT ![c] = Idle]
      /\ UNCHANGED <<time, created>>
      /\ Record /\ Count({})

Inserted(entity) ==
  [entity EXCEPT !.lockedUntil = IF @ = Undefined THEN NoLock ELSE @]

\* A second insertion of the same id violates the primary key and fails.
InsertRow(c) ==
  LET call == calls[c]
  IN  /\ call.step = "insert"
      /\ users' = [users EXCEPT ![call.user] =
           IF HasRow(call.user) THEN @ ELSE Inserted(call.entity)]
      /\ calls' = [calls EXCEPT ![c] = Idle]
      /\ UNCHANGED <<time, created>>
      /\ Record /\ Count({})

RemoveRow(c) ==
  /\ calls[c].step = "remove"
  /\ users' = [users EXCEPT ![calls[c].user] = Absent]
  /\ calls' = [calls EXCEPT ![c] = Idle]
  /\ UNCHANGED <<time, created>>
  /\ Record /\ Count({})

\* A round trip fails, or the process restarts.
Fail(c) ==
  /\ calls[c].step # "idle"
  /\ calls' = [calls EXCEPT ![c] = Idle]
  /\ UNCHANGED <<users, time, created>>
  /\ Record /\ Count({})

TimePasses ==
  /\ time < LastTime
  /\ time' = time + 1
  /\ UNCHANGED <<users, calls, created>>
  /\ Record /\ Count({})

-----------------------------------------------------------------------------
AccountsInit ==
  /\ users = [u \in Accounts |-> Absent]
  /\ calls = [c \in Requests |-> Idle]
  /\ time = 0
  /\ created = {}
  /\ failed = [u \in Accounts |-> 0]
  /\ left = [u \in Accounts |-> NoLock]
  /\ decided = [u \in Accounts |-> DecisionOf(Absent)]

Begin(c, u) ==
  \/ ValidateUser(c, u)
  \/ RecordLogin(c, u)
  \/ RecordFailedLogin(c, u)
  \/ UnlockUser(c, u)
  \/ \E change \in Changes : UpdateUser(c, u, change)
  \/ \E role \in Roles, by \in Admins : UpdateUserRole(c, u, role, by)
  \/ \E by \in Admins : DeleteUser(c, u, by)

Continue(c) ==
  \/ ComparePassword(c)
  \/ FinishLogin(c)
  \/ FindById(c)
  \/ LoadForSave(c)
  \/ UpdateRow(c)
  \/ InsertRow(c)
  \/ RemoveRow(c)
  \/ Fail(c)

AccountsNext ==
  \/ \E u \in Accounts, role \in Roles : CreateUser(u, role)
  \/ \E c \in Requests, u \in Accounts : Begin(c, u)
  \/ \E c \in Requests : Continue(c)
  \/ TimePasses

AccountsSpec == AccountsInit /\ [][AccountsNext]_accountVars

-----------------------------------------------------------------------------
(* Properties *)

Entities ==
  [role : Roles, isActive : BOOLEAN, failedLoginAttempts : Nat,
   lockedUntil : Nat \cup {NoLock, Undefined}]

CallStates ==
  [step : Steps, user : Accounts \cup {NoUser}, kind : Kinds, change : Changes \cup
     {NoChange} \cup {[role |-> r] : r \in Roles},
   entity : Entities \cup {Absent}, changed : SUBSET Columns]

\* Type invariant; a call under way has an account that was created, and a call
\* about to save holds the entity of an account and not the lack of one, and never
\* writes an undefined column.
AccountsTypeOK ==
  /\ users \in [Accounts -> Rows]
  /\ calls \in [Requests -> CallStates]
  /\ time \in Nat
  /\ created \subseteq Accounts
  /\ failed \in [Accounts -> Nat]
  /\ left \in [Accounts -> Nat \cup {NoLock}]
  /\ \A u \in Accounts : HasRow(u) => u \in created
  /\ \A c \in Requests :
       /\ calls[c].step # "idle" => calls[c].user \in created
       /\ calls[c].step = "idle" => calls[c] = Idle
       /\ calls[c].step \in {"load", "update", "insert"} => calls[c].entity \in Entities
       /\ calls[c].step = "update" /\ "lockedUntil" \in calls[c].changed =>
            calls[c].entity.lockedUntil # Undefined

\* recordFailedLogin, unlockUser and the login: however reads and saves overlap, lost
\* updates lose failures and never invent one, and an account is locked only after
\* MaxAttempts failed logins since it was last at rest with none counted, or by a lock
\* that was in force then.  That such a lock exists is no merit: unlockUser and
\* recordSuccessfulLogin reset the count and leave lockedUntil as it was (undefined).
LockIsEarned ==
  \A u \in Accounts :
    /\ users[u].failedLoginAttempts <= failed[u]
    /\ Rests(users[u], failed[u], left[u], time)

\* unlockUser, "Unlock user account" (rbac.service.ts:235): once it has saved, with no
\* other call for the account under way, the account is not locked.
UnlockUnlocks ==
  [][\A c \in Requests, u \in Accounts :
       calls[c].user = u /\ calls[c].kind = "unlock" /\ UpdateRow(c) /\ AtRest(u)' =>
         ~IsLocked(users'[u], time')]_accountVars

\* updateUser, updateUserRole, setUserActiveStatus and deleteUser: what they
\* left when no call for the account was under way stays, whatever logins,
\* failures and unlockings save afterwards, until the next such call: no role
\* comes back, no account becomes active, and none is inserted again.
DecisionsSettle ==
  \A u \in Accounts : decided[u] # Unsettled => DecisionOf(users[u]) = decided[u]

=================================================================================
