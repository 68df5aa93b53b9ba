--------------------------- MODULE UserAccountsProofs ---------------------------
(* Theorems about UserAccounts: type correctness, what a lock rests on, and the *)
(* finality of decisions about an account.                                      *)
EXTENDS UserAccounts, TLAPS

LEMMA RowFields ==
  ASSUME AccountsTypeOK, NEW u \in Accounts
  PROVE  /\ users[u] \in Rows
         /\ HasRow(u) => users[u].role \in Roles /\ u \in created
         /\ users[u].failedLoginAttempts \in Nat
         /\ users[u].lockedUntil \in Nat \cup {NoLock}
  BY DEF AccountsTypeOK, HasRow, Rows

LEMMA CallFields ==
  ASSUME AccountsTypeOK, NEW c \in Requests
  PROVE  /\ calls[c] \in CallStates
         /\ calls[c].step \in Steps /\ calls[c].kind \in Kinds
         /\ calls[c].step # "idle" => calls[c].user \in created /\ calls[c].user \in Accounts
  BY DEF AccountsTypeOK, CallStates

LEMMA IdleType == Idle \in CallStates /\ Idle.step = "idle" /\ Idle.user = NoUser
  BY DEF Idle, CallStates, Steps, Kinds

LEMMA AbsentType == Absent \in Rows /\ Absent.role = NoRole
  BY DEF Absent, Rows, NoLock

\* What a change leaves in the entity, and a save in the row.
LEMMA ChangedType ==
  ASSUME AccountsTypeOK, NEW row \in Rows, row.role \in Roles, NEW call \in CallStates
  PROVE  Changed(row, call) \in Entities
  <1>1. row \in Entities
    BY DEF Rows, Entities
  <1>2. AfterFailure(row) \in Entities
    <2>1. time + LockTime \in Nat /\ row.failedLoginAttempts + 1 \in Nat
      BY UserAccountsAssumption DEF AccountsTypeOK, Rows
    <2>2. QED
      BY <1>1, <2>1 DEF Entities, AfterFailure
  <1>3. [row EXCEPT !.failedLoginAttempts = 0, !.lockedUntil = Undefined] \in Entities
    BY <1>1 DEF Entities
  <1>4. call.kind = "change" => WithChange(row, call.change) \in Entities
    <2>1. call.change \in Changes \cup {NoChange} \cup {[role |-> r] : r \in Roles}
      BY DEF CallStates
    <2>2. "role" \in DOMAIN call.change => call.change["role"] \in Roles
      BY <2>1, UserAccountsAssumption DEF NoChange
    <2>3. "isActive" \in DOMAIN call.change => call.change["isActive"] \in BOOLEAN
      BY <2>1, UserAccountsAssumption DEF NoChange
    <2>4. QED
      BY <1>1, <2>2, <2>3 DEF Entities, WithChange
  <1>5. QED
    BY <1>1, <1>2, <1>3, <1>4 DEF Changed

LEMMA SavedType ==
  ASSUME NEW row \in Rows, row.role \in Roles, NEW call, call.entity \in Entities,
         "lockedUntil" \in call.changed => call.entity.lockedUntil # Undefined
  PROVE  Saved(row, call) \in Rows /\ Saved(row, call).role \in Roles
  BY DEF Saved, Rows, Entities

-----------------------------------------------------------------------------
(* Type correctness. *)

\* The part of AccountsTypeOK that concerns one call.
CallOK(call) ==
  /\ call \in CallStates
  /\ call.step # "idle" => call.user \in created
  /\ call.step = "idle" => call = Idle
  /\ call.step \in {"load", "update", "insert"} => call.entity \in Entities
  /\ call.step = "update" /\ "lockedUntil" \in call.changed =>
       call.entity.lockedUntil # Undefined

LEMMA IdleOK == CallOK(Idle)
  BY IdleType DEF CallOK

LEMMA CountType ==
  ASSUME AccountsTypeOK, NEW counted, Count(counted), users' \in [Accounts -> Rows]
  PROVE  failed' \in [Accounts -> Nat] /\ left' \in [Accounts -> Nat \cup {NoLock}]
  <1>1. failed' \in [Accounts -> Nat]
    BY DEF AccountsTypeOK, Count, Counted
  <1>2. ASSUME NEW u \in Accounts PROVE Left(u, Counted(u, counted)) \in Nat \cup {NoLock}
    <2>1. users'[u].lockedUntil \in Nat \cup {NoLock} /\ left[u] \in Nat \cup {NoLock}
      BY DEF AccountsTypeOK, Rows
    <2>2. QED
      BY <2>1 DEF Left
  <1>3. QED
    BY <1>1, <1>2 DEF Count

\* One call takes a step and the others stay where they are.
LEMMA OneCallType ==
  ASSUME AccountsTypeOK, NEW c \in Requests, NEW call, NEW counted,
         calls' = [calls EXCEPT ![c] = call], CallOK(call),
         users' \in [Accounts -> Rows],
         \A u \in Accounts : users'[u].role # NoRole => u \in created,
         Count(counted), time' = time, created' = created
  PROVE  AccountsTypeOK'
  <1>1. calls' \in [Requests -> CallStates]
    BY DEF AccountsTypeOK, CallOK
  <1>2. ASSUME NEW d \in Requests
        PROVE  calls'[d] = calls[d] \/ calls'[d] = call
    BY DEF AccountsTypeOK
  <1>3. failed' \in [Accounts -> Nat] /\ left' \in [Accounts -> Nat \cup {NoLock}]
    BY CountType
  <1>4. QED
    BY <1>1, <1>2, <1>3 DEF AccountsTypeOK, CallOK, HasRow

LEMMA StartType ==
  ASSUME AccountsTypeOK, NEW c \in Requests, NEW u \in Accounts, NEW step \in {"compare", "record", "find"},
         NEW kind \in Kinds,
         NEW change \in Changes \cup {NoChange} \cup {[role |-> r] : r \in Roles},
         Start(c, u, step, kind, change)
  PROVE  AccountsTypeOK'
  <1> DEFINE call == [Idle EXCEPT !.step = step, !.user = u, !.kind = kind, !.change = change]
  <1>1. call \in CallStates /\ call.step = step /\ call.user = u
    BY IdleType DEF CallStates, Idle, Steps
  <1>2. CallOK(call)
    BY <1>1 DEF CallOK, Start
  <1> HIDE DEF call
  <1>3. /\ calls' = [calls EXCEPT ![c] = call] /\ users' = users /\ time' = time
        /\ created' = created /\ Count({})
    BY DEF Start, call
  <1>4. QED
    BY <1>2, <1>3, OneCallType DEF AccountsTypeOK, HasRow

LEMMA BeginStarts ==
  ASSUME NEW c \in Requests, NEW u \in Accounts, Begin(c, u)
  PROVE  \E step \in {"compare", "record", "find"}, kind \in Kinds,
            change \in Changes \cup {NoChange} \cup {[role |-> r] : r \in Roles} :
           Start(c, u, step, kind, change)
  BY DEF Begin, ValidateUser, RecordLogin, RecordFailedLogin, UnlockUser, UpdateUser,
         UpdateUserRole, DeleteUser, Kinds

\* The last round trip of a call, which leaves this row.
Finishes(c, row) ==
  /\ calls[c].step # "idle"
  /\ users' = [users EXCEPT ![calls[c].user] = row]
  /\ calls' = [calls EXCEPT ![c] = Idle]
  /\ time' = time /\ created' = created
  /\ Record /\ Count({})

LEMMA FinishesType ==
  ASSUME AccountsTypeOK, NEW c \in Requests, NEW row \in Rows, Finishes(c, row)
  PROVE  AccountsTypeOK'
  <1>1. calls[c].user \in created /\ calls[c].user \in Accounts
    BY CallFields DEF Finishes
  <1>2. users' \in [Accounts -> Rows] /\ \A u \in Accounts : users'[u].role # NoRole => u \in created
    BY <1>1 DEF AccountsTypeOK, Finishes, HasRow
  <1>3. QED
    BY <1>2, IdleOK, OneCallType DEF Finishes

\* The rows the handlers leave.
LoginRow(c) == IF HasRow(calls[c].user) THEN LoggedIn(users[calls[c].user], calls[c].kind)
               ELSE users[calls[c].user]
UpdatedRow(c) == IF HasRow(calls[c].user) THEN Saved(users[calls[c].user], calls[c])
                 ELSE users[calls[c].user]
InsertedRow(c) == IF HasRow(calls[c].user) THEN users[calls[c].user]
                  ELSE Inserted(calls[c].entity)

LEMMA LoginFinishes ==
  ASSUME AccountsTypeOK, NEW c \in Requests, FinishLogin(c)
  PROVE  Finishes(c, LoginRow(c)) /\ LoginRow(c) \in Rows
  <1>1. calls[c].user \in Accounts
    BY CallFields DEF FinishLogin
  <1>2. LoginRow(c) \in Rows
    <2>1. PICK row \in Rows : row = users[calls[c].user]
      BY <1>1 DEF AccountsTypeOK
    <2>2. LoggedIn(row, calls[c].kind) \in Rows
      BY ONLY row \in Rows DEF LoggedIn, Rows
    <2>3. QED
      BY <2>1, <2>2 DEF LoginRow
  <1>3. users' = [users EXCEPT ![calls[c].user] = LoginRow(c)]
    BY <1>1 DEF FinishLogin, LoginRow, AccountsTypeOK
  <1>4. QED
    BY <1>2, <1>3 DEF Finishes, FinishLogin

LEMMA UpdateFinishes ==
  ASSUME AccountsTypeOK, NEW c \in Requests, UpdateRow(c)
  PROVE  Finishes(c, UpdatedRow(c)) /\ UpdatedRow(c) \in Rows
  <1>1. calls[c].user \in Accounts /\ calls[c].step = "update" /\ users[calls[c].user] \in Rows
    BY CallFields DEF UpdateRow, AccountsTypeOK
  <1>2. /\ calls[c].entity \in Entities
        /\ "lockedUntil" \in calls[c].changed => calls[c].entity.lockedUntil # Undefined
    BY <1>1 DEF AccountsTypeOK
  <1>3. UpdatedRow(c) \in Rows
    BY <1>1, <1>2, SavedType, RowFields DEF UpdatedRow
  <1>4. users' = [users EXCEPT ![calls[c].user] = UpdatedRow(c)]
    BY <1>1 DEF UpdateRow, UpdatedRow, AccountsTypeOK
  <1>5. QED
    BY <1>1, <1>3, <1>4 DEF Finishes, UpdateRow

LEMMA InsertFinishes ==
  ASSUME AccountsTypeOK, NEW c \in Requests, InsertRow(c)
  PROVE  Finishes(c, InsertedRow(c)) /\ InsertedRow(c) \in Rows
  <1>1. calls[c].user \in Accounts /\ calls[c].step = "insert" /\ users[calls[c].user] \in Rows
    BY CallFields DEF InsertRow, AccountsTypeOK
  <1>2. calls[c].entity \in Entities
    BY <1>1 DEF AccountsTypeOK
  <1>3. Inserted(calls[c].entity) \in Rows
    BY <1>2 DEF Inserted, Entities, Rows
  <1>4. InsertedRow(c) \in Rows
    BY <1>1, <1>3 DEF InsertedRow
  <1>5. users' = [users EXCEPT ![calls[c].user] = InsertedRow(c)]
    BY <1>1 DEF InsertRow, InsertedRow, AccountsTypeOK
  <1>6. QED
    BY <1>1, <1>4, <1>5 DEF Finishes, InsertRow

LEMMA RemoveFinishes ==
  ASSUME AccountsTypeOK, NEW c \in Requests, RemoveRow(c)
  PROVE  Finishes(c, Absent) /\ Absent \in Rows
  BY AbsentType DEF RemoveRow, Finishes

\* A step that only moves the call on.
Moves(c, call, counted) ==
  /\ calls[c].step # "idle"
  /\ calls' = [calls EXCEPT ![c] = call]
  /\ users' = users /\ time' = time /\ created' = created
  /\ Record /\ Count(counted)

LEMMA MovesType ==
  ASSUME AccountsTypeOK, NEW c \in Requests, NEW call, NEW counted, Moves(c, call, counted), CallOK(call)
  PROVE  AccountsTypeOK'
  BY OneCallType DEF Moves, AccountsTypeOK, HasRow

Compared(c, step, kind) == [calls[c] EXCEPT !.step = step, !.kind = kind]

LEMMA CompareMoves ==
  ASSUME AccountsTypeOK, NEW c \in Requests, ComparePassword(c)
  PROVE  \E step \in {"record", "find"}, kind \in {calls[c].kind, "failed"} :
           /\ Moves(c, Compared(c, step, kind), {})
           /\ CallOK(Compared(c, step, kind))
           /\ Compared(c, step, kind).step = step
  <1>1. calls[c].user \in created /\ calls[c] \in CallStates
    BY CallFields DEF ComparePassword
  <1>2. PICK step \in {"record", "find"}, kind \in {calls[c].kind, "failed"} :
          calls' = [calls EXCEPT ![c] = Compared(c, step, kind)]
    <2>1. CASE calls' = [calls EXCEPT ![c].step = "record"]
      <3>1. Compared(c, "record", calls[c].kind) = [calls[c] EXCEPT !.step = "record"]
        BY <1>1 DEF Compared, CallStates
      <3>2. QED
        BY <2>1, <3>1
    <2>2. CASE calls' = [calls EXCEPT ![c].step = "find", ![c].kind = "failed"]
      BY <2>2 DEF Compared, AccountsTypeOK
    <2>3. QED
      BY <2>1, <2>2 DEF ComparePassword
  <1>3. kind \in Kinds
    BY CallFields DEF Kinds
  <1>4. Compared(c, step, kind) \in CallStates /\ Compared(c, step, kind).step = step
        /\ Compared(c, step, kind).user = calls[c].user
    BY <1>1, <1>3 DEF Compared, CallStates, Steps
  <1>5. CallOK(Compared(c, step, kind))
    BY <1>1, <1>4 DEF CallOK
  <1>6. Moves(c, Compared(c, step, kind), {})
    BY <1>2 DEF Moves, ComparePassword
  <1>7. QED
    BY <1>4, <1>5, <1>6

FoundCall(c) ==
  [calls[c] EXCEPT !.step = IF calls[c].kind = "delete" THEN "remove" ELSE "load",
                   !.entity = Changed(users[calls[c].user], calls[c])]
CountedBy(c) == IF calls[c].kind = "failed" THEN {calls[c].user} ELSE {}

LEMMA FindMoves ==
  ASSUME AccountsTypeOK, NEW c \in Requests, FindById(c)
  PROVE  \/ Moves(c, Idle, CountedBy(c))
         \/ /\ HasRow(calls[c].user)
            /\ Moves(c, FoundCall(c), CountedBy(c))
            /\ CallOK(FoundCall(c))
            /\ FoundCall(c).user = calls[c].user
            /\ FoundCall(c).kind = calls[c].kind
            /\ FoundCall(c).entity = Changed(users[calls[c].user], calls[c])
            /\ FoundCall(c).step = IF calls[c].kind = "delete" THEN "remove" ELSE "load"
  <1>1. calls[c].user \in created /\ calls[c].user \in Accounts /\ calls[c] \in CallStates
    BY CallFields DEF FindById
  <1>2. CASE Found(calls[c].user)
    <2>1. HasRow(calls[c].user) /\ users[calls[c].user] \in Rows /\ users[calls[c].user].role \in Roles
      BY <1>1, <1>2, RowFields DEF Found
    <2>2. Changed(users[calls[c].user], calls[c]) \in Entities
      BY <1>1, <2>1, ChangedType
    <2>3. /\ FoundCall(c) \in CallStates
          /\ FoundCall(c).user = calls[c].user
          /\ FoundCall(c).kind = calls[c].kind
          /\ FoundCall(c).entity = Changed(users[calls[c].user], calls[c])
          /\ FoundCall(c).step = IF calls[c].kind = "delete" THEN "remove" ELSE "load"
      BY <1>1, <2>2 DEF FoundCall, CallStates, Steps
    <2>4. CallOK(FoundCall(c))
      BY <1>1, <2>2, <2>3 DEF CallOK
    <2>5. calls' = [calls EXCEPT ![c] = FoundCall(c)]
      BY <1>2 DEF FindById, FoundCall, AccountsTypeOK
    <2>6. Moves(c, FoundCall(c), CountedBy(c))
      BY <2>5 DEF FindById, Moves, CountedBy
    <2>7. QED
      BY <2>1, <2>3, <2>4, <2>6
  <1>3. CASE ~Found(calls[c].user)
    BY <1>3 DEF FindById, Moves, CountedBy
  <1>4. QED
    BY <1>2, <1>3

Differing(c) ==
  {f \in Columns : calls[c].entity[f] # users[calls[c].user][f]
                    /\ (f = "lockedUntil" => calls[c].entity[f] # Undefined)}
LoadedCall(c) ==
  [calls[c] EXCEPT !.step = IF HasRow(calls[c].user) THEN "update" ELSE "insert",
                   !.changed = Differing(c)]

LEMMA LoadMoves ==
  ASSUME AccountsTypeOK, NEW c \in Requests, LoadForSave(c)
  PROVE  /\ Moves(c, LoadedCall(c), {}) /\ CallOK(LoadedCall(c))
         /\ LoadedCall(c).user = calls[c].user
         /\ LoadedCall(c).kind = calls[c].kind
         /\ LoadedCall(c).entity = calls[c].entity
         /\ LoadedCall(c).step \in {"update", "insert"}
  <1>1. /\ calls[c].user \in created /\ calls[c] \in CallStates
        /\ calls[c].step = "load" /\ calls[c].entity \in Entities
    BY CallFields DEF LoadForSave, AccountsTypeOK
  <1>2. Differing(c) \subseteq Columns
        /\ ("lockedUntil" \in Differing(c) => calls[c].entity["lockedUntil"] # Undefined)
    BY DEF Differing
  <1>3. /\ LoadedCall(c) \in CallStates
        /\ LoadedCall(c).user = calls[c].user
        /\ LoadedCall(c).kind = calls[c].kind
        /\ LoadedCall(c).entity = calls[c].entity
        /\ LoadedCall(c).changed = Differing(c)
        /\ LoadedCall(c).step \in {"update", "insert"}
    BY <1>1, <1>2 DEF LoadedCall, CallStates, Steps
  <1>4. CallOK(LoadedCall(c))
    BY <1>1, <1>2, <1>3 DEF CallOK
  <1>5. calls' = [calls EXCEPT ![c] = LoadedCall(c)]
    BY DEF LoadForSave, LoadedCall, Differing, AccountsTypeOK
  <1>6. Moves(c, LoadedCall(c), {})
    BY <1>1, <1>5 DEF LoadForSave, Moves
  <1>7. QED
    BY <1>3, <1>4, <1>6

LEMMA FailMoves ==
  ASSUME NEW c \in Requests, Fail(c)
  PROVE  Moves(c, Idle, {})
  BY DEF Fail, Moves

LEMMA CreateType ==
  ASSUME AccountsTypeOK, NEW u \in Accounts, NEW role \in Roles, CreateUser(u, role)
  PROVE  AccountsTypeOK'
  <1>1. NewUser(role) \in Rows
    BY DEF NewUser, Rows
  <1>2. users' \in [Accounts -> Rows] /\ \A v \in Accounts : users'[v].role # NoRole => v \in created'
    BY <1>1 DEF AccountsTypeOK, CreateUser, HasRow
  <1>3. failed' \in [Accounts -> Nat] /\ left' \in [Accounts -> Nat \cup {NoLock}]
    BY <1>2, CountType DEF CreateUser
  <1>4. created' \subseteq Accounts /\ created \subseteq created'
    BY DEF AccountsTypeOK, CreateUser
  <1>5. QED
    BY <1>2, <1>3, <1>4 DEF AccountsTypeOK, CreateUser, HasRow

LEMMA InitType == AccountsInit => AccountsTypeOK
  BY IdleType, AbsentType DEF AccountsInit, AccountsTypeOK, HasRow, Idle

LEMMA NextType == AccountsTypeOK /\ [AccountsNext]_accountVars => AccountsTypeOK'
  <1> SUFFICES ASSUME AccountsTypeOK, [AccountsNext]_accountVars PROVE AccountsTypeOK'
    OBVIOUS
  <1>1. ASSUME NEW u \in Accounts, NEW role \in Roles, CreateUser(u, role) PROVE AccountsTypeOK'
    BY <1>1, CreateType
  <1>2. ASSUME NEW c \in Requests, NEW u \in Accounts, Begin(c, u) PROVE AccountsTypeOK'
    BY <1>2, BeginStarts, StartType
  <1>3. ASSUME NEW c \in Requests, Continue(c) PROVE AccountsTypeOK'
    <2>1. CASE ComparePassword(c)
      BY <2>1, CompareMoves, MovesType
    <2>2. CASE FinishLogin(c)
      BY <2>2, LoginFinishes, FinishesType
    <2>3. CASE FindById(c)
      BY <2>3, FindMoves, MovesType, IdleOK
    <2>4. CASE LoadForSave(c)
      BY <2>4, LoadMoves, MovesType
    <2>5. CASE UpdateRow(c)
      BY <2>5, UpdateFinishes, FinishesType
    <2>6. CASE InsertRow(c)
      BY <2>6, InsertFinishes, FinishesType
    <2>7. CASE RemoveRow(c)
      BY <2>7, RemoveFinishes, FinishesType
    <2>8. CASE Fail(c)
      BY <2>8, FailMoves, MovesType, IdleOK
    <2>9. QED
      BY <1>3, <2>1, <2>2, <2>3, <2>4, <2>5, <2>6, <2>7, <2>8 DEF Continue
  <1>4. CASE TimePasses
    <2>1. failed' \in [Accounts -> Nat] /\ left' \in [Accounts -> Nat \cup {NoLock}]
      BY <1>4, CountType DEF TimePasses, AccountsTypeOK
    <2>2. QED
      BY <1>4, <2>1 DEF AccountsTypeOK, TimePasses, HasRow
  <1>5. CASE UNCHANGED accountVars
    BY <1>5 DEF AccountsTypeOK, accountVars, HasRow
  <1>6. QED
    BY <1>1, <1>2, <1>3, <1>4, <1>5 DEF AccountsNext

\* Type invariant: calls never lose their account, and none saves the lack of a
\* row or an undefined column.
THEOREM TypeCorrect == AccountsSpec => []AccountsTypeOK
  BY InitType, NextType, PTL DEF AccountsSpec

-----------------------------------------------------------------------------
(* Locks.  What a call has read counts no more failures than the account had     *)
(* since it was last at rest with none, and carries a lock in force only for as  *)
(* many as lock it, or the one that was left behind then.                        *)

HoldsEntity(call) == call.step \in {"load", "update", "insert"}

\* n failures, or this lock, are behind what a row or an entity says at time t.
Backed(row, n, lock, t) ==
  /\ row.failedLoginAttempts <= n
  /\ t < row.lockedUntil => n >= MaxAttempts \/ row.lockedUntil = lock

LockInv ==
  /\ \A u \in Accounts : Backed(users[u], failed[u], left[u], time)
  /\ \A c \in Requests :
       HoldsEntity(calls[c]) =>
         Backed(calls[c].entity, failed[calls[c].user], left[calls[c].user], time)

LEMMA LockInvEarned == LockInv => LockIsEarned
  BY DEF LockInv, Backed, LockIsEarned, Rests, IsLocked

\* Later, and with more failures, the same row is still backed.
LEMMA BackedLonger ==
  ASSUME NEW row, row.failedLoginAttempts \in Nat, row.lockedUntil \in Int,
         NEW n \in Nat, NEW m \in Nat, n <= m, NEW lock, NEW t \in Nat, NEW s \in Nat,
         t <= s, Backed(row, n, lock, t)
  PROVE  Backed(row, m, lock, s)
  BY UserAccountsAssumption DEF Backed

LEMMA EntityFields ==
  ASSUME NEW e \in Rows \cup Entities
  PROVE  e.failedLoginAttempts \in Nat /\ e.lockedUntil \in Int
  BY DEF Rows, Entities, NoLock, Undefined

\* The count is reset only where no failure is counted, and then it is known which
\* lock stays.
LEMMA CountBacked ==
  ASSUME AccountsTypeOK', NEW counted, Count(counted), NEW u \in Accounts,
         Backed(users'[u], Counted(u, counted), left[u], time')
  PROVE  Backed(users'[u], failed'[u], left'[u], time')
  <1> DEFINE n == Counted(u, counted)
             row == users'[u]
  <1>1. /\ failed'[u] = IF Cleared(u)' THEN 0 ELSE n
        /\ left'[u] = Left(u, n)
    BY DEF Count
  <1>2. ASSUME time' < row.lockedUntil PROVE n >= MaxAttempts \/ row.lockedUntil = left[u]
    BY <1>2 DEF Backed
  <1>3. row.failedLoginAttempts <= n
    BY DEF Backed
  <1>4. CASE Cleared(u)'
    <2>1. row.failedLoginAttempts = 0
      BY <1>4 DEF Cleared
    <2>2. ASSUME time' < row.lockedUntil PROVE left'[u] = row.lockedUntil
      <3>1. Rests(row, n, left[u], time')
        BY <1>2 DEF Rests, IsLocked
      <3>2. QED
        BY <1>1, <1>4, <2>2, <3>1 DEF Left
    <2>3. QED
      BY <1>1, <1>4, <2>1, <2>2 DEF Backed
  <1>5. CASE ~Cleared(u)'
    <2>1. failed'[u] = n
      BY <1>1, <1>5
    <2>2. ASSUME time' < row.lockedUntil, row.lockedUntil = left[u]
          PROVE  left'[u] = row.lockedUntil
      BY <1>1, <1>5, <2>2 DEF Left
    <2>3. QED
      BY <1>2, <1>3, <2>1, <2>2 DEF Backed
  <1>6. QED
    BY <1>4, <1>5

\* While a call is under way for an account its count is not reset, and the lock
\* left behind stays as long as it is in force.
LEMMA CountEntity ==
  ASSUME AccountsTypeOK, NEW counted, Count(counted), NEW c \in Requests, NEW u \in Accounts,
         calls'[c].user = u, NEW e,
         Backed(e, Counted(u, counted), left[u], time')
  PROVE  Backed(e, failed'[u], left'[u], time')
  <1>1. ~Cleared(u)'
    BY DEF Cleared, AtRest
  <1>2. failed'[u] = Counted(u, counted)
    BY <1>1 DEF Count
  <1>3. left'[u] = IF time' < left[u] THEN left[u] ELSE NoLock
    BY <1>1 DEF Count, Left
  <1>4. QED
    BY <1>2, <1>3 DEF Backed

\* One call steps: it is enough that rows and the entity it leaves are backed by
\* the failures counted so far; resetting the count touches nothing that counts.
LEMMA OneCallLock ==
  ASSUME AccountsTypeOK, AccountsTypeOK', LockInv, NEW c \in Requests, NEW call, NEW counted,
         calls' = [calls EXCEPT ![c] = call], Count(counted), time' = time,
         \A u \in Accounts : Backed(users'[u], Counted(u, counted), left[u], time),
         HoldsEntity(call) =>
           Backed(call.entity, Counted(call.user, counted), left[call.user], time)
  PROVE  LockInv'
  <1>1. ASSUME NEW u \in Accounts PROVE Backed(users'[u], failed'[u], left'[u], time')
    BY CountBacked
  <1>2. ASSUME NEW d \in Requests, HoldsEntity(calls'[d])
        PROVE  Backed(calls'[d].entity, failed'[calls'[d].user], left'[calls'[d].user], time')
    <2>1. calls'[d].step # "idle"
      BY <1>2 DEF HoldsEntity
    <2>2. calls'[d].user \in Accounts /\ calls'[d].entity \in Entities
      BY <1>2, <2>1 DEF AccountsTypeOK, HoldsEntity
    <2>3. PICK u \in Accounts : u = calls'[d].user
      BY <2>2
    <2>4. Backed(calls'[d].entity, Counted(u, counted), left[u], time)
      <3>1. CASE d = c
        <4>1. calls'[d] = call
          BY <3>1 DEF AccountsTypeOK
        <4>2. QED
          BY <1>2, <2>3, <4>1
      <3>2. CASE d # c
        <4>1. calls'[d] = calls[d]
          BY <3>2 DEF AccountsTypeOK
        <4>2. Backed(calls'[d].entity, failed[u], left[u], time)
          BY <1>2, <2>3, <4>1 DEF LockInv
        <4>3. failed[u] \in Nat /\ Counted(u, counted) \in Nat /\ failed[u] <= Counted(u, counted)
          BY <2>2 DEF AccountsTypeOK, Counted
        <4>4. calls'[d].entity.failedLoginAttempts \in Nat /\ calls'[d].entity.lockedUntil \in Int
          BY <2>2, EntityFields
        <4>5. time \in Nat /\ time <= time
          BY DEF AccountsTypeOK
        <4>6. QED
          BY <4>2, <4>3, <4>4, <4>5, BackedLonger
      <3>3. QED
        BY <3>1, <3>2
    <2>5. QED
      BY <2>3, <2>4, CountEntity
  <1>3. QED
    BY <1>1, <1>2 DEF LockInv

\* Rows that stay are backed by what is counted besides.
LEMMA RowsStayBacked ==
  ASSUME AccountsTypeOK, LockInv, NEW counted, NEW u \in Accounts
  PROVE  Backed(users[u], Counted(u, counted), left[u], time)
  <1>1. failed[u] \in Nat /\ Counted(u, counted) \in Nat /\ failed[u] <= Counted(u, counted)
    BY DEF AccountsTypeOK, Counted
  <1>2. users[u].failedLoginAttempts \in Nat /\ users[u].lockedUntil \in Int
    BY EntityFields DEF AccountsTypeOK
  <1>3. time \in Nat /\ time <= time
    BY DEF AccountsTypeOK
  <1>4. QED
    BY <1>1, <1>2, <1>3, BackedLonger DEF LockInv

LEMMA MovesLock ==
  ASSUME AccountsTypeOK, AccountsTypeOK', LockInv, NEW c \in Requests, NEW call, NEW counted,
         Moves(c, call, counted),
         HoldsEntity(call) =>
           Backed(call.entity, Counted(call.user, counted), left[call.user], time)
  PROVE  LockInv'
  <1>1. \A u \in Accounts : Backed(users'[u], Counted(u, counted), left[u], time)
    BY RowsStayBacked DEF Moves
  <1>2. QED
    BY <1>1, OneCallLock DEF Moves

LEMMA FinishesLock ==
  ASSUME AccountsTypeOK, AccountsTypeOK', LockInv, NEW c \in Requests, NEW row \in Rows, Finishes(c, row),
         Backed(row, failed[calls[c].user], left[calls[c].user], time)
  PROVE  LockInv'
  <1>1. ASSUME NEW u \in Accounts PROVE Backed(users'[u], Counted(u, {}), left[u], time)
    <2>1. CASE u = calls[c].user
      BY <2>1 DEF AccountsTypeOK, Finishes, Counted
    <2>2. CASE u # calls[c].user
      <3>1. users'[u] = users[u]
        BY <2>2 DEF AccountsTypeOK, Finishes
      <3>2. QED
        BY <3>1, RowsStayBacked
    <2>3. QED
      BY <2>1, <2>2
  <1>2. ~HoldsEntity(Idle)
    BY DEF HoldsEntity, Idle
  <1>3. QED
    BY <1>1, <1>2, OneCallLock DEF Finishes

\* What a call reads and changes is backed with its own failure counted.
LEMMA ChangedBacked ==
  ASSUME AccountsTypeOK, LockInv, NEW c \in Requests, calls[c].user \in Accounts
  PROVE  Backed(Changed(users[calls[c].user], calls[c]),
                Counted(calls[c].user, CountedBy(c)), left[calls[c].user], time)
  <1> DEFINE u == calls[c].user
             row == users[u]
             n == Counted(u, CountedBy(c))
             lock == left[u]
  <1>1. row \in Rows /\ time \in Nat /\ failed[u] \in Nat
    BY DEF AccountsTypeOK
  <1>2. Backed(row, n, lock, time) /\ Backed(row, failed[u], lock, time)
    BY RowsStayBacked DEF LockInv
  <1>3. CASE calls[c].kind = "failed"
    <2>1. n = failed[u] + 1
      BY <1>3 DEF Counted, CountedBy
    <2>2. /\ AfterFailure(row).failedLoginAttempts = row.failedLoginAttempts + 1
          /\ row.failedLoginAttempts + 1 >= MaxAttempts
             \/ AfterFailure(row).lockedUntil = row.lockedUntil
      BY <1>1 DEF AfterFailure, Rows
    <2>3. row.failedLoginAttempts \in Nat /\ MaxAttempts \in Nat
      BY <1>1, UserAccountsAssumption DEF Rows
    <2> HIDE DEF u, row, n, lock
    <2>4. Backed(AfterFailure(row), n, lock, time)
      BY <1>1, <1>2, <2>1, <2>2, <2>3 DEF Backed
    <2>5. QED
      BY <1>3, <2>4 DEF Changed, u, row, n, lock
  <1>4. CASE calls[c].kind = "unlock"
    <2>1. Changed(row, calls[c]) = [row EXCEPT !.failedLoginAttempts = 0, !.lockedUntil = Undefined]
      BY <1>4 DEF Changed
    <2>2. /\ Changed(row, calls[c]).failedLoginAttempts = 0
          /\ Changed(row, calls[c]).lockedUntil = -2
      BY <1>1, <2>1 DEF Rows, Undefined
    <2>3. n \in Nat
      BY <1>1 DEF Counted
    <2> HIDE DEF u, row, n, lock
    <2>4. QED
      BY <1>1, <2>2, <2>3 DEF Backed, u, row, n, lock
  <1>5. CASE calls[c].kind = "change"
    <2>1. Changed(row, calls[c]) = WithChange(row, calls[c].change)
      BY <1>5 DEF Changed
    <2>2. /\ WithChange(row, calls[c].change).failedLoginAttempts = row.failedLoginAttempts
          /\ WithChange(row, calls[c].change).lockedUntil = row.lockedUntil
      BY <1>1 DEF WithChange, Rows
    <2>3. QED
      BY <1>2, <2>1, <2>2 DEF Backed
  <1>6. CASE calls[c].kind \notin {"failed", "unlock", "change"}
    BY <1>2, <1>6 DEF Changed
  <1>7. QED
    BY <1>3, <1>4, <1>5, <1>6

LEMMA LoginBacked ==
  ASSUME AccountsTypeOK, LockInv, NEW c \in Requests, calls[c].user \in Accounts
  PROVE  Backed(LoginRow(c), failed[calls[c].user], left[calls[c].user], time)
  <1> DEFINE u == calls[c].user
  <1>1. users[u] \in Rows /\ time \in Nat /\ failed[u] \in Nat /\ Backed(users[u], failed[u], left[u], time)
    BY DEF AccountsTypeOK, LockInv
  <1>2. /\ LoginRow(c).failedLoginAttempts \in {0, users[u].failedLoginAttempts}
        /\ LoginRow(c).lockedUntil \in {-1, users[u].lockedUntil}
    BY <1>1 DEF LoginRow, LoggedIn, Rows, NoLock
  <1> HIDE DEF u
  <1>3. QED
    BY <1>1, <1>2 DEF Backed, u

LEMMA UpdateBacked ==
  ASSUME AccountsTypeOK, LockInv, NEW c \in Requests, calls[c].user \in Accounts, calls[c].step = "update"
  PROVE  Backed(UpdatedRow(c), failed[calls[c].user], left[calls[c].user], time)
  <1> DEFINE u == calls[c].user
  <1>1. Backed(users[u], failed[u], left[u], time) /\ Backed(calls[c].entity, failed[u], left[u], time)
    BY DEF LockInv, HoldsEntity
  <1>2. /\ UpdatedRow(c).failedLoginAttempts \in
             {calls[c].entity.failedLoginAttempts, users[u].failedLoginAttempts}
        /\ UpdatedRow(c).lockedUntil \in {calls[c].entity.lockedUntil, users[u].lockedUntil}
    BY DEF UpdatedRow, Saved
  <1> HIDE DEF u
  <1>3. QED
    BY <1>1, <1>2 DEF Backed, u

LEMMA InsertBacked ==
  ASSUME AccountsTypeOK, LockInv, NEW c \in Requests, calls[c].user \in Accounts, calls[c].step = "insert"
  PROVE  Backed(InsertedRow(c), failed[calls[c].user], left[calls[c].user], time)
  <1> DEFINE u == calls[c].user
  <1>1. Backed(users[u], failed[u], left[u], time) /\ Backed(calls[c].entity, failed[u], left[u], time)
    BY DEF LockInv, HoldsEntity
  <1>2. calls[c].entity \in Entities /\ time \in Nat
    BY DEF AccountsTypeOK
  <1>3. /\ Inserted(calls[c].entity).failedLoginAttempts = calls[c].entity.failedLoginAttempts
        /\ Inserted(calls[c].entity).lockedUntil \in {-1, calls[c].entity.lockedUntil}
    BY <1>2 DEF Inserted, Entities, NoLock
  <1> HIDE DEF u
  <1>4. Backed(Inserted(calls[c].entity), failed[u], left[u], time)
    BY <1>1, <1>2, <1>3 DEF Backed
  <1>5. QED
    BY <1>1, <1>4 DEF InsertedRow, u

LEMMA AbsentBacked ==
  ASSUME AccountsTypeOK, NEW u \in Accounts
  PROVE  Backed(Absent, failed[u], left[u], time)
  <1>1. Absent.failedLoginAttempts = 0 /\ Absent.lockedUntil = -1
    BY DEF Absent, NoLock
  <1>2. QED
    BY <1>1 DEF Backed, AccountsTypeOK

LEMMA InitLock == AccountsInit => LockInv
  <1> SUFFICES ASSUME AccountsInit PROVE LockInv
    OBVIOUS
  <1>1. Absent.failedLoginAttempts = 0 /\ Absent.lockedUntil = -1
    BY DEF Absent, NoLock
  <1>2. \A u \in Accounts : Backed(users[u], failed[u], left[u], time)
    BY <1>1 DEF AccountsInit, Backed
  <1>3. \A c \in Requests : ~HoldsEntity(calls[c])
    BY DEF AccountsInit, HoldsEntity, Idle
  <1>4. QED
    BY <1>2, <1>3 DEF LockInv

LEMMA StartLock ==
  ASSUME AccountsTypeOK, AccountsTypeOK', LockInv, NEW c \in Requests, NEW u \in Accounts,
         NEW step \in {"compare", "record", "find"}, NEW kind, NEW change,
         Start(c, u, step, kind, change)
  PROVE  LockInv'
  <1> DEFINE call == [Idle EXCEPT !.step = step, !.user = u, !.kind = kind, !.change = change]
  <1>1. ~HoldsEntity(call)
    BY DEF HoldsEntity, Idle
  <1> HIDE DEF call
  <1>2. calls' = [calls EXCEPT ![c] = call] /\ users' = users /\ time' = time /\ Count({})
    BY DEF Start, call
  <1>3. \A v \in Accounts : Backed(users'[v], Counted(v, {}), left[v], time)
    BY <1>2, RowsStayBacked
  <1>4. QED
    BY <1>1, <1>2, <1>3, OneCallLock

\* Steps of no call: an account is created, time goes on.
LEMMA NoCallLock ==
  ASSUME AccountsTypeOK, AccountsTypeOK', LockInv, Count({}), calls' = calls, time <= time',
         \A u \in Accounts : Backed(users'[u], failed[u], left[u], time')
  PROVE  LockInv'
  <1>0. ASSUME NEW u \in Accounts PROVE Counted(u, {}) = failed[u]
    BY DEF Counted
  <1>1. \A u \in Accounts : Backed(users'[u], failed'[u], left'[u], time')
    BY <1>0, CountBacked
  <1>2. ASSUME NEW c \in Requests, HoldsEntity(calls'[c])
        PROVE  Backed(calls'[c].entity, failed'[calls'[c].user], left'[calls'[c].user], time')
    <2>1. calls'[c] = calls[c] /\ calls[c].step # "idle"
      BY <1>2 DEF HoldsEntity
    <2>2. PICK u \in Accounts : u = calls[c].user
      BY <2>1, CallFields
    <2>3. calls[c].entity \in Entities /\ Backed(calls[c].entity, failed[u], left[u], time)
      BY <1>2, <2>1, <2>2 DEF HoldsEntity, AccountsTypeOK, LockInv
    <2>4. failed[u] \in Nat /\ time \in Nat /\ time' \in Nat
      BY DEF AccountsTypeOK
    <2>5. Backed(calls[c].entity, failed[u], left[u], time')
      BY <2>3, <2>4, EntityFields, BackedLonger
    <2>6. QED
      BY <1>0, <2>1, <2>2, <2>5, CountEntity
  <1>3. QED
    BY <1>1, <1>2 DEF LockInv

LEMMA NextLock == AccountsTypeOK /\ AccountsTypeOK' /\ LockInv /\ [AccountsNext]_accountVars => LockInv'
  <1> SUFFICES ASSUME AccountsTypeOK, AccountsTypeOK', LockInv, [AccountsNext]_accountVars PROVE LockInv'
    OBVIOUS
  <1>1. ASSUME NEW u \in Accounts, NEW role \in Roles, CreateUser(u, role) PROVE LockInv'
    <2>1. NewUser(role).failedLoginAttempts = 0 /\ NewUser(role).lockedUntil = -1
      BY DEF NewUser, NoLock
    <2>2. ASSUME NEW v \in Accounts PROVE Backed(users'[v], failed[v], left[v], time)
      <3>1. users'[v] \in {users[v], NewUser(role)}
        BY <1>1 DEF CreateUser, AccountsTypeOK
      <3>2. Backed(NewUser(role), failed[v], left[v], time)
        BY <2>1 DEF Backed, AccountsTypeOK
      <3>3. QED
        BY <3>1, <3>2 DEF LockInv
    <2>3. time' = time /\ time \in Nat /\ calls' = calls /\ Count({})
      BY <1>1 DEF CreateUser, AccountsTypeOK
    <2>4. time <= time'
      BY <2>3
    <2>5. QED
      BY <2>2, <2>3, <2>4, NoCallLock
  <1>2. ASSUME NEW c \in Requests, NEW u \in Accounts, Begin(c, u) PROVE LockInv'
    BY <1>2, BeginStarts, StartLock
  <1>3. ASSUME NEW c \in Requests, Continue(c) PROVE LockInv'
    <2>0. ~HoldsEntity(Idle)
      BY DEF HoldsEntity, Idle
    <2>1. CASE ComparePassword(c)
      <3>1. PICK step \in {"record", "find"}, kind \in {calls[c].kind, "failed"} :
              /\ Moves(c, Compared(c, step, kind), {})
              /\ Compared(c, step, kind).step = step
        BY <2>1, CompareMoves
      <3>2. ~HoldsEntity(Compared(c, step, kind))
        BY <3>1 DEF HoldsEntity
      <3>3. QED
        BY <3>1, <3>2, MovesLock
    <2>2. CASE FinishLogin(c)
      <3>1. calls[c].user \in Accounts
        BY <2>2, CallFields DEF FinishLogin
      <3>2. QED
        BY <2>2, <3>1, LoginFinishes, LoginBacked, FinishesLock
    <2>3. CASE FindById(c)
      <3>1. calls[c].user \in Accounts
        BY <2>3, CallFields DEF FindById
      <3>2. CASE Moves(c, Idle, CountedBy(c))
        BY <2>0, <3>2, MovesLock
      <3>3. CASE /\ Moves(c, FoundCall(c), CountedBy(c))
                 /\ FoundCall(c).user = calls[c].user
                 /\ FoundCall(c).entity = Changed(users[calls[c].user], calls[c])
        <4>1. Backed(FoundCall(c).entity, Counted(FoundCall(c).user, CountedBy(c)),
                       left[FoundCall(c).user], time)
          BY <3>1, <3>3, ChangedBacked
        <4>2. QED
          BY <3>3, <4>1, MovesLock
      <3>4. QED
        BY <2>3, <3>2, <3>3, FindMoves
    <2>4. CASE LoadForSave(c)
      <3>1. /\ Moves(c, LoadedCall(c), {}) /\ LoadedCall(c).user = calls[c].user
            /\ LoadedCall(c).entity = calls[c].entity
        BY <2>4, LoadMoves
      <3>2. Backed(calls[c].entity, failed[calls[c].user], left[calls[c].user], time)
        BY <2>4 DEF LockInv, LoadForSave, HoldsEntity
      <3>3. QED
        BY <3>1, <3>2, MovesLock DEF Counted
    <2>5. CASE UpdateRow(c)
      <3>1. calls[c].user \in Accounts /\ calls[c].step = "update"
        BY <2>5, CallFields DEF UpdateRow
      <3>2. QED
        BY <2>5, <3>1, UpdateFinishes, UpdateBacked, FinishesLock
    <2>6. CASE InsertRow(c)
      <3>1. calls[c].user \in Accounts /\ calls[c].step = "insert"
        BY <2>6, CallFields DEF InsertRow
      <3>2. QED
        BY <2>6, <3>1, InsertFinishes, InsertBacked, FinishesLock
    <2>7. CASE RemoveRow(c)
      <3>1. calls[c].user \in Accounts
        BY <2>7, CallFields DEF RemoveRow
      <3>2. QED
        BY <2>7, <3>1, RemoveFinishes, AbsentBacked, FinishesLock
    <2>8. CASE Fail(c)
      BY <2>0, <2>8, FailMoves, MovesLock
    <2>9. QED
      BY <1>3, <2>1, <2>2, <2>3, <2>4, <2>5, <2>6, <2>7, <2>8 DEF Continue
  <1>4. CASE TimePasses
    <2>1. time' = time + 1 /\ time \in Nat /\ calls' = calls /\ users' = users /\ Count({})
      BY <1>4 DEF TimePasses, AccountsTypeOK
    <2>2. ASSUME NEW u \in Accounts PROVE Backed(users'[u], failed[u], left[u], time')
      <3>1. users[u].failedLoginAttempts \in Nat /\ users[u].lockedUntil \in Int
        BY EntityFields DEF AccountsTypeOK
      <3>2. failed[u] \in Nat /\ Backed(users[u], failed[u], left[u], time)
        BY DEF AccountsTypeOK, LockInv
      <3>3. QED
        BY <2>1, <3>1, <3>2, BackedLonger
    <2>3. time <= time'
      BY <2>1
    <2>4. QED
      BY <2>1, <2>2, <2>3, NoCallLock
  <1>5. CASE UNCHANGED accountVars
    BY <1>5 DEF accountVars, LockInv
  <1>6. QED
    BY <1>1, <1>2, <1>3, <1>4, <1>5 DEF AccountsNext

\* An account is locked only after MaxAttempts failed logins since it was last at
\* rest with none counted, or by the lock that unlockUser or a login had left in
\* force then, for any requests, interleaving and failure.
THEOREM LockHolds == AccountsSpec => []LockIsEarned
  BY InitType, NextType, InitLock, NextLock, LockInvEarned, PTL DEF AccountsSpec

-----------------------------------------------------------------------------
(* Decisions.  While a decision stands, the calls under way for its account are *)
(* none that decide, and what they have read agrees with it.                    *)

Decides(call) == call.kind \in {"change", "delete"}

DecisionInv ==
  /\ decided = [u \in Accounts |-> decided[u]]
  /\ DecisionsSettle
  /\ \A u \in Accounts : Deciding(u) => decided[u] = Unsettled
  /\ \A c \in Requests : \A u \in Accounts :
       HoldsEntity(calls[c]) /\ calls[c].user = u /\ decided[u] # Unsettled =>
         DecisionOf(calls[c].entity) = decided[u]
  /\ \A c \in Requests : calls[c].step = "remove" => Decides(calls[c])

\* A settled decision is kept by a step that does not decide.
LEMMA SettledStays ==
  ASSUME NEW u \in Accounts, Record, decided'[u] # Unsettled
  PROVE  /\ ~Deciding(u)'
         /\ \/ decided'[u] = decided[u] /\ decided[u] # Unsettled
            \/ AtRest(u)' /\ decided'[u] = DecisionOf(users'[u])
  BY DEF Record

\* One call steps: it is enough that it leaves settled accounts as they are and
\* holds, for them, what was decided.
LEMMA OneCallDecision ==
  ASSUME AccountsTypeOK, DecisionInv, NEW c \in Requests, NEW call,
         calls' = [calls EXCEPT ![c] = call], Record,
         \A u \in Accounts : decided[u] # Unsettled => DecisionOf(users'[u]) = DecisionOf(users[u]),
         \A u \in Accounts :
           HoldsEntity(call) /\ call.user = u /\ decided[u] # Unsettled /\ ~Decides(call) =>
             DecisionOf(call.entity) = decided[u],
         call.step = "remove" => Decides(call)
  PROVE  DecisionInv'
  <1>1. \A d \in Requests : calls'[d] = IF d = c THEN call ELSE calls[d]
    BY DEF AccountsTypeOK
  <1>2. decided' = [u \in Accounts |-> decided'[u]]
    BY DEF Record
  <1>3. ASSUME NEW u \in Accounts, decided'[u] # Unsettled
        PROVE  DecisionOf(users'[u]) = decided'[u]
    BY <1>3, SettledStays DEF DecisionInv, DecisionsSettle
  <1>4. ASSUME NEW u \in Accounts, Deciding(u)' PROVE decided'[u] = Unsettled
    BY <1>4 DEF Record
  <1>5. ASSUME NEW d \in Requests, NEW u \in Accounts, HoldsEntity(calls'[d]),
               calls'[d].user = u, decided'[u] # Unsettled
        PROVE  DecisionOf(calls'[d].entity) = decided'[u]
    <2>1. ~AtRest(u)'
      BY <1>5 DEF AtRest
    <2>2. decided'[u] = decided[u] /\ decided[u] # Unsettled /\ ~Deciding(u)'
      BY <1>5, <2>1, SettledStays
    <2>3. ~Decides(calls'[d])
      BY <1>5, <2>2 DEF Deciding, Decides
    <2>4. CASE d = c
      BY <1>1, <1>5, <2>2, <2>3, <2>4
    <2>5. CASE d # c
      BY <1>1, <1>5, <2>2, <2>5 DEF DecisionInv
    <2>6. QED
      BY <2>4, <2>5
  <1>6. ASSUME NEW d \in Requests, calls'[d].step = "remove" PROVE Decides(calls'[d])
    BY <1>1, <1>6 DEF DecisionInv
  <1>7. QED
    BY <1>2, <1>3, <1>4, <1>5, <1>6 DEF DecisionInv, DecisionsSettle

LEMMA MovesDecision ==
  ASSUME AccountsTypeOK, DecisionInv, NEW c \in Requests, NEW call, NEW counted,
         Moves(c, call, counted),
         \A u \in Accounts :
           HoldsEntity(call) /\ call.user = u /\ decided[u] # Unsettled /\ ~Decides(call) =>
             DecisionOf(call.entity) = decided[u],
         call.step = "remove" => Decides(call)
  PROVE  DecisionInv'
  BY OneCallDecision DEF Moves

LEMMA FinishesDecision ==
  ASSUME AccountsTypeOK, DecisionInv, NEW c \in Requests, NEW row \in Rows, Finishes(c, row),
         calls[c].user \in Accounts,
         decided[calls[c].user] # Unsettled => DecisionOf(row) = DecisionOf(users[calls[c].user])
  PROVE  DecisionInv'
  <1>1. ASSUME NEW u \in Accounts, decided[u] # Unsettled
        PROVE  DecisionOf(users'[u]) = DecisionOf(users[u])
    <2>1. users'[u] = IF u = calls[c].user THEN row ELSE users[u]
      BY DEF Finishes, AccountsTypeOK
    <2>2. QED
      BY <1>1, <2>1
  <1>2. ~HoldsEntity(Idle) /\ Idle.step # "remove"
    BY DEF HoldsEntity, Idle
  <1>3. QED
    BY <1>1, <1>2, OneCallDecision DEF Finishes

\* A call that decides is under way only while nothing is settled.
LEMMA DecidingUnsettled ==
  ASSUME DecisionInv, NEW c \in Requests, calls[c].user \in Accounts, Decides(calls[c])
  PROVE  decided[calls[c].user] = Unsettled
  <1>1. PICK u \in Accounts : u = calls[c].user
    OBVIOUS
  <1>2. Deciding(u)
    BY <1>1 DEF Deciding, Decides
  <1>3. QED
    BY <1>1, <1>2 DEF DecisionInv

LEMMA ChangedDecision ==
  ASSUME NEW row \in Rows, NEW call, ~Decides(call)
  PROVE  DecisionOf(Changed(row, call)) = DecisionOf(row)
  <1>1. DecisionOf(AfterFailure(row)) = DecisionOf(row)
    BY DEF DecisionOf, AfterFailure, Rows
  <1>2. DecisionOf([row EXCEPT !.failedLoginAttempts = 0, !.lockedUntil = Undefined]) = DecisionOf(row)
    BY DEF DecisionOf, Rows
  <1>3. QED
    BY <1>1, <1>2 DEF Changed, Decides

LEMMA UpdatedDecision ==
  ASSUME DecisionInv, NEW c \in Requests, calls[c].user \in Accounts,
         calls[c].step = "update", decided[calls[c].user] # Unsettled
  PROVE  DecisionOf(UpdatedRow(c)) = DecisionOf(users[calls[c].user])
  <1>1. DecisionOf(calls[c].entity) = DecisionOf(users[calls[c].user])
    BY DEF DecisionInv, DecisionsSettle, HoldsEntity
  <1>2. /\ calls[c].entity.role = users[calls[c].user].role
        /\ calls[c].entity.isActive = users[calls[c].user].isActive
    BY <1>1 DEF DecisionOf
  <1>3. QED
    BY <1>2 DEF UpdatedRow, Saved, DecisionOf

\* An entity about to be inserted has an account, and so has the decision.
LEMMA InsertedDecision ==
  ASSUME AccountsTypeOK, DecisionInv, NEW c \in Requests, calls[c].user \in Accounts,
         calls[c].step = "insert", decided[calls[c].user] # Unsettled
  PROVE  DecisionOf(InsertedRow(c)) = DecisionOf(users[calls[c].user])
  <1>1. DecisionOf(calls[c].entity) = DecisionOf(users[calls[c].user])
    BY DEF DecisionInv, DecisionsSettle, HoldsEntity
  <1>2. calls[c].entity.role = users[calls[c].user].role
    BY <1>1 DEF DecisionOf
  <1>3. calls[c].entity.role \in Roles
    BY DEF AccountsTypeOK, Entities
  <1>4. HasRow(calls[c].user)
    BY <1>2, <1>3, UserAccountsAssumption DEF HasRow
  <1>5. QED
    BY <1>4 DEF InsertedRow

LEMMA LoginDecision ==
  ASSUME AccountsTypeOK, NEW c \in Requests, calls[c].user \in Accounts
  PROVE  DecisionOf(LoginRow(c)) = DecisionOf(users[calls[c].user])
  <1>1. users[calls[c].user] \in Rows
    BY DEF AccountsTypeOK
  <1>2. QED
    BY <1>1 DEF LoginRow, LoggedIn, DecisionOf, Rows

LEMMA StartDecision ==
  ASSUME AccountsTypeOK, DecisionInv, NEW c \in Requests, NEW u \in Accounts,
         NEW step \in {"compare", "record", "find"}, NEW kind, NEW change,
         Start(c, u, step, kind, change)
  PROVE  DecisionInv'
  <1> DEFINE call == [Idle EXCEPT !.step = step, !.user = u, !.kind = kind, !.change = change]
  <1>1. ~HoldsEntity(call) /\ call.step # "remove"
    BY DEF HoldsEntity, Idle
  <1> HIDE DEF call
  <1>2. calls' = [calls EXCEPT ![c] = call] /\ users' = users /\ Record
    BY DEF Start, call
  <1>3. QED
    BY <1>1, <1>2, OneCallDecision

LEMMA InitDecision == AccountsInit => DecisionInv
  <1> SUFFICES ASSUME AccountsInit PROVE DecisionInv
    OBVIOUS
  <1>1. decided = [u \in Accounts |-> decided[u]] /\ DecisionsSettle
    BY DEF AccountsInit, DecisionsSettle
  <1>2. \A c \in Requests : ~HoldsEntity(calls[c]) /\ calls[c].step # "remove" /\ ~Decides(calls[c])
    BY DEF AccountsInit, HoldsEntity, Idle, Decides
  <1>3. \A u \in Accounts : ~Deciding(u)
    BY <1>2 DEF Deciding, Decides
  <1>4. QED
    BY <1>1, <1>2, <1>3 DEF DecisionInv

\* Steps of no call, in which decisions are recorded.
LEMMA TickDecision ==
  ASSUME AccountsTypeOK, DecisionInv, calls' = calls, users' = users, Record
  PROVE  DecisionInv'
  <1>1. decided' = [u \in Accounts |-> decided'[u]]
    BY DEF Record
  <1>2. ASSUME NEW u \in Accounts, decided'[u] # Unsettled
        PROVE  DecisionOf(users'[u]) = decided'[u]
    BY <1>2, SettledStays DEF DecisionInv, DecisionsSettle
  <1>3. ASSUME NEW u \in Accounts, Deciding(u)' PROVE decided'[u] = Unsettled
    BY <1>3 DEF Record
  <1>4. ASSUME NEW c \in Requests, NEW u \in Accounts, HoldsEntity(calls'[c]),
               calls'[c].user = u, decided'[u] # Unsettled
        PROVE  DecisionOf(calls'[c].entity) = decided'[u]
    <2>1. ~AtRest(u)'
      BY <1>4 DEF AtRest
    <2>2. decided'[u] = decided[u] /\ decided[u] # Unsettled
      BY <1>4, <2>1, SettledStays
    <2>3. QED
      BY <1>4, <2>2 DEF DecisionInv
  <1>5. QED
    BY <1>1, <1>2, <1>3, <1>4 DEF DecisionInv, DecisionsSettle

\* No call under way is for an account that is only now created.
LEMMA CreateDecision ==
  ASSUME AccountsTypeOK, DecisionInv, NEW u \in Accounts, NEW role \in Roles, CreateUser(u, role)
  PROVE  DecisionInv'
  <1>1. calls' = calls /\ u \notin created
    BY DEF CreateUser
  <1>2. \A v \in Accounts : /\ users'[v] = IF v = u THEN NewUser(role) ELSE users[v]
                         /\ decided'[v] = IF v = u THEN DecisionOf(NewUser(role)) ELSE decided[v]
    BY DEF CreateUser, AccountsTypeOK, DecisionInv
  <1>3. \A c \in Requests : calls[c].user # u
    <2>1. ASSUME NEW c \in Requests PROVE calls[c].user # u
      <3>1. CASE calls[c].step = "idle"
        BY <3>1, UserAccountsAssumption DEF AccountsTypeOK, Idle
      <3>2. CASE calls[c].step # "idle"
        BY <1>1, <3>2 DEF AccountsTypeOK
      <3>3. QED
        BY <3>1, <3>2
    <2>2. QED
      BY <2>1
  <1>4. decided' = [v \in Accounts |-> decided'[v]]
    BY DEF CreateUser, DecisionInv
  <1>5. DecisionsSettle'
    BY <1>2 DEF DecisionsSettle, DecisionInv
  <1>6. ASSUME NEW v \in Accounts, Deciding(v)' PROVE decided'[v] = Unsettled
    <2>1. Deciding(v) /\ v # u
      BY <1>1, <1>3, <1>6 DEF Deciding
    <2>2. QED
      BY <1>2, <2>1 DEF DecisionInv
  <1>7. ASSUME NEW c \in Requests, NEW v \in Accounts, HoldsEntity(calls'[c]),
               calls'[c].user = v, decided'[v] # Unsettled
        PROVE  DecisionOf(calls'[c].entity) = decided'[v]
    BY <1>1, <1>2, <1>3, <1>7 DEF DecisionInv
  <1>8. \A c \in Requests : calls'[c].step = "remove" => Decides(calls'[c])
    BY <1>1 DEF DecisionInv
  <1>9. QED
    BY <1>4, <1>5, <1>6, <1>7, <1>8 DEF DecisionInv

LEMMA NextDecision == AccountsTypeOK /\ DecisionInv /\ [AccountsNext]_accountVars => DecisionInv'
  <1> SUFFICES ASSUME AccountsTypeOK, DecisionInv, [AccountsNext]_accountVars PROVE DecisionInv'
    OBVIOUS
  <1>1. ASSUME NEW u \in Accounts, NEW role \in Roles, CreateUser(u, role) PROVE DecisionInv'
    BY <1>1, CreateDecision
  <1>2. ASSUME NEW c \in Requests, NEW u \in Accounts, Begin(c, u) PROVE DecisionInv'
    BY <1>2, BeginStarts, StartDecision
  <1>3. ASSUME NEW c \in Requests, Continue(c) PROVE DecisionInv'
    <2>0. ~HoldsEntity(Idle) /\ Idle.step # "remove"
      BY DEF HoldsEntity, Idle
    <2>1. CASE ComparePassword(c)
      <3>1. PICK step \in {"record", "find"}, kind \in {calls[c].kind, "failed"} :
              /\ Moves(c, Compared(c, step, kind), {})
              /\ Compared(c, step, kind).step = step
        BY <2>1, CompareMoves
      <3>2. ~HoldsEntity(Compared(c, step, kind)) /\ Compared(c, step, kind).step # "remove"
        BY <3>1 DEF HoldsEntity
      <3>3. QED
        BY <3>1, <3>2, MovesDecision
    <2>2. CASE FinishLogin(c)
      <3>1. calls[c].user \in Accounts
        BY <2>2, CallFields DEF FinishLogin
      <3>2. QED
        BY <2>2, <3>1, LoginFinishes, LoginDecision, FinishesDecision
    <2>3. CASE FindById(c)
      <3>1. calls[c].user \in Accounts
        BY <2>3, CallFields DEF FindById
      <3>2. CASE Moves(c, Idle, CountedBy(c))
        BY <2>0, <3>2, MovesDecision
      <3>3. CASE /\ Moves(c, FoundCall(c), CountedBy(c))
                 /\ FoundCall(c).user = calls[c].user
                 /\ FoundCall(c).kind = calls[c].kind
                 /\ FoundCall(c).entity = Changed(users[calls[c].user], calls[c])
                 /\ FoundCall(c).step = IF calls[c].kind = "delete" THEN "remove" ELSE "load"
        <4>1. ASSUME NEW u \in Accounts, FoundCall(c).user = u, decided[u] # Unsettled,
                     ~Decides(FoundCall(c))
              PROVE  DecisionOf(FoundCall(c).entity) = decided[u]
          <5>1. users[u] \in Rows /\ ~Decides(calls[c]) /\ u = calls[c].user
            BY <3>3, <4>1 DEF AccountsTypeOK, Decides
          <5>2. DecisionOf(Changed(users[u], calls[c])) = DecisionOf(users[u])
            BY <5>1, ChangedDecision
          <5>3. QED
            BY <3>3, <4>1, <5>1, <5>2 DEF DecisionInv, DecisionsSettle
        <4>2. FoundCall(c).step = "remove" => Decides(FoundCall(c))
          BY <3>3 DEF Decides
        <4>3. QED
          BY <3>3, <4>1, <4>2, MovesDecision
      <3>4. QED
        BY <2>3, <3>2, <3>3, FindMoves
    <2>4. CASE LoadForSave(c)
      <3>1. /\ Moves(c, LoadedCall(c), {}) /\ LoadedCall(c).user = calls[c].user
            /\ LoadedCall(c).entity = calls[c].entity
            /\ LoadedCall(c).step \in {"update", "insert"}
        BY <2>4, LoadMoves
      <3>2. \A u \in Accounts : calls[c].user = u /\ decided[u] # Unsettled =>
              DecisionOf(calls[c].entity) = decided[u]
        BY <2>4 DEF DecisionInv, LoadForSave, HoldsEntity
      <3>3. QED
        BY <3>1, <3>2, MovesDecision
    <2>5. CASE UpdateRow(c)
      <3>1. calls[c].user \in Accounts /\ calls[c].step = "update"
        BY <2>5, CallFields DEF UpdateRow
      <3>2. QED
        BY <2>5, <3>1, UpdateFinishes, UpdatedDecision, FinishesDecision
    <2>6. CASE InsertRow(c)
      <3>1. calls[c].user \in Accounts /\ calls[c].step = "insert"
        BY <2>6, CallFields DEF InsertRow
      <3>2. QED
        BY <2>6, <3>1, InsertFinishes, InsertedDecision, FinishesDecision
    <2>7. CASE RemoveRow(c)
      <3>1. calls[c].user \in Accounts /\ Decides(calls[c])
        BY <2>7, CallFields DEF RemoveRow, DecisionInv
      <3>2. decided[calls[c].user] = Unsettled
        BY <3>1, DecidingUnsettled
      <3>3. QED
        BY <2>7, <3>1, <3>2, RemoveFinishes, FinishesDecision
    <2>8. CASE Fail(c)
      BY <2>0, <2>8, FailMoves, MovesDecision
    <2>9. QED
      BY <1>3, <2>1, <2>2, <2>3, <2>4, <2>5, <2>6, <2>7, <2>8 DEF Continue
  <1>4. CASE TimePasses
    BY <1>4, TickDecision DEF TimePasses
  <1>5. CASE UNCHANGED accountVars
    BY <1>5 DEF accountVars, DecisionInv, DecisionsSettle, Deciding
  <1>6. QED
    BY <1>1, <1>2, <1>3, <1>4, <1>5 DEF AccountsNext

\* What a decision left with no call under way stays, whatever other calls save
\* afterwards, however they overlap and wherever they fail.
THEOREM DecisionsHold == AccountsSpec => []DecisionsSettle
  <1>1. DecisionInv => DecisionsSettle
    BY DEF DecisionInv
  <1>2. QED
    BY <1>1, InitType, NextType, InitDecision, NextDecision, PTL DEF AccountsSpec

=================================================================================
