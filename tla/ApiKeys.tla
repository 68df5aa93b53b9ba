--------------------------------- MODULE ApiKeys --------------------------------
(***************************************************************************)
(* The API keys of the audit module (apps/api-service/src/audit): creation, *)
(* validation by the guard, rotation, revocation and the two nightly        *)
(* sweeps, over a database table that every call reads and writes in        *)
(* separate round trips.                                                    *)
(*                                                                          *)
(* A call runs up to its next database round trip in one step; calls of     *)
(* different requests, and of the sweeps, interleave between them.  A       *)
(* repository update reads the row into an entity, changes it and saves it; *)
(* TypeORM's save reads the row again and updates the columns in which the  *)
(* entity differs.  Any round trip may fail, which ends the call there.     *)
(* Calls for a key of another merchant end at the first check and change    *)
(* nothing: they are left out.                                              *)
(***************************************************************************)
EXTENDS Integers, FiniteSets

CONSTANTS
  Keys,             \* keys that may come to exist
  Requests,         \* requests the service may handle at a time
  Expirer, Cleaner, \* the two nightly jobs
  Lifetimes,        \* what expiresInDays may say
  DefaultLifetime,  \* API_KEY_DEFAULT_EXPIRY_DAYS
  Grace,            \* API_KEY_ROTATION_GRACE_PERIOD_HOURS
  Failures,         \* whether round trips may fail
  MaxTime,          \* bound on the clock
  LastCreation,     \* bound on the time keys are created at
  MaxUses           \* bound on the validations started of a key

NoKey == "none"

ASSUME ApiKeysAssumption ==
  /\ Expirer \notin Requests /\ Cleaner \notin Requests /\ Expirer # Cleaner
  /\ Lifetimes \subseteq Nat /\ DefaultLifetime \in Nat /\ Grace \in Nat
  /\ MaxTime \in Nat /\ LastCreation \in Nat /\ MaxUses \in Nat
  /\ Failures \in BOOLEAN
  /\ NoKey \notin Keys

Calls == Requests \cup {Expirer, Cleaner}

Statuses == {"active", "rotated", "revoked", "expired"}

\* Rows of api_keys.  updatedAt gets the time of the insertion and nothing sets
\* it later: its onUpdate clause means nothing to PostgreSQL.
Rows ==
  [status : Statuses, requestCount : Nat, expiresAt : Nat, updatedAt : Nat,
   rotatedFromId : Keys \cup {NoKey}]
Absent ==
  [status |-> "absent", requestCount |-> 0, expiresAt |-> 0, updatedAt |-> 0,
   rotatedFromId |-> NoKey]

\* What a save may have to write back.
Entities == [status : Statuses \cup {"absent"}, requestCount : Nat]
NoEntity == [status |-> "absent", requestCount |-> 0]
Columns == {"status", "requestCount"}

\* The change a call is about: a use, or a new status.
Goals == {"use", "rotated", "revoked", "expired"}
Steps == {"idle", "check", "insert", "find", "load", "update", "sweep"}

VARIABLES
  apiKeys,  \* the table
  calls,    \* the calls under way: where each is, for which key and goal, with
            \* the entity it holds, the columns it found changed and the keys a
            \* sweep has left
  time,
  started,  \* uses recorded or about to be: validations that passed, per key
  rotatedAt,\* when each key was marked rotated for the first time
  settled   \* keys that have been revoked with no call for them under way

vars == <<apiKeys, calls, time, started, rotatedAt, settled>>

Idle ==
  [step |-> "idle", key |-> NoKey, goal |-> "use", entity |-> NoEntity,
   changed |-> {}, queue |-> {}]

Exists(k) == apiKeys[k].status # "absent"
IsRevoked(k) == apiKeys[k].status = "revoked"
Concerns(call, k) == call.key = k \/ k \in call.queue

-----------------------------------------------------------------------------
(* Bookkeeping of the properties, part of every step. *)

Record ==
  /\ rotatedAt' = [k \in Keys |->
       IF apiKeys'[k].status = "rotated" /\ rotatedAt[k] = -1 THEN time ELSE rotatedAt[k]]
  /\ settled' = settled \cup
       {k \in Keys : apiKeys'[k].status = "revoked" /\ \A c \in Calls : ~Concerns(calls'[c], k)}

Start(c, step, k, goal) ==
  /\ calls[c].step = "idle"
  /\ calls' = [calls EXCEPT ![c] = [Idle EXCEPT !.step = step, !.key = k, !.goal = goal]]
  /\ UNCHANGED <<apiKeys, time, started>>
  /\ Record

-----------------------------------------------------------------------------
(* Calls of the service *)

NewRow(lifetime, from) ==
  [status |-> "active", requestCount |-> 0, expiresAt |-> time + lifetime,
   updatedAt |-> time, rotatedFromId |-> from]

\* createApiKey; expiresInDays of zero means the default.
CreateApiKey(k, lifetime) ==
  /\ ~Exists(k) /\ time <= LastCreation
  /\ apiKeys' = [apiKeys EXCEPT ![k] = NewRow(lifetime, NoKey)]
  /\ UNCHANGED <<calls, time, started>>
  /\ Record

\* findActiveByKeyHash
FoundByHash(k) == apiKeys[k].status = "active"

IsExpired(k) == time > apiKeys[k].expiresAt

\* validateApiKey; a key that is not found is refused at once.
ValidateApiKey(c, k) ==
  /\ FoundByHash(k)
  /\ Start(c, "check", k, "use")

MutMayRotate(k) == Exists(k)
MayRotate(k) == Exists(k) /\ ~IsRevoked(k)

RotateApiKey(c, k) ==
  /\ MayRotate(k)
  /\ Start(c, "insert", k, "rotated")

\* ... which first inserts the new key.
Successor(k) == NewRow(DefaultLifetime, k)

InsertSuccessor(c, new) ==
  /\ calls[c].step = "insert"
  /\ ~Exists(new) /\ time <= LastCreation
  /\ apiKeys' = [apiKeys EXCEPT ![new] = Successor(calls[c].key)]
  /\ calls' = [calls EXCEPT ![c].step = "find"]
  /\ UNCHANGED <<time, started>>
  /\ Record

RevokeApiKey(c, k) ==
  /\ Exists(k) /\ ~IsRevoked(k)
  /\ Start(c, "find", k, "revoked")

-----------------------------------------------------------------------------
(* The repository's updateStatus and recordUsage *)

MutChanged(row, goal) ==
  [status |-> IF goal = "use" THEN row.status ELSE goal,
   requestCount |-> row.requestCount + 1]
Changed(row, goal) ==
  [status |-> IF goal = "use" THEN row.status ELSE goal,
   requestCount |-> row.requestCount + (IF goal = "use" THEN 1 ELSE 0)]

FindFor(c, goal) ==
  calls' = [calls EXCEPT ![c].step = "load", ![c].goal = goal,
              ![c].entity = Changed(apiKeys[calls[c].key], goal)]

\* A key that was found active may have expired by the time it is checked.
CheckExpiry(c) ==
  /\ calls[c].step = "check"
  /\ LET k == calls[c].key
     IN  \/ /\ IsExpired(k)
            /\ FindFor(c, "expired")
            /\ UNCHANGED started
         \/ /\ ~IsExpired(k) /\ started[k] < MaxUses
            /\ FindFor(c, "use")
            /\ started' = [started EXCEPT ![k] = @ + 1]
  /\ UNCHANGED <<apiKeys, time>>
  /\ Record

FindById(c) ==
  /\ calls[c].step = "find"
  /\ FindFor(c, calls[c].goal)
  /\ UNCHANGED <<apiKeys, time, started>>
  /\ Record

\* save, first half: the columns in which the entity differs from the row.
LoadForSave(c) ==
  /\ calls[c].step = "load"
  /\ calls' = [calls EXCEPT ![c].step = "update",
       ![c].changed = {f \in Columns : calls[c].entity[f] # apiKeys[calls[c].key][f]}]
  /\ UNCHANGED <<apiKeys, time, started>>
  /\ Record

\* The end of a call, or of one key of a sweep.
Finished(call) ==
  IF call.queue \ {call.key} = {} THEN Idle
  ELSE [Idle EXCEPT !.step = "sweep", !.queue = call.queue \ {call.key}]

\* save, second half.
UpdateRow(c) ==
  LET call == calls[c]
      value(f) == IF f \in call.changed THEN call.entity[f] ELSE apiKeys[call.key][f]
  IN  /\ call.step = "update"
      /\ apiKeys' = [apiKeys EXCEPT ![call.key].status = value("status"),
                                    ![call.key].requestCount = value("requestCount")]
      /\ calls' = [calls EXCEPT ![c] = Finished(call)]
      /\ UNCHANGED <<time, started>>
      /\ Record

-----------------------------------------------------------------------------
(* The nightly jobs: one query, then one update per key it found *)

MutOverdue == {k \in Keys : apiKeys[k].status = "active" /\ apiKeys[k].expiresAt > time}
Overdue == {k \in Keys : apiKeys[k].status = "active" /\ apiKeys[k].expiresAt < time}

MutPastGrace == {k \in Keys : apiKeys[k].status = "rotated" /\ apiKeys[k].updatedAt > time - Grace}
PastGrace == {k \in Keys : apiKeys[k].status = "rotated" /\ apiKeys[k].updatedAt < time - Grace}

Sweep(c, found) ==
  /\ calls[c].step = "idle"
  /\ found # {}
  /\ calls' = [calls EXCEPT ![c] = [Idle EXCEPT !.step = "sweep", !.queue = found]]
  /\ UNCHANGED <<apiKeys, time, started>>
  /\ Record

ProcessExpiredKeys == Sweep(Expirer, Overdue)
CleanupRotatedKeys == Sweep(Cleaner, PastGrace)

SweptStatus(c) == IF c = Expirer THEN "expired" ELSE "revoked"

NextOfSweep(c) ==
  /\ calls[c].step = "sweep"
  /\ \E k \in calls[c].queue :
       calls' = [calls EXCEPT ![c].step = "find", ![c].key = k, ![c].goal = SweptStatus(c)]
  /\ UNCHANGED <<apiKeys, time, started>>
  /\ Record

-----------------------------------------------------------------------------
\* A round trip fails, or the process restarts: the call ends where it is.
Fail(c) ==
  /\ Failures
  /\ calls[c].step # "idle"
  /\ calls' = [calls EXCEPT ![c] = Idle]
  /\ UNCHANGED <<apiKeys, time, started>>
  /\ Record

Tick ==
  /\ time < MaxTime
  /\ time' = time + 1
  /\ UNCHANGED <<apiKeys, calls, started>>
  /\ Record

Init ==
  /\ apiKeys = [k \in Keys |-> Absent]
  /\ calls = [c \in Calls |-> Idle]
  /\ time = 0
  /\ started = [k \in Keys |-> 0]
  /\ rotatedAt = [k \in Keys |-> -1]
  /\ settled = {}

Continue(c) ==
  \/ CheckExpiry(c)
  \/ \E new \in Keys : InsertSuccessor(c, new)
  \/ FindById(c)
  \/ LoadForSave(c)
  \/ UpdateRow(c)
  \/ NextOfSweep(c)

Next ==
  \/ \E k \in Keys, lifetime \in Lifetimes : CreateApiKey(k, lifetime)
  \/ \E c \in Requests, k \in Keys :
       ValidateApiKey(c, k) \/ RotateApiKey(c, k) \/ RevokeApiKey(c, k)
  \/ ProcessExpiredKeys
  \/ CleanupRotatedKeys
  \/ \E c \in Calls : Continue(c) \/ Fail(c)
  \/ Tick

Spec == Init /\ [][Next]_vars

\* The clock goes on, both jobs run every night and their queries are answered.
Fairness ==
  /\ WF_vars(Tick)
  /\ WF_vars(ProcessExpiredKeys) /\ WF_vars(Continue(Expirer))
  /\ WF_vars(CleanupRotatedKeys) /\ WF_vars(Continue(Cleaner))

FairSpec == Spec /\ Fairness

-----------------------------------------------------------------------------
(* Properties *)

CallStates ==
  [step : Steps, key : Keys \cup {NoKey}, goal : Goals, entity : Entities,
   changed : SUBSET Columns, queue : SUBSET Keys]

\* Type invariant; calls that are past their start have a key that exists, and
\* what they are about to save is a status a key can have.
TypeOK ==
  /\ apiKeys \in [Keys -> Rows \cup {Absent}]
  /\ calls \in [Calls -> CallStates]
  /\ time \in Nat
  /\ started \in [Keys -> Nat]
  /\ rotatedAt \in [Keys -> Int]
  /\ settled \subseteq Keys
  /\ \A c \in Calls :
       /\ calls[c].step \notin {"idle", "sweep"} => calls[c].key \in Keys /\ Exists(calls[c].key)
       /\ calls[c].step \in {"load", "update"} => calls[c].entity.status \in Statuses
       /\ \A k \in calls[c].queue : Exists(k)

\* revokeApiKey and the clean-up: once a key is revoked and no call that began
\* before is under way for it, no sequence of later calls (validation, rotation,
\* sweeps, with their stale entities) makes it anything but revoked.
RevocationSettles == \A k \in settled : IsRevoked(k)

\* rotateApiKey inserts the new key before it touches the old one: whatever
\* fails in between, a key is never retired by a rotation that left no successor.
RotatedHasSuccessor ==
  \A k \in Keys :
    rotatedAt[k] # -1 => \E new \in Keys : Exists(new) /\ apiKeys[new].rotatedFromId = k

\* recordUsage: overlapping saves may lose uses but never invent one.
UsesAreReal == \A k \in Keys : apiKeys[k].requestCount <= started[k]

\* What rows say of rotations and uses has happened, whatever stale entities are saved over
\* them (rotateApiKey, recordUsage).
RowsAreBacked == RotatedHasSuccessor /\ UsesAreReal

\* A key that the service has reported revoked stays revoked.
RevokedStaysRevoked == [][\A k \in Keys : IsRevoked(k) => IsRevoked(k)']_vars

\* The nightly jobs: no key stays active for ever after its expiry, and none
\* stays rotated for ever.
ExpiredKeysAreRetired ==
  \A k \in Keys :
    (apiKeys[k].status = "active" /\ IsExpired(k)) ~> apiKeys[k].status # "active"
RotatedKeysAreRevoked ==
  \A k \in Keys : apiKeys[k].status = "rotated" ~> apiKeys[k].status # "rotated"

================================================================================
