----------------------------- MODULE ApiKeysProofs ------------------------------
(* Theorems about ApiKeys: type correctness, the finality of revocation, and   *)
(* what rotation and the usage count guarantee under interleaving and failure. *)
EXTENDS ApiKeys, TLAPS

USE DEF Calls

LEMMA RowFields ==
  ASSUME TypeOK, NEW k \in Keys
  PROVE  /\ apiKeys[k] \in Rows \cup {Absent}
         /\ Exists(k) => apiKeys[k] \in Rows /\ apiKeys[k].status \in Statuses
         /\ apiKeys[k].requestCount \in Nat
  BY DEF TypeOK, Exists, Rows, Absent, Statuses

LEMMA CallFields ==
  ASSUME TypeOK, NEW c \in Calls
  PROVE  /\ calls[c] \in CallStates
         /\ calls[c].step \in Steps /\ calls[c].goal \in Goals
         /\ calls[c].entity \in Entities /\ calls[c].changed \subseteq Columns
         /\ calls[c].queue \subseteq Keys
  BY DEF TypeOK, CallStates

LEMMA IdleType == Idle \in CallStates
  BY DEF Idle, CallStates, NoEntity, Entities, Steps, Goals

\* What a read of a row leaves in the entity.
LEMMA ChangedType ==
  ASSUME NEW row \in Rows, NEW goal \in Goals
  PROVE  Changed(row, goal) \in Entities /\ Changed(row, goal).status \in Statuses
  BY DEF Changed, Rows, Goals, Entities, Statuses

\* What every step leaves alone or brings about, whatever call makes it.
LEMMA RecordType ==
  ASSUME TypeOK, Record
  PROVE  rotatedAt' \in [Keys -> Int] /\ settled' \subseteq Keys
  BY DEF TypeOK, Record

-----------------------------------------------------------------------------
(* Every step, seen from the table: it leaves it alone, inserts a row where    *)
(* there was none, or saves status and count of the key of a call that is at   *)
(* its update.                                                                 *)

Inserts(k) ==
  /\ ~Exists(k)
  /\ \E row \in Rows :
       /\ row.status = "active" /\ row.requestCount = 0
       /\ apiKeys' = [apiKeys EXCEPT ![k] = row]

Saves(c) ==
  LET k == calls[c].key
  IN  /\ calls[c].step = "update" /\ k \in Keys /\ Exists(k)
      /\ \E s \in Statuses, n \in Nat :
           /\ s \in {calls[c].entity.status, apiKeys[k].status}
           /\ n \in {calls[c].entity.requestCount, apiKeys[k].requestCount}
           /\ apiKeys' = [apiKeys EXCEPT ![k].status = s, ![k].requestCount = n]

LEMMA NewRowType ==
  ASSUME TypeOK, NEW lifetime \in Nat, NEW from \in Keys \cup {NoKey}
  PROVE  /\ NewRow(lifetime, from) \in Rows
         /\ NewRow(lifetime, from).status = "active"
         /\ NewRow(lifetime, from).requestCount = 0
  BY DEF TypeOK, NewRow, Rows, Statuses

LEMMA CreateInserts ==
  ASSUME TypeOK, NEW k \in Keys, NEW lifetime \in Lifetimes, CreateApiKey(k, lifetime)
  PROVE  Inserts(k)
  <1>1. NewRow(lifetime, NoKey) \in Rows
    BY ApiKeysAssumption, NewRowType
  <1>2. NewRow(lifetime, NoKey).status = "active" /\ NewRow(lifetime, NoKey).requestCount = 0
    BY DEF NewRow
  <1>3. QED
    BY <1>1, <1>2 DEF CreateApiKey, Inserts

LEMMA SuccessorInserts ==
  ASSUME TypeOK, NEW c \in Calls, NEW new \in Keys, InsertSuccessor(c, new)
  PROVE  Inserts(new)
  <1>1. calls[c].key \in Keys
    BY DEF TypeOK, InsertSuccessor
  <1>2. NewRow(DefaultLifetime, calls[c].key) \in Rows
    BY <1>1, ApiKeysAssumption, NewRowType
  <1>3. /\ NewRow(DefaultLifetime, calls[c].key).status = "active"
        /\ NewRow(DefaultLifetime, calls[c].key).requestCount = 0
    BY DEF NewRow
  <1>4. QED
    BY <1>2, <1>3 DEF InsertSuccessor, Successor, Inserts

LEMMA UpdateSaves ==
  ASSUME TypeOK, NEW c \in Calls, UpdateRow(c)
  PROVE  Saves(c)
  <1> DEFINE call == calls[c]
             s == IF "status" \in call.changed THEN call.entity.status
                  ELSE apiKeys[call.key].status
             n == IF "requestCount" \in call.changed THEN call.entity.requestCount
                  ELSE apiKeys[call.key].requestCount
  <1>1. call.step = "update" /\ call.key \in Keys /\ Exists(call.key)
        /\ call.entity.status \in Statuses
    BY DEF TypeOK, UpdateRow
  <1>2. call.entity \in Entities
    BY CallFields
  <1>3. s \in Statuses /\ n \in Nat
    BY <1>1, <1>2, RowFields DEF Entities
  <1>4. apiKeys' = [apiKeys EXCEPT ![call.key].status = s, ![call.key].requestCount = n]
    BY DEF UpdateRow
  <1>5. QED
    BY <1>1, <1>3, <1>4 DEF Saves

-----------------------------------------------------------------------------
(* Type correctness. *)

LEMMA InitType == Init => TypeOK
  BY IdleType DEF Init, TypeOK, Idle, NoEntity

\* The part of TypeOK that concerns one call.
CallOK(call) ==
  /\ call \in CallStates
  /\ call.step \notin {"idle", "sweep"} => call.key \in Keys /\ Exists(call.key)
  /\ call.step \in {"load", "update"} => call.entity.status \in Statuses
  /\ \A k \in call.queue : Exists(k)

LEMMA InsertsType ==
  ASSUME TypeOK, NEW k \in Keys, Inserts(k)
  PROVE  /\ apiKeys' \in [Keys -> Rows \cup {Absent}]
         /\ \A j \in Keys : Exists(j) => Exists(j)' /\ apiKeys'[j] = apiKeys[j]
  BY DEF TypeOK, Inserts, Exists

LEMMA SavesType ==
  ASSUME TypeOK, NEW c \in Calls, Saves(c)
  PROVE  /\ apiKeys' \in [Keys -> Rows \cup {Absent}]
         /\ \A j \in Keys : Exists(j) => Exists(j)'
         /\ \A j \in Keys : j # calls[c].key => apiKeys'[j] = apiKeys[j]
         /\ \A j \in Keys : apiKeys'[j].rotatedFromId = apiKeys[j].rotatedFromId
  <1>1. calls[c].key \in Keys /\ apiKeys[calls[c].key] \in Rows
    BY RowFields DEF Saves
  <1>2. QED
    BY <1>1 DEF TypeOK, Saves, Exists, Rows, Statuses

\* One call takes a step and the others stay where they are.
LEMMA OneCallType ==
  ASSUME TypeOK, Record, NEW c \in Calls, NEW call,
         calls' = [calls EXCEPT ![c] = call],
         apiKeys' \in [Keys -> Rows \cup {Absent}],
         \A k \in Keys : Exists(k) => Exists(k)',
         CallOK(call), time' = time, started' \in [Keys -> Nat]
  PROVE  TypeOK'
  <1>1. calls' \in [Calls -> CallStates]
    BY DEF TypeOK, CallOK
  <1>2. ASSUME NEW d \in Calls
        PROVE  /\ calls'[d].step \notin {"idle", "sweep"} =>
                     calls'[d].key \in Keys /\ apiKeys'[calls'[d].key].status # "absent"
               /\ calls'[d].step \in {"load", "update"} => calls'[d].entity.status \in Statuses
               /\ \A k \in calls'[d].queue : apiKeys'[k].status # "absent"
    <2>1. CASE d = c
      <3>1. calls'[d] = call
        BY <2>1 DEF TypeOK
      <3>2. call.queue \subseteq Keys
        BY DEF CallOK, CallStates
      <3>3. QED
        BY <3>1, <3>2 DEF CallOK, Exists
    <2>2. CASE d # c
      <3>1. calls'[d] = calls[d]
        BY <2>2 DEF TypeOK
      <3>2. calls[d].queue \subseteq Keys
        BY CallFields
      <3>3. QED
        BY <3>1, <3>2 DEF TypeOK, Exists
    <2>3. QED
      BY <2>1, <2>2
  <1>3. rotatedAt' \in [Keys -> Int] /\ settled' \subseteq Keys
    BY RecordType
  <1>4. QED
    BY <1>1, <1>2, <1>3 DEF TypeOK, Exists

LEMMA StartType ==
  ASSUME TypeOK, NEW c \in Calls, NEW step \in Steps, NEW k \in Keys, NEW goal \in Goals,
         Exists(k), step \notin {"load", "update"}, Start(c, step, k, goal)
  PROVE  TypeOK'
  <1> DEFINE call == [Idle EXCEPT !.step = step, !.key = k, !.goal = goal]
  <1>1. call \in CallStates /\ call.key = k /\ call.step = step /\ call.queue = {}
    BY IdleType DEF CallStates, Idle
  <1>2. CallOK(call)
    BY <1>1 DEF CallOK
  <1> HIDE DEF call
  <1>3. /\ calls' = [calls EXCEPT ![c] = call] /\ apiKeys' = apiKeys /\ time' = time
        /\ started' = started /\ Record
    BY DEF Start, call
  <1>4. QED
    BY <1>2, <1>3, OneCallType DEF TypeOK, Exists

\* A read for an update.
LEMMA FindType ==
  ASSUME TypeOK, NEW c \in Calls, NEW goal \in Goals, FindFor(c, goal), Record,
         calls[c].step \notin {"idle", "sweep"}, apiKeys' = apiKeys, time' = time,
         started' \in [Keys -> Nat]
  PROVE  TypeOK'
  <1> DEFINE entity == Changed(apiKeys[calls[c].key], goal)
             call == [calls[c] EXCEPT !.step = "load", !.goal = goal, !.entity = entity]
  <1>1. calls[c].key \in Keys /\ Exists(calls[c].key) /\ calls[c] \in CallStates
    BY CallFields DEF TypeOK
  <1>2. entity \in Entities /\ entity.status \in Statuses
    BY <1>1, RowFields, ChangedType
  <1> HIDE DEF entity
  <1>3. /\ call \in CallStates /\ call.key = calls[c].key /\ call.step = "load"
        /\ call.entity = entity /\ call.queue = calls[c].queue
    BY <1>1, <1>2 DEF CallStates, Steps
  <1>4. CallOK(call)
    BY <1>1, <1>2, <1>3 DEF CallOK, TypeOK
  <1>5. calls' = [calls EXCEPT ![c] = call]
    BY DEF FindFor, entity, TypeOK
  <1> HIDE DEF call
  <1>6. QED
    BY <1>4, <1>5, OneCallType DEF TypeOK, Exists

LEMMA NextType == TypeOK /\ [Next]_vars => TypeOK'
  <1> SUFFICES ASSUME TypeOK, [Next]_vars PROVE TypeOK'
    OBVIOUS
  <1>1. ASSUME NEW k \in Keys, NEW lifetime \in Lifetimes, CreateApiKey(k, lifetime)
        PROVE TypeOK'
    <2>1. /\ apiKeys' \in [Keys -> Rows \cup {Absent}]
          /\ \A j \in Keys : Exists(j) => Exists(j)'
      BY <1>1, CreateInserts, InsertsType
    <2>2. rotatedAt' \in [Keys -> Int] /\ settled' \subseteq Keys
      BY <1>1, RecordType DEF CreateApiKey
    <2>3. \A c \in Calls : calls[c].queue \subseteq Keys
      BY CallFields
    <2>4. QED
      BY <1>1, <2>1, <2>2, <2>3 DEF TypeOK, CreateApiKey
  <1>2. ASSUME NEW c \in Requests, NEW k \in Keys,
               ValidateApiKey(c, k) \/ RotateApiKey(c, k) \/ RevokeApiKey(c, k)
        PROVE TypeOK'
    <2>1. Exists(k)
      BY <1>2 DEF ValidateApiKey, RotateApiKey, RevokeApiKey, FoundByHash, MayRotate, Exists
    <2>2. \E step \in Steps, goal \in Goals : step \notin {"load", "update"} /\ Start(c, step, k, goal)
      BY <1>2 DEF ValidateApiKey, RotateApiKey, RevokeApiKey, Steps, Goals
    <2>3. QED
      BY <2>1, <2>2, StartType
  <1>3. ASSUME NEW c \in Calls, NEW found \in SUBSET Keys, \A k \in found : Exists(k),
               Sweep(c, found)
        PROVE TypeOK'
    <2> DEFINE call == [Idle EXCEPT !.step = "sweep", !.queue = found]
    <2>1. call \in CallStates /\ call.step = "sweep" /\ call.queue = found
      BY IdleType DEF CallStates, Steps, Idle
    <2>2. CallOK(call)
      BY <1>3, <2>1 DEF CallOK
    <2> HIDE DEF call
    <2>3. QED
      BY <1>3, <2>2, OneCallType DEF Sweep, TypeOK, Exists, call
  <1>4. ProcessExpiredKeys \/ CleanupRotatedKeys => TypeOK'
    BY <1>3 DEF ProcessExpiredKeys, CleanupRotatedKeys, Overdue, PastGrace, Exists
  <1>5. ASSUME NEW c \in Calls, Continue(c) PROVE TypeOK'
    <2>1. CASE CheckExpiry(c)
      <3>1. PICK goal \in {"expired", "use"} : FindFor(c, goal)
        BY <2>1 DEF CheckExpiry
      <3>2. started' \in [Keys -> Nat]
        BY <2>1 DEF CheckExpiry, TypeOK
      <3>3. QED
        BY <2>1, <3>1, <3>2, FindType DEF CheckExpiry, Goals
    <2>2. ASSUME NEW new \in Keys, InsertSuccessor(c, new) PROVE TypeOK'
      <3> DEFINE call == [calls[c] EXCEPT !.step = "find"]
      <3>1. /\ apiKeys' \in [Keys -> Rows \cup {Absent}]
            /\ \A j \in Keys : Exists(j) => Exists(j)'
        BY <2>2, SuccessorInserts, InsertsType
      <3>2. /\ call \in CallStates /\ call.key = calls[c].key /\ call.step = "find"
            /\ call.queue = calls[c].queue
        BY CallFields DEF CallStates, Steps
      <3>3. CallOK(call)
        BY <2>2, <3>2 DEF CallOK, TypeOK, InsertSuccessor
      <3>4. calls' = [calls EXCEPT ![c] = call]
        BY <2>2 DEF InsertSuccessor, TypeOK
      <3> HIDE DEF call
      <3>5. QED
        BY <2>2, <3>1, <3>3, <3>4, OneCallType DEF InsertSuccessor, TypeOK
    <2>3. CASE FindById(c)
      BY <2>3, FindType, CallFields DEF FindById, TypeOK
    <2>4. CASE LoadForSave(c)
      <3> DEFINE differs == {f \in Columns : calls[c].entity[f] # apiKeys[calls[c].key][f]}
                 call == [calls[c] EXCEPT !.step = "update", !.changed = differs]
      <3>1. /\ call \in CallStates /\ call.key = calls[c].key /\ call.step = "update"
            /\ call.entity = calls[c].entity /\ call.queue = calls[c].queue
        BY CallFields DEF CallStates, Steps
      <3>2. CallOK(call)
        BY <2>4, <3>1 DEF CallOK, TypeOK, LoadForSave
      <3>3. calls' = [calls EXCEPT ![c] = call]
        BY <2>4 DEF LoadForSave, TypeOK
      <3> HIDE DEF call
      <3>4. QED
        BY <2>4, <3>2, <3>3, OneCallType DEF LoadForSave, TypeOK, Exists
    <2>5. CASE UpdateRow(c)
      <3>1. /\ apiKeys' \in [Keys -> Rows \cup {Absent}]
            /\ \A j \in Keys : Exists(j) => Exists(j)'
        BY <2>5, UpdateSaves, SavesType
      <3>2. calls[c].queue \subseteq Keys /\ \A k \in calls[c].queue : Exists(k)
        BY CallFields DEF TypeOK
      <3>3. Finished(calls[c]) \in CallStates
        BY <3>2, IdleType DEF Finished, CallStates, Steps, Idle
      <3>4. /\ Finished(calls[c]).step \in {"idle", "sweep"}
            /\ Finished(calls[c]).queue \subseteq calls[c].queue
        BY DEF Finished, Idle
      <3>5. CallOK(Finished(calls[c]))
        BY <3>2, <3>3, <3>4 DEF CallOK
      <3>6. QED
        BY <2>5, <3>1, <3>5, OneCallType DEF UpdateRow, TypeOK
    <2>6. CASE NextOfSweep(c)
      <3>1. PICK k \in calls[c].queue :
              calls' = [calls EXCEPT ![c].step = "find", ![c].key = k, ![c].goal = SweptStatus(c)]
        BY <2>6 DEF NextOfSweep
      <3> DEFINE call == [calls[c] EXCEPT !.step = "find", !.key = k, !.goal = SweptStatus(c)]
      <3>2. k \in Keys /\ Exists(k) /\ SweptStatus(c) \in Goals
        BY CallFields DEF TypeOK, SweptStatus, Goals
      <3>3. /\ call \in CallStates /\ call.key = k /\ call.step = "find"
            /\ call.queue = calls[c].queue
        BY <3>2, CallFields DEF CallStates, Steps
      <3>4. CallOK(call)
        BY <3>2, <3>3 DEF CallOK, TypeOK
      <3>5. calls' = [calls EXCEPT ![c] = call]
        BY <3>1 DEF TypeOK
      <3> HIDE DEF call
      <3>6. QED
        BY <2>6, <3>4, <3>5, OneCallType DEF NextOfSweep, TypeOK, Exists
    <2>7. QED
      BY <1>5, <2>1, <2>2, <2>3, <2>4, <2>5, <2>6 DEF Continue
  <1>6. ASSUME NEW c \in Calls, Fail(c) PROVE TypeOK'
    <2>1. CallOK(Idle)
      BY IdleType DEF CallOK, Idle
    <2>2. QED
      BY <1>6, <2>1, OneCallType DEF Fail, TypeOK, Exists
  <1>7. CASE Tick
    BY <1>7, RecordType DEF Tick, TypeOK, Exists
  <1>8. CASE UNCHANGED vars
    BY <1>8 DEF vars, TypeOK, Exists
  <1>9. QED
    BY <1>1, <1>2, <1>4, <1>5, <1>6, <1>7, <1>8 DEF Next

\* The calls never lose the key they are for, and no save writes a status that
\* is none.
THEOREM TypeCorrect == Spec => []TypeOK
  BY InitType, NextType, PTL DEF Spec

-----------------------------------------------------------------------------
(* Revocation.  A settled key stays settled: no call starts for a revoked key, *)
(* and only a call for a key writes its row.                                   *)

Untouched(k) == IsRevoked(k) /\ \A c \in Calls : ~Concerns(calls[c], k)

SettledInv ==
  /\ TypeOK
  /\ \A k \in settled : Untouched(k)

LEMMA UntouchedStays ==
  ASSUME TypeOK, [Next]_vars, NEW k \in Keys, Untouched(k)
  PROVE  Untouched(k)'
  <1> USE DEF Untouched, IsRevoked
  <1>1. Exists(k) /\ k # NoKey
    BY ApiKeysAssumption DEF Exists
  <1>2. ~Concerns(Idle, k)
    BY <1>1 DEF Concerns, Idle
  <1>3. \A c \in Calls : calls[c].key # k /\ k \notin calls[c].queue
    BY DEF Concerns
  <1>4. ASSUME NEW c \in Calls, NEW call, calls' = [calls EXCEPT ![c] = call],
               call.key # k, k \notin call.queue, apiKeys'[k] = apiKeys[k]
        PROVE  Untouched(k)'
    BY <1>3, <1>4 DEF TypeOK, Concerns
  <1>5. ASSUME NEW j \in Keys, NEW lifetime \in Lifetimes, CreateApiKey(j, lifetime)
        PROVE  Untouched(k)'
    BY <1>1, <1>3, <1>5, CreateInserts, InsertsType DEF CreateApiKey, Concerns
  <1>6. ASSUME NEW c \in Requests, NEW j \in Keys,
               ValidateApiKey(c, j) \/ RotateApiKey(c, j) \/ RevokeApiKey(c, j)
        PROVE  Untouched(k)'
    <2>1. j # k
      BY <1>6 DEF ValidateApiKey, RotateApiKey, RevokeApiKey, FoundByHash, MayRotate
    <2>2. PICK step \in Steps, goal \in Goals : Start(c, step, j, goal)
      BY <1>6 DEF ValidateApiKey, RotateApiKey, RevokeApiKey, Steps, Goals
    <2> DEFINE call == [Idle EXCEPT !.step = step, !.key = j, !.goal = goal]
    <2>3. call.key = j /\ call.queue = {}
      BY DEF Idle
    <2>4. calls' = [calls EXCEPT ![c] = call] /\ apiKeys' = apiKeys
      BY <2>2 DEF Start
    <2> HIDE DEF call
    <2>5. QED
      BY <1>4, <2>1, <2>3, <2>4
  <1>7. ASSUME NEW c \in Calls, NEW found, k \notin found, Sweep(c, found)
        PROVE  Untouched(k)'
    <2> DEFINE call == [Idle EXCEPT !.step = "sweep", !.queue = found]
    <2>1. call.key = NoKey /\ call.queue = found
      BY DEF Idle
    <2>2. calls' = [calls EXCEPT ![c] = call] /\ apiKeys' = apiKeys
      BY <1>7 DEF Sweep
    <2> HIDE DEF call
    <2>3. QED
      BY <1>1, <1>4, <1>7, <2>1, <2>2
  <1>8. ProcessExpiredKeys \/ CleanupRotatedKeys => Untouched(k)'
    BY <1>7 DEF ProcessExpiredKeys, CleanupRotatedKeys, Overdue, PastGrace
  <1>9. ASSUME NEW c \in Calls, Continue(c) PROVE Untouched(k)'
    <2>1. CASE CheckExpiry(c)
      BY <1>3, <2>1 DEF CheckExpiry, FindFor, TypeOK, CallStates, Concerns
    <2>2. ASSUME NEW new \in Keys, InsertSuccessor(c, new) PROVE Untouched(k)'
      <3>1. apiKeys'[k] = apiKeys[k]
        BY <1>1, <2>2, SuccessorInserts, InsertsType
      <3>2. QED
        BY <1>3, <2>2, <3>1 DEF InsertSuccessor, TypeOK, CallStates, Concerns
    <2>3. CASE FindById(c)
      BY <1>3, <2>3 DEF FindById, FindFor, TypeOK, CallStates, Concerns
    <2>4. CASE LoadForSave(c)
      BY <1>3, <2>4 DEF LoadForSave, TypeOK, CallStates, Concerns
    <2>5. CASE UpdateRow(c)
      <3>1. apiKeys'[k] = apiKeys[k]
        BY <1>3, <2>5, UpdateSaves, SavesType
      <3>2. k \notin Finished(calls[c]).queue /\ Finished(calls[c]).key = NoKey
        BY <1>3 DEF Finished, Idle
      <3>3. QED
        BY <1>1, <1>4, <2>5, <3>1, <3>2 DEF UpdateRow
    <2>6. CASE NextOfSweep(c)
      BY <1>3, <2>6 DEF NextOfSweep, TypeOK, CallStates, Concerns
    <2>7. QED
      BY <1>9, <2>1, <2>2, <2>3, <2>4, <2>5, <2>6 DEF Continue
  <1>10. ASSUME NEW c \in Calls, Fail(c) PROVE Untouched(k)'
    BY <1>2, <1>3, <1>10 DEF Fail, TypeOK, Concerns
  <1>11. CASE Tick
    BY <1>11 DEF Tick, Concerns
  <1>12. CASE UNCHANGED vars
    BY <1>12 DEF vars, Concerns
  <1>13. QED
    BY <1>5, <1>6, <1>8, <1>9, <1>10, <1>11, <1>12 DEF Next

LEMMA EveryStepRecords ==
  ASSUME Next PROVE Record
  BY DEF Next, CreateApiKey, ValidateApiKey, RotateApiKey, RevokeApiKey, Start,
         ProcessExpiredKeys, CleanupRotatedKeys, Sweep, Continue, CheckExpiry,
         InsertSuccessor, FindById, LoadForSave, UpdateRow, NextOfSweep, Fail, Tick

LEMMA SettledNext == SettledInv /\ [Next]_vars => SettledInv'
  <1> SUFFICES ASSUME SettledInv, [Next]_vars PROVE SettledInv'
    OBVIOUS
  <1>1. TypeOK /\ TypeOK'
    BY NextType DEF SettledInv
  <1>2. \A k \in settled : k \in Keys /\ Untouched(k)'
    BY <1>1, UntouchedStays DEF SettledInv, TypeOK
  <1>3. CASE Next
    <2>1. \A k \in settled' : k \in settled \/ Untouched(k)'
      BY <1>3, EveryStepRecords DEF Record, Untouched, IsRevoked, Concerns
    <2>2. QED
      BY <1>1, <1>2, <2>1 DEF SettledInv
  <1>4. CASE UNCHANGED vars
    BY <1>1, <1>2, <1>4 DEF SettledInv, vars
  <1>5. QED
    BY <1>3, <1>4

\* Once a key is revoked and no earlier call is under way for it, it stays
\* revoked, whatever calls follow and however they interleave or fail.
THEOREM RevocationHolds == Spec => []RevocationSettles
  <1>1. Init => SettledInv
    BY InitType DEF Init, SettledInv
  <1>2. SettledInv => RevocationSettles
    BY DEF SettledInv, Untouched, RevocationSettles
  <1>3. QED
    BY <1>1, <1>2, SettledNext, PTL DEF Spec

-----------------------------------------------------------------------------
(* Rotation.  A call that is to write "rotated" has inserted a successor, or   *)
(* read the status from a row that already had one.                            *)

LEMMA TableStep ==
  ASSUME TypeOK, Next
  PROVE  \/ apiKeys' = apiKeys
         \/ \E k \in Keys : Inserts(k)
         \/ \E c \in Calls : Saves(c)
  <1>1. ASSUME NEW k \in Keys, NEW lifetime \in Lifetimes, CreateApiKey(k, lifetime)
        PROVE  Inserts(k)
    BY <1>1, CreateInserts
  <1>2. ASSUME NEW c \in Calls, NEW new \in Keys, InsertSuccessor(c, new)
        PROVE  Inserts(new)
    BY <1>2, SuccessorInserts
  <1>3. QED
    BY <1>1, <1>2, UpdateSaves
       DEF Next, ValidateApiKey, RotateApiKey, RevokeApiKey, Start, ProcessExpiredKeys,
           CleanupRotatedKeys, Sweep, Continue, CheckExpiry, FindById, LoadForSave,
           NextOfSweep, Fail, Tick

SuccessorIn(table, k) ==
  \E new \in Keys : table[new].status # "absent" /\ table[new].rotatedFromId = k
HasSuccessor(k) == SuccessorIn(apiKeys, k)

Rotating(call) ==
  \/ call.step = "find" /\ call.goal = "rotated"
  \/ call.step \in {"load", "update"} /\ call.entity.status = "rotated"

SuccessorInv ==
  /\ TypeOK
  /\ \A k \in Keys : rotatedAt[k] # -1 => HasSuccessor(k)
  /\ \A k \in Keys : apiKeys[k].status = "rotated" => rotatedAt[k] # -1
  /\ \A c \in Calls : Rotating(calls[c]) => HasSuccessor(calls[c].key)

\* Rows stay and keep what they were rotated from.
LEMMA SuccessorStays ==
  ASSUME TypeOK, Next, NEW k \in Keys, HasSuccessor(k)
  PROVE  SuccessorIn(apiKeys', k)
  <1>1. ASSUME NEW j \in Keys, Inserts(j) PROVE SuccessorIn(apiKeys', k)
    BY <1>1, InsertsType DEF HasSuccessor, SuccessorIn, Exists
  <1>2. ASSUME NEW c \in Calls, Saves(c) PROVE SuccessorIn(apiKeys', k)
    BY <1>2, SavesType DEF HasSuccessor, SuccessorIn, Exists
  <1>3. QED
    BY <1>1, <1>2, TableStep DEF HasSuccessor, SuccessorIn, Exists

\* What a call that is new at "find" or "load" may have found.
LEMMA RotatingStays ==
  ASSUME SuccessorInv, Next, NEW c \in Calls, Rotating(calls'[c])
  PROVE  calls'[c].key \in Keys /\ SuccessorIn(apiKeys', calls'[c].key)
  <1> DEFINE call == calls[c]
             k == call.key
  <1>1. TypeOK
    BY DEF SuccessorInv
  <1>2. ASSUME calls'[c] = calls[c]
        PROVE  calls'[c].key \in Keys /\ SuccessorIn(apiKeys', calls'[c].key)
    <2>1. k \in Keys /\ HasSuccessor(k)
      BY <1>1, <1>2 DEF SuccessorInv, TypeOK, Rotating
    <2>2. QED
      BY <1>1, <1>2, <2>1, SuccessorStays
  <1>3. ASSUME k \in Keys, calls'[c].key = k, SuccessorIn(apiKeys', k)
        PROVE  calls'[c].key \in Keys /\ SuccessorIn(apiKeys', calls'[c].key)
    BY <1>3
  <1>4. ASSUME NEW d \in Calls, NEW next, calls' = [calls EXCEPT ![d] = next], ~Rotating(next)
        PROVE  calls'[c] = calls[c]
    BY <1>1, <1>4 DEF TypeOK
  <1>5. ~Rotating(Idle)
    BY DEF Rotating, Idle
  <1>6. ASSUME NEW d \in Calls, NEW step, NEW j, NEW goal, Start(d, step, j, goal),
               step \notin {"load", "update"}, ~(step = "find" /\ goal = "rotated")
        PROVE  calls'[c] = calls[c]
    <2> DEFINE next == [Idle EXCEPT !.step = step, !.key = j, !.goal = goal]
    <2>1. next.step = step /\ next.goal = goal
      BY DEF Idle
    <2>2. ~Rotating(next)
      BY <1>6, <2>1 DEF Rotating
    <2>3. calls' = [calls EXCEPT ![d] = next]
      BY <1>6 DEF Start
    <2> HIDE DEF next
    <2>4. QED
      BY <1>4, <2>2, <2>3
  <1>7. ASSUME NEW d \in Calls, NEW found, Sweep(d, found)
        PROVE  calls'[c] = calls[c]
    <2> DEFINE next == [Idle EXCEPT !.step = "sweep", !.queue = found]
    <2>1. ~Rotating(next)
      BY DEF Rotating, Idle
    <2>2. calls' = [calls EXCEPT ![d] = next]
      BY <1>7 DEF Sweep
    <2> HIDE DEF next
    <2>3. QED
      BY <1>4, <2>1, <2>2
  \* A read: the goal, or the status of a row that has been rotated.
  <1>8. ASSUME NEW d \in Calls, NEW goal \in Goals, FindFor(d, goal),
               calls[d].step \notin {"idle", "sweep"}, apiKeys' = apiKeys,
               goal = "rotated" => Rotating(calls[d])
        PROVE  calls'[c].key \in Keys /\ SuccessorIn(apiKeys', calls'[c].key)
    <2>1. CASE d # c
      BY <1>1, <1>2, <1>8, <2>1 DEF FindFor, TypeOK
    <2>2. CASE d = c
      <3>1. /\ calls'[c].key = k /\ calls'[c].step = "load"
            /\ calls'[c].entity = Changed(apiKeys[k], goal)
        BY <1>1, <1>8, <2>2 DEF FindFor, TypeOK, CallStates
      <3>2. k \in Keys
        BY <1>1, <1>8, <2>2 DEF TypeOK
      <3>3. goal = "rotated" \/ apiKeys[k].status = "rotated"
        BY <3>1 DEF Rotating, Changed
      <3>4. HasSuccessor(k)
        BY <1>8, <2>2, <3>2, <3>3 DEF SuccessorInv
      <3>5. QED
        BY <1>1, <3>1, <3>2, <3>4, SuccessorStays
    <2>3. QED
      BY <2>1, <2>2
  <1>9. ASSUME NEW d \in Calls, Continue(d)
        PROVE  calls'[c].key \in Keys /\ SuccessorIn(apiKeys', calls'[c].key)
    <2>1. CASE CheckExpiry(d)
      BY <1>8, <2>1 DEF CheckExpiry, Goals
    <2>2. ASSUME NEW new \in Keys, InsertSuccessor(d, new)
          PROVE  calls'[c].key \in Keys /\ SuccessorIn(apiKeys', calls'[c].key)
      <3>1. CASE d # c
        BY <1>1, <1>2, <2>2, <3>1 DEF InsertSuccessor, TypeOK
      <3>2. CASE d = c
        <4>1. k \in Keys /\ calls'[c].key = k
          BY <1>1, <2>2, <3>2 DEF InsertSuccessor, TypeOK, CallStates
        <4>2. apiKeys'[new] = NewRow(DefaultLifetime, k)
          BY <1>1, <2>2, <3>2 DEF InsertSuccessor, Successor, TypeOK
        <4>3. apiKeys'[new].status # "absent" /\ apiKeys'[new].rotatedFromId = k
          BY <4>2 DEF NewRow
        <4>4. SuccessorIn(apiKeys', k)
          BY <4>1, <4>3 DEF HasSuccessor, SuccessorIn, Exists
        <4>5. QED
          BY <4>1, <4>4
      <3>3. QED
        BY <3>1, <3>2
    <2>3. CASE FindById(d)
      <3>1. calls[d].goal \in Goals
        BY <1>1, CallFields
      <3>2. QED
        BY <1>8, <2>3, <3>1 DEF FindById, Rotating
    <2>4. CASE LoadForSave(d)
      <3>1. CASE d # c
        BY <1>1, <1>2, <2>4, <3>1 DEF LoadForSave, TypeOK
      <3>2. CASE d = c
        <4>1. calls'[c].key = k /\ calls'[c].entity = calls[c].entity /\ calls'[c].step = "update"
          BY <1>1, <2>4, <3>2 DEF LoadForSave, TypeOK, CallStates
        <4>2. Rotating(calls[c]) /\ k \in Keys
          BY <1>1, <2>4, <3>2, <4>1 DEF LoadForSave, Rotating, TypeOK
        <4>3. QED
          BY <1>1, <4>1, <4>2, SuccessorStays DEF SuccessorInv
      <3>3. QED
        BY <3>1, <3>2
    <2>5. CASE UpdateRow(d)
      <3>1. Finished(calls[d]).step \in {"idle", "sweep"}
        BY DEF Finished, Idle
      <3>2. QED
        BY <1>2, <1>4, <2>5, <3>1 DEF UpdateRow, Rotating
    <2>6. CASE NextOfSweep(d)
      <3>1. PICK j \in calls[d].queue :
              calls' = [calls EXCEPT ![d] = [calls[d] EXCEPT
                !.step = "find", !.key = j, !.goal = SweptStatus(d)]]
        BY <1>1, <2>6 DEF NextOfSweep, TypeOK
      <3> DEFINE next == [calls[d] EXCEPT !.step = "find", !.key = j, !.goal = SweptStatus(d)]
      <3>2. next.step = "find" /\ next.goal = SweptStatus(d)
        BY <1>1, CallFields DEF CallStates
      <3>3. ~Rotating(next)
        BY <3>2 DEF Rotating, SweptStatus
      <3> HIDE DEF next
      <3>4. QED
        BY <1>2, <1>4, <3>1, <3>3 DEF next
    <2>7. QED
      BY <1>9, <2>1, <2>2, <2>3, <2>4, <2>5, <2>6 DEF Continue
  <1>10. QED
    BY <1>2, <1>4, <1>5, <1>6, <1>7, <1>9
       DEF Next, CreateApiKey, ValidateApiKey, RotateApiKey, RevokeApiKey,
           ProcessExpiredKeys, CleanupRotatedKeys, Fail, Tick

LEMMA SuccessorNext == SuccessorInv /\ [Next]_vars => SuccessorInv'
  <1> SUFFICES ASSUME SuccessorInv, [Next]_vars PROVE SuccessorInv'
    OBVIOUS
  <1>1. TypeOK /\ TypeOK'
    BY NextType DEF SuccessorInv
  <1>2. CASE Next
    <2>1. ASSUME NEW k \in Keys, HasSuccessor(k) PROVE SuccessorIn(apiKeys', k)
      BY <1>1, <1>2, <2>1, SuccessorStays
    <2>2. \A c \in Calls : Rotating(calls'[c]) => SuccessorIn(apiKeys', calls'[c].key)
      BY <1>2, RotatingStays
    <2>3. ASSUME NEW k \in Keys, apiKeys'[k].status = "rotated" PROVE SuccessorIn(apiKeys', k)
      <3>1. CASE apiKeys[k].status = "rotated"
        BY <2>1, <3>1 DEF SuccessorInv
      <3>2. ASSUME NEW j \in Keys, Inserts(j) PROVE apiKeys[k].status = "rotated"
        BY <1>1, <2>3, <3>2 DEF Inserts, TypeOK
      <3>3. ASSUME NEW c \in Calls, Saves(c), apiKeys[k].status # "rotated"
            PROVE  HasSuccessor(k)
        <4>1. k = calls[c].key /\ calls[c].step = "update"
              /\ calls[c].entity.status = "rotated"
          BY <1>1, <2>3, <3>3 DEF Saves, TypeOK, Rows, Absent
        <4>2. QED
          BY <4>1 DEF SuccessorInv, Rotating
      <3>4. QED
        BY <1>1, <1>2, <2>1, <2>3, <3>1, <3>2, <3>3, TableStep
    <2>4. Record /\ time \in Nat
      BY <1>1, <1>2, EveryStepRecords DEF TypeOK
    <2>5. ASSUME NEW k \in Keys
          PROVE  /\ rotatedAt'[k] # -1 => SuccessorIn(apiKeys', k)
                 /\ apiKeys'[k].status = "rotated" => rotatedAt'[k] # -1
      <3>1. rotatedAt'[k] = IF apiKeys'[k].status = "rotated" /\ rotatedAt[k] = -1
                            THEN time ELSE rotatedAt[k]
        BY <2>4 DEF Record
      <3>2. QED
        BY <2>1, <2>3, <2>4, <3>1 DEF SuccessorInv
    <2>6. QED
      BY <1>1, <2>2, <2>5 DEF SuccessorInv, HasSuccessor
  <1>3. CASE UNCHANGED vars
    BY <1>1, <1>3 DEF SuccessorInv, vars, HasSuccessor
  <1>4. QED
    BY <1>2, <1>3

\* However rotations overlap and wherever they fail, a rotated key has a
\* successor.
THEOREM SuccessorHolds == Spec => []RotatedHasSuccessor
  <1>1. Init => SuccessorInv
    BY InitType DEF Init, SuccessorInv, Rotating, Idle, Absent
  <1>2. SuccessorInv => RotatedHasSuccessor
    BY DEF SuccessorInv, RotatedHasSuccessor, HasSuccessor, SuccessorIn, Exists
  <1>3. QED
    BY <1>1, <1>2, SuccessorNext, PTL DEF Spec

-----------------------------------------------------------------------------
(* The usage count.  No entity carries a count above the validations started. *)

\* A call that goes on with a key it has not read yet is for a new status.
ToChangeStatus(call) == call.step \in {"insert", "find"} => call.goal # "use"

UsesInv ==
  /\ TypeOK
  /\ UsesAreReal
  /\ \A c \in Calls :
       calls[c].step \in {"load", "update"} =>
         calls[c].entity.requestCount <= started[calls[c].key]
  /\ \A c \in Calls : ToChangeStatus(calls[c])

LEMMA StartedGrows ==
  ASSUME TypeOK, Next
  PROVE  \A k \in Keys : started'[k] \in Nat /\ started[k] <= started'[k]
  <1>1. started \in [Keys -> Nat]
    BY DEF TypeOK
  <1>2. started' = started \/ \E k \in Keys : started' = [started EXCEPT ![k] = @ + 1]
    BY DEF Next, CreateApiKey, ValidateApiKey, RotateApiKey, RevokeApiKey, Start,
           ProcessExpiredKeys, CleanupRotatedKeys, Sweep, Continue, CheckExpiry,
           InsertSuccessor, FindById, LoadForSave, UpdateRow, NextOfSweep, Fail, Tick, TypeOK
  <1>3. QED
    BY <1>1, <1>2

\* A call at "load" or "update" was there before with the same entity, or has
\* just read its row.
LEMMA EntityStep ==
  ASSUME TypeOK, Next, NEW c \in Calls, calls'[c].step \in {"load", "update"}
  PROVE  \/ /\ calls[c].step \in {"load", "update"}
            /\ calls'[c].key = calls[c].key /\ calls'[c].entity = calls[c].entity
         \/ /\ calls[c].key \in Keys /\ calls'[c].key = calls[c].key
            /\ \E goal \in Goals :
                 /\ calls'[c].entity = Changed(apiKeys[calls[c].key], goal)
                 /\ goal = "use" /\ ToChangeStatus(calls[c])
                      => started'[calls[c].key] = started[calls[c].key] + 1
  <1> DEFINE Same == /\ calls[c].step \in {"load", "update"}
                     /\ calls'[c].key = calls[c].key /\ calls'[c].entity = calls[c].entity
             Read == /\ calls[c].key \in Keys /\ calls'[c].key = calls[c].key
                     /\ \E goal \in Goals :
                          /\ calls'[c].entity = Changed(apiKeys[calls[c].key], goal)
                          /\ goal = "use" /\ ToChangeStatus(calls[c])
                               => started'[calls[c].key] = started[calls[c].key] + 1
  <1>1. calls'[c] = calls[c] => Same
    OBVIOUS
  <1>2. ASSUME NEW d \in Calls, NEW next, calls' = [calls EXCEPT ![d] = next],
               next.step \notin {"load", "update"}
        PROVE  Same
    BY <1>1, <1>2 DEF TypeOK
  <1>3. ASSUME NEW d \in Calls, NEW step, NEW j, NEW goal, Start(d, step, j, goal),
               step \notin {"load", "update"}
        PROVE  Same
    <2> DEFINE next == [Idle EXCEPT !.step = step, !.key = j, !.goal = goal]
    <2>1. next.step = step
      BY DEF Idle
    <2>2. calls' = [calls EXCEPT ![d] = next]
      BY <1>3 DEF Start
    <2> HIDE DEF next
    <2>3. QED
      BY <1>2, <1>3, <2>1, <2>2
  <1>4. ASSUME NEW d \in Calls, NEW found, Sweep(d, found) PROVE Same
    <2> DEFINE next == [Idle EXCEPT !.step = "sweep", !.queue = found]
    <2>1. next.step = "sweep"
      BY DEF Idle
    <2>2. calls' = [calls EXCEPT ![d] = next]
      BY <1>4 DEF Sweep
    <2> HIDE DEF next
    <2>3. QED
      BY <1>2, <2>1, <2>2
  <1>5. ASSUME NEW d \in Calls, Continue(d) PROVE Same \/ Read
    <2>1. CASE CheckExpiry(d)
      <3>1. CASE d # c
        BY <1>1, <2>1, <3>1 DEF CheckExpiry, FindFor, TypeOK
      <3>2. CASE d = c
        <4>1. calls[c].key \in Keys
          BY <2>1, <3>2 DEF CheckExpiry, TypeOK
        <4>2. PICK goal \in Goals :
                /\ FindFor(c, goal)
                /\ goal = "use" => started' = [started EXCEPT ![calls[c].key] = @ + 1]
          BY <2>1, <3>2 DEF CheckExpiry, Goals
        <4>3. goal = "use" => started'[calls[c].key] = started[calls[c].key] + 1
          BY <4>1, <4>2 DEF TypeOK
        <4>4. /\ calls'[c].key = calls[c].key
              /\ calls'[c].entity = Changed(apiKeys[calls[c].key], goal)
          BY <4>2 DEF FindFor, TypeOK, CallStates
        <4>5. QED
          BY <4>1, <4>3, <4>4
      <3>3. QED
        BY <3>1, <3>2
    <2>2. ASSUME NEW new \in Keys, InsertSuccessor(d, new) PROVE Same
      BY <1>1, <2>2 DEF InsertSuccessor, TypeOK, CallStates
    <2>3. CASE FindById(d)
      <3>1. CASE d # c
        BY <1>1, <2>3, <3>1 DEF FindById, FindFor, TypeOK
      <3>2. CASE d = c
        BY <2>3, <3>2 DEF FindById, FindFor, TypeOK, CallStates, ToChangeStatus
      <3>3. QED
        BY <3>1, <3>2
    <2>4. CASE LoadForSave(d)
      BY <1>1, <2>4 DEF LoadForSave, TypeOK, CallStates
    <2>5. CASE UpdateRow(d)
      <3>1. Finished(calls[d]).step \in {"idle", "sweep"}
        BY DEF Finished, Idle
      <3>2. QED
        BY <1>2, <2>5, <3>1 DEF UpdateRow
    <2>6. CASE NextOfSweep(d)
      BY <1>1, <2>6 DEF NextOfSweep, TypeOK, CallStates
    <2>7. QED
      BY <1>5, <2>1, <2>2, <2>3, <2>4, <2>5, <2>6 DEF Continue
  <1>6. Idle.step = "idle"
    BY DEF Idle
  <1>7. QED
    BY <1>1, <1>2, <1>3, <1>4, <1>5, <1>6
       DEF Next, CreateApiKey, ValidateApiKey, RotateApiKey, RevokeApiKey,
           ProcessExpiredKeys, CleanupRotatedKeys, Fail, Tick

LEMMA GoalStep ==
  ASSUME TypeOK, Next, NEW c \in Calls, \A d \in Calls : ToChangeStatus(calls[d])
  PROVE  ToChangeStatus(calls'[c])
  <1>1. calls'[c] = calls[c] => ToChangeStatus(calls'[c])
    BY DEF ToChangeStatus
  <1>2. ASSUME NEW d \in Calls, NEW next, calls' = [calls EXCEPT ![d] = next],
               ToChangeStatus(next)
        PROVE  ToChangeStatus(calls'[c])
    BY <1>1, <1>2 DEF TypeOK
  <1>3. ASSUME NEW d \in Calls, NEW step, NEW j, NEW goal, Start(d, step, j, goal),
               step = "check" \/ goal # "use"
        PROVE  ToChangeStatus(calls'[c])
    <2> DEFINE next == [Idle EXCEPT !.step = step, !.key = j, !.goal = goal]
    <2>1. next.step = step /\ next.goal = goal
      BY DEF Idle
    <2>2. calls' = [calls EXCEPT ![d] = next]
      BY <1>3 DEF Start
    <2>3. ToChangeStatus(next)
      BY <1>3, <2>1 DEF ToChangeStatus
    <2> HIDE DEF next
    <2>4. QED
      BY <1>2, <2>2, <2>3
  <1>4. ASSUME NEW d \in Calls, NEW found, Sweep(d, found) PROVE ToChangeStatus(calls'[c])
    <2> DEFINE next == [Idle EXCEPT !.step = "sweep", !.queue = found]
    <2>1. ToChangeStatus(next)
      BY DEF Idle, ToChangeStatus
    <2>2. calls' = [calls EXCEPT ![d] = next]
      BY <1>4 DEF Sweep
    <2> HIDE DEF next
    <2>3. QED
      BY <1>2, <2>1, <2>2
  <1>5. ASSUME NEW d \in Calls, Continue(d) PROVE ToChangeStatus(calls'[c])
    <2>1. CASE CheckExpiry(d)
      <3>1. PICK goal : FindFor(d, goal)
        BY <2>1 DEF CheckExpiry
      <3>2. QED
        BY <1>1, <3>1 DEF FindFor, TypeOK, CallStates, ToChangeStatus
    <2>2. ASSUME NEW new \in Keys, InsertSuccessor(d, new) PROVE ToChangeStatus(calls'[c])
      BY <1>1, <2>2 DEF InsertSuccessor, TypeOK, CallStates, ToChangeStatus
    <2>3. CASE FindById(d)
      BY <1>1, <2>3 DEF FindById, FindFor, TypeOK, CallStates, ToChangeStatus
    <2>4. CASE LoadForSave(d)
      BY <1>1, <2>4 DEF LoadForSave, TypeOK, CallStates, ToChangeStatus
    <2>5. CASE UpdateRow(d)
      <3>1. Finished(calls[d]).step \in {"idle", "sweep"}
        BY DEF Finished, Idle
      <3>2. QED
        BY <1>2, <2>5, <3>1 DEF UpdateRow, ToChangeStatus
    <2>6. CASE NextOfSweep(d)
      BY <1>1, <2>6 DEF NextOfSweep, TypeOK, CallStates, ToChangeStatus, SweptStatus
    <2>7. QED
      BY <1>5, <2>1, <2>2, <2>3, <2>4, <2>5, <2>6 DEF Continue
  <1>6. ToChangeStatus(Idle)
    BY DEF Idle, ToChangeStatus
  <1>7. QED
    BY <1>1, <1>2, <1>3, <1>4, <1>5, <1>6
       DEF Next, CreateApiKey, ValidateApiKey, RotateApiKey, RevokeApiKey,
           ProcessExpiredKeys, CleanupRotatedKeys, Fail, Tick

LEMMA UsesNext == UsesInv /\ [Next]_vars => UsesInv'
  <1> SUFFICES ASSUME UsesInv, [Next]_vars PROVE UsesInv'
    OBVIOUS
  <1>1. TypeOK /\ TypeOK'
    BY NextType DEF UsesInv
  <1>2. CASE Next
    <2>1. \A k \in Keys : /\ started[k] \in Nat /\ started'[k] \in Nat
                          /\ started[k] <= started'[k]
      BY <1>1, <1>2, StartedGrows DEF TypeOK
    <2>2. \A k \in Keys : apiKeys[k].requestCount \in Nat /\ apiKeys[k].requestCount <= started[k]
      BY <1>1, RowFields DEF UsesInv, UsesAreReal
    <2>3. ASSUME NEW c \in Calls, calls'[c].step \in {"load", "update"}
          PROVE  calls'[c].entity.requestCount <= started'[calls'[c].key]
      <3>1. CASE /\ calls[c].step \in {"load", "update"}
                 /\ calls'[c].key = calls[c].key /\ calls'[c].entity = calls[c].entity
        <4>1. /\ calls[c].key \in Keys /\ calls[c].entity.requestCount \in Nat
              /\ calls[c].entity.requestCount <= started[calls[c].key]
          BY <1>1, <3>1, CallFields DEF TypeOK, Entities, UsesInv
        <4>2. QED
          BY <2>1, <3>1, <4>1
      <3>2. ASSUME calls[c].key \in Keys, calls'[c].key = calls[c].key, NEW goal \in Goals,
                   calls'[c].entity = Changed(apiKeys[calls[c].key], goal),
                   goal = "use" => started'[calls[c].key] = started[calls[c].key] + 1
            PROVE  calls'[c].entity.requestCount <= started'[calls'[c].key]
        BY <2>1, <2>2, <3>2 DEF Changed
      <3>3. ToChangeStatus(calls[c])
        BY DEF UsesInv
      <3>4. QED
        BY <1>1, <1>2, <2>3, <3>1, <3>2, <3>3, EntityStep
    <2>4. UsesAreReal'
      <3> SUFFICES ASSUME NEW k \in Keys PROVE apiKeys'[k].requestCount <= started'[k]
        BY DEF UsesAreReal
      <3>1. CASE apiKeys' = apiKeys
        BY <2>1, <2>2, <3>1
      <3>2. ASSUME NEW j \in Keys, Inserts(j)
            PROVE  apiKeys'[k].requestCount <= started'[k]
        BY <1>1, <2>1, <2>2, <3>2 DEF Inserts, TypeOK
      <3>3. ASSUME NEW c \in Calls, Saves(c)
            PROVE  apiKeys'[k].requestCount <= started'[k]
        <4>1. CASE k # calls[c].key
          BY <1>1, <2>1, <2>2, <3>3, <4>1 DEF Saves, TypeOK
        <4>2. CASE k = calls[c].key
          <5>1. calls[c].entity.requestCount \in Nat /\ calls[c].entity.requestCount <= started[k]
            BY <1>1, <3>3, <4>2, CallFields DEF Saves, Entities, UsesInv
          <5>2. apiKeys'[k].requestCount \in {calls[c].entity.requestCount, apiKeys[k].requestCount}
            BY <1>1, <3>3, <4>2 DEF Saves, TypeOK, Rows, Absent
          <5>3. QED
            BY <2>1, <2>2, <5>1, <5>2
        <4>3. QED
          BY <4>1, <4>2
      <3>4. QED
        BY <1>1, <1>2, <3>1, <3>2, <3>3, TableStep
    <2>5. \A c \in Calls : ToChangeStatus(calls'[c])
      BY <1>1, <1>2, GoalStep DEF UsesInv
    <2>6. QED
      BY <1>1, <2>3, <2>4, <2>5 DEF UsesInv
  <1>3. CASE UNCHANGED vars
    BY <1>1, <1>3 DEF UsesInv, UsesAreReal, vars
  <1>4. QED
    BY <1>2, <1>3

\* Lost updates lose uses and never invent one.
THEOREM UsesHold == Spec => []UsesAreReal
  <1>1. Init => UsesInv
    BY InitType DEF Init, UsesInv, UsesAreReal, ToChangeStatus, Idle, Absent
  <1>2. UsesInv => UsesAreReal
    BY DEF UsesInv
  <1>3. QED
    BY <1>1, <1>2, UsesNext, PTL DEF Spec

\* What rows say of rotations and uses has happened.
THEOREM RowsHold == Spec => []RowsAreBacked
  <1>1. RotatedHasSuccessor /\ UsesAreReal => RowsAreBacked
    BY DEF RowsAreBacked
  <1>2. QED
    BY <1>1, SuccessorHolds, UsesHold, PTL

================================================================================
