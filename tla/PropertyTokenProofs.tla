-------------------------- MODULE PropertyTokenProofs --------------------------
(* Theorems about PropertyToken: type correctness, replay protection,         *)
(* solvency, clean-ups, payments and batches.                                 *)
EXTENDS PropertyToken, DataInduction

LEMMA AppendEntry ==
  ASSUME NEW S, NEW seq \in Seq(S), NEW e \in S
  PROVE  /\ Append(seq, e) \in Seq(S)
         /\ DOMAIN seq = 1..Len(seq) /\ Len(seq) \in Nat
         /\ DOMAIN Append(seq, e) = 1..(Len(seq) + 1)
         /\ \A k \in DOMAIN seq : Append(seq, e)[k] = seq[k]
         /\ Append(seq, e)[Len(seq) + 1] = e
  OBVIOUS

LEMMA MessageFields ==
  ASSUME NEW m \in Messages
  PROVE  /\ m.sender \in Users /\ m.nonce \in Nat /\ m.txId \in TxIds \cup {NoTxId}
         /\ m.expiresAt \in Nat \cup {NoExpiry} /\ m.body \in Bodies
  <1>1. 0..MaxNonce \subseteq Nat /\ Expiries \subseteq Nat \cup {NoExpiry}
    BY TokenAssumption
  <1>2. m \in [sender : Users, nonce : 0..MaxNonce, expiresAt : Expiries,
               txId : TxIds \cup {NoTxId}, body : Bodies]
    BY DEF Messages
  <1> HIDE DEF Messages
  <1>3. QED
    BY <1>1, <1>2

LEMMA ConstantBounds == MaxUint128 \in Nat /\ Stablecoin \in Denoms
  BY TokenAssumption

\* The amounts a body carries.
LEMMA BodyFields ==
  ASSUME NEW b \in Bodies
  PROVE  /\ b.kind = "withdrawFees" => b.denom \in Denoms /\ b.amount \in Nat
         /\ b.kind = "deposit" => b.amount \in Nat /\ b.funds \in Nat
         /\ b.kind = "outflow" => b.amount \in Nat
  BY TokenAssumption DEF MetadataBodies, FeeBodies, DepositBodies, OutflowBodies

\* Replay protection keeps the types of what it writes.
LEMMA PreventReplayType ==
  ASSUME TypeOK, NEW m \in Messages, PreventReplay(m)
  PROVE  /\ nextNonce' \in [Users -> Nat]
         /\ processedTxIds' \subseteq TxIds
         /\ log' \in Seq(LogEntries)
  <1>1. m.sender \in Users /\ m.txId \in TxIds \cup {NoTxId}
    BY MessageFields
  <1>2. nextNonce' \in [Users -> Nat] /\ processedTxIds' \subseteq TxIds
    BY <1>1 DEF TypeOK, PreventReplay
  <1>3. [msg |-> m, at |-> time] \in LogEntries
    BY DEF TypeOK, LogEntries
  <1>4. QED
    BY <1>2, <1>3, AppendEntry DEF TypeOK, PreventReplay

-----------------------------------------------------------------------------
(* Type correctness. *)

LEMMA BookedType ==
  ASSUME feeBalances \in [Denoms -> Nat \cup {Missing}],
         treasury \in 0..MaxUint128 \cup {Missing}, NEW d \in Denoms
  PROVE  Booked(d) \in Nat
  BY ConstantBounds DEF Booked, Balance, Missing

LEMMA UnbackedType ==
  ASSUME feeBalances \in [Denoms -> Nat \cup {Missing}],
         treasury \in 0..MaxUint128 \cup {Missing}, bank \in [Denoms -> Nat],
         unbacked = [d \in Denoms |-> Beyond(Booked(d), bank[d])]
  PROVE  unbacked \in [Denoms -> Nat]
  <1>1. \A d \in Denoms : Booked(d) \in Nat /\ bank[d] \in Nat
    BY BookedType
  <1>2. \A d \in Denoms : Beyond(Booked(d), bank[d]) \in Nat
    BY <1>1 DEF Beyond
  <1>3. QED
    BY <1>2

LEMMA InitType == Init => TypeOK
  <1> SUFFICES ASSUME Init PROVE TypeOK
    OBVIOUS
  <1>1. /\ admin \in Users /\ nextNonce \in [Users -> Nat] /\ processedTxIds \subseteq TxIds
        /\ time \in Nat /\ log \in Seq(LogEntries)
    BY DEF Init
  <1>2. CASE Fresh
    <2>1. /\ roles \in [Users -> RoleStates] /\ feeBalances \in [Denoms -> Nat \cup {Missing}]
          /\ treasury \in 0..MaxUint128 \cup {Missing}
          /\ configVersion \in {0, CurrentConfigVersion} /\ bank \in [Denoms -> Nat]
      BY <1>2, TokenAssumption
         DEF Fresh, RoleStates, Absent, Granted, Tombstone, CurrentConfigVersion
    <2>2. unbacked \in [Denoms -> Nat]
      BY <2>1, UnbackedType DEF Init
    <2>3. QED
      BY <1>1, <2>1, <2>2 DEF TypeOK
  <1>3. CASE Legacy
    <2>1. PICK s \in LegacyStates :
            /\ roles = s.roles /\ feeBalances = s.feeBalances /\ treasury = s.treasury
            /\ configVersion = 0 /\ bank = s.bank
      BY <1>3 DEF Legacy
    <2>2. s \in LegacyStorage
      BY TokenAssumption
    <2>3. /\ roles \in [Users -> RoleStates] /\ feeBalances \in [Denoms -> Nat \cup {Missing}]
          /\ treasury \in 0..MaxUint128 \cup {Missing}
          /\ configVersion \in {0, CurrentConfigVersion} /\ bank \in [Denoms -> Nat]
      BY <2>1, <2>2 DEF LegacyStorage
    <2>4. unbacked \in [Denoms -> Nat]
      BY <2>3, UnbackedType DEF Init
    <2>5. QED
      BY <1>1, <2>3, <2>4 DEF TypeOK
  <1>4. QED
    BY <1>2, <1>3 DEF Init

LEMMA NextType == TypeOK /\ [Next]_vars => TypeOK'
  <1> SUFFICES ASSUME TypeOK, [Next]_vars PROVE TypeOK'
    OBVIOUS
  <1>1. ASSUME NEW m \in Messages, Execute(m) PROVE TypeOK'
    <2>1. PreventReplay(m)
      BY <1>1 DEF Execute, ExecuteMetadata, ExecuteWithdrawFees, ExecuteDeposit, ExecuteOutflow
    <2>2. nextNonce' \in [Users -> Nat] /\ processedTxIds' \subseteq TxIds /\ log' \in Seq(LogEntries)
      BY <2>1, PreventReplayType
    <2>3. m.body \in Bodies
      BY MessageFields
    <2>4. CASE ExecuteMetadata(m)
      BY <2>2, <2>4 DEF TypeOK, ExecuteMetadata, accounts, config
    <2>5. CASE ExecuteWithdrawFees(m)
      <3> DEFINE d == m.body.denom
                 n == m.body.amount
      <3>1. d \in Denoms /\ n \in Nat
        BY <2>3, <2>5, BodyFields DEF ExecuteWithdrawFees
      <3>2. feeBalances' = [feeBalances EXCEPT ![d] = Balance(@) - n] /\ n <= Balance(feeBalances[d])
        BY <2>5 DEF ExecuteWithdrawFees, Covers
      <3>3. bank' = [bank EXCEPT ![d] = @ - n] /\ n <= bank[d]
        BY <2>5 DEF ExecuteWithdrawFees, Pay
      <3>4. UNCHANGED <<treasury, config, time, unbacked>>
        BY <2>5 DEF ExecuteWithdrawFees
      <3> HIDE DEF d, n
      <3>5. feeBalances' \in [Denoms -> Nat \cup {Missing}] /\ bank' \in [Denoms -> Nat]
        BY <3>1, <3>2, <3>3 DEF TypeOK, Balance, Missing
      <3>6. QED
        BY <2>2, <3>4, <3>5 DEF TypeOK, config
    <2>6. CASE ExecuteDeposit(m)
      <3>1. m.body.amount \in Nat /\ m.body.funds \in Nat
        BY <2>3, <2>6, BodyFields DEF ExecuteDeposit
      <3>2. treasury' \in 0..MaxUint128 /\ bank' \in [Denoms -> Nat]
        <4>1. /\ Balance(treasury) + m.body.amount <= MaxUint128
              /\ treasury' = Balance(treasury) + m.body.amount
              /\ bank' = [bank EXCEPT ![Stablecoin] = @ + m.body.funds]
          BY <2>6 DEF ExecuteDeposit
        <4>2. bank \in [Denoms -> Nat] /\ treasury \in 0..MaxUint128 \cup {Missing}
          BY DEF TypeOK
        <4>3. QED
          BY <3>1, <4>1, <4>2, ConstantBounds DEF Balance, Missing
      <3>3. unbacked' \in [Denoms -> Nat]
        <4>1. PICK b \in Nat : b = Beyond(m.body.amount, m.body.funds)
          BY <3>1 DEF Beyond
        <4>2. unbacked' = [unbacked EXCEPT ![Stablecoin] = @ + b]
          BY <2>6, <4>1 DEF ExecuteDeposit
        <4>3. unbacked \in [Denoms -> Nat] /\ unbacked[Stablecoin] + b \in Nat
          BY <4>1, ConstantBounds DEF TypeOK
        <4>4. QED
          BY <4>1, <4>2, <4>3
      <3>4. QED
        BY <2>2, <2>6, <3>2, <3>3 DEF TypeOK, ExecuteDeposit, config
    <2>7. CASE ExecuteOutflow(m)
      <3>1. m.body.amount \in Nat
        BY <2>3, <2>7, BodyFields DEF ExecuteOutflow
      <3>2. treasury' \in 0..MaxUint128 /\ bank' \in [Denoms -> Nat]
        BY <2>7, <3>1, ConstantBounds
           DEF TypeOK, ExecuteOutflow, Covers, TreasuryAfter, Pay, Balance, Missing
      <3>3. QED
        BY <2>2, <2>7, <3>2 DEF TypeOK, ExecuteOutflow, config
    <2>8. QED
      BY <1>1, <2>4, <2>5, <2>6, <2>7 DEF Execute
  <1>2. ASSUME NEW u \in Users, NEW v \in Users, NEW change \in RoleChanges,
               UpdateConfig(u, v, change)
        PROVE TypeOK'
    <2>1. ChangedRoles(change) \in [Users -> RoleStates]
      BY DEF TypeOK, ChangedRoles, RoleStates
    <2>2. QED
      BY <1>2, <2>1 DEF TypeOK, UpdateConfig, accounts
  <1>3. ASSUME NEW u \in Users, CleanupStorage(u) PROVE TypeOK'
    BY <1>3 DEF TypeOK, CleanupStorage, RoleStates, Stale
  <1>4. CASE Migrate
    BY <1>4, ConstantBounds DEF TypeOK, Migrate, MigratedTreasury, Balance, CurrentConfigVersion
  <1>5. CASE NextBlock
    BY <1>5 DEF TypeOK, NextBlock, accounts, config
  <1>6. CASE UNCHANGED vars
    BY <1>6 DEF TypeOK, vars
  <1>7. QED
    BY <1>1, <1>2, <1>3, <1>4, <1>5, <1>6 DEF Next

\* No handler brings a balance below zero or the treasury above a Uint128.
THEOREM TypeCorrect == Spec => []TypeOK
  BY InitType, NextType, PTL DEF Spec

-----------------------------------------------------------------------------
(* Replay protection.  Only PreventReplay writes the log, the nonces and the  *)
(* transaction ids; the counters and the set of ids are what the log says.    *)

ReplayInv ==
  /\ TypeOK
  /\ NoReplay
  /\ NoGap
  /\ NothingExpired
  /\ \A k \in DOMAIN log :
       /\ log[k].msg.nonce < nextNonce[log[k].msg.sender]
       /\ log[k].msg.txId # NoTxId => log[k].msg.txId \in processedTxIds

LEMMA ReplayInit == Init => ReplayInv
  <1> SUFFICES ASSUME Init PROVE ReplayInv
    OBVIOUS
  <1>1. DOMAIN log = {} /\ nextNonce = [u \in Users |-> 0]
    BY DEF Init
  <1>2. QED
    BY <1>1, InitType DEF ReplayInv, NoReplay, NoGap, NothingExpired

\* One message taking effect.
LEMMA ReplayStep ==
  ASSUME ReplayInv, TypeOK', NEW m \in Messages, PreventReplay(m), UNCHANGED time
  PROVE  ReplayInv'
  <1> DEFINE e == [msg |-> m, at |-> time]
             last == Len(log) + 1
  <1>1. TypeOK
    BY DEF ReplayInv
  <1>2. /\ m.sender \in Users /\ m.nonce \in Nat /\ m.txId \in TxIds \cup {NoTxId}
        /\ m.expiresAt \in Nat \cup {NoExpiry}
    BY MessageFields
  <1>3. e \in LogEntries
    BY <1>1 DEF TypeOK, LogEntries
  <1>4. /\ log' = Append(log, e)
        /\ nextNonce' = [nextNonce EXCEPT ![m.sender] = @ + 1]
        /\ processedTxIds' = processedTxIds \cup ({m.txId} \ {NoTxId})
        /\ m.nonce = nextNonce[m.sender]
        /\ m.txId # NoTxId => m.txId \notin processedTxIds
        /\ m.expiresAt # NoExpiry => time <= m.expiresAt
    BY DEF PreventReplay, NextInLine, FreshTxId, NotExpired
  <1>5. /\ DOMAIN log = 1..Len(log) /\ Len(log) \in Nat /\ DOMAIN log' = 1..last
        /\ \A k \in DOMAIN log : log'[k] = log[k]
        /\ log'[last] = e
    BY <1>1, <1>3, <1>4, AppendEntry DEF TypeOK
  <1>6. \A k \in DOMAIN log' : k = last \/ k \in DOMAIN log
    BY <1>5
  <1>7. \A k \in DOMAIN log : log[k] \in LogEntries
    BY <1>1 DEF TypeOK
  <1>8. \A k \in DOMAIN log :
          /\ log[k].msg.sender \in Users /\ log[k].msg.nonce \in Nat
          /\ log[k].msg.nonce < nextNonce[log[k].msg.sender]
          /\ log[k].msg.txId # NoTxId => log[k].msg.txId \in processedTxIds
    BY <1>7, MessageFields DEF ReplayInv, LogEntries
  <1>9. e.msg = m /\ e.at = time
    OBVIOUS
  <1>10. nextNonce \in [Users -> Nat]
    BY <1>1 DEF TypeOK
  <1> HIDE DEF e, last
  <1>11. NoReplay'
    <2> SUFFICES ASSUME NEW j \in DOMAIN log', NEW k \in DOMAIN log', j < k
                 PROVE  /\ log'[j].msg.sender = log'[k].msg.sender
                             => log'[j].msg.nonce < log'[k].msg.nonce
                        /\ log'[j].msg.txId = log'[k].msg.txId => log'[j].msg.txId = NoTxId
      BY DEF NoReplay
    <2>1. j \in DOMAIN log
      BY <1>5 DEF last
    <2>2. CASE k = last
      BY <1>4, <1>5, <1>8, <1>9, <2>1, <2>2
    <2>3. CASE k \in DOMAIN log
      BY <1>5, <2>1, <2>3 DEF ReplayInv, NoReplay
    <2>4. QED
      BY <1>6, <2>2, <2>3
  <1>12. NoGap'
    <2> SUFFICES ASSUME NEW u \in Users, NEW n \in 0..(nextNonce'[u] - 1)
                 PROVE  \E k \in DOMAIN log' : log'[k].msg.sender = u /\ log'[k].msg.nonce = n
      BY DEF NoGap
    <2>1. CASE u = m.sender /\ n = m.nonce
      <3>1. last \in DOMAIN log'
        BY <1>5 DEF last
      <3>2. QED
        BY <1>5, <1>9, <2>1, <3>1
    <2>2. CASE ~(u = m.sender /\ n = m.nonce)
      <3>1. n \in 0..(nextNonce[u] - 1)
        BY <1>2, <1>4, <1>10, <2>2
      <3>2. PICK k \in DOMAIN log : log[k].msg.sender = u /\ log[k].msg.nonce = n
        BY <3>1 DEF ReplayInv, NoGap
      <3>3. k \in DOMAIN log'
        BY <1>5 DEF last
      <3>4. QED
        BY <1>5, <3>2, <3>3
    <2>3. QED
      BY <2>1, <2>2
  <1>13. NothingExpired'
    BY <1>4, <1>5, <1>6, <1>9 DEF ReplayInv, NothingExpired
  <1>14. \A k \in DOMAIN log' :
           /\ log'[k].msg.nonce < nextNonce'[log'[k].msg.sender]
           /\ log'[k].msg.txId # NoTxId => log'[k].msg.txId \in processedTxIds'
    <2> SUFFICES ASSUME NEW k \in DOMAIN log'
                 PROVE  /\ log'[k].msg.nonce < nextNonce'[log'[k].msg.sender]
                        /\ log'[k].msg.txId # NoTxId => log'[k].msg.txId \in processedTxIds'
      OBVIOUS
    <2>1. CASE k = last
      BY <1>2, <1>4, <1>5, <1>9, <1>10, <2>1
    <2>2. CASE k \in DOMAIN log
      BY <1>2, <1>4, <1>5, <1>8, <1>10, <2>2
    <2>3. QED
      BY <1>6, <2>1, <2>2
  <1>15. QED
    BY <1>11, <1>12, <1>13, <1>14 DEF ReplayInv

LEMMA ReplayNext == ReplayInv /\ [Next]_vars => ReplayInv'
  <1> SUFFICES ASSUME ReplayInv, [Next]_vars PROVE ReplayInv'
    OBVIOUS
  <1>1. TypeOK'
    BY NextType DEF ReplayInv
  <1>2. ASSUME NEW m \in Messages, Execute(m) PROVE ReplayInv'
    <2>1. PreventReplay(m) /\ UNCHANGED time
      BY <1>2 DEF Execute, ExecuteMetadata, ExecuteWithdrawFees, ExecuteDeposit, ExecuteOutflow
    <2>2. QED
      BY <1>1, <2>1, ReplayStep
  <1>3. CASE UNCHANGED <<log, nextNonce, processedTxIds>>
    BY <1>1, <1>3 DEF ReplayInv, NoReplay, NoGap, NothingExpired
  <1>4. QED
    BY <1>2, <1>3 DEF Next, UpdateConfig, CleanupStorage, Migrate, NextBlock, vars

\* However messages are delivered, no nonce and no tx_id takes effect twice,
\* and those of one sender take effect in order.
THEOREM ReplayHolds == Spec => []NoReplay
  <1>1. ReplayInv => NoReplay
    BY DEF ReplayInv
  <1>2. QED
    BY <1>1, ReplayInit, ReplayNext, PTL DEF Spec

\* A sender's counter passes no nonce that was not used.
THEOREM NoGapHolds == Spec => []NoGap
  <1>1. ReplayInv => NoGap
    BY DEF ReplayInv
  <1>2. QED
    BY <1>1, ReplayInit, ReplayNext, PTL DEF Spec

\* Each message of a sender takes effect at most once, in order and without a gap.
THEOREM OnceInOrderHolds == Spec => []OnceInOrder
  <1>1. NoReplay /\ NoGap => OnceInOrder
    BY DEF OnceInOrder
  <1>2. QED
    BY <1>1, ReplayHolds, NoGapHolds, PTL

\* No message takes effect after its expiry.
THEOREM NothingExpiredHolds == Spec => []NothingExpired
  <1>1. ReplayInv => NothingExpired
    BY DEF ReplayInv
  <1>2. QED
    BY <1>1, ReplayInit, ReplayNext, PTL DEF Spec

-----------------------------------------------------------------------------
(* Solvency, up to what was booked without coming to the contract. *)

LEMMA SolventInit ==
  ASSUME TypeOK, Init PROVE Solvent
  <1>1. \A d \in Denoms : Booked(d) \in Nat /\ bank[d] \in Nat
    BY BookedType DEF TypeOK
  <1>2. \A d \in Denoms : unbacked[d] = Beyond(Booked(d), bank[d])
    BY DEF Init
  <1>3. QED
    BY <1>1, <1>2 DEF Solvent, Beyond

\* The books and the account by denomination, in a step that leaves the shortfall alone:
\* no denomination is booked higher than before by more than the account gains.
LEMMA SolventKept ==
  ASSUME TypeOK, Solvent, UNCHANGED unbacked,
         \A d \in Denoms : /\ Booked(d)' \in Nat /\ bank'[d] \in Nat
                           /\ Booked(d)' - Booked(d) <= bank'[d] - bank[d]
  PROVE  Solvent'
  <1>1. \A d \in Denoms : Booked(d) \in Nat /\ bank[d] \in Nat /\ unbacked[d] \in Nat
    BY BookedType DEF TypeOK
  <1>2. \A d \in Denoms : Booked(d)' <= bank'[d] + unbacked'[d]
    BY <1>1 DEF Solvent
  <1>3. QED
    BY <1>2 DEF Solvent

LEMMA SolventNext ==
  ASSUME TypeOK, TypeOK', Solvent, [Next]_vars PROVE Solvent'
  <1>1. /\ feeBalances \in [Denoms -> Nat \cup {Missing}] /\ bank \in [Denoms -> Nat]
        /\ treasury \in Nat \cup {Missing} /\ Stablecoin \in Denoms
        /\ unbacked \in [Denoms -> Nat]
    BY TokenAssumption DEF TypeOK
  <1>2. /\ \A d \in Denoms : Booked(d) \in Nat /\ bank[d] \in Nat /\ unbacked[d] \in Nat
        /\ \A d \in Denoms : Booked(d)' \in Nat /\ bank'[d] \in Nat
    <2>1. \A d \in Denoms : Booked(d) \in Nat
      BY BookedType DEF TypeOK
    <2>2. /\ feeBalances' \in [Denoms -> Nat \cup {Missing}]
          /\ treasury' \in 0..MaxUint128 \cup {Missing} /\ bank' \in [Denoms -> Nat]
      BY DEF TypeOK
    <2>3. \A d \in Denoms : Booked(d)' \in Nat
      BY <2>2, ConstantBounds DEF Booked, Balance, Missing
    <2>4. QED
      BY <1>1, <2>1, <2>2, <2>3
  <1>3. ASSUME NEW m \in Messages, Execute(m) PROVE Solvent'
    <2>1. m.body \in Bodies
      BY MessageFields
    <2>2. CASE ExecuteMetadata(m)
      BY <2>2 DEF ExecuteMetadata, accounts, Solvent, Booked
    <2>3. CASE ExecuteWithdrawFees(m)
      <3> DEFINE d == m.body.denom
                 n == m.body.amount
      <3>1. d \in Denoms /\ n \in Nat
        BY <2>1, <2>3, BodyFields DEF ExecuteWithdrawFees
      <3>2. /\ feeBalances' = [feeBalances EXCEPT ![d] = Balance(@) - n]
            /\ n <= Balance(feeBalances[d])
            /\ bank' = [bank EXCEPT ![d] = @ - n] /\ UNCHANGED <<treasury, unbacked>>
        BY <2>3 DEF ExecuteWithdrawFees, Covers, Pay
      <3> HIDE DEF d, n
      <3>3. Balance(feeBalances'[d]) = Balance(feeBalances[d]) - n
        BY <1>1, <3>1, <3>2 DEF Balance, Missing
      <3>4. \A c \in Denoms \ {d} : feeBalances'[c] = feeBalances[c] /\ bank'[c] = bank[c]
        BY <1>1, <3>1, <3>2
      <3>5. bank'[d] = bank[d] - n
        BY <1>1, <3>1, <3>2
      <3>6. /\ \A c \in Denoms \ {d} : Booked(c)' = Booked(c)
            /\ Booked(d)' = Booked(d) - n
        BY <1>1, <3>1, <3>2, <3>3, <3>4 DEF Booked, Balance, Missing
      <3>7. \A c \in Denoms : Booked(c)' - Booked(c) <= bank'[c] - bank[c]
        BY <1>2, <3>1, <3>4, <3>5, <3>6
      <3>8. QED
        BY <1>2, <3>2, <3>7, SolventKept
    <2>4. CASE ExecuteDeposit(m)
      <3> DEFINE n == m.body.amount
                 f == m.body.funds
      <3>1. n \in Nat /\ f \in Nat
        BY <2>1, <2>4, BodyFields DEF ExecuteDeposit
      <3>2. /\ treasury' = Balance(treasury) + n
            /\ bank' = [bank EXCEPT ![Stablecoin] = @ + f]
            /\ unbacked' = [unbacked EXCEPT ![Stablecoin] = @ + Beyond(n, f)]
            /\ feeBalances' = feeBalances
        BY <2>4 DEF ExecuteDeposit
      <3> HIDE DEF n, f
      <3>3. Beyond(n, f) \in Nat /\ n <= f + Beyond(n, f)
        BY <3>1 DEF Beyond
      <3>4. /\ Booked(Stablecoin)' = Booked(Stablecoin) + n
            /\ \A c \in Denoms \ {Stablecoin} : Booked(c)' = Booked(c)
        BY <1>1, <3>1, <3>2 DEF Booked, Balance, Missing
      <3>5. /\ bank'[Stablecoin] = bank[Stablecoin] + f
            /\ unbacked'[Stablecoin] = unbacked[Stablecoin] + Beyond(n, f)
            /\ \A c \in Denoms \ {Stablecoin} : bank'[c] = bank[c] /\ unbacked'[c] = unbacked[c]
        BY <1>1, <3>1, <3>2
      <3>6. \A c \in Denoms : Booked(c)' <= bank'[c] + unbacked'[c]
        BY <1>1, <1>2, <3>1, <3>3, <3>4, <3>5 DEF Solvent
      <3>7. QED
        BY <3>6 DEF Solvent
    <2>5. CASE ExecuteOutflow(m)
      <3> DEFINE n == m.body.amount
      <3>1. n \in Nat
        BY <2>1, <2>5, BodyFields DEF ExecuteOutflow
      <3>2. /\ n <= Balance(treasury) /\ treasury' = Balance(treasury) - n
            /\ bank' = [bank EXCEPT ![Stablecoin] = @ - n]
            /\ UNCHANGED <<feeBalances, unbacked>>
        BY <2>5 DEF ExecuteOutflow, Covers, TreasuryAfter, Pay
      <3> HIDE DEF n
      <3>3. /\ Booked(Stablecoin)' = Booked(Stablecoin) - n
            /\ \A c \in Denoms \ {Stablecoin} : Booked(c)' = Booked(c)
        BY <1>1, <3>1, <3>2 DEF Booked, Balance, Missing
      <3>4. /\ bank'[Stablecoin] = bank[Stablecoin] - n
            /\ \A c \in Denoms \ {Stablecoin} : bank'[c] = bank[c]
        BY <1>1, <3>1, <3>2
      <3>5. \A c \in Denoms : Booked(c)' - Booked(c) <= bank'[c] - bank[c]
        BY <1>1, <1>2, <3>1, <3>3, <3>4
      <3>6. QED
        BY <1>2, <3>2, <3>5, SolventKept
    <2>6. QED
      BY <1>3, <2>2, <2>3, <2>4, <2>5 DEF Execute
  <1>4. ASSUME NEW u \in Users, CleanupStorage(u) PROVE Solvent'
    <2>1. \A d \in Denoms : Balance(feeBalances'[d]) = Balance(feeBalances[d])
      BY <1>4 DEF CleanupStorage, Balance, Missing
    <2>2. QED
      BY <1>4, <2>1 DEF CleanupStorage, Solvent, Booked
  <1>5. CASE Migrate
    BY <1>1, <1>5 DEF Migrate, MigratedTreasury, Solvent, Booked, Balance, Missing
  <1>6. CASE UNCHANGED accounts
    BY <1>6 DEF accounts, Solvent, Booked
  <1>7. QED
    BY <1>3, <1>4, <1>5, <1>6 DEF Next, UpdateConfig, NextBlock, vars, accounts

\* The account is never short of the books by more than what deposits booked without
\* sending it, and what an old deployment lacked: no assumption about the callers.
THEOREM SolventHolds == Spec => []Solvent
  <1>1. Init => TypeOK /\ Solvent
    BY InitType, SolventInit
  <1>2. (TypeOK /\ Solvent) /\ [Next]_vars => (TypeOK /\ Solvent)'
    BY NextType, SolventNext
  <1>3. QED
    BY <1>1, <1>2, PTL DEF Spec

-----------------------------------------------------------------------------
(* Money and rights in every step. *)

\* What a migration wrote stays written.
MigratedInv == configVersion = CurrentConfigVersion => treasury # Missing

LEMMA MigratedInit == Init => MigratedInv
  <1> SUFFICES ASSUME Init, configVersion = CurrentConfigVersion PROVE treasury # Missing
    BY DEF MigratedInv
  <1>1. Fresh
    BY DEF Init, Legacy, CurrentConfigVersion
  <1>2. QED
    BY <1>1 DEF Fresh, Missing

LEMMA MigratedNext == TypeOK /\ MigratedInv /\ [Next]_vars => MigratedInv'
  <1> SUFFICES ASSUME TypeOK, MigratedInv, [Next]_vars PROVE MigratedInv'
    OBVIOUS
  <1>1. ASSUME NEW m \in Messages, Execute(m) PROVE MigratedInv'
    <2>1. m.body \in Bodies
      BY MessageFields
    <2>2. CASE ExecuteMetadata(m)
      BY <2>2 DEF ExecuteMetadata, accounts, config, MigratedInv
    <2>3. CASE ExecuteWithdrawFees(m)
      BY <2>3 DEF ExecuteWithdrawFees, config, MigratedInv
    <2>4. CASE ExecuteDeposit(m)
      <3>1. m.body.amount \in Nat
        BY <2>1, <2>4, BodyFields DEF ExecuteDeposit
      <3>2. treasury' \in Nat
        BY <2>4, <3>1, ConstantBounds DEF TypeOK, ExecuteDeposit, Balance, Missing
      <3>3. QED
        BY <3>2 DEF MigratedInv, Missing
    <2>5. CASE ExecuteOutflow(m)
      <3>1. m.body.amount \in Nat
        BY <2>1, <2>5, BodyFields DEF ExecuteOutflow
      <3>2. treasury' \in Nat
        BY <2>5, <3>1, ConstantBounds
           DEF TypeOK, ExecuteOutflow, Covers, TreasuryAfter, Balance, Missing
      <3>3. QED
        BY <3>2 DEF MigratedInv, Missing
    <2>6. QED
      BY <1>1, <2>2, <2>3, <2>4, <2>5 DEF Execute
  <1>2. CASE Migrate
    BY <1>2, ConstantBounds DEF TypeOK, Migrate, MigratedTreasury, Balance, Missing, MigratedInv
  <1>3. CASE UNCHANGED <<treasury, configVersion>>
    BY <1>3 DEF MigratedInv
  <1>4. QED
    BY <1>1, <1>2, <1>3 DEF Next, UpdateConfig, CleanupStorage, NextBlock, accounts, config, vars

\* A clean-up changes nobody's rights and no balance, and a migrated contract passes its
\* self-check after it (CleanupStorage, query_self_check).
THEOREM CleanupHolds == Spec => CleanupIsInvisible
  <1> DEFINE Invisible ==
        /\ \A u \in Users : IsAuthorized(u)' = IsAuthorized(u)
        /\ \A d \in Denoms : Balance(feeBalances'[d]) = Balance(feeBalances[d])
        /\ configVersion = CurrentConfigVersion => SelfCheck'
  <1>1. ASSUME TypeOK, MigratedInv, NEW u \in Users, CleanupStorage(u) PROVE Invisible
    <2>1. /\ feeBalances' = [d \in Denoms |-> IF feeBalances[d] = 0 THEN Missing ELSE feeBalances[d]]
          /\ roles' = [w \in Users |-> IF roles[w] = Tombstone THEN Absent ELSE roles[w]]
          /\ UNCHANGED <<admin, treasury, configVersion>>
      BY <1>1 DEF CleanupStorage, Stale
    <2>2. \A w \in Users : roles'[w] # Tombstone /\ (roles'[w] = Granted <=> roles[w] = Granted)
      BY <2>1 DEF Tombstone, Absent, Granted
    <2>3. \A w \in Users : IsAuthorized(w)' = IsAuthorized(w)
      BY <2>1, <2>2 DEF IsAuthorized
    <2>4. \A d \in Denoms : Balance(feeBalances'[d]) = Balance(feeBalances[d]) /\ feeBalances'[d] # 0
      BY <2>1 DEF Balance, Missing
    <2>5. configVersion = CurrentConfigVersion => SelfCheck'
      BY <1>1, <2>1, <2>2, <2>4 DEF SelfCheck, MigratedInv
    <2>6. QED
      BY <2>3, <2>4, <2>5
  <1>2. TypeOK /\ MigratedInv /\ [Next]_vars =>
          [(\E u \in Users : CleanupStorage(u)) => Invisible]_vars
    BY <1>1
  <1>3. QED
    BY <1>2, InitType, NextType, MigratedInit, MigratedNext, PTL DEF Spec, CleanupIsInvisible

\* The treasury and the fees shrink by what the account pays out and by nothing else
\* (withdraw_fees, record_outflow, migrate, CleanupStorage).
THEOREM PaymentsHold == Spec => BooksFollowPayments
  <1> DEFINE Shrink(before, after) == Balance(before) - Balance(after)
             Fees(d) == Shrink(feeBalances[d], feeBalances'[d])
             Vault(d) == IF d = Stablecoin THEN Shrink(treasury, treasury') ELSE 0
             Paid == \A d \in Denoms : Fees(d) + Vault(d) > 0 => bank[d] - bank'[d] = Fees(d) + Vault(d)
  <1>1. ASSUME TypeOK, Next PROVE Paid
    <2>1. /\ feeBalances \in [Denoms -> Nat \cup {Missing}] /\ bank \in [Denoms -> Nat]
          /\ treasury \in Nat \cup {Missing} /\ Stablecoin \in Denoms
      BY <1>1, TokenAssumption DEF TypeOK
    <2>2. ASSUME \A d \in Denoms : Balance(feeBalances'[d]) = Balance(feeBalances[d]),
                 Balance(treasury') = Balance(treasury)
          PROVE  Paid
      <3>1. Balance(treasury) \in Nat /\ \A d \in Denoms : Balance(feeBalances[d]) \in Nat
        BY <2>1 DEF Balance, Missing
      <3>2. \A d \in Denoms : Fees(d) + Vault(d) = 0
        BY <2>2, <3>1
      <3>3. QED
        BY <3>2
    <2>3. ASSUME NEW m \in Messages, Execute(m) PROVE Paid
      <3>1. m.body \in Bodies
        BY MessageFields
      <3>2. CASE ExecuteMetadata(m)
        BY <2>2, <3>2 DEF ExecuteMetadata, accounts
      <3>3. CASE ExecuteWithdrawFees(m)
        <4>1. PICK c \in Denoms, n \in Nat : m.body.denom = c /\ m.body.amount = n
          BY <3>1, <3>3, BodyFields DEF ExecuteWithdrawFees
        <4>2. /\ feeBalances' = [feeBalances EXCEPT ![c] = Balance(@) - n]
              /\ n <= Balance(feeBalances[c]) /\ n > 0
              /\ bank' = [bank EXCEPT ![c] = @ - n] /\ treasury' = treasury
          BY <3>3, <4>1 DEF ExecuteWithdrawFees, Covers, Pay
        <4>3. Balance(feeBalances'[c]) = Balance(feeBalances[c]) - n /\ bank'[c] = bank[c] - n
          BY <2>1, <4>2 DEF Balance, Missing
        <4>4. \A d \in Denoms \ {c} : feeBalances'[d] = feeBalances[d] /\ bank'[d] = bank[d]
          BY <2>1, <4>2
        <4>5. Balance(treasury) \in Nat /\ \A d \in Denoms : Balance(feeBalances[d]) \in Nat
          BY <2>1 DEF Balance, Missing
        <4>6. QED
          BY <2>1, <4>2, <4>3, <4>4, <4>5
      <3>4. CASE ExecuteDeposit(m)
        <4>1. PICK n \in Nat : m.body.amount = n
          BY <3>1, <3>4, BodyFields DEF ExecuteDeposit
        <4>2. treasury' = Balance(treasury) + n /\ feeBalances' = feeBalances
          BY <3>4, <4>1 DEF ExecuteDeposit
        <4>3. Balance(treasury) \in Nat /\ \A d \in Denoms : Balance(feeBalances[d]) \in Nat
          BY <2>1 DEF Balance, Missing
        <4>4. Balance(treasury') = Balance(treasury) + n
          BY <4>2, <4>3 DEF Balance, Missing
        <4>5. QED
          BY <4>2, <4>3, <4>4
      <3>5. CASE ExecuteOutflow(m)
        <4>1. PICK n \in Nat : m.body.amount = n
          BY <3>1, <3>5, BodyFields DEF ExecuteOutflow
        <4>2. /\ treasury' = Balance(treasury) - n /\ n <= Balance(treasury)
              /\ bank' = [bank EXCEPT ![Stablecoin] = @ - n] /\ feeBalances' = feeBalances
          BY <3>5, <4>1 DEF ExecuteOutflow, TreasuryAfter, Covers, Pay
        <4>3. Balance(treasury) \in Nat /\ \A d \in Denoms : Balance(feeBalances[d]) \in Nat
          BY <2>1 DEF Balance, Missing
        <4>4. Balance(treasury') = Balance(treasury) - n
          BY <4>1, <4>2, <4>3 DEF Balance, Missing
        <4>5. bank'[Stablecoin] = bank[Stablecoin] - n
          BY <2>1, <4>2
        <4>6. QED
          BY <2>1, <4>2, <4>3, <4>4, <4>5
      <3>6. QED
        BY <2>3, <3>2, <3>3, <3>4, <3>5 DEF Execute
    <2>4. ASSUME NEW u \in Users, CleanupStorage(u) PROVE Paid
      <3>1. /\ feeBalances' = [d \in Denoms |-> IF feeBalances[d] = 0 THEN Missing ELSE feeBalances[d]]
            /\ treasury' = treasury
        BY <2>4 DEF CleanupStorage
      <3>2. \A d \in Denoms : Balance(feeBalances'[d]) = Balance(feeBalances[d])
        BY <3>1 DEF Balance, Missing
      <3>3. QED
        BY <2>2, <3>1, <3>2
    <2>5. CASE Migrate
      <3>1. treasury' = Balance(treasury) /\ feeBalances' = feeBalances
        BY <2>5 DEF Migrate, MigratedTreasury
      <3>2. Balance(treasury') = Balance(treasury)
        BY <2>1, <3>1 DEF Balance, Missing
      <3>3. QED
        BY <2>2, <3>1, <3>2
    <2>6. CASE UNCHANGED accounts
      BY <2>2, <2>6 DEF accounts
    <2>7. QED
      BY <1>1, <2>3, <2>4, <2>5, <2>6 DEF Next, UpdateConfig, NextBlock, accounts
  <1>2. TypeOK /\ [Next]_vars => [Paid]_vars
    BY <1>1
  <1>3. QED
    BY <1>2, InitType, NextType, PTL DEF Spec, BooksFollowPayments

-----------------------------------------------------------------------------
(* execute_batch, for batches of any length. *)

Elementwise(g, data, msgs) ==
  g = [k \in 0..Len(msgs) |->
         IF k = 0 THEN [tokens |-> data.tokens, of |-> data.of, ok |-> TRUE]
         ELSE BatchStep(g[k - 1], msgs[k], data.tokens)]

LEMMA RunBatchIs ==
  ASSUME NEW data, NEW msgs
  PROVE  RunBatch(data, msgs) = (CHOOSE g : Elementwise(g, data, msgs))[Len(msgs)]
  BY DEF RunBatch, Elementwise

\* The loop has an outcome.
LEMMA BatchRuns ==
  ASSUME NEW data, NEW msgs, Len(msgs) \in Nat
  PROVE  \E g : Elementwise(g, data, msgs)
  <1> DEFINE L == Len(msgs)
             Value(g, k) == IF k = 0 THEN [tokens |-> data.tokens, of |-> data.of, ok |-> TRUE]
                            ELSE BatchStep(g[k - 1], msgs[k], data.tokens)
             Upto(g, n) == \A k \in 0..L : k <= n => g[k] = Value(g, k)
             T == {n \in Nat : \E g : Upto(g, n)}
  <1>1. 0 \in T
    <2> DEFINE g == [k \in 0..L |-> [tokens |-> data.tokens, of |-> data.of, ok |-> TRUE]]
    <2>1. Upto(g, 0)
      OBVIOUS
    <2>2. QED
      BY <2>1
  <1>2. ASSUME NEW n \in Nat, n \in T PROVE n + 1 \in T
    <2>1. PICK g : Upto(g, n)
      BY <1>2
    <2> DEFINE h == [k \in 0..L |-> IF k <= n THEN g[k] ELSE Value(g, k)]
    <2>2. ASSUME NEW k \in 0..L, k <= n + 1 PROVE h[k] = Value(h, k)
      <3>1. CASE k = 0
        BY <2>1, <3>1
      <3>2. CASE k # 0
        <4>1. k - 1 \in 0..L /\ k - 1 <= n
          BY <2>2, <3>2
        <4>2. h[k - 1] = g[k - 1]
          BY <4>1
        <4>3. h[k] = Value(g, k)
          BY <2>1
        <4>4. QED
          BY <4>2, <4>3, <3>2
      <3>3. QED
        BY <3>1, <3>2
    <2>3. Upto(h, n + 1)
      BY <2>2
    <2> HIDE DEF h, Upto
    <2>4. QED
      BY <2>3
  <1>3. Nat \subseteq T
    <2> HIDE DEF T
    <2>1. QED
      BY <1>1, <1>2, InductionOverNat
  <1>4. PICK g : Upto(g, L)
    BY <1>3
  <1> DEFINE h == [k \in 0..L |-> g[k]]
  <1>5. \A k \in 0..L : h[k] = Value(h, k)
    <2>1. \A k \in 0..L : k <= L
      OBVIOUS
    <2>3. \A k \in 0..L : g[k] = Value(g, k)
      BY <1>4, <2>1
    <2>2. \A k \in 0..L : k # 0 => k - 1 \in 0..L
      OBVIOUS
    <2>4. QED
      BY <2>2, <2>3
  <1>6. h = [k \in 0..L |-> h[k]]
    OBVIOUS
  <1>7. h = [k \in 0..L |-> Value(h, k)]
    <2> HIDE DEF h
    <2>1. QED
      BY <1>5, <1>6
  <1>8. Elementwise(h, data, msgs)
    <2> HIDE DEF h
    <2>1. QED
      BY <1>7 DEF Elementwise
  <1>9. QED
    BY <1>8

\* What the first k elements of a batch have written, read as a whole.
NamedBefore(data, msgs, j) ==
  msgs[j].token \in data.tokens \/ \E i \in 1..(j - 1) : msgs[i].token = msgs[j].token
AsRead(r, data, msgs, k) ==
  /\ r.ok = (\A j \in 1..k : msgs[j].op = "update" => NamedBefore(data, msgs, j))
  /\ r.tokens = data.tokens \cup {msgs[j].token : j \in 1..k}
  /\ r.of = [t \in Tokens |-> r.of[t]]
  /\ \A t \in Tokens :
       (\A j \in 1..k : msgs[j].token # t) => r.of[t] = data.of[t]
  /\ \A j \in 1..k :
       (\A i \in 1..k : msgs[i].token = msgs[j].token => i <= j) => r.of[msgs[j].token] = msgs[j].data

LEMMA BatchStepReads ==
  ASSUME NEW data, NEW msgs \in Seq(BatchMsgs), NEW r, NEW k \in 1..Len(msgs),
         AsRead(r, data, msgs, k - 1)
  PROVE  AsRead(BatchStep(r, msgs[k], data.tokens), data, msgs, k)
  <1> DEFINE s == BatchStep(r, msgs[k], data.tokens)
             m == msgs[k]
  <1>1. /\ \A j \in 1..Len(msgs) : msgs[j].token \in Tokens
        /\ k \in 1..Len(msgs) /\ k \in Nat /\ 1..k = (1..(k - 1)) \cup {k} /\ k \notin 1..(k - 1)
        /\ \A j \in 1..k : j \in Nat /\ j <= k /\ j \in 1..Len(msgs)
    <2>1. Len(msgs) \in Nat /\ \A j \in 1..Len(msgs) : msgs[j] \in BatchMsgs
      OBVIOUS
    <2>2. \A j \in 1..Len(msgs) : msgs[j].token \in Tokens
      BY <2>1 DEF BatchMsgs
    <2>3. QED
      BY <2>1, <2>2
  <1>2. PICK token, old, tokens, ok :
          /\ token = m.token /\ old = r.of /\ tokens = r.tokens /\ ok = r.ok
    OBVIOUS
  <1>3. s = [tokens |-> tokens \cup {token}, of |-> [old EXCEPT ![token] = m.data],
             ok |-> ok /\ (m.op = "update" => token \in tokens)]
    BY <1>2 DEF BatchStep
  <1>4. /\ s.tokens = tokens \cup {token} /\ s.of = [old EXCEPT ![token] = m.data]
        /\ s.ok = (ok /\ (m.op = "update" => token \in tokens))
    BY <1>3
  <1>5. /\ ok = (\A j \in 1..(k - 1) : msgs[j].op = "update" => NamedBefore(data, msgs, j))
        /\ tokens = data.tokens \cup {msgs[j].token : j \in 1..(k - 1)}
        /\ old = [t \in Tokens |-> old[t]]
        /\ \A t \in Tokens :
             (\A j \in 1..(k - 1) : msgs[j].token # t) => old[t] = data.of[t]
        /\ \A j \in 1..(k - 1) :
             (\A i \in 1..(k - 1) : msgs[i].token = msgs[j].token => i <= j)
               => old[msgs[j].token] = msgs[j].data
    BY <1>2 DEF AsRead
  <1> HIDE DEF s, m
  <1>6. token \in tokens <=> NamedBefore(data, msgs, k)
    BY <1>2, <1>5 DEF NamedBefore, m
  <1>7. s.ok = (\A j \in 1..k : msgs[j].op = "update" => NamedBefore(data, msgs, j))
    BY <1>1, <1>4, <1>5, <1>6, Zenon DEF m
  <1>8. s.tokens = data.tokens \cup {msgs[j].token : j \in 1..k}
    BY <1>1, <1>2, <1>4, <1>5 DEF m
  <1>9. token \in Tokens
    BY <1>1, <1>2 DEF m
  <1>10. /\ s.of = [t \in Tokens |-> s.of[t]]
         /\ \A t \in Tokens : s.of[t] = IF t = token THEN m.data ELSE old[t]
    <2>1. PICK f : f = s.of
      OBVIOUS
    <2>2. f = [old EXCEPT ![token] = m.data]
      BY <1>4, <2>1
    <2>3. f = [t \in Tokens |-> f[t]] /\ \A t \in Tokens : f[t] = IF t = token THEN m.data ELSE old[t]
      BY <1>5, <1>9, <2>2
    <2>4. QED
      BY <2>1, <2>3
  <1>11. ASSUME NEW t \in Tokens, \A j \in 1..k : msgs[j].token # t PROVE s.of[t] = data.of[t]
    BY <1>1, <1>2, <1>5, <1>10, <1>11 DEF m
  <1>12. ASSUME NEW j \in 1..k, \A i \in 1..k : msgs[i].token = msgs[j].token => i <= j
         PROVE  s.of[msgs[j].token] = msgs[j].data
    <2>1. msgs[j].token \in Tokens
      BY <1>1
    <2>2. CASE j = k
      BY <1>2, <1>10, <2>1, <2>2 DEF m
    <2>3. CASE j # k
      <3>1. j \in 1..(k - 1) /\ k > j /\ msgs[j].token # token
        BY <1>1, <1>2, <1>12, <2>3 DEF m
      <3>2. old[msgs[j].token] = msgs[j].data
        BY <1>1, <1>5, <1>12, <3>1
      <3>3. QED
        BY <1>10, <2>1, <3>1, <3>2
    <2>4. QED
      BY <2>2, <2>3
  <1>13. QED
    BY <1>7, <1>8, <1>10, <1>11, <1>12 DEF AsRead, s

LEMMA BatchReads ==
  ASSUME NEW data, data.of = [t \in Tokens |-> data.of[t]], NEW msgs \in Seq(BatchMsgs)
  PROVE  AsRead(RunBatch(data, msgs), data, msgs, Len(msgs))
  <1>1. Len(msgs) \in Nat
    OBVIOUS
  <1>2. PICK g : g = (CHOOSE h : Elementwise(h, data, msgs))
    OBVIOUS
  <1>3. Elementwise(g, data, msgs)
    BY <1>1, <1>2, BatchRuns
  <1> DEFINE T == {k \in Nat : k <= Len(msgs) => AsRead(g[k], data, msgs, k)}
  <1>4. \A k \in 0..Len(msgs) :
          g[k] = IF k = 0 THEN [tokens |-> data.tokens, of |-> data.of, ok |-> TRUE]
                 ELSE BatchStep(g[k - 1], msgs[k], data.tokens)
    BY <1>3 DEF Elementwise
  <1>5. 0 \in T
    <2>1. g[0] = [tokens |-> data.tokens, of |-> data.of, ok |-> TRUE]
      BY <1>1, <1>4
    <2>2. g[0].tokens = data.tokens /\ g[0].of = data.of /\ g[0].ok = TRUE
      BY <2>1
    <2>3. 1..0 = {}
      OBVIOUS
    <2>4. AsRead(g[0], data, msgs, 0)
      BY <2>2, <2>3 DEF AsRead
    <2>5. QED
      BY <2>4
  <1>6. ASSUME NEW k \in Nat, k \in T PROVE k + 1 \in T
    <2> SUFFICES ASSUME k + 1 <= Len(msgs) PROVE AsRead(g[k + 1], data, msgs, k + 1)
      OBVIOUS
    <2>1. AsRead(g[(k + 1) - 1], data, msgs, (k + 1) - 1) /\ k + 1 \in 1..Len(msgs)
      BY <1>1, <1>6
    <2>2. g[k + 1] = BatchStep(g[(k + 1) - 1], msgs[k + 1], data.tokens)
      <3>1. k + 1 \in 0..Len(msgs) /\ k + 1 # 0
        BY <1>1
      <3>2. QED
        BY <1>4, <3>1
    <2>3. QED
      BY <2>1, <2>2, BatchStepReads
  <1>7. Nat \subseteq T
    <2> HIDE DEF T
    <2>1. QED
      BY <1>5, <1>6, InductionOverNat
  <1>8. QED
    BY <1>1, <1>2, <1>7, RunBatchIs

\* A batch leaves metadata of the same tokens.
MetadataInv == metadata.of = [t \in Tokens |-> metadata.of[t]]

LEMMA MetadataInit == Init => MetadataInv
  <1> SUFFICES ASSUME Init PROVE MetadataInv
    OBVIOUS
  <1>1. metadata.of = [t \in Tokens |-> CHOOSE d \in Metadata : TRUE]
    BY DEF Init
  <1>2. QED
    BY <1>1 DEF MetadataInv

LEMMA MetadataNext == MetadataInv /\ [Next]_vars => MetadataInv'
  <1> SUFFICES ASSUME MetadataInv, [Next]_vars PROVE MetadataInv'
    OBVIOUS
  <1>1. ASSUME NEW m \in Messages, ExecuteMetadata(m) PROVE MetadataInv'
    <2>1. m.body \in Bodies /\ m.body.kind = "metadata"
      BY <1>1, MessageFields DEF ExecuteMetadata
    <2>2. m.body.msgs \in Seq(BatchMsgs)
      BY <2>1, TokenAssumption DEF MetadataBodies, FeeBodies, DepositBodies, OutflowBodies
    <2>3. PICK r : r = RunBatch(metadata, m.body.msgs)
      OBVIOUS
    <2>4. AsRead(r, metadata, m.body.msgs, Len(m.body.msgs))
      BY <2>2, <2>3, BatchReads DEF MetadataInv
    <2>5. r.of = [t \in Tokens |-> r.of[t]]
      BY <2>4 DEF AsRead
    <2>6. metadata' = [tokens |-> r.tokens, of |-> r.of]
      BY <1>1, <2>3 DEF ExecuteMetadata
    <2>7. metadata'.of = r.of
      BY <2>6
    <2>8. QED
      BY <2>5, <2>7 DEF MetadataInv
  <1>2. CASE UNCHANGED metadata
    BY <1>2 DEF MetadataInv
  <1>3. QED
    BY <1>1, <1>2 DEF Next, Execute, ExecuteWithdrawFees, ExecuteDeposit, ExecuteOutflow,
                      UpdateConfig, CleanupStorage, Migrate, NextBlock, vars

\* Whatever the metadata and however long the batch: the loop over the storage fails and writes
\* as the reference reading of the whole batch says (execute_batch).
THEOREM BatchHolds == Spec => []BatchIsSequential
  <1>1. ASSUME MetadataInv, NEW msgs \in Batches
        PROVE  LET result == RunBatch(metadata, msgs)
                   reference == BatchReference(metadata, msgs)
               IN  /\ result.ok = reference.ok
                   /\ result.ok => /\ result.tokens = reference.tokens
                                   /\ result.of = reference.of
    <2>1. msgs \in Seq(BatchMsgs) /\ DOMAIN msgs = 1..Len(msgs) /\ Len(msgs) \in Nat
      BY TokenAssumption
    <2>2. PICK r : r = RunBatch(metadata, msgs)
      OBVIOUS
    <2>3. AsRead(r, metadata, msgs, Len(msgs))
      BY <1>1, <2>1, <2>2, BatchReads DEF MetadataInv
    <2> DEFINE writes(t) == {k \in DOMAIN msgs : msgs[k].token = t}
               last(t) == CHOOSE k \in writes(t) : \A j \in writes(t) : j <= k
               named == \A k \in DOMAIN msgs :
                          msgs[k].op = "update" =>
                            \/ msgs[k].token \in metadata.tokens
                            \/ \E j \in 1..(k - 1) : msgs[j].token = msgs[k].token
               tokens == metadata.tokens \cup {msgs[k].token : k \in DOMAIN msgs}
               of == [t \in Tokens |-> IF writes(t) = {} THEN metadata.of[t] ELSE msgs[last(t)].data]
    <2>4. BatchReference(metadata, msgs) = [ok |-> named, tokens |-> tokens, of |-> of]
      BY DEF BatchReference
    <2>5. r.ok = named /\ r.tokens = tokens
      BY <2>1, <2>3 DEF AsRead, NamedBefore
    <2>6. ASSUME NEW t \in Tokens PROVE r.of[t] = of[t]
      <3>1. CASE writes(t) = {}
        <4>1. \A j \in 1..Len(msgs) : msgs[j].token # t
          BY <2>1, <3>1
        <4>2. QED
          BY <2>3, <3>1, <4>1 DEF AsRead
      <3>2. CASE writes(t) # {}
        <4>1. IsFiniteSet(writes(t)) /\ writes(t) \subseteq Nat
          <5>1. IsFiniteSet(1..Len(msgs)) /\ writes(t) \subseteq 1..Len(msgs)
            BY <2>1, FS_Interval
          <5>2. QED
            BY <5>1, FS_Subset
        <4>2. \E k \in writes(t) : \A j \in writes(t) : j <= k
          <5> HIDE DEF writes
          <5>1. QED
            BY <3>2, <4>1, GreatestNumber
        <4>3. PICK k : k = last(t) /\ k \in writes(t) /\ \A j \in writes(t) : j <= k
          BY <4>2
        <4>4. /\ k \in 1..Len(msgs) /\ msgs[k].token = t
              /\ \A i \in 1..Len(msgs) : msgs[i].token = msgs[k].token => i <= k
          BY <2>1, <4>3
        <4>5. r.of[t] = msgs[k].data
          BY <2>3, <4>4 DEF AsRead
        <4>6. of[t] = msgs[k].data
          BY <3>2, <4>3
        <4>7. QED
          BY <4>5, <4>6
      <3>3. QED
        BY <3>1, <3>2
    <2>7. r.of = of
      <3>1. r.of = [t \in Tokens |-> r.of[t]]
        BY <2>3 DEF AsRead
      <3>2. of = [t \in Tokens |-> of[t]]
        OBVIOUS
      <3> HIDE DEF of
      <3>3. QED
        BY <2>6, <3>1, <3>2
    <2>8. PICK s : s = BatchReference(metadata, msgs)
      OBVIOUS
    <2> HIDE DEF named, tokens, of
    <2>9. s.ok = named /\ s.tokens = tokens /\ s.of = of
      BY <2>4, <2>8
    <2>10. QED
      BY <2>2, <2>5, <2>7, <2>8, <2>9
  <1>2. MetadataInv => BatchIsSequential
    BY <1>1 DEF BatchIsSequential
  <1>3. QED
    BY <1>2, MetadataInit, MetadataNext, PTL DEF Spec

================================================================================
