----------------------------- MODULE PropertyToken -----------------------------
(***************************************************************************)
(* The property-token contract (apps/rust/property-token): metadata,       *)
(* replay protection, fee and treasury accounting, roles, migration and    *)
(* storage cleanup.                                                        *)
(*                                                                         *)
(* The chain executes one message at a time; a handler that returns an     *)
(* error, or whose bank transfer fails, leaves no trace.  A signed message *)
(* may reach the contract late, out of order, several times or never: any  *)
(* message may be delivered at any time, and a delivery that fails is a    *)
(* stuttering step.                                                        *)
(***************************************************************************)
EXTENDS Integers, Sequences, FiniteSets

CONSTANTS
  Users,         \* addresses
  Tokens,        \* property token ids
  Metadata,      \* metadata a token may carry
  Denoms,        \* coin denominations
  Stablecoin,    \* the denomination the treasury pays out
  TxIds,         \* optional transaction ids
  NoTxId,        \* a message without one
  Expiries,      \* expires_at values of messages (NoExpiry included or not)
  Bodies,        \* what a signed message may ask for
  Batches,       \* the batches BatchIsSequential looks at in every state
  RoleChanges,   \* the authorized_roles lists an UpdateConfig may carry
  LegacyStates,  \* storage of deployments older than the config version
  MaxUint128,    \* largest amount
  MaxNonce,      \* bound on the nonces of messages
  MaxTime        \* bound on the block time

NoExpiry == -1
Missing == -1          \* a storage key that is not there
CurrentConfigVersion == 1

Absent == "absent"
Granted == "granted"
Tombstone == "tombstone"  \* a role stored as `false`
RoleStates == {Absent, Granted, Tombstone}

\* Bodies of signed messages; Transfer behaves as Withdraw and shares its kind.
BatchMsgs == [op : {"set", "update"}, token : Tokens, data : Metadata]
MetadataBodies == [kind : {"metadata"}, msgs : Seq(BatchMsgs)]
FeeBodies == [kind : {"withdrawFees"}, denom : Denoms, amount : Nat]
DepositBodies == [kind : {"deposit"}, amount : Nat, funds : Nat]
OutflowBodies == [kind : {"outflow"}, amount : Nat]

\* Storage that versions before CONFIG_VERSION may have left behind.
LegacyStorage ==
  [roles : [Users -> RoleStates], feeBalances : [Denoms -> Nat \cup {Missing}],
   treasury : 0..MaxUint128 \cup {Missing}, bank : [Denoms -> Nat]]

ASSUME TokenAssumption ==
  /\ Stablecoin \in Denoms
  /\ NoTxId \notin TxIds
  /\ Expiries \subseteq Nat \cup {NoExpiry}
  /\ Bodies \subseteq MetadataBodies \cup FeeBodies \cup DepositBodies \cup OutflowBodies
  /\ Batches \subseteq Seq(BatchMsgs)
  /\ \A c \in RoleChanges : c \in Seq(Users \X BOOLEAN)
  /\ LegacyStates \subseteq LegacyStorage
  /\ MaxUint128 \in Nat /\ MaxNonce \in Nat /\ MaxTime \in Nat

Messages ==
  [sender : Users, nonce : 0..MaxNonce, expiresAt : Expiries,
   txId : TxIds \cup {NoTxId}, body : Bodies]

VARIABLES
  admin,           \* ADMIN
  roles,           \* AUTHORIZED_ROLES
  nextNonce,       \* NEXT_NONCE (0 when absent)
  processedTxIds,  \* PROCESSED_TX_IDS
  metadata,        \* METADATA: the tokens that have some, with it
  feeBalances,     \* FEE_BALANCES
  treasury,        \* TREASURY_BALANCE
  configVersion,   \* CONFIG_VERSION (0 when absent)
  bank,            \* coins the contract's account holds on the chain
  time,            \* block time
  log,             \* the messages that took effect, in order, with their time
  unbacked         \* history: coins booked that never came to the contract

vars == <<admin, roles, nextNonce, processedTxIds, metadata, feeBalances, treasury,
          configVersion, bank, time, log, unbacked>>

accounts == <<feeBalances, treasury, bank, unbacked>>
config == <<admin, roles, configVersion>>

-----------------------------------------------------------------------------
(* security.rs *)

IsAuthorized(u) == u = admin \/ roles[u] = Granted

NotExpired(m) == m.expiresAt # NoExpiry => time <= m.expiresAt

MutFreshTxId(m) == m.txId \notin processedTxIds \/ nextNonce[m.sender] > 0
FreshTxId(m) == m.txId # NoTxId => m.txId \notin processedTxIds

NextInLine(m) == m.nonce = nextNonce[m.sender]

\* prevent_replay, and the record that the message took effect.
PreventReplay(m) ==
  /\ NotExpired(m)
  /\ NextInLine(m)
  /\ FreshTxId(m)
  /\ nextNonce' = [nextNonce EXCEPT ![m.sender] = @ + 1]
  /\ processedTxIds' = processedTxIds \cup ({m.txId} \ {NoTxId})
  /\ log' = Append(log, [msg |-> m, at |-> time])

-----------------------------------------------------------------------------
(* Handlers of signed messages *)

MutBatchStep(data, msg, start) ==
  [tokens |-> data.tokens \cup {msg.token},
   of |-> [data.of EXCEPT ![msg.token] = msg.data],
   ok |-> data.ok /\ (msg.op = "update" => msg.token \in start)]

\* One element of a batch; `start`, the tokens before the batch, plays no part.
BatchStep(data, msg, start) ==
  [tokens |-> data.tokens \cup {msg.token},
   of |-> [data.of EXCEPT ![msg.token] = msg.data],
   ok |-> data.ok /\ (msg.op = "update" => msg.token \in data.tokens)]

\* execute_batch's loop over the storage; Set and Update are batches of one.
RunBatch(data, msgs) ==
  LET after[k \in 0..Len(msgs)] ==
        IF k = 0 THEN [tokens |-> data.tokens, of |-> data.of, ok |-> TRUE]
        ELSE BatchStep(after[k - 1], msgs[k], data.tokens)
  IN  after[Len(msgs)]

ExecuteMetadata(m) ==
  LET result == RunBatch(metadata, m.body.msgs)
  IN  /\ m.body.kind = "metadata"
      /\ PreventReplay(m)
      /\ result.ok
      /\ metadata' = [tokens |-> result.tokens, of |-> result.of]
      /\ UNCHANGED <<accounts, config, time>>

Balance(entry) == IF entry = Missing THEN 0 ELSE entry

Covers(entry, amount) == amount <= Balance(entry)

\* BankMsg::Send: the chain refuses an empty transfer and one it cannot cover,
\* and then undoes the whole message.
Pay(denom, amount) ==
  /\ amount > 0 /\ amount <= bank[denom]
  /\ bank' = [bank EXCEPT ![denom] = @ - amount]

ExecuteWithdrawFees(m) ==
  /\ m.body.kind = "withdrawFees"
  /\ IsAuthorized(m.sender)
  /\ PreventReplay(m)
  /\ Covers(feeBalances[m.body.denom], m.body.amount)
  /\ feeBalances' = [feeBalances EXCEPT
       ![m.body.denom] = Balance(@) - m.body.amount]
  /\ Pay(m.body.denom, m.body.amount)
  /\ UNCHANGED <<treasury, metadata, config, time, unbacked>>

Beyond(amount, funds) == IF amount > funds THEN amount - funds ELSE 0

\* Deposit books its amount whatever funds come with it (it never looks at
\* info.funds); a sum that does not fit a Uint128 panics.
ExecuteDeposit(m) ==
  /\ m.body.kind = "deposit"
  /\ IsAuthorized(m.sender)
  /\ PreventReplay(m)
  /\ Balance(treasury) + m.body.amount <= MaxUint128
  /\ treasury' = Balance(treasury) + m.body.amount
  /\ bank' = [bank EXCEPT ![Stablecoin] = @ + m.body.funds]
  /\ unbacked' = [unbacked EXCEPT ![Stablecoin] = @ + Beyond(m.body.amount, m.body.funds)]
  /\ UNCHANGED <<feeBalances, metadata, config, time>>

MutTreasuryAfter(amount) == Balance(treasury)
TreasuryAfter(amount) == Balance(treasury) - amount

ExecuteOutflow(m) ==
  /\ m.body.kind = "outflow"
  /\ IsAuthorized(m.sender)
  /\ PreventReplay(m)
  /\ Covers(treasury, m.body.amount)
  /\ treasury' = TreasuryAfter(m.body.amount)
  /\ Pay(Stablecoin, m.body.amount)
  /\ UNCHANGED <<feeBalances, metadata, config, time, unbacked>>

-----------------------------------------------------------------------------
(* Administration *)

\* The role list is validated as a whole against the stored roles first.
ValidRoleChange(change) ==
  /\ \A j, k \in DOMAIN change : change[j][1] = change[k][1] => j = k
  /\ \A k \in DOMAIN change : change[k][2] \/ roles[change[k][1]] # Absent

ChangedRoles(change) ==
  [u \in Users |->
     IF \E k \in DOMAIN change : change[k] = <<u, TRUE>> THEN Granted
     ELSE IF \E k \in DOMAIN change : change[k] = <<u, FALSE>> THEN Absent
     ELSE roles[u]]

\* A new_admin that is not given is the present one.
UpdateConfig(sender, newAdmin, change) ==
  /\ sender = admin
  /\ ValidRoleChange(change)
  /\ admin' = newAdmin
  /\ roles' = ChangedRoles(change)
  /\ UNCHANGED <<nextNonce, processedTxIds, metadata, accounts, configVersion, time, log>>

MutStale(role) == role # Absent
Stale(role) == role = Tombstone

CleanupStorage(sender) ==
  /\ sender = admin
  /\ feeBalances' = [d \in Denoms |-> IF feeBalances[d] = 0 THEN Missing ELSE feeBalances[d]]
  /\ roles' = [u \in Users |-> IF Stale(roles[u]) THEN Absent ELSE roles[u]]
  /\ UNCHANGED <<admin, nextNonce, processedTxIds, metadata, treasury, configVersion,
                 bank, time, log, unbacked>>

MutMigratedTreasury == 0
MigratedTreasury == Balance(treasury)

Migrate ==
  /\ configVersion < CurrentConfigVersion
  /\ treasury' = MigratedTreasury
  /\ configVersion' = CurrentConfigVersion
  /\ UNCHANGED <<admin, roles, nextNonce, processedTxIds, metadata, feeBalances,
                 bank, time, log, unbacked>>

NextBlock ==
  /\ time < MaxTime
  /\ time' = time + 1
  /\ UNCHANGED <<nextNonce, processedTxIds, metadata, accounts, config, log>>

-----------------------------------------------------------------------------
\* What the contract owes in a denomination by its books.
Booked(d) == Balance(feeBalances[d]) + (IF d = Stablecoin THEN Balance(treasury) ELSE 0)

\* query_self_check, as far as it can fail: the version, the treasury entry,
\* zero fee entries and tombstones.
SelfCheck ==
  /\ configVersion = CurrentConfigVersion
  /\ treasury # Missing
  /\ \A d \in Denoms : feeBalances[d] # 0
  /\ \A u \in Users : roles[u] # Tombstone

\* instantiate
Fresh ==
  /\ roles = [u \in Users |-> Absent]
  /\ feeBalances = [d \in Denoms |-> Missing]
  /\ treasury = 0
  /\ configVersion = CurrentConfigVersion
  /\ bank = [d \in Denoms |-> 0]

\* A contract that was deployed before config versions existed.
Legacy ==
  \E s \in LegacyStates :
    /\ roles = s.roles
    /\ feeBalances = s.feeBalances
    /\ treasury = s.treasury
    /\ configVersion = 0
    /\ bank = s.bank

Init ==
  /\ admin \in Users
  /\ nextNonce = [u \in Users |-> 0]
  /\ processedTxIds = {}
  /\ metadata = [tokens |-> {}, of |-> [t \in Tokens |-> CHOOSE d \in Metadata : TRUE]]
  /\ time = 0
  /\ log = <<>>
  /\ Fresh \/ Legacy
  /\ unbacked = [d \in Denoms |-> Beyond(Booked(d), bank[d])]

Execute(m) ==
  \/ ExecuteMetadata(m)
  \/ ExecuteWithdrawFees(m)
  \/ ExecuteDeposit(m)
  \/ ExecuteOutflow(m)

Next ==
  \/ \E m \in Messages : Execute(m)
  \/ \E u, v \in Users, change \in RoleChanges : UpdateConfig(u, v, change)
  \/ \E u \in Users : CleanupStorage(u)
  \/ Migrate
  \/ NextBlock

Spec == Init /\ [][Next]_vars

-----------------------------------------------------------------------------
(* Properties *)

LogEntries == [msg : Messages, at : Nat]

\* Type invariant: no balance goes below zero, the treasury never above a Uint128.
\* (What the metadata holds is BatchIsSequential's subject.)
TypeOK ==
  /\ admin \in Users
  /\ roles \in [Users -> RoleStates]
  /\ nextNonce \in [Users -> Nat]
  /\ processedTxIds \subseteq TxIds
  /\ feeBalances \in [Denoms -> Nat \cup {Missing}]
  /\ treasury \in 0..MaxUint128 \cup {Missing}
  /\ configVersion \in {0, CurrentConfigVersion}
  /\ bank \in [Denoms -> Nat]
  /\ time \in Nat
  /\ log \in Seq(LogEntries)
  /\ unbacked \in [Denoms -> Nat]

\* prevent_replay: however messages are delivered, repeated or delayed, those
\* of one sender take effect in the order of their nonces, each nonce once, and
\* no two messages with the same tx_id take effect, whoever sent them.
NoReplay ==
  \A j, k \in DOMAIN log :
    j < k =>
      /\ log[j].msg.sender = log[k].msg.sender => log[j].msg.nonce < log[k].msg.nonce
      /\ log[j].msg.txId = log[k].msg.txId => log[j].msg.txId = NoTxId

\* ... and no nonce is skipped: whatever a sender's counter has passed was used
\* by a message that took effect.
NoGap ==
  \A u \in Users : \A n \in 0..(nextNonce[u] - 1) :
    \E k \in DOMAIN log : log[k].msg.sender = u /\ log[k].msg.nonce = n

\* Both: a sender's messages take effect once each, in an unbroken order, whatever becomes
\* of their deliveries (prevent_replay).
OnceInOrder == NoReplay /\ NoGap

\* No message takes effect in a block later than its expiry.
NothingExpired ==
  \A k \in DOMAIN log :
    log[k].msg.expiresAt # NoExpiry => log[k].at <= log[k].msg.expiresAt

\* The coins of the contract cover the treasury and the fees together, except for
\* what deposits booked without sending it and what an old deployment lacked:
\* payments, migration and clean-up never add to the shortfall.
Solvent == \A d \in Denoms : Booked(d) <= bank[d] + unbacked[d]

\* CleanupStorage ("Does not affect treasury, metadata, or nonce state",
\* lib.rs:387) changes nobody's rights and no balance, and leaves a migrated
\* contract in a state that passes its self-check.
CleanupIsInvisible ==
  [][(\E u \in Users : CleanupStorage(u)) =>
       /\ \A u \in Users : IsAuthorized(u)' = IsAuthorized(u)
       /\ \A d \in Denoms : Balance(feeBalances'[d]) = Balance(feeBalances[d])
       /\ configVersion = CurrentConfigVersion => SelfCheck']_vars

\* Booked money leaves only in payments: the books (treasury and fees) shrink by
\* what the account pays, through migrations, clean-ups and config changes too.
BooksFollowPayments ==
  [][LET shrink(before, after) == Balance(before) - Balance(after)
     IN  \A d \in Denoms :
           LET fees == shrink(feeBalances[d], feeBalances'[d])
               vault == IF d = Stablecoin THEN shrink(treasury, treasury') ELSE 0
           IN  fees + vault > 0 => bank[d] - bank'[d] = fees + vault]_vars

\* The reference reading of a batch: it fails iff some update names a token
\* that has no metadata before the batch and is not written earlier in it, and
\* otherwise every token ends with the data of the last element that names it.
BatchReference(data, msgs) ==
  LET writes(t) == {k \in DOMAIN msgs : msgs[k].token = t}
      last(t) == CHOOSE k \in writes(t) : \A j \in writes(t) : j <= k
  IN  [ok |-> \A k \in DOMAIN msgs :
               msgs[k].op = "update" =>
                 \/ msgs[k].token \in data.tokens
                 \/ \E j \in 1..(k - 1) : msgs[j].token = msgs[k].token,
       tokens |-> data.tokens \cup {msgs[k].token : k \in DOMAIN msgs},
       of |-> [t \in Tokens |-> IF writes(t) = {} THEN data.of[t] ELSE msgs[last(t)].data]]

\* execute_batch, element by element, does what the reference reading says, on
\* whatever metadata the contract holds.
BatchIsSequential ==
  \A msgs \in Batches :
    LET result == RunBatch(metadata, msgs)
        reference == BatchReference(metadata, msgs)
    IN  /\ result.ok = reference.ok
        /\ result.ok => /\ result.tokens = reference.tokens
                        /\ result.of = reference.of

================================================================================
