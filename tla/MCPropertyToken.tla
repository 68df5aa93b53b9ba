---------------------------- MODULE MCPropertyToken ----------------------------
(* A small instance of PropertyToken.  A behaviour is one of two traffics:    *)
(* signed metadata messages that arrive early, late and repeatedly, or money, *)
(* roles and old storage.                                                     *)
EXTENDS PropertyToken, TLC

VARIABLE traffic

CONSTANTS ana, ben, t1, t2, red, blue, stable, gas, x

MCUsers == {ana, ben}
MCTokens == {t1, t2}
MCDenoms == {stable, gas}

One(op, t, d) == [kind |-> "metadata", msgs |-> <<[op |-> op, token |-> t, data |-> d]>>]

SetBodies == {One("set", t1, red), One("update", t1, blue)}

Ops == [op : {"set", "update"}, token : MCTokens, data : {red, blue}]

\* All batches of two elements, and those of three that begin with this one.
First == [op |-> "set", token |-> t1, data |-> red]
MCBatches == [1..2 -> Ops] \cup {<<First, a, b>> : a, b \in Ops}

\* Deposits with their funds, and one that brings less than it books.
MoneyBodies ==
  {[kind |-> "withdrawFees", denom |-> d, amount |-> 1] : d \in MCDenoms}
    \cup {[kind |-> "deposit", amount |-> n, funds |-> 1] : n \in {1, 2}}
    \cup {[kind |-> "outflow", amount |-> n] : n \in {1, 2}}

MCBodies == SetBodies \cup MoneyBodies

Changes == {<<>>, <<<<ben, TRUE>>>>, <<<<ben, FALSE>>>>, <<<<ben, TRUE>>, <<ana, FALSE>>>>,
            <<<<ana, TRUE>>, <<ana, FALSE>>>>}

\* Old storage: a tombstone, fees that former code credited, a treasury entry or none.
OldStorage ==
  {[roles |-> (ana :> Absent @@ ben :> Tombstone),
    feeBalances |-> (stable :> 1 @@ gas :> n), treasury |-> v,
    bank |-> (stable :> 3 @@ gas :> 1)] : n \in {0, 1}, v \in {Missing, 1}}

\* Money messages expire at once and have no tx_id: replay is the other traffic's.
MoneyMessages == {m \in Messages : m.body \in MoneyBodies /\ m.expiresAt = 0 /\ m.txId = NoTxId}
MetadataMessages == {m \in Messages : m.body \in SetBodies}

MCInit ==
  /\ Init
  /\ traffic \in {"metadata", "money"}
  /\ traffic = "metadata" => configVersion = CurrentConfigVersion

MetadataTraffic ==
  /\ traffic = "metadata"
  /\ \/ \E m \in MetadataMessages : ExecuteMetadata(m)
     \/ \E u, v \in Users : UpdateConfig(u, v, <<>>)
     \/ NextBlock

MoneyTraffic ==
  /\ traffic = "money"
  /\ \/ \E m \in MoneyMessages :
          ExecuteWithdrawFees(m) \/ ExecuteDeposit(m) \/ ExecuteOutflow(m)
     \/ \E u, v \in Users, change \in RoleChanges : UpdateConfig(u, v, change)
     \/ \E u \in Users : CleanupStorage(u)
     \/ Migrate

MCNext == (MetadataTraffic \/ MoneyTraffic) /\ UNCHANGED traffic

MCSpec == MCInit /\ [][MCNext]_<<vars, traffic>>

================================================================================
