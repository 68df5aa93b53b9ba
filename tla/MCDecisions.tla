-------------------------------- MODULE MCDecisions --------------------------------
(* Small instances of UserAccounts and FeeConfiguration, each on its own: every      *)
(* behaviour is of the part chosen at its start.                                     *)
EXTENDS MCUserAccounts, FeeConfiguration

CONSTANTS ben, cleo, main, one

VARIABLE part

\* Prices are multiples of a quarter of the default one.
MCDefaultFees == [base |-> 4, min |-> 1, max |-> 0, rest |-> 1]
LargeAndRest == {"base" :> 8, "rest" :> 2, "base" :> -1}
MCNewFees == {[base |-> 2, min |-> 1, max |-> 1, rest |-> 1],
              [base |-> 2, min |-> 2, max |-> 1, rest |-> 1]}

Setting(signers, threshold, delay) ==
  [allowFeeUpdates |-> TRUE, requireApprovalForLargeChanges |-> TRUE,
   largeChangeThreshold |-> 25, multisigSigners |-> signers,
   multisigApprovalThreshold |-> threshold, timelockDelayMinutes |-> delay]

\* The settings of initializeAdminSettings, with a timelock of one tick.
Shipped == Setting({}, 2, 1)

\* Signers and threshold change while requests are pending; the last two are
\* refused by updateAdminSettings.
SignerSettings ==
  {Setting({ana, ben, cleo}, 2, 1), Setting({ana, ben, cleo}, 3, 0), Setting({ana, ben}, 2, 0),
   Setting({ana}, 2, 0), Setting({ana, ben}, 2, -1)}

MCInit == part \in {"accounts", "fees"} /\ AccountsInit /\ Init

OfAccounts == part = "accounts" /\ AccountsNext /\ UNCHANGED <<vars, part>>
OfFees == part = "fees" /\ Next /\ UNCHANGED <<accountVars, part>>

MCSpec == MCInit /\ [][OfAccounts \/ OfFees]_<<accountVars, vars, part>>
====================================================================================
