-------------------------- MODULE MCFeeConfiguration --------------------------
(* Small instances of FeeConfiguration.  Prices are multiples of a quarter   *)
(* of the default one, so that one step of 1 is exactly the 25% threshold.   *)
EXTENDS FeeConfiguration, TLC

CONSTANTS main, other, ana, ben, one, two

OneConfig == {main}
TwoConfigs == {main, other}
Two == {ana, ben}

Price(n) == "base" :> n
MCDefaultFees == [base |-> 4, min |-> 1, max |-> 0, rest |-> 1]

\* A small step up, a small step down and a doubling of the price.
PricePatches == {Price(5), Price(3), Price(8)}
MCNewFees == {[base |-> 2, min |-> 1, max |-> 1, rest |-> 1],
              [base |-> 2, min |-> 2, max |-> 1, rest |-> 1]}

Setting(allow, signers, threshold, delay) ==
  [allowFeeUpdates |-> allow, requireApprovalForLargeChanges |-> TRUE,
   largeChangeThreshold |-> 25, multisigSigners |-> signers,
   multisigApprovalThreshold |-> threshold, timelockDelayMinutes |-> delay]

Guarded == Setting(TRUE, Two, 2, 1)
SwitchSettings == {Guarded, Setting(FALSE, Two, 2, 1), Setting(TRUE, Two, 2, 0)}
GuardedOnly == {Guarded}

NoDelay == {Guarded, Setting(TRUE, Two, 2, 0)}
StepOrDouble == {Price(5), Price(8)}

\* SwitchSettings and NoDelay name the two users together only.
UserSymmetry == Permutations(Two)

Ids == {one, two}
OneLoop == {one}
=============================================================================
