SPECIFICATION Spec
CONSTANTS
  main = main
  other = other
  ana = ana
  ben = ben
  one = one
  two = two
  Default = main
  Configs <- OneConfig
  Users <- Two
  DefaultFees <- MCDefaultFees
  Patches <- PricePatches
  NewFees <- MCNewFees
  InitialSettings <- Guarded
  SettingsValues <- GuardedOnly
  DateKinds = {"none"}
  Loops <- OneLoop
  SameTurn = FALSE
  MaxRequests = 2
  MaxTime = 1
INVARIANTS LargeChangesAreApproved
