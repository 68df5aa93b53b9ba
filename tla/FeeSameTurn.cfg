SPECIFICATION Spec
CONSTANTS
  main = main
  other = other
  ana = ana
  ben = ben
  one = one
  two = two
  Default = main
  Configs <- TwoConfigs
  Users <- Two
  DefaultFees <- MCDefaultFees
  Patches <- PricePatches
  NewFees <- MCNewFees
  InitialSettings <- Guarded
  SettingsValues <- NoDelay
  DateKinds = {"none"}
  Loops <- Ids
  SameTurn = TRUE
  MaxRequests = 2
  MaxTime = 1
INVARIANTS HistoryComplete
SYMMETRY UserSymmetry
