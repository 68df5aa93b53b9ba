SPECIFICATION FairSpec
CONSTANTS
  main = main
  other = other
  ana = ana
  ben = ben
  one = one
  two = two
  Default = main
  Configs <- OneConfig
  Users <- Two
  DefaultFees <- MCDefaultFees
  Patches <- StepOrDouble
  NewFees <- MCNewFees
  InitialSettings <- Guarded
  SettingsValues <- SwitchSettings
  DateKinds = {"none", "date", "text"}
  Loops <- OneLoop
  SameTurn = FALSE
  MaxRequests = 2
  MaxTime = 2
INVARIANTS TakesEffectOnce TimelockRespected
PROPERTIES ImplementsChangeControl DueUpdatesAreExecuted
