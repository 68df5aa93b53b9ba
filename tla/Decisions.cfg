SPECIFICATION MCSpec
CONSTANTS
  ana = ana
  ben = ben
  cleo = cleo
  root = root
  admin = admin
  viewer = viewer
  main = main
  one = one
  Accounts = {ana}
  Admins = {ana, root}
  Roles = {admin, viewer}
  Requests = {r1, r2}
  Changes <- MCChanges
  MaxAttempts = 2
  LockTime = 1
  MaxFailed = 2
  LastTime = 1
  Default = main
  Configs = {main}
  Users = {ana, ben, cleo}
  DefaultFees <- MCDefaultFees
  Patches <- LargeAndRest
  NewFees <- MCNewFees
  InitialSettings <- Shipped
  SettingsValues <- SignerSettings
  DateKinds = {"none"}
  Loops = {one}
  SameTurn = FALSE
  MaxRequests = 2
  MaxTime = 2
SYMMETRY RequestSymmetry
INVARIANTS LockIsEarned DecisionsSettle QuorumDecides
PROPERTIES DecisionsAreFinal
