SPECIFICATION AccountsSpec
CONSTANTS
  ana = ana
  root = root
  admin = admin
  viewer = viewer
  Accounts = {ana}
  Admins = {ana, root}
  Roles = {admin, viewer}
  Requests = {r1}
  Changes <- MCChanges
  MaxAttempts = 2
  LockTime = 1
  MaxFailed = 2
  LastTime = 2
SYMMETRY RequestSymmetry
PROPERTIES UnlockUnlocks
