SPECIFICATION FairSpec
CONSTANTS
  expirer = expirer
  cleaner = cleaner
  Expirer = expirer
  Cleaner = cleaner
  Keys = {k1, k2}
  Requests = {r1}
  Lifetimes = {1}
  DefaultLifetime = 1
  Grace = 1
  Failures = FALSE
  MaxTime = 3
  LastCreation = 1
  MaxUses = 1
CHECK_DEADLOCK FALSE
PROPERTIES ExpiredKeysAreRetired RotatedKeysAreRevoked
