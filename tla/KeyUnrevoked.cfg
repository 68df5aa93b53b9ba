SPECIFICATION Spec
CONSTANTS
  expirer = expirer
  cleaner = cleaner
  Expirer = expirer
  Cleaner = cleaner
  Keys = {k1, k2}
  Requests = {r1, r2}
  Lifetimes = {1}
  DefaultLifetime = 1
  Grace = 1
  Failures = FALSE
  MaxTime = 1
  LastCreation = 1
  MaxUses = 2
CHECK_DEADLOCK FALSE
PROPERTIES RevokedStaysRevoked
