SPECIFICATION Spec
CONSTANTS
  expirer = expirer
  cleaner = cleaner
  Expirer = expirer
  Cleaner = cleaner
  Keys = {k1, k2}
  Requests = {r1, r2}
  Lifetimes = {1}
  DefaultLifetime = 2
  Grace = 1
  Failures = TRUE
  MaxTime = 2
  LastCreation = 1
  MaxUses = 1
CHECK_DEADLOCK FALSE
SYMMETRY KeySymmetry
INVARIANTS RevocationSettles RowsAreBacked
