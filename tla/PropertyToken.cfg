SPECIFICATION MCSpec
CONSTANTS
  ana = ana
  ben = ben
  t1 = t1
  t2 = t2
  red = red
  blue = blue
  stable = stable
  gas = gas
  x = x
  Users <- MCUsers
  Tokens <- MCTokens
  Metadata = {red, blue}
  Denoms <- MCDenoms
  Stablecoin = stable
  NoTxId = NoTxId
  TxIds = {x}
  Expiries = {0, 1}
  Bodies <- MCBodies
  Batches <- MCBatches
  RoleChanges <- Changes
  LegacyStates <- OldStorage
  MaxUint128 = 3
  MaxNonce = 1
  MaxTime = 2
INVARIANTS OnceInOrder BatchIsSequential Solvent
PROPERTIES CleanupIsInvisible BooksFollowPayments
