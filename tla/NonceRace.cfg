SPECIFICATION Spec
CONSTANTS
  o1 = o1  o2 = o2  v1 = v1  v2 = v2  i1 = i1  i2 = i2  A = A  B = B
  Requests = {1, 2}
  Oracles = {o1, o2}
  Verifiers = {}
  Instances = {i1, i2}
  Inst <- TwoInst
  Asset <- TwoAssets
  InitialTasks <- TryOnly
  CreatorDetails <- AllCanonical
  Payment <- OwnPayments
  Amount <- AllOnes
  TrailingDigits <- TwoDigits
  Decimals <- TwoDigits
  WordSize = 1024
  PageLimit = 2
  Confirmations = 1
  MaxReorgs = 0
  ReorgDepth = 0
  Faults = {}
INVARIANT TransferFailedIsFault
