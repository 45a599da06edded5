SPECIFICATION FairSpec
CONSTANTS
  o1 = o1  o2 = o2  v1 = v1  v2 = v2  i1 = i1  i2 = i2  A = A  B = B
  Requests = {1, 2, 3, 4, 5}
  Oracles = {o1}
  Verifiers = {v1}
  Instances = {i1}
  Inst <- OneInst
  Asset <- OneAsset
  InitialTasks <- ThirdUnsent
  CreatorDetails <- LastUnusable
  Payment <- OwnPayments
  Amount <- SecondTiny
  TrailingDigits <- TwoDigits
  Decimals <- NoDigits
  WordSize = 1024
  PageLimit = 1
  Confirmations = 1
  MaxReorgs = 0
  ReorgDepth = 0
  Faults = {"revert", "lookalike", "rpc"}
INVARIANT ReservedIsHeld
PROPERTIES Settled PaidIsApproved
