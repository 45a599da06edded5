SPECIFICATION Spec
CONSTANTS
  o1 = o1  o2 = o2  v1 = v1  v2 = v2  i1 = i1  i2 = i2  A = A  B = B
  Requests = {1, 2}
  Oracles = {o1}
  Verifiers = {v1}
  Instances = {i1}
  Inst <- OneInst
  Asset <- OneAsset
  InitialTasks <- TryOnly
  CreatorDetails <- SecondAlias
  Payment <- SamePayments
  Amount <- AllOnes
  TrailingDigits <- TwoDigits
  Decimals <- TwoDigits
  WordSize = 1024
  PageLimit = 1
  Confirmations = 1
  MaxReorgs = 0
  ReorgDepth = 0
  Faults = {"timeout", "refuse", "list", "crash", "panic", "drop", "revert", "logs", "anonymous"}
INVARIANTS TypeOK RejectedNotPaid ApprovedIsPaid
PROPERTY ImplementsLifecycle
