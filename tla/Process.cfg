SPECIFICATION SystemSpec
CONSTANTS
  o1 = o1  o2 = o2  i1 = i1  i2 = i2
  Requests = {1}
  Oracles = {o1, o2}
  Verifiers = {}
  Instances = {i1, i2}
  Inst <- TwoInst
  Asset <- OneAsset
  InitialTasks <- TryOnly
  CreatorDetails <- AllCanonical
  Payment <- AllOnes
  Amount <- AllOnes
  TrailingDigits <- TwoDigits
  Decimals <- TwoDigits
  WordSize = 1024
  PageLimit = 2
  Confirmations = 1
  MaxReorgs = 0
  ReorgDepth = 0
  Faults = {"cancel", "crash", "panic"}
  Assets = {1}
  Contracts = {"c1"}
  ContractsOf <- AnyContract
  AssetPageLimit = 1
  ListMayFail = TRUE
  NodeMayFail = TRUE
INVARIANT LiveIsHandled
PROPERTY ImplementsService
