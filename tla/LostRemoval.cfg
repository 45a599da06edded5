SPECIFICATION FairSpec
CONSTANTS
  Assets = {1}
  Contracts = {"c1"}
  ContractsOf <- OneMoves
  AssetPageLimit = 1
  ListMayFail = FALSE
  NodeMayFail = FALSE
  ProcessMayCrash = FALSE
PROPERTY RemovedIsStopped
