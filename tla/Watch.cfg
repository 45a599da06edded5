SPECIFICATION FairSpec
CONSTANTS
  Assets = {1, 2}
  Contracts = {"c1", "c2"}
  ContractsOf <- OneMoves
  AssetPageLimit = 1
  ListMayFail = TRUE
  NodeMayFail = TRUE
  ProcessMayCrash = TRUE
INVARIANTS TypeOK MapIsExact
PROPERTIES ListedIsServed OneAtATime
