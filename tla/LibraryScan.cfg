\* Two folders: the scan races the owner and a removal, an outage or a crash, and
\* what fair scans and prunes lead to; seven folders in each other.
CONSTANTS
  p1 = p1  p2 = p2
  m1 = m1  m2 = m2
  Path = {p1, p2}
  LooseFile = {}
  Filename = {"a.stl", "b.stl"}
  Size <- OneSize
  Content <- TwoFiles
  Id = {m1, m2}
  NoModel = NoModel
  GraceDays = 1
  MinModels = 2
  ThresholdPercent = 40
  Outage <- WholeVolume
  RootHasOtherFiles = FALSE
  MaxDisk = 2
  MaxRemove = 1
  MaxOutage = 1
  MaxCrash = 1
  MaxMishap = 1
  Dir <- SmallTree
  Common = {"stl"}
  Depth = 1
  Nobody = Nobody
  MaxFile = 2
  MaxAct = 1
  MaxEdit = 1
  MaxScan = 1
SPECIFICATION ScenesSpec
INVARIANTS IndexMatchesWalk EveryMeshHasOneModel
PROPERTIES MissingMeansGone Converges AddingTakesNothing
CHECK_DEADLOCK FALSE
