\* Two folders on a volume that drops off while the worker dies and the prune
\* runs; three folders that look alike and are renamed.
CONSTANTS
  p1 = p1  p2 = p2  p3 = p3
  m1 = m1  m2 = m2  m3 = m3
  Path = {p1, p2, p3}
  LooseFile = {}
  Filename = {"a.stl", "b.stl"}
  Size <- OneSize
  Content <- TwoFiles
  Id = {m1, m2, m3}
  NoModel = NoModel
  GraceDays = 2
  MinModels = 2
  ThresholdPercent = 40
  Outage <- AnyPart
  RootHasOtherFiles = FALSE
  MaxDisk = 1
  MaxRemove = 1
  MaxOutage = 1
  MaxCrash = 1
SPECIFICATION ScenesSpec
SYMMETRY Symmetry
PROPERTIES
  KeptForGracePeriod PruneNeverEmptiesLibrary MassDisappearanceRefused
  QuietRescan RenameKeepsTheRow
