\* A model is edited while a scan finds the models nested in it.
CONSTANTS
  Dir <- SmallTree
  Common = {"stl"}
  Depth = 1
  Nobody = Nobody
  MaxFile = 2
  MaxAct = 0
  MaxEdit = 1
  MaxScan = 1
SPECIFICATION TreeSpec
PROPERTIES EditsDoNotMerge
CHECK_DEADLOCK FALSE
