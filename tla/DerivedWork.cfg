\* Two names and two contents; the files change, reads fail and the worker dies.
CONSTANTS
  Path = {p, q}
  Content = {v1, v2}
  Original = p  First = v1
  Kind = {"thumb", "digest"}
  Row = {1, 2}
  None = None  Pending = Pending  Failed = Failed
  MaxTrouble = 2
  MaxScan = 1
SPECIFICATION FairSpec
INVARIANTS DerivedIsCurrent
PROPERTIES WorkIsDone RenameIsFollowed
CHECK_DEADLOCK FALSE
