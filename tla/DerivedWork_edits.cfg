\* Two files with names of their own; one is put in the place of the other.
CONSTANTS
  Path = {p, q}
  Content = {v1, v2}
  Original = p  First = v1
  Kind = {"digest"}
  Row = {1, 2}
  None = None  Pending = Pending  Failed = Failed
  MaxTrouble = 3
  MaxScan = 2
SPECIFICATION Spec_H
PROPERTIES EditIsNotARename
CHECK_DEADLOCK FALSE
