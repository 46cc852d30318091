\* A file renamed across and one copied; transfers fail, the worker dies, the
\* user asks again.
CONSTANTS
  f1 = f1  f2 = f2
  File = {f1, f2}
  OneVolume = {f2}
  MaxFault = 2
  MaxCrash = 1
  MaxRequest = 1
  MaxTries = 2
SPECIFICATION FairSpec
INVARIANTS RowHasItsFiles
PROPERTIES ArrivedIsNotHidden CleanMoveSettles
