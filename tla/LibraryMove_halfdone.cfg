\* The worker dies between the two last statements of a move.
CONSTANTS
  f1 = f1  f2 = f2
  File = {f1, f2}
  OneVolume = {f1, f2}
  MaxFault = 0
  MaxCrash = 1
  MaxRequest = 0
  MaxTries = 2
SPECIFICATION FairSpec
PROPERTIES MoveSettles
