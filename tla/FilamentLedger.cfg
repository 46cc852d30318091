\* Two connections, two spools of one filament, two prints, one retried key.
CONSTANTS
  pla = pla  p1 = p1  p2 = p2  k1 = k1  t1 = t1  t2 = t2
  Spool = {1, 2}
  Filament = {pla}
  FilamentOf <- OneFilament
  PrintRun = {p1, p2}
  Key = {k1}
  Tx = {t1, t2}
  Gram = {1}
  Weight = {2}
  NoKey = NoKey
  NoPrint = NoPrint
  NoFilament = NoFilament
  MaxBegin = 4
SPECIFICATION FairSpec
INVARIANTS ChargedForWhatIsRecorded ChecksHoldAtTheWrite
PROPERTIES EveryTransactionEnds
CHECK_DEADLOCK FALSE
