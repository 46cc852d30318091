\* A model of two files, asked for twice, and two uploads; any two things go wrong.
CONSTANTS
  h1 = h1  h2 = h2
  File = {1, 2}
  Handler = {h1, h2}
  NoOne = NoOne
  Lost = Lost
  MaxClick = 2
  MaxTrouble = 2
  u = u  v = v
  Upload = {u, v}
  Name = {"a", "b"}
  Arrival <- Arrivals
  Held <- NoneOrOne
  Owner = Owner  Mixed = Mixed  NoFile = NoFile
SPECIFICATION ScenesSpec
INVARIANTS
  IndexedFilesStay HalfIsNeverIndexed FailureLeavesNothing SourceIsAuthoritative
  ExtractionIsAllOrNothing
PROPERTIES
  EditsAreKept CompleteStands EveryImportEnds
  StoredIsIndexed RowGoesWithItsFiles
CHECK_DEADLOCK FALSE
