------------------------------- MODULE Imports -------------------------------
(***************************************************************************)
(* Two ways for files to arrive, side by side, with what they promise: an  *)
(* import from another site (ModelImport) and uploads (Uploads).           *)
(* MCModelImport checks it, ModelImportProofs proves it.                   *)
(***************************************************************************)
EXTENDS ModelImport

CONSTANTS Upload, Name, Arrival, Held, Owner, Mixed, NoFile

VARIABLES
  backend, names, folder, upc, todo, wrote, at, index, missing, queued, scan, erase,
  crossed, troubles

Up == INSTANCE Uploads WITH pc <- upc, waiting <- queued

ASSUME ImportsAssumption == Up!UploadsAssumption

upVars == <<backend, names, folder, upc, todo, wrote, at, index, missing, queued, scan,
            erase, crossed, troubles>>

----------------------------------------------------------------------------

\* What an upload has stored gets into the index, but for what Uploads names.
StoredIsIndexed == Up!StoredIsIndexed

\* An archive is extracted whole, or nothing of it stays.
ExtractionIsAllOrNothing == Up!ExtractionIsAllOrNothing

\* When the row of a model goes, the files it named are gone.
RowGoesWithItsFiles == Up!RowGoesWithItsFiles
=============================================================================
