---------------------------- MODULE MCModelImport ----------------------------
(***************************************************************************)
(* Imports in one run.  Each behaviour is one of ModelImport or of         *)
(* Uploads, picked in its first state; nothing of the other is enabled, so *)
(* the fairness of both can be asked of both.                              *)
(***************************************************************************)
EXTENDS Imports

CONSTANTS h1, h2, u, v

VARIABLE scene   \* which of the two

\* Two archives of two files; an archive and a file.
Arrivals ==
  {[x \in Upload |-> {"a", "b"}],
   [x \in Upload |-> IF x = u THEN {"a", "b"} ELSE {"a"}]}

NoneOrOne == {{}, {"a"}}

\* Two archives meet on a local disk: where the staging directory is makes no
\* difference to them, and a bucket takes their entries whole.
ScenesInit ==
  /\ Init /\ Up!UploadsInit
  /\ backend # "local" => Up!zip # Upload
  /\ scene \in {"import", "uploads"}
  /\ scene = "import" =>
       /\ backend = "local" /\ names = [x \in Upload |-> Name]
       /\ Up!OnDisk = {}

Importing == scene = "import" /\ Next /\ UNCHANGED <<scene, upVars>>
Uploading == scene = "uploads" /\ Up!UploadsNext /\ UNCHANGED <<scene, vars>>

ScenesNext == Importing \/ Uploading

ScenesSpec ==
  /\ ScenesInit /\ [][ScenesNext]_<<scene, vars, upVars>>
  /\ Fairness /\ Up!UploadsFairness
=============================================================================
