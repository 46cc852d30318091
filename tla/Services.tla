------------------------------ MODULE Services ------------------------------
(***************************************************************************)
(* The five services that share no row: Accounts, MakerWorldSignIn,        *)
(* Passwords, PrintRequests and BackupRestore, side by side, with what     *)
(* they promise.  MCServices checks them, ServicesProofs and               *)
(* AdministrationProofs prove what they promise.                           *)
(***************************************************************************)
EXTENDS SignInState, PasswordState, RequestState, FiniteSets

CONSTANTS
  Person, Invite, Nobody, MaxChange, MaxDeath,
  Request, WithFiles, MaxUpload, MaxApply, MaxTrouble

VARIABLES
  role, banned, origin, offer, closed, spentBy, acts, leftover, raced, count,
  state, staged, known, data, forward, files, jobs, running, working, asks, stuck, crossed,
  survived, applied, trouble

Account == INSTANCE Accounts
SignIn == INSTANCE MakerWorldSignIn
Password == INSTANCE Passwords
Queue == INSTANCE PrintRequests
Restore == INSTANCE BackupRestore

ASSUME ServicesAssumption == Account!AccountsAssumption /\ Restore!RestoreAssumption

accountVars == <<role, banned, origin, offer, closed, spentBy, acts, leftover, raced, count>>
restoreVars == <<state, staged, known, data, forward, files, jobs, running, working, asks,
                 stuck, crossed, survived, applied, trouble>>

----------------------------------------------------------------------------

\* Some administrator stays, but for the two ways Accounts names.
AdministratorRemains == Account!AdministratorRemains

\* An invitation makes one account.
InvitationMakesOneAccount == Account!InvitationMakesOneAccount

\* No handler works on a job of the database a restore has replaced, but for the
\* ways BackupRestore names; a database that was put in place finds its files; and
\* what the status page says of the database, once a restore is over, is so.
RestoreIsClean == Restore!RestoreIsClean

=============================================================================
