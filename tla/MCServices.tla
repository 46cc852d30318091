----------------------------- MODULE MCServices -----------------------------
(***************************************************************************)
(* Five services in one run: Accounts, Passwords, MakerWorldSignIn,        *)
(* PrintRequests, BackupRestore.  They share no row that decides anything, *)
(* so each behaviour is one of one part, picked in its first state.        *)
(***************************************************************************)
EXTENDS Services, TLC

VARIABLE part  \* which of the five

Init ==
  /\ Account!Init /\ SignIn!Init /\ Password!Init /\ Queue!Init /\ Restore!Init
  /\ part \in {"accounts", "sign-in", "passwords", "requests", "restore"}
  /\ part # "sign-in" => credential = None
  /\ part # "requests" => request.model = Nothing

Accounting ==
  /\ part = "accounts" /\ Account!Next
  /\ UNCHANGED <<part, signInVars, passwordVars, queueVars, restoreVars>>

SigningIn ==
  /\ part = "sign-in" /\ SignIn!Next
  /\ UNCHANGED <<part, accountVars, passwordVars, queueVars, restoreVars>>

SettingPasswords ==
  /\ part = "passwords" /\ Password!Next
  /\ UNCHANGED <<part, accountVars, signInVars, queueVars, restoreVars>>

Queueing ==
  /\ part = "requests" /\ Queue!Next
  /\ UNCHANGED <<part, accountVars, signInVars, passwordVars, restoreVars>>

Restoring ==
  /\ part = "restore" /\ Restore!Next
  /\ UNCHANGED <<part, accountVars, signInVars, passwordVars, queueVars>>

Next == Accounting \/ SigningIn \/ SettingPasswords \/ Queueing \/ Restoring

Spec == Init /\ [][Next]_<<part, accountVars, signInVars, passwordVars, queueVars, restoreVars>>

Symmetry == Permutations(Call) \cup Permutations(Model) \cup Permutations(Request)

=============================================================================
