-------------------------- MODULE PasswordState ----------------------------
(* A password and its sessions: the parameters, the state and the promises. *)
EXTENDS Integers

CONSTANTS
  Call,        \* requests that can run at once
  Free,        \* nobody holds the lock
  MaxSet, MaxLink, MaxSession   \* bounds on passwords set, links issued, sessions opened

ASSUME PasswordsAssumption ==
  /\ Free \notin Call
  /\ MaxSet \in Nat /\ MaxLink \in Nat /\ MaxSession \in Nat \ {0}

VARIABLES
  password,    \* how often the password has been set; two hashes are never equal
  link,        \* the verification row: the link's number, the hash it is bound to
  issued,      \* links issued
  lapsed,      \* the hour of the link in the row is over
  sessions,    \* session rows: the password each was opened by; whether its sign-in
               \* was overtaken, or a suspension that died half-way left it
  entered,     \* sessions opened
  suspended,
  userLock,
  requests     \* where each request is

passwordVars == <<password, link, issued, lapsed, sessions, entered, suspended, userLock,
                  requests>>

----------------------------------------------------------------------------

\* A session was opened with the password that is set now, and a suspended
\* account has none, whichever resets, changes, sign-ins and suspensions run
\* together.  What escapes is a sign-in that had passed its checks before, and
\* a suspension that has yet to end the sessions, or died before it could.
SessionsAreCurrent ==
  \A s \in sessions : s.late \/
    /\ s.by = password
    /\ suspended => \E c \in Call : requests[c].step = "drop"

\* Whoever sets a password has shown, at the moment it is set, the password it
\* replaces or the latest link to it, and the account is not suspended: a check
\* that a reset, a newer link or a change has overtaken is worth nothing.
PasswordChangesAreAuthorised ==
  [][password' # password =>
       ~suspended /\ \E c \in Call :
         /\ requests'[c].step = "idle" /\ requests[c].knows = password
         /\ \/ requests[c].step = "change"
            \/ requests[c].step = "reset" /\ link.nth = requests[c].nth]_passwordVars

=============================================================================
