--------------------------- MODULE ServicesProofs ---------------------------
(***************************************************************************)
(* Proofs about Passwords, MakerWorldSignIn and PrintRequests, the         *)
(* instances of Services, for any values of their parameters.              *)
(***************************************************************************)
EXTENDS Services, TLAPS

----------------------------------------------------------------------------
(* A password and its sessions. *)

SessionRow == [nth : 1..MaxSession, by : 0..MaxSet, late : BOOLEAN]
RequestRecord == [step : Password!Step, nth : 0..(MaxLink + MaxSession), knows : 0..MaxSet]

\* Under the lock of the user row what a request has checked stays so.
LockKeeps ==
  \A c \in Call :
    /\ requests[c].step \in {"checkReset", "reset", "checkChange", "change"} => userLock = c
    /\ requests[c].step \in {"checkReset", "reset"} => suspended = FALSE
    /\ requests[c].step \in {"reset", "change"} => requests[c].knows = password
    /\ requests[c].step = "reset" => link.nth = requests[c].nth

PasswordInv == Password!TypeOK /\ LockKeeps /\ SessionsAreCurrent

\* What a request becomes when it goes on, begins or ends; the others stay.
LEMMA RequestGoes ==
  ASSUME Password!TypeOK, NEW c \in Call, NEW s \in Password!Step, Password!Go(c, s)
  PROVE  /\ requests' \in [Call -> RequestRecord]
         /\ requests'[c].step = s
         /\ requests'[c].nth = requests[c].nth /\ requests'[c].knows = requests[c].knows
         /\ \A d \in Call \ {c} : requests'[d] = requests[d]
  BY DEF Password!TypeOK, Password!Go, RequestRecord

\* What a request that begins becomes; the others stay.
LEMMA RequestBegins ==
  ASSUME Password!TypeOK, NEW c \in Call, NEW s \in Password!Step, NEW n \in 0..(MaxLink + MaxSession),
         NEW p \in 0..MaxSet, Password!Begin(c, s, n, p)
  PROVE  /\ requests' \in [Call -> RequestRecord]
         /\ requests'[c].step = s /\ requests'[c].nth = n /\ requests'[c].knows = p
         /\ \A d \in Call \ {c} : requests'[d] = requests[d]
  BY DEF Password!TypeOK, Password!Begin, RequestRecord

\* What a request becomes when it ends.
LEMMA RequestEnds ==
  ASSUME Password!TypeOK, NEW c \in Call, Password!Finish(c)
  PROVE  /\ requests' \in [Call -> RequestRecord]
         /\ requests'[c] = Password!Idle /\ Password!Idle.step = "idle"
         /\ \A d \in Call \ {c} : requests'[d] = requests[d]
<1>1. Password!Idle \in RequestRecord
  BY PasswordsAssumption DEF Password!Idle, RequestRecord, Password!Step
<1> QED
  BY <1>1 DEF Password!TypeOK, Password!Finish, RequestRecord, Password!Idle

\* The invariant holds at first.
LEMMA PasswordsBegin == Password!Init => PasswordInv
<1> SUFFICES ASSUME Password!Init PROVE PasswordInv
  OBVIOUS
<1>1. Password!Idle \in RequestRecord
  BY PasswordsAssumption DEF Password!Idle, RequestRecord, Password!Step
<1>2. requests \in [Call -> RequestRecord]
  BY <1>1 DEF Password!Init
<1>3. /\ password \in 0..MaxSet /\ link \in [nth : 0..MaxLink, binds : 0..MaxSet]
      /\ issued \in 0..MaxLink /\ entered \in 0..MaxSession
  BY PasswordsAssumption DEF Password!Init, Password!NoLink
<1>4. sessions \subseteq SessionRow
  BY PasswordsAssumption DEF Password!Init, SessionRow
<1>5. Password!TypeOK
  BY <1>2, <1>3, <1>4, Zenon DEF Password!Init, Password!TypeOK, SessionRow, RequestRecord
<1>6. LockKeeps
  BY DEF Password!Init, LockKeeps, Password!Idle
<1>7. SessionsAreCurrent
  BY DEF Password!Init, SessionsAreCurrent
<1> QED
  BY <1>5, <1>6, <1>7 DEF PasswordInv

----------------------------------------------------------------------------
(* What a step leaves of the invariant. *)

\* A request that goes on without a session, a password, a link, a suspension or
\* the lock changing hands to another keeps what others have checked.
LEMMA OthersKeep ==
  ASSUME PasswordInv, NEW c \in Call, \A d \in Call \ {c} : requests'[d] = requests[d],
         UNCHANGED <<password, link, suspended>>,
         userLock' = userLock \/ userLock \in {Free, c},
         requests'[c].step \in {"checkReset", "reset", "checkChange", "change"} => userLock' = c,
         requests'[c].step \in {"checkReset", "reset"} => suspended' = FALSE,
         requests'[c].step \in {"reset", "change"} => requests'[c].knows = password,
         requests'[c].step = "reset" => link.nth = requests'[c].nth
  PROVE  LockKeeps'
  BY PasswordsAssumption DEF PasswordInv, LockKeeps

\* The sessions stay as they were while no request stops waiting to end them.
LEMMA SessionsKeep ==
  ASSUME PasswordInv, NEW c \in Call, \A d \in Call \ {c} : requests'[d] = requests[d],
         requests[c].step = "drop" => requests'[c].step = "drop",
         UNCHANGED <<password, suspended>>, sessions' \subseteq sessions
  PROVE  SessionsAreCurrent'
  BY DEF PasswordInv, SessionsAreCurrent, Password!At

----------------------------------------------------------------------------
(* One lemma per action. *)

\* A reset begins with a link that was issued.
LEMMA ResetKeeps == ASSUME PasswordInv, NEW c \in Call, Password!Reset(c) PROVE PasswordInv'
<1> PICK n \in 1..issued : Password!Begin(c, "validate", n, 0)
  BY DEF Password!Reset
<1>0. n \in 0..(MaxLink + MaxSession) /\ 0 \in 0..MaxSet
  BY PasswordsAssumption DEF PasswordInv, Password!TypeOK
<1>1. /\ requests' \in [Call -> RequestRecord]
      /\ requests'[c].step = "validate"
      /\ \A d \in Call \ {c} : requests'[d] = requests[d]
  BY <1>0, RequestBegins DEF PasswordInv, Password!Step
<1>2. Password!TypeOK'
  BY <1>1 DEF PasswordInv, Password!TypeOK, Password!Reset, RequestRecord
<1>3. LockKeeps' /\ SessionsAreCurrent'
  BY <1>1, OthersKeep, SessionsKeep DEF Password!Reset, Password!At
<1> QED
  BY <1>2, <1>3 DEF PasswordInv

\* Nothing is held yet.
LEMMA ValidateKeeps == ASSUME PasswordInv, NEW c \in Call, Password!Validate(c) PROVE PasswordInv'
<1>1. /\ requests' \in [Call -> RequestRecord]
      /\ requests'[c].step \in {"lockReset", "idle"}
      /\ \A d \in Call \ {c} : requests'[d] = requests[d]
  BY RequestGoes, RequestEnds DEF PasswordInv, Password!Validate, Password!Step
<1>2. Password!TypeOK'
  BY <1>1 DEF PasswordInv, Password!TypeOK, Password!Validate, RequestRecord
<1>3. LockKeeps' /\ SessionsAreCurrent'
  BY <1>1, OthersKeep, SessionsKeep DEF Password!Validate, Password!At
<1> QED
  BY <1>2, <1>3 DEF PasswordInv

\* The lock is taken, and the account is not suspended.
LEMMA LockResetKeeps == ASSUME PasswordInv, NEW c \in Call, Password!LockReset(c) PROVE PasswordInv'
<1>1. /\ requests' \in [Call -> RequestRecord]
      /\ requests'[c].step = IF suspended THEN "idle" ELSE "checkReset"
      /\ \A d \in Call \ {c} : requests'[d] = requests[d]
  BY RequestGoes, RequestEnds DEF PasswordInv, Password!LockReset, Password!Step
<1>2. userLock' = (IF suspended THEN Free ELSE c) /\ userLock = Free
  BY DEF Password!LockReset
<1>3. Password!TypeOK'
  BY <1>1, <1>2 DEF PasswordInv, Password!TypeOK, Password!LockReset, RequestRecord
<1>4. suspended \in BOOLEAN
  BY DEF PasswordInv, Password!TypeOK
<1>5. LockKeeps'
  BY <1>1, <1>2, <1>4, OthersKeep DEF Password!LockReset
<1>6. SessionsAreCurrent'
  BY <1>1, SessionsKeep DEF Password!LockReset, Password!At
<1> QED
  BY <1>3, <1>5, <1>6 DEF PasswordInv

\* The link names the hash there is, which nobody can replace any more.
LEMMA CheckResetKeeps == ASSUME PasswordInv, NEW c \in Call, Password!CheckReset(c) PROVE PasswordInv'
<1>0. userLock = c /\ suspended = FALSE /\ c # Free
  BY PasswordsAssumption DEF PasswordInv, LockKeeps, Password!CheckReset, Password!At
<1>1. CASE Password!Standing(requests[c].nth) /\ link.binds = password
  <2>1. requests[c] \in RequestRecord /\ link.binds \in 0..MaxSet
    BY DEF PasswordInv, Password!TypeOK, RequestRecord
  <2>2. requests' = [requests EXCEPT ![c].step = "reset", ![c].knows = link.binds]
    BY <1>1 DEF Password!CheckReset
  <2>3. /\ requests' \in [Call -> RequestRecord]
        /\ requests'[c].step = "reset" /\ requests'[c].knows = password
        /\ requests'[c].nth = requests[c].nth
        /\ \A d \in Call \ {c} : requests'[d] = requests[d]
    BY <1>1, <2>1, <2>2 DEF PasswordInv, Password!TypeOK, RequestRecord, Password!Step
  <2>4. Password!TypeOK'
    BY <1>1, <2>3 DEF PasswordInv, Password!TypeOK, Password!CheckReset, RequestRecord
  <2>5. LockKeeps'
    BY <1>0, <1>1, <2>3, OthersKeep DEF Password!CheckReset, Password!Standing
  <2>6. SessionsAreCurrent'
    BY <2>3, SessionsKeep DEF Password!CheckReset, Password!At
  <2> QED
    BY <2>4, <2>5, <2>6 DEF PasswordInv
<1>2. CASE ~(Password!Standing(requests[c].nth) /\ link.binds = password)
  <2>1. Password!Finish(c) /\ userLock' = Free
    BY <1>2 DEF Password!CheckReset
  <2>2. /\ requests' \in [Call -> RequestRecord] /\ requests'[c].step = "idle"
        /\ \A d \in Call \ {c} : requests'[d] = requests[d]
    BY <2>1, RequestEnds DEF PasswordInv
  <2>3. Password!TypeOK'
    BY <2>1, <2>2 DEF PasswordInv, Password!TypeOK, Password!CheckReset, RequestRecord
  <2>4. LockKeeps' /\ SessionsAreCurrent'
    BY <1>0, <2>1, <2>2, OthersKeep, SessionsKeep DEF Password!CheckReset, Password!At
  <2> QED
    BY <2>3, <2>4 DEF PasswordInv
<1> QED
  BY <1>1, <1>2

\* A reset ends every session of the old password.
LEMMA WriteResetKeeps == ASSUME PasswordInv, NEW c \in Call, Password!WriteReset(c) PROVE PasswordInv'
<1>0. userLock = c /\ c # Free
  BY PasswordsAssumption DEF PasswordInv, LockKeeps, Password!WriteReset, Password!At
<1>1. /\ requests' \in [Call -> RequestRecord] /\ requests'[c].step = "idle"
      /\ \A d \in Call \ {c} : requests'[d] = requests[d]
  BY RequestEnds DEF PasswordInv, Password!WriteReset
<1>2. /\ password' \in 0..MaxSet /\ link' \in [nth : 0..MaxLink, binds : 0..MaxSet]
  BY PasswordsAssumption DEF PasswordInv, Password!TypeOK, Password!WriteReset, Password!NoLink
<1>3. Password!TypeOK'
  BY <1>1, <1>2 DEF PasswordInv, Password!TypeOK, Password!WriteReset, RequestRecord
<1>4. LockKeeps'
  BY <1>0, <1>1 DEF PasswordInv, LockKeeps, Password!WriteReset
<1>5. SessionsAreCurrent'
  BY DEF Password!WriteReset, SessionsAreCurrent
<1> QED
  BY <1>3, <1>4, <1>5 DEF PasswordInv

\* A change begins with a session there is.
LEMMA ChangeKeeps == ASSUME PasswordInv, NEW c \in Call, Password!Change(c) PROVE PasswordInv'
<1> PICK s \in sessions, p \in 0..password : Password!Begin(c, "find", s.nth, p)
  BY DEF Password!Change
<1>0. s.nth \in 0..(MaxLink + MaxSession) /\ p \in 0..MaxSet
  <2>1. s.nth \in 1..MaxSession /\ password \in 0..MaxSet
    BY DEF PasswordInv, Password!TypeOK
  <2> QED
    BY <2>1, PasswordsAssumption
<1>1. /\ requests' \in [Call -> RequestRecord]
      /\ requests'[c].step = "find"
      /\ \A d \in Call \ {c} : requests'[d] = requests[d]
  BY <1>0, RequestBegins DEF PasswordInv, Password!Step
<1>2. Password!TypeOK'
  BY <1>1 DEF PasswordInv, Password!TypeOK, Password!Change, RequestRecord
<1>3. LockKeeps' /\ SessionsAreCurrent'
  BY <1>1, OthersKeep, SessionsKeep DEF Password!Change, Password!At
<1> QED
  BY <1>2, <1>3 DEF PasswordInv

\* Nothing is held yet.
LEMMA FindSessionKeeps == ASSUME PasswordInv, NEW c \in Call, Password!FindSession(c) PROVE PasswordInv'
<1>1. /\ requests' \in [Call -> RequestRecord]
      /\ requests'[c].step \in {"lockChange", "idle"}
      /\ \A d \in Call \ {c} : requests'[d] = requests[d]
  BY RequestGoes, RequestEnds DEF PasswordInv, Password!FindSession, Password!Step
<1>2. Password!TypeOK'
  BY <1>1 DEF PasswordInv, Password!TypeOK, Password!FindSession, RequestRecord
<1>3. LockKeeps' /\ SessionsAreCurrent'
  BY <1>1, OthersKeep, SessionsKeep DEF Password!FindSession, Password!At
<1> QED
  BY <1>2, <1>3 DEF PasswordInv

\* The lock is taken.
LEMMA LockChangeKeeps == ASSUME PasswordInv, NEW c \in Call, Password!LockChange(c) PROVE PasswordInv'
<1>1. /\ requests' \in [Call -> RequestRecord] /\ requests'[c].step = "checkChange"
      /\ \A d \in Call \ {c} : requests'[d] = requests[d]
  BY RequestGoes DEF PasswordInv, Password!LockChange, Password!Step
<1>2. Password!TypeOK'
  BY <1>1 DEF PasswordInv, Password!TypeOK, Password!LockChange, RequestRecord
<1>3. LockKeeps' /\ SessionsAreCurrent'
  BY <1>1, OthersKeep, SessionsKeep DEF Password!LockChange, Password!At
<1> QED
  BY <1>2, <1>3 DEF PasswordInv

\* The password that was given is the one that is set.
LEMMA CheckChangeKeeps == ASSUME PasswordInv, NEW c \in Call, Password!CheckChange(c) PROVE PasswordInv'
<1>0. userLock = c /\ c # Free
  BY PasswordsAssumption DEF PasswordInv, LockKeeps, Password!CheckChange, Password!At
<1>1. /\ requests' \in [Call -> RequestRecord]
      /\ \/ requests'[c].step = "change" /\ requests'[c].knows = password /\ userLock' = c
         \/ requests'[c].step = "idle" /\ userLock' = Free
      /\ \A d \in Call \ {c} : requests'[d] = requests[d]
  BY <1>0, RequestGoes, RequestEnds DEF PasswordInv, Password!CheckChange, Password!Step
<1>2. Password!TypeOK'
  BY <1>1 DEF PasswordInv, Password!TypeOK, Password!CheckChange, RequestRecord
<1>3. LockKeeps' /\ SessionsAreCurrent'
  BY <1>0, <1>1, OthersKeep, SessionsKeep DEF Password!CheckChange, Password!At
<1> QED
  BY <1>2, <1>3 DEF PasswordInv

\* A change ends every session but the one it opens.
LEMMA WriteChangeKeeps == ASSUME PasswordInv, NEW c \in Call, Password!WriteChange(c) PROVE PasswordInv'
<1>0. userLock = c /\ c # Free
  BY PasswordsAssumption DEF PasswordInv, LockKeeps, Password!WriteChange, Password!At
<1>1. /\ requests' \in [Call -> RequestRecord] /\ requests'[c].step = "idle"
      /\ \A d \in Call \ {c} : requests'[d] = requests[d]
  BY RequestEnds DEF PasswordInv, Password!WriteChange
<1>2. CASE suspended
  <2>1. Password!TypeOK'
    BY <1>1, <1>2 DEF PasswordInv, Password!TypeOK, Password!WriteChange, RequestRecord
  <2>2. LockKeeps'
    BY <1>0, <1>1, <1>2 DEF PasswordInv, LockKeeps, Password!WriteChange
  <2>3. SessionsAreCurrent'
    BY <1>1, <1>2, SessionsKeep DEF Password!WriteChange, Password!At
  <2> QED
    BY <2>1, <2>2, <2>3 DEF PasswordInv
<1>3. CASE ~suspended
  <2> DEFINE new == [nth |-> entered + 1, by |-> password + 1, late |-> FALSE]
  <2>1. /\ password' = password + 1 /\ entered' = entered + 1 /\ sessions' = {new}
        /\ password' \in 0..MaxSet /\ entered' \in 0..MaxSession
        /\ new \in SessionRow /\ new.by = password'
    BY <1>3, PasswordsAssumption DEF PasswordInv, Password!TypeOK, Password!WriteChange, SessionRow
  <2> HIDE DEF new
  <2>2. sessions' \subseteq SessionRow
    BY <2>1
  <2>3. Password!TypeOK'
    BY <1>1, <2>1, <2>2 DEF PasswordInv, Password!TypeOK, Password!WriteChange, RequestRecord, SessionRow
  <2>4. LockKeeps'
    BY <1>0, <1>1 DEF PasswordInv, LockKeeps, Password!WriteChange
  <2>5. SessionsAreCurrent'
    BY <1>3, <2>1 DEF SessionsAreCurrent, Password!WriteChange
  <2> QED
    BY <2>3, <2>4, <2>5 DEF PasswordInv
<1> QED
  BY <1>2, <1>3

\* A sign-in knows the password that is set.
LEMMA SignInKeeps == ASSUME PasswordInv, NEW c \in Call, Password!SignIn(c) PROVE PasswordInv'
<1>0. 0 \in 0..(MaxLink + MaxSession) /\ password \in 0..MaxSet
  BY PasswordsAssumption DEF PasswordInv, Password!TypeOK
<1>1. /\ requests' \in [Call -> RequestRecord]
      /\ requests'[c].step = "admit"
      /\ \A d \in Call \ {c} : requests'[d] = requests[d]
  BY <1>0, RequestBegins DEF PasswordInv, Password!SignIn, Password!Step
<1>2. Password!TypeOK'
  BY <1>1 DEF PasswordInv, Password!TypeOK, Password!SignIn, RequestRecord
<1>3. LockKeeps' /\ SessionsAreCurrent'
  BY <1>1, OthersKeep, SessionsKeep DEF Password!SignIn, Password!At
<1> QED
  BY <1>2, <1>3 DEF PasswordInv

\* Nothing is held by a sign-in.
LEMMA AdmitKeeps == ASSUME PasswordInv, NEW c \in Call, Password!Admit(c) PROVE PasswordInv'
<1>1. /\ requests' \in [Call -> RequestRecord] /\ requests'[c].step \in {"enter", "idle"}
      /\ \A d \in Call \ {c} : requests'[d] = requests[d]
  BY RequestGoes, RequestEnds DEF PasswordInv, Password!Admit, Password!Step
<1>2. Password!TypeOK'
  BY <1>1 DEF PasswordInv, Password!TypeOK, Password!Admit, RequestRecord
<1>3. LockKeeps' /\ SessionsAreCurrent'
  BY <1>1, OthersKeep, SessionsKeep DEF Password!Admit, Password!At
<1> QED
  BY <1>2, <1>3 DEF PasswordInv

\* Whoever enters late is known to.
LEMMA EnterKeeps == ASSUME PasswordInv, NEW c \in Call, Password!Enter(c) PROVE PasswordInv'
<1> DEFINE overdue == suspended \/ requests[c].knows # password
           new == [nth |-> entered + 1, by |-> requests[c].knows, late |-> overdue]
<1>1. /\ requests' \in [Call -> RequestRecord] /\ requests'[c].step = "idle"
      /\ \A d \in Call \ {c} : requests'[d] = requests[d]
  BY RequestEnds DEF PasswordInv, Password!Enter
<1>2. entered' = entered + 1 /\ entered' \in 0..MaxSession /\ entered + 1 \in 1..MaxSession
  BY PasswordsAssumption DEF PasswordInv, Password!TypeOK, Password!Enter
<1>3. requests[c].knows \in 0..MaxSet
  BY DEF PasswordInv, Password!TypeOK
<1>4. sessions' = sessions \cup {new}
  BY DEF Password!Enter
<1>5. overdue \in BOOLEAN
  OBVIOUS
<1>6. new \in SessionRow
  <2> HIDE DEF overdue
  <2> QED
    BY <1>2, <1>3, <1>5 DEF SessionRow
<1>7. Password!TypeOK'
  <2> HIDE DEF new
  <2> QED
    BY <1>1, <1>2, <1>4, <1>6 DEF PasswordInv, Password!TypeOK, Password!Enter, RequestRecord, SessionRow
<1>8. LockKeeps'
  BY <1>1, OthersKeep DEF Password!Enter
<1>9. SessionsAreCurrent'
  <2>1. ~new.late => new.by = password /\ ~suspended
    OBVIOUS
  <2> HIDE DEF new
  <2> QED
    BY <1>1, <1>4, <2>1 DEF PasswordInv, SessionsAreCurrent, Password!Enter, Password!At
<1> QED
  BY <1>7, <1>8, <1>9 DEF PasswordInv

\* A suspension waits for the lock, so nobody is past a check.
LEMMA SuspendKeeps == ASSUME PasswordInv, NEW c \in Call, Password!Suspend(c) PROVE PasswordInv'
<1>1. /\ requests' \in [Call -> RequestRecord] /\ requests'[c].step = "drop"
      /\ \A d \in Call \ {c} : requests'[d] = requests[d]
  BY RequestGoes DEF PasswordInv, Password!Suspend, Password!Step
<1>2. suspended' \in BOOLEAN
  BY DEF Password!Suspend
<1>3. Password!TypeOK'
  BY <1>1, <1>2 DEF PasswordInv, Password!TypeOK, Password!Suspend, RequestRecord
<1>4. LockKeeps'
  BY <1>1, PasswordsAssumption DEF PasswordInv, LockKeeps, Password!Suspend
<1>5. SessionsAreCurrent'
  BY <1>1 DEF PasswordInv, SessionsAreCurrent, Password!Suspend, Password!At
<1> QED
  BY <1>3, <1>4, <1>5 DEF PasswordInv

\* Without sessions there is none that is not current.
LEMMA DropKeeps == ASSUME PasswordInv, NEW c \in Call, Password!Drop(c) PROVE PasswordInv'
<1>1. /\ requests' \in [Call -> RequestRecord] /\ requests'[c].step = "idle"
      /\ \A d \in Call \ {c} : requests'[d] = requests[d]
  BY RequestEnds DEF PasswordInv, Password!Drop
<1>2. Password!TypeOK'
  BY <1>1 DEF PasswordInv, Password!TypeOK, Password!Drop, RequestRecord
<1>3. LockKeeps'
  BY <1>1, OthersKeep DEF Password!Drop
<1> QED
  BY <1>2, <1>3 DEF PasswordInv, SessionsAreCurrent, Password!Drop

\* An abandoned request gives its lock back, and marks what it leaves.
LEMMA AbandonedRequestKeeps == ASSUME PasswordInv, NEW c \in Call, Password!Abandon(c) PROVE PasswordInv'
<1>1. /\ requests' \in [Call -> RequestRecord] /\ requests'[c].step = "idle"
      /\ \A d \in Call \ {c} : requests'[d] = requests[d]
  BY RequestEnds DEF PasswordInv, Password!Abandon
<1>2. userLock' = (IF userLock = c THEN Free ELSE userLock)
  BY DEF Password!Abandon
<1>3. sessions' \subseteq SessionRow
      /\ \/ sessions' = sessions /\ ~Password!At(c, "drop")
         \/ \A s \in sessions' : s.late
  <2>1. \A s \in sessions : [s EXCEPT !.late = TRUE] \in SessionRow /\ [s EXCEPT !.late = TRUE].late
    BY DEF PasswordInv, Password!TypeOK, SessionRow
  <2> QED
    BY <2>1 DEF Password!Abandon, PasswordInv, Password!TypeOK, SessionRow
<1>4. Password!TypeOK'
  BY <1>1, <1>2, <1>3 DEF PasswordInv, Password!TypeOK, Password!Abandon, RequestRecord, SessionRow
<1>5. LockKeeps'
  BY <1>1, <1>2, OthersKeep DEF Password!Abandon
<1>6. SessionsAreCurrent'
  BY <1>1, <1>3 DEF PasswordInv, SessionsAreCurrent, Password!Abandon, Password!At
<1> QED
  BY <1>4, <1>5, <1>6 DEF PasswordInv

\* What is no request of the account's own.
LEMMA OthersStep ==
  ASSUME PasswordInv,
         Password!Issue \/ Password!SignOut \/ Password!Unsuspend \/ Password!Expire \/ UNCHANGED passwordVars
  PROVE  PasswordInv'
<1>1. CASE Password!Issue
  <2>1. issued' \in 0..MaxLink /\ link' \in [nth : 0..MaxLink, binds : 0..MaxSet]
    BY <1>1, PasswordsAssumption DEF Password!Issue, PasswordInv, Password!TypeOK
  <2>2. lapsed' \in BOOLEAN
    BY <1>1 DEF Password!Issue
  <2> QED
    BY <1>1, <2>1, <2>2, PasswordsAssumption
    DEF Password!Issue, PasswordInv, Password!TypeOK, LockKeeps, SessionsAreCurrent, Password!At
<1>2. CASE Password!SignOut
  BY <1>2 DEF Password!SignOut, PasswordInv, Password!TypeOK, LockKeeps, SessionsAreCurrent, Password!At
<1>3. CASE Password!Unsuspend
  <2>1. suspended' \in BOOLEAN
    BY <1>3 DEF Password!Unsuspend
  <2> QED
    BY <1>3, <2>1
    DEF Password!Unsuspend, PasswordInv, Password!TypeOK, LockKeeps, SessionsAreCurrent, Password!At
<1>4. CASE Password!Expire
  <2>1. lapsed' \in BOOLEAN
    BY <1>4 DEF Password!Expire
  <2> QED
    BY <1>4, <2>1
    DEF Password!Expire, PasswordInv, Password!TypeOK, LockKeeps, SessionsAreCurrent, Password!At
<1>5. CASE UNCHANGED passwordVars
  BY <1>5 DEF passwordVars, PasswordInv, Password!TypeOK, LockKeeps, SessionsAreCurrent, Password!At
<1> QED
  BY <1>1, <1>2, <1>3, <1>4, <1>5

\* Every step keeps the invariant: one case for each action.
LEMMA PasswordsStand == PasswordInv /\ [Password!Next]_passwordVars => PasswordInv'
<1> SUFFICES ASSUME PasswordInv, [Password!Next]_passwordVars PROVE PasswordInv'
  OBVIOUS
<1>1. CASE \E c \in Call :
             \/ Password!Reset(c) \/ Password!Validate(c) \/ Password!LockReset(c) \/ Password!CheckReset(c)
             \/ Password!WriteReset(c)
             \/ Password!Change(c) \/ Password!FindSession(c) \/ Password!LockChange(c)
             \/ Password!CheckChange(c) \/ Password!WriteChange(c)
             \/ Password!SignIn(c) \/ Password!Admit(c) \/ Password!Enter(c)
             \/ Password!Suspend(c) \/ Password!Drop(c) \/ Password!Abandon(c)
  BY <1>1, ResetKeeps, ValidateKeeps, LockResetKeeps, CheckResetKeeps, WriteResetKeeps,
     ChangeKeeps, FindSessionKeeps, LockChangeKeeps, CheckChangeKeeps, WriteChangeKeeps,
     SignInKeeps, AdmitKeeps, EnterKeeps, SuspendKeeps, DropKeeps, AbandonedRequestKeeps
<1>2. CASE Password!Issue \/ Password!SignOut \/ Password!Unsuspend \/ Password!Expire \/ UNCHANGED passwordVars
  BY <1>2, OthersStep
<1> QED
  BY <1>1, <1>2 DEF Password!Next

\* Every variable has its type, for any requests, links, sessions and changes.
THEOREM PasswordsAreTyped == Password!Spec => []Password!TypeOK
<1>1. PasswordInv => Password!TypeOK
  BY DEF PasswordInv
<1> QED
  BY <1>1, PasswordsBegin, PasswordsStand, PTL DEF Password!Spec, Password!passwordVars, passwordVars

\* However resets, changes, sign-ins and suspensions interleave, a session is of
\* the password set now and a suspended account has none, but for the sign-ins
\* that were overtaken and the suspensions that are not done.
THEOREM OnlyCurrentSessions == Password!Spec => []SessionsAreCurrent
<1>1. PasswordInv => SessionsAreCurrent
  BY DEF PasswordInv
<1> QED
  BY <1>1, PasswordsBegin, PasswordsStand, PTL DEF Password!Spec, Password!passwordVars, passwordVars

\* Only two steps set a password, and both hold the lock under which they have
\* checked what allows it.
LEMMA Authorising ==
  ASSUME PasswordInv, Password!Next, password' # password
  PROVE  ~suspended /\ \E c \in Call :
           /\ requests'[c] = Password!Idle /\ requests[c].knows = password
           /\ \/ Password!At(c, "change")
              \/ Password!At(c, "reset") /\ link.nth = requests[c].nth
<1>1. ASSUME NEW c \in Call, Password!WriteReset(c)
      PROVE  /\ ~suspended /\ requests'[c] = Password!Idle /\ requests[c].knows = password
             /\ Password!At(c, "reset") /\ link.nth = requests[c].nth
  BY <1>1, RequestEnds DEF Password!WriteReset, PasswordInv, LockKeeps, Password!At
<1>2. ASSUME NEW c \in Call, Password!WriteChange(c)
      PROVE  /\ ~suspended /\ requests'[c] = Password!Idle /\ requests[c].knows = password
             /\ Password!At(c, "change")
  BY <1>2, RequestEnds DEF Password!WriteChange, PasswordInv, LockKeeps, Password!At
<1>3. ASSUME NEW c \in Call,
             \/ Password!Reset(c) \/ Password!Validate(c) \/ Password!LockReset(c) \/ Password!CheckReset(c)
             \/ Password!Change(c) \/ Password!FindSession(c) \/ Password!LockChange(c)
             \/ Password!CheckChange(c)
             \/ Password!SignIn(c) \/ Password!Admit(c) \/ Password!Enter(c)
             \/ Password!Suspend(c) \/ Password!Drop(c) \/ Password!Abandon(c)
      PROVE  UNCHANGED password
  BY <1>3
  DEF Password!Reset, Password!Validate, Password!LockReset, Password!CheckReset, Password!Change,
      Password!FindSession, Password!LockChange,
              Password!CheckChange, Password!SignIn, Password!Admit, Password!Enter, Password!Suspend,
              Password!Drop, Password!Abandon
<1>4. Password!Issue \/ Password!SignOut \/ Password!Unsuspend \/ Password!Expire => UNCHANGED password
  BY DEF Password!Issue, Password!SignOut, Password!Unsuspend, Password!Expire
<1> QED
  BY <1>1, <1>2, <1>3, <1>4 DEF Password!Next

\* Nobody sets a password on the strength of a check that has been overtaken,
\* for any number of requests, links, sessions and changes.
THEOREM ChecksAreNeverStale == Password!Spec => PasswordChangesAreAuthorised
<1>1. PasswordInv /\ [Password!Next]_passwordVars =>
        [password' # password =>
           ~suspended /\ \E c \in Call :
             /\ requests'[c].step = "idle" /\ requests[c].knows = password
             /\ \/ requests[c].step = "change"
                \/ requests[c].step = "reset" /\ link.nth = requests[c].nth]_passwordVars
  BY Authorising DEF Password!At, Password!Idle
<1> QED
  BY <1>1, PasswordsBegin, PasswordsStand, PTL
  DEF Password!Spec, Password!passwordVars, passwordVars, PasswordChangesAreAuthorised

----------------------------------------------------------------------------
(* The sign-in at MakerWorld. *)

\* What calls, browsers and rows name has been opened, and a call that is past
\* opening names an attempt.
Provenance ==
  /\ expired \subseteq opened /\ guard \in opened \cup {None}
  /\ challenges \subseteq handed
  /\ \A ch \in handed : ch.attempt \in opened
  /\ \A c \in Call :
       /\ calls[c].attempt \in opened \cup {None}
       /\ calls[c].step \notin {"idle", "open", "paste"} => calls[c].attempt \in opened
       /\ calls[c].step = "retry" => calls[c].nth < MaxRetry

CallRecord == [step : SignIn!Step, attempt : Attempt \cup {None}, nth : 0..MaxRetry]

\* A call that has yet to hear Bambu's first answer, or to act on it.
First(c) == calls[c].step \in {"ask", "challenge", "close"}

\* Until then nobody else knows of its attempt.
FirstIsAlone ==
  \A c \in Call : First(c) =>
    /\ \A ch \in handed : ch.attempt # calls[c].attempt
    /\ \A d \in Call \ {c} : calls[d].attempt # calls[c].attempt

SignInInv == SignIn!TypeOK /\ Provenance /\ FirstIsAlone /\ ChallengesAreCurrent

\* Opened attempts are attempts; None is not one, and never expires.
LEMMA NoneIsNoAttempt ==
  ASSUME SignInInv
  PROVE  None \notin opened /\ None \notin expired
  BY SignInAssumption DEF SignInInv, SignIn!TypeOK, Provenance

\* The invariant holds at first.
LEMMA SignInBegins == SignIn!Init => SignInInv
<1> SUFFICES ASSUME SignIn!Init PROVE SignInInv
  OBVIOUS
<1>0. SignIn!Idle \in CallRecord
  BY SignInAssumption DEF SignIn!Idle, SignIn!Step, CallRecord
<1>a. tries \in 0..TryLimit
  BY SignInAssumption DEF SignIn!Init
<1>b. calls \in [Call -> CallRecord]
  BY <1>0 DEF SignIn!Init
<1>1. SignIn!TypeOK
  BY <1>a, <1>b, Zenon DEF SignIn!Init, SignIn!TypeOK, CallRecord
<1>2. Provenance
  BY DEF SignIn!Init, Provenance, SignIn!Idle
<1>3. FirstIsAlone
  BY DEF SignIn!Init, FirstIsAlone, First, SignIn!Idle
<1> QED
  BY <1>1, <1>2, <1>3 DEF SignIn!Init, SignInInv, ChallengesAreCurrent

\* What a call becomes when it goes on, or ends; the others stay.
LEMMA CallGoes ==
  ASSUME SignIn!TypeOK, NEW c \in Call, NEW s \in SignIn!Step, SignIn!Go(c, s)
  PROVE  /\ calls' \in [Call -> CallRecord]
         /\ calls'[c].step = s
         /\ calls'[c].attempt = calls[c].attempt /\ calls'[c].nth = calls[c].nth
         /\ \A d \in Call \ {c} : calls'[d] = calls[d]
  BY DEF SignIn!TypeOK, SignIn!Go, CallRecord

\* What a call becomes when it ends.
LEMMA CallEnds ==
  ASSUME SignIn!TypeOK, NEW c \in Call, SignIn!Finish(c)
  PROVE  /\ calls' \in [Call -> CallRecord]
         /\ calls'[c].step = "idle" /\ calls'[c].attempt = None
         /\ \A d \in Call \ {c} : calls'[d] = calls[d]
  BY SignInAssumption DEF SignIn!TypeOK, SignIn!Finish, CallRecord, SignIn!Idle, SignIn!Step

\* A call that goes on without reaching a first step, while no row and no
\* browser learns of another attempt, keeps the invariant if its types hold.
LEMMA CallKeeps ==
  ASSUME SignInInv, SignIn!TypeOK', NEW c \in Call,
         \A d \in Call \ {c} : calls'[d] = calls[d],
         calls'[c].attempt \in {calls[c].attempt, None},
         First(c)' => First(c) /\ calls'[c].attempt = calls[c].attempt,
         calls'[c].step \notin {"idle", "open", "paste"} => calls'[c].attempt \in opened,
         calls'[c].step = "retry" => calls'[c].nth < MaxRetry,
         UNCHANGED <<opened, expired, handed>>,
         guard' \in opened \cup {None}, challenges' \subseteq handed
  PROVE  Provenance' /\ FirstIsAlone'
<1>1. Provenance'
  BY DEF SignInInv, Provenance
<1>2. FirstIsAlone'
  <2> SUFFICES ASSUME NEW b \in Call, First(b)'
               PROVE  /\ \A ch \in handed : ch.attempt # calls'[b].attempt
                      /\ \A d \in Call \ {b} : calls'[d].attempt # calls'[b].attempt
    BY DEF FirstIsAlone
  <2>1. First(b) /\ calls'[b].attempt = calls[b].attempt
    BY DEF First
  <2>2. calls'[b].attempt # None
    BY <2>1, NoneIsNoAttempt DEF SignInInv, Provenance, First
  <2> QED
    BY <2>1, <2>2 DEF SignInInv, FirstIsAlone
<1> QED
  BY <1>1, <1>2

----------------------------------------------------------------------------
(* One lemma per action. *)

\* A new call has no attempt yet.
LEMMA StartKeeps == ASSUME SignInInv, NEW c \in Call, SignIn!Start(c) PROVE SignInInv'
<1>1. calls' \in [Call -> CallRecord] /\ calls'[c].step = "open"
      /\ calls'[c].attempt = calls[c].attempt /\ \A d \in Call \ {c} : calls'[d] = calls[d]
  BY CallGoes DEF SignInInv, SignIn!Start, SignIn!Step
<1>2. tries' \in 0..TryLimit
  BY SignInAssumption DEF SignInInv, SignIn!TypeOK, SignIn!Start, SignIn!MayTry
<1>3. SignIn!TypeOK'
  BY <1>1, <1>2 DEF SignInInv, SignIn!TypeOK, SignIn!Start, CallRecord
<1>4. Provenance' /\ FirstIsAlone'
  BY <1>1, <1>3, CallKeeps DEF SignInInv, Provenance, SignIn!Start, First
<1> QED
  BY <1>3, <1>4 DEF SignInInv, ChallengesAreCurrent, SignIn!Start

\* The one step that makes an attempt: nobody has it yet.
LEMMA OpenKeeps == ASSUME SignInInv, NEW c \in Call, SignIn!Open(c) PROVE SignInInv'
<1> PICK a \in Attempt \ opened :
      /\ guard' = a /\ opened' = opened \cup {a}
      /\ calls' = [calls EXCEPT ![c] = [step |-> "ask", attempt |-> a, nth |-> 0]]
  BY DEF SignIn!Open
<1>1. /\ calls' \in [Call -> CallRecord]
      /\ calls'[c] = [step |-> "ask", attempt |-> a, nth |-> 0]
      /\ \A d \in Call \ {c} : calls'[d] = calls[d]
  BY SignInAssumption DEF SignInInv, SignIn!TypeOK, CallRecord, SignIn!Step
<1>2. SignIn!TypeOK'
  BY <1>1 DEF SignInInv, SignIn!TypeOK, SignIn!Open, CallRecord
<1>3. Provenance'
  BY <1>1 DEF SignInInv, Provenance, SignIn!Open
<1>4. FirstIsAlone'
  <2> SUFFICES ASSUME NEW b \in Call, First(b)'
               PROVE  /\ \A ch \in handed' : ch.attempt # calls'[b].attempt
                      /\ \A d \in Call \ {b} : calls'[d].attempt # calls'[b].attempt
    BY DEF FirstIsAlone
  <2>1. a # None /\ \A d \in Call : calls[d].attempt # a
    BY SignInAssumption DEF SignInInv, Provenance
  <2>2. CASE b = c
    BY <1>1, <2>1, <2>2 DEF SignInInv, Provenance, SignIn!Open
  <2>3. CASE b # c
    BY <1>1, <2>1, <2>3 DEF SignInInv, FirstIsAlone, First, SignIn!Open
  <2> QED
    BY <2>2, <2>3
<1> QED
  BY <1>2, <1>3, <1>4 DEF SignInInv, ChallengesAreCurrent, SignIn!Open

\* An answer moves its call on, among the first steps or past them.
LEMMA AnswerKeeps == ASSUME SignInInv, NEW c \in Call, SignIn!Answer(c) PROVE SignInInv'
<1>1. /\ calls' \in [Call -> CallRecord] /\ calls'[c].step \in {"save", "challenge", "close"}
      /\ calls'[c].attempt = calls[c].attempt /\ \A d \in Call \ {c} : calls'[d] = calls[d]
  BY CallGoes DEF SignInInv, SignIn!Answer, SignIn!Step
<1>2. cooldown' \in BOOLEAN
  BY DEF SignInInv, SignIn!TypeOK, SignIn!Answer
<1>3. SignIn!TypeOK'
  BY <1>1, <1>2 DEF SignInInv, SignIn!TypeOK, SignIn!Answer, CallRecord
<1>4. calls[c].attempt \in opened /\ First(c)
  BY DEF SignInInv, Provenance, SignIn!Answer, SignIn!At, First
<1>5. Provenance' /\ FirstIsAlone'
  BY <1>1, <1>3, <1>4, CallKeeps DEF SignInInv, Provenance, SignIn!Answer
<1> QED
  BY <1>3, <1>5 DEF SignInInv, ChallengesAreCurrent, SignIn!Answer

\* The challenge of an attempt that is still current; its call ends.
LEMMA AddChallengeKeeps == ASSUME SignInInv, NEW c \in Call, SignIn!AddChallenge(c) PROVE SignInInv'
<1>0. calls[c].attempt \in opened /\ First(c)
  BY DEF SignInInv, Provenance, SignIn!AddChallenge, SignIn!At, First
<1>1. CASE SignIn!Current(calls[c].attempt)
  <2>1. /\ calls' \in [Call -> CallRecord] /\ calls'[c].step = "idle"
        /\ calls'[c].attempt = None /\ \A d \in Call \ {c} : calls'[d] = calls[d]
    BY <1>1, CallEnds DEF SignInInv, SignIn!AddChallenge
  <2>2. SignIn!ChallengeOf(c) \in SignIn!Challenge /\ SignIn!ChallengeOf(c).attempt = calls[c].attempt
    BY <1>0 DEF SignInInv, SignIn!TypeOK, SignIn!ChallengeOf, SignIn!Challenge
  <2>3. /\ challenges' = challenges \cup {SignIn!ChallengeOf(c)}
        /\ handed' = handed \cup {SignIn!ChallengeOf(c)}
    BY <1>1 DEF SignIn!AddChallenge
  <2>4. SignIn!TypeOK'
    BY <2>1, <2>2, <2>3 DEF SignInInv, SignIn!TypeOK, SignIn!AddChallenge, CallRecord
  <2>5. Provenance'
    BY <1>0, <2>1, <2>2, <2>3 DEF SignInInv, Provenance, SignIn!AddChallenge
  <2>6. FirstIsAlone'
    <3> SUFFICES ASSUME NEW b \in Call, First(b)'
                 PROVE  /\ \A ch \in handed' : ch.attempt # calls'[b].attempt
                        /\ \A d \in Call \ {b} : calls'[d].attempt # calls'[b].attempt
      BY DEF FirstIsAlone
    <3>1. b # c /\ First(b) /\ calls'[b] = calls[b]
      BY <2>1 DEF First
    <3>2. calls[b].attempt # None
      BY <3>1, NoneIsNoAttempt DEF SignInInv, Provenance, First
    <3> QED
      BY <2>1, <2>2, <2>3, <3>1, <3>2 DEF SignInInv, FirstIsAlone
  <2>7. ChallengesAreCurrent'
    BY <1>1, <2>2, <2>3 DEF SignInInv, ChallengesAreCurrent, SignIn!AddChallenge, SignIn!Current
  <2> QED
    BY <2>4, <2>5, <2>6, <2>7 DEF SignInInv
<1>2. CASE ~SignIn!Current(calls[c].attempt)
  <2>1. /\ calls' \in [Call -> CallRecord] /\ calls'[c].step = "close"
        /\ calls'[c].attempt = calls[c].attempt /\ \A d \in Call \ {c} : calls'[d] = calls[d]
    BY <1>2, CallGoes DEF SignInInv, SignIn!AddChallenge, SignIn!Step
  <2>2. SignIn!TypeOK'
    BY <1>2, <2>1 DEF SignInInv, SignIn!TypeOK, SignIn!AddChallenge, CallRecord
  <2>3. Provenance' /\ FirstIsAlone'
    BY <1>0, <1>2, <2>1, <2>2, CallKeeps DEF SignInInv, Provenance, SignIn!AddChallenge
  <2> QED
    BY <1>2, <2>2, <2>3 DEF SignInInv, ChallengesAreCurrent, SignIn!AddChallenge
<1> QED
  BY <1>1, <1>2

\* The guard goes with an attempt that has no challenge.
LEMMA CloseKeeps == ASSUME SignInInv, NEW c \in Call, SignIn!Close(c) PROVE SignInInv'
<1>1. /\ calls' \in [Call -> CallRecord] /\ calls'[c].step = "idle"
      /\ calls'[c].attempt = None /\ \A d \in Call \ {c} : calls'[d] = calls[d]
  BY CallEnds DEF SignInInv, SignIn!Close
<1>2. SignIn!TypeOK'
  BY <1>1 DEF SignInInv, SignIn!TypeOK, SignIn!Close, CallRecord
<1>3. Provenance' /\ FirstIsAlone'
  BY <1>1, <1>2, CallKeeps DEF SignInInv, Provenance, SignIn!Close, First
<1>4. \A ch \in challenges : ch.attempt # calls[c].attempt
  BY DEF SignInInv, Provenance, FirstIsAlone, First, SignIn!Close, SignIn!At
<1> QED
  BY <1>2, <1>3, <1>4 DEF SignInInv, ChallengesAreCurrent, SignIn!Close

\* A token that is saved takes every challenge with it.
LEMMA SaveKeeps == ASSUME SignInInv, NEW c \in Call, SignIn!Save(c) PROVE SignInInv'
<1>1. /\ calls' \in [Call -> CallRecord] /\ calls'[c].step = "idle"
      /\ calls'[c].attempt = None /\ \A d \in Call \ {c} : calls'[d] = calls[d]
  BY CallEnds DEF SignInInv, SignIn!Save
<1>2. SignIn!TypeOK'
  BY <1>1 DEF SignInInv, SignIn!TypeOK, SignIn!Save, CallRecord
<1>3. Provenance' /\ FirstIsAlone'
  BY <1>1, <1>2, CallKeeps DEF SignInInv, Provenance, SignIn!Save, First
<1> QED
  BY <1>2, <1>3 DEF SignInInv, ChallengesAreCurrent, SignIn!Save

\* A code is entered for a challenge that was handed out.
LEMMA VerifyKeeps == ASSUME SignInInv, NEW c \in Call, SignIn!Verify(c) PROVE SignInInv'
<1> PICK ch \in handed :
      calls' = [calls EXCEPT ![c] = [step |-> "claim", attempt |-> ch.attempt, nth |-> ch.nth]]
  BY DEF SignIn!Verify
<1>1. /\ calls' \in [Call -> CallRecord]
      /\ calls'[c] = [step |-> "claim", attempt |-> ch.attempt, nth |-> ch.nth]
      /\ \A d \in Call \ {c} : calls'[d] = calls[d]
  BY DEF SignInInv, SignIn!TypeOK, CallRecord, SignIn!Step, SignIn!Challenge
<1>2. tries' \in 0..TryLimit
  BY SignInAssumption DEF SignInInv, SignIn!TypeOK, SignIn!Verify, SignIn!MayTry
<1>3. SignIn!TypeOK'
  BY <1>1, <1>2 DEF SignInInv, SignIn!TypeOK, SignIn!Verify, CallRecord
<1>4. Provenance'
  BY <1>1 DEF SignInInv, Provenance, SignIn!Verify
<1>5. FirstIsAlone'
  \* A browser knows none of the attempts that are at their first answer.
  BY <1>1 DEF SignInInv, FirstIsAlone, First, SignIn!Verify
<1> QED
  BY <1>3, <1>4, <1>5 DEF SignInInv, ChallengesAreCurrent, SignIn!Verify

\* A claimed challenge is gone for every other call.
LEMMA ClaimKeeps == ASSUME SignInInv, NEW c \in Call, SignIn!Claim(c) PROVE SignInInv'
<1>0. calls[c].attempt \in opened /\ ~First(c)
  BY DEF SignInInv, Provenance, SignIn!Claim, SignIn!At, First
<1>1. /\ calls' \in [Call -> CallRecord] /\ calls'[c].step \in {"code", "idle"}
      /\ calls'[c].attempt \in {calls[c].attempt, None}
      /\ calls'[c].step = "code" => calls'[c].attempt = calls[c].attempt
      /\ \A d \in Call \ {c} : calls'[d] = calls[d]
  BY CallGoes, CallEnds DEF SignInInv, SignIn!Claim, SignIn!Step
<1>2. SignIn!TypeOK'
  BY <1>1 DEF SignInInv, SignIn!TypeOK, SignIn!Claim, CallRecord
<1>3. Provenance' /\ FirstIsAlone'
  BY <1>0, <1>1, <1>2, CallKeeps DEF SignInInv, Provenance, SignIn!Claim, First
<1> QED
  BY <1>2, <1>3 DEF SignInInv, ChallengesAreCurrent, SignIn!Claim

\* A wrong code is counted before the next challenge.
LEMMA AnswerCodeKeeps == ASSUME SignInInv, NEW c \in Call, SignIn!AnswerCode(c) PROVE SignInInv'
<1>0. calls[c].attempt \in opened /\ ~First(c)
  BY DEF SignInInv, Provenance, SignIn!AnswerCode, SignIn!At, First
<1>1. /\ calls' \in [Call -> CallRecord] /\ calls'[c].step \in {"save", "retry", "idle"}
      /\ calls'[c].attempt \in {calls[c].attempt, None}
      /\ calls'[c].step \in {"save", "retry"} => calls'[c].attempt = calls[c].attempt
      /\ calls'[c].step = "retry" => calls[c].nth < MaxRetry /\ calls'[c].nth = calls[c].nth
      /\ \A d \in Call \ {c} : calls'[d] = calls[d]
  BY CallGoes, CallEnds DEF SignInInv, SignIn!AnswerCode, SignIn!Step
<1>2. cooldown' \in BOOLEAN
  BY DEF SignInInv, SignIn!TypeOK, SignIn!AnswerCode
<1>3. SignIn!TypeOK'
  BY <1>1, <1>2 DEF SignInInv, SignIn!TypeOK, SignIn!AnswerCode, CallRecord
<1>4. Provenance' /\ FirstIsAlone'
  BY <1>0, <1>1, <1>3, CallKeeps DEF SignInInv, Provenance, SignIn!AnswerCode, First
<1> QED
  BY <1>3, <1>4 DEF SignInInv, ChallengesAreCurrent, SignIn!AnswerCode

\* A challenge comes back only for the current attempt.
LEMMA RetryKeeps == ASSUME SignInInv, NEW c \in Call, SignIn!Retry(c) PROVE SignInInv'
<1> DEFINE again == [SignIn!ChallengeOf(c) EXCEPT !.nth = @ + 1]
<1>0. calls[c].attempt \in opened /\ ~First(c) /\ calls[c].nth < MaxRetry
  BY DEF SignInInv, Provenance, SignIn!Retry, SignIn!At, First
<1>1. /\ calls' \in [Call -> CallRecord] /\ calls'[c].step = "idle"
      /\ calls'[c].attempt = None /\ \A d \in Call \ {c} : calls'[d] = calls[d]
  BY CallEnds DEF SignInInv, SignIn!Retry
<1>2. again \in SignIn!Challenge /\ again.attempt = calls[c].attempt
  BY <1>0, SignInAssumption DEF SignInInv, SignIn!TypeOK, SignIn!ChallengeOf, SignIn!Challenge
<1>3. \/ UNCHANGED <<challenges, handed>>
      \/ SignIn!Current(calls[c].attempt) /\ challenges' = challenges \cup {again}
           /\ handed' = handed \cup {again}
  BY <1>2 DEF SignIn!Retry
<1> HIDE DEF again
<1>4. SignIn!TypeOK'
  BY <1>1, <1>2, <1>3 DEF SignInInv, SignIn!TypeOK, SignIn!Retry, CallRecord
<1>5. Provenance'
  BY <1>0, <1>1, <1>2, <1>3 DEF SignInInv, Provenance, SignIn!Retry
<1>6. FirstIsAlone'
  <2> SUFFICES ASSUME NEW b \in Call, First(b)'
               PROVE  /\ \A ch \in handed' : ch.attempt # calls'[b].attempt
                      /\ \A d \in Call \ {b} : calls'[d].attempt # calls'[b].attempt
    BY DEF FirstIsAlone
  <2>1. b # c /\ First(b) /\ calls'[b] = calls[b]
    BY <1>1 DEF First
  <2>2. calls[b].attempt # None /\ calls[c].attempt # calls[b].attempt
    BY <2>1, NoneIsNoAttempt DEF SignInInv, Provenance, First, FirstIsAlone
  <2> QED
    BY <1>1, <1>2, <1>3, <2>1, <2>2 DEF SignInInv, FirstIsAlone
<1>7. ChallengesAreCurrent'
  BY <1>2, <1>3 DEF SignInInv, ChallengesAreCurrent, SignIn!Retry, SignIn!Current
<1> QED
  BY <1>4, <1>5, <1>6, <1>7 DEF SignInInv

\* A cancellation leaves no challenge.
LEMMA CancelKeeps == ASSUME SignInInv, NEW c \in Call, SignIn!Cancel(c) PROVE SignInInv'
<1>1. /\ calls' \in [Call -> CallRecord] /\ calls'[c].step \in {"paste", "idle"}
      /\ calls'[c].attempt = calls[c].attempt /\ \A d \in Call \ {c} : calls'[d] = calls[d]
  BY CallGoes DEF SignInInv, SignIn!TypeOK, SignIn!Cancel, SignIn!Step, SignIn!At, CallRecord
<1>2. SignIn!TypeOK'
  BY <1>1 DEF SignInInv, SignIn!TypeOK, SignIn!Cancel, CallRecord
<1>3. Provenance' /\ FirstIsAlone'
  BY <1>1, <1>2, CallKeeps DEF SignInInv, Provenance, SignIn!Cancel, First
<1> QED
  BY <1>2, <1>3 DEF SignInInv, ChallengesAreCurrent, SignIn!Cancel

\* A pasted cookie touches no attempt.
LEMMA PasteKeeps == ASSUME SignInInv, NEW c \in Call, SignIn!Paste(c) PROVE SignInInv'
<1>1. /\ calls' \in [Call -> CallRecord] /\ calls'[c].step = "idle"
      /\ calls'[c].attempt = None /\ \A d \in Call \ {c} : calls'[d] = calls[d]
  BY CallEnds DEF SignInInv, SignIn!Paste
<1>2. SignIn!TypeOK'
  BY <1>1 DEF SignInInv, SignIn!TypeOK, SignIn!Paste, CallRecord
<1>3. Provenance' /\ FirstIsAlone'
  BY <1>1, <1>2, CallKeeps DEF SignInInv, Provenance, SignIn!Paste, First
<1> QED
  BY <1>2, <1>3 DEF SignInInv, ChallengesAreCurrent, SignIn!Paste

\* An abandoned call leaves the rows as they are.
LEMMA AbandonedCallKeeps == ASSUME SignInInv, NEW c \in Call, SignIn!Abandon(c) PROVE SignInInv'
<1>1. /\ calls' \in [Call -> CallRecord] /\ calls'[c].step = "idle"
      /\ calls'[c].attempt = None /\ \A d \in Call \ {c} : calls'[d] = calls[d]
  BY CallEnds DEF SignInInv, SignIn!Abandon
<1>2. SignIn!TypeOK'
  BY <1>1 DEF SignInInv, SignIn!TypeOK, SignIn!Abandon, CallRecord
<1>3. Provenance' /\ FirstIsAlone'
  BY <1>1, <1>2, CallKeeps DEF SignInInv, Provenance, SignIn!Abandon, First
<1> QED
  BY <1>2, <1>3 DEF SignInInv, ChallengesAreCurrent, SignIn!Abandon

\* What is no call: time, and the administrator.
LEMMA WorldKeeps ==
  ASSUME SignInInv,
         (\E a \in Attempt : SignIn!Expire(a)) \/ SignIn!ForgetTries \/ SignIn!Suspend \/ UNCHANGED signInVars
  PROVE  SignInInv'
<1>1. CASE \E a \in Attempt : SignIn!Expire(a)
  BY <1>1 DEF SignIn!Expire, SignInInv, SignIn!TypeOK, Provenance, FirstIsAlone, First, ChallengesAreCurrent
<1>2. CASE SignIn!ForgetTries
  <2>1. tries' \in 0..TryLimit
    BY <1>2, SignInAssumption DEF SignIn!ForgetTries
  <2>2. cooldown' \in BOOLEAN
    BY <1>2 DEF SignIn!ForgetTries
  <2> QED
    BY <1>2, <2>1, <2>2
    DEF SignIn!ForgetTries, SignInInv, SignIn!TypeOK, Provenance, FirstIsAlone, First, ChallengesAreCurrent
<1>3. CASE SignIn!Suspend
  <2>1. allowed' \in BOOLEAN
    BY <1>3 DEF SignIn!Suspend
  <2> QED
    BY <1>3, <2>1
    DEF SignIn!Suspend, SignInInv, SignIn!TypeOK, Provenance, FirstIsAlone, First, ChallengesAreCurrent
<1>4. CASE UNCHANGED signInVars
  BY <1>4 DEF signInVars, SignInInv, SignIn!TypeOK, Provenance, FirstIsAlone, First, ChallengesAreCurrent
<1> QED
  BY <1>1, <1>2, <1>3, <1>4

\* Every step keeps the invariant: one case for each action.
LEMMA SignInStands == SignInInv /\ [SignIn!Next]_signInVars => SignInInv'
<1> SUFFICES ASSUME SignInInv, [SignIn!Next]_signInVars PROVE SignInInv'
  OBVIOUS
<1>1. CASE \E c \in Call :
             \/ SignIn!Start(c) \/ SignIn!Open(c) \/ SignIn!Answer(c) \/ SignIn!AddChallenge(c)
             \/ SignIn!Close(c) \/ SignIn!Save(c)
             \/ SignIn!Verify(c) \/ SignIn!Claim(c) \/ SignIn!AnswerCode(c) \/ SignIn!Retry(c)
             \/ SignIn!Cancel(c) \/ SignIn!Paste(c) \/ SignIn!Abandon(c)
  BY <1>1, StartKeeps, OpenKeeps, AnswerKeeps, AddChallengeKeeps, CloseKeeps, SaveKeeps,
     VerifyKeeps, ClaimKeeps, AnswerCodeKeeps, RetryKeeps, CancelKeeps, PasteKeeps, AbandonedCallKeeps
<1>2. CASE (\E a \in Attempt : SignIn!Expire(a)) \/ SignIn!ForgetTries \/ SignIn!Suspend \/ UNCHANGED signInVars
  BY <1>2, WorldKeeps
<1> QED
  BY <1>1, <1>2 DEF SignIn!Next

\* Every variable of a sign-in has its type, for any attempts and calls.
THEOREM SignInIsTyped == SignIn!Spec => []SignIn!TypeOK
<1>1. SignInInv => SignIn!TypeOK
  BY DEF SignInInv
<1> QED
  BY <1>1, SignInBegins, SignInStands, PTL DEF SignIn!Spec, SignIn!signInVars, signInVars

\* No challenge of an attempt that was cancelled, replaced, finished or failed
\* waits for a code, however answers, codes and cancellations cross.
THEOREM OnlyTheCurrentAttemptAsks == SignIn!Spec => []ChallengesAreCurrent
<1>1. SignInInv => ChallengesAreCurrent
  BY DEF SignInInv
<1> QED
  BY <1>1, SignInBegins, SignInStands, PTL DEF SignIn!Spec, SignIn!signInVars, signInVars

----------------------------------------------------------------------------
(* MakerWorldSignIn implements LatestAttempt. *)

\* The attempt under way, as LatestAttempt sees it.
Underway == IF guard \in expired THEN None ELSE guard

\* Every step begins, ends or saves the attempt under way, pastes a cookie, or
\* is none of LatestAttempt's business.
LEMMA Implementing == SignInInv /\ [SignIn!Next]_signInVars => [Promise!Next]_(Promise!vars)
<1> SUFFICES ASSUME SignInInv, [SignIn!Next]_signInVars PROVE [Promise!Next]_(Promise!vars)
  OBVIOUS
<1> USE DEF Promise!vars, Promise!Next
<1>0. None \notin opened /\ None \notin expired /\ expired \subseteq opened
  BY NoneIsNoAttempt DEF SignInInv, Provenance
<1>1. ASSUME NEW c \in Call, SignIn!Open(c) PROVE \E a \in Attempt : Promise!Begin(a)
  <2> PICK a \in Attempt \ opened : guard' = a /\ opened' = opened \cup {a}
    BY <1>1 DEF SignIn!Open
  <2>1. Promise!Begin(a)
    BY <1>0, <1>1 DEF SignIn!Open, Promise!Begin
  <2> QED
    BY <2>1
<1>2. ASSUME NEW c \in Call, SignIn!Close(c) PROVE Promise!End \/ UNCHANGED Promise!vars
  BY <1>0, <1>2 DEF SignIn!Close, Promise!End
<1>3. ASSUME NEW c \in Call, SignIn!Save(c) PROVE Promise!Save \/ UNCHANGED Promise!vars
  <2>1. calls[c].attempt \in opened
    BY <1>3 DEF SignInInv, Provenance, SignIn!Save, SignIn!At
  <2> QED
    BY <1>0, <1>3, <2>1 DEF SignIn!Save, SignIn!Current, Promise!Save
<1>4. ASSUME NEW c \in Call, SignIn!Cancel(c) PROVE Promise!End \/ UNCHANGED Promise!vars
  BY <1>0, <1>4 DEF SignIn!Cancel, Promise!End
<1>5. ASSUME NEW c \in Call, SignIn!Paste(c) PROVE Promise!Paste \/ UNCHANGED Promise!vars
  BY <1>5 DEF SignIn!Paste, Promise!Paste
<1>6. ASSUME NEW a \in Attempt, SignIn!Expire(a) PROVE Promise!End \/ UNCHANGED Promise!vars
  BY <1>0, <1>6 DEF SignIn!Expire, Promise!End
<1>7. ASSUME UNCHANGED <<guard, opened, expired, credential>> PROVE UNCHANGED Promise!vars
  BY <1>7
<1>8. ASSUME NEW c \in Call,
             SignIn!Start(c) \/ SignIn!Answer(c) \/ SignIn!AddChallenge(c) \/ SignIn!Verify(c) \/ SignIn!Claim(c) \/ SignIn!AnswerCode(c)
               \/ SignIn!Retry(c) \/ SignIn!Abandon(c)
      PROVE  UNCHANGED <<guard, opened, expired, credential>>
  BY <1>8
  DEF SignIn!Start, SignIn!Answer, SignIn!AddChallenge, SignIn!Verify, SignIn!Claim, SignIn!AnswerCode,
      SignIn!Retry, SignIn!Abandon
<1>9. SignIn!ForgetTries \/ SignIn!Suspend \/ UNCHANGED signInVars =>
        UNCHANGED <<guard, opened, expired, credential>>
  BY DEF SignIn!ForgetTries, SignIn!Suspend, signInVars
<1> QED
  BY <1>1, <1>2, <1>3, <1>4, <1>5, <1>6, <1>7, <1>8, <1>9 DEF SignIn!Next

\* "Cancellation or a newer login wins over an old in-flight response": whatever
\* the order of calls, answers, codes, cancellations and time, only the token of
\* the attempt under way is stored, and no attempt is under way twice.
THEOREM LateAnswersNeverSave == SignIn!Spec => LateAnswersAreIgnored
<1>1. SignIn!Init => Promise!Init
  BY DEF SignIn!Init, Promise!Init
<1> QED
  BY <1>1, SignInBegins, SignInStands, Implementing, PTL
  DEF SignIn!Spec, SignIn!signInVars, signInVars, LateAnswersAreIgnored, Promise!Spec

----------------------------------------------------------------------------
(* A print request and its print. *)

RequestRow == [status : Queue!Status, model : Model \cup {Nothing}, run : Run \cup {Nothing}]
ChangeRecord == [step : {"idle", "log", "judge", "withdraw", "write"}, next : Queue!Status,
                 model : Model \cup {Nothing}, run : Run \cup {Nothing}]
PrintState == {"none", "made", "filled", "gone"}

\* What a change of status has found out by each of its steps.
Knowing ==
  \A c \in Session :
    /\ changes[c].step = "log" => changes[c].next = "done" /\ changes[c].run = Nothing
    /\ changes[c].step \in {"judge", "withdraw"} => changes[c].run \in Run
    /\ changes[c].step = "write" /\ changes[c].run # Nothing => changes[c].next = "done"

\* Only a request that is done names a print, which exists.
NamesAPrint == request.run # Nothing => request.status = "done" /\ Queue!Recorded(request.run)

\* The print the queue made is the one the request names, or one a change has in
\* hand, or a stray.
OnePrint ==
  request # Queue!Deleted =>
    \A r \in Run : prints[r] = "made" /\ r \notin strays =>
      request.run = r \/ \E c \in Session : changes[c].run = r

\* Two changes under way have overlapped, and one that is not under way has nothing.
OneByOne ==
  /\ \A c, d \in Session : c = d \/ Queue!At(c, "idle") \/ Queue!At(d, "idle") \/ c \in beside
  /\ \A c \in Session : Queue!At(c, "idle") => changes[c].run = Nothing

\* What a change that overlaps none has in hand is the print the request names,
\* unless that is one the queue would not withdraw.
Informed ==
  \A c \in Session \ beside : ~Queue!At(c, "idle") /\ request # Queue!Deleted =>
    request.run = changes[c].run \/ request.run = Nothing \/ prints[request.run] # "made"

\* What is about to be withdrawn nobody had filled in, or has since.
Untouched ==
  \A c \in Session : Queue!At(c, "withdraw") => prints[changes[c].run] # "filled" \/ c \in late

QueueInv == Queue!TypeOK /\ Knowing /\ NamesAPrint /\ OnePrint /\ OneByOne /\ Informed /\ Untouched

\* The types of the variables, as the proofs use them.
LEMMA QueueTypes ==
  ASSUME Queue!TypeOK
  PROVE  /\ request \in RequestRow \/ request = Queue!Deleted
         /\ prints \in [Run -> PrintState]
         /\ changes \in [Session -> ChangeRecord]
         /\ Nothing \notin Run /\ Nothing \notin Model /\ Run \subseteq Nat
         /\ beside \subseteq Session /\ late \subseteq Session /\ strays \subseteq Run
  BY RequestsAssumption DEF Queue!TypeOK, RequestRow, PrintState, ChangeRecord

\* A deleted request is no row, and names nothing.
LEMMA DeletedIsNoRow == Queue!Deleted \notin RequestRow /\ Queue!Deleted.run = Nothing
  /\ Queue!Deleted.model = Nothing
  BY DEF Queue!Deleted, RequestRow, Queue!Status

\* What a change becomes when it goes on, or ends; the others stay.
LEMMA ChangeGoes ==
  ASSUME Queue!TypeOK, NEW c \in Session, NEW s \in {"judge", "withdraw", "write"}, Queue!Go(c, s)
  PROVE  /\ changes' \in [Session -> ChangeRecord]
         /\ changes'[c].step = s /\ changes'[c].next = changes[c].next
         /\ changes'[c].run = changes[c].run
         /\ \A d \in Session \ {c} : changes'[d] = changes[d]
  BY DEF Queue!TypeOK, Queue!Go, ChangeRecord

\* What a change becomes when it ends.
LEMMA ChangeEnds ==
  ASSUME Queue!TypeOK, NEW c \in Session, Queue!Finish(c)
  PROVE  /\ changes' \in [Session -> ChangeRecord]
         /\ changes'[c].step = "idle" /\ changes'[c].run = Nothing /\ beside' = beside \ {c}
         /\ \A d \in Session \ {c} : changes'[d] = changes[d]
<1>1. Queue!Idle \in ChangeRecord
  BY DEF Queue!Idle, ChangeRecord, Queue!Status
<1> QED
  BY <1>1 DEF Queue!TypeOK, Queue!Finish, ChangeRecord, Queue!Idle

\* The invariant holds at first.
LEMMA QueueBegins == Queue!Init => QueueInv
<1> SUFFICES ASSUME Queue!Init PROVE QueueInv
  OBVIOUS
<1> PICK m \in Model \cup {Nothing} : request = [status |-> "requested", model |-> m, run |-> Nothing]
  BY DEF Queue!Init
<1>1. request \in RequestRow /\ request.run = Nothing
  BY DEF RequestRow, Queue!Status
<1>2. changes \in [Session -> ChangeRecord]
  BY DEF Queue!Init, ChangeRecord, Queue!Idle, Queue!Status
<1>3. /\ models \subseteq Model /\ prints \in [Run -> PrintState] /\ shelf \in [Run -> Model \cup {Nothing}]
      /\ asked \in 0..MaxPress /\ broken \in 0..MaxBreak
  BY RequestsAssumption DEF Queue!Init, PrintState
<1>4. Queue!TypeOK
  BY <1>1, <1>2, <1>3, Zenon DEF Queue!Init, Queue!TypeOK, RequestRow, ChangeRecord, PrintState
<1>5. \A c \in Session : Queue!At(c, "idle") /\ changes[c].step = "idle" /\ changes[c].run = Nothing
  BY DEF Queue!Init, Queue!At, Queue!Idle
<1>6. Knowing /\ OneByOne /\ Informed /\ Untouched
  BY <1>5 DEF Knowing, OneByOne, Informed, Untouched, Queue!At
<1>7. OnePrint
  BY DEF Queue!Init, OnePrint
<1> QED
  BY <1>1, <1>4, <1>6, <1>7 DEF QueueInv, NamesAPrint

----------------------------------------------------------------------------
(* One lemma per action of a change of status. *)

\* A change that begins knows what the row says.
LEMMA LookKeeps == ASSUME QueueInv, NEW c \in Session, NEW next \in Queue!Status, Queue!Look(c, next) PROVE QueueInv'
<1> DEFINE step == IF next = "done" /\ request.status # "done" /\ request.model # Nothing
                      /\ request.run = Nothing THEN "log"
                   ELSE IF next # "done" /\ request.status = "done" /\ request.run # Nothing
                   THEN "judge" ELSE "write"
<1>0. request \in RequestRow /\ request # Queue!Deleted
  BY QueueTypes DEF QueueInv, Queue!Look
<1>1. changes' = [changes EXCEPT ![c] =
        [step |-> step, next |-> next, model |-> request.model, run |-> request.run]]
  BY DEF Queue!Look
<1>2. step \in {"log", "judge", "write"}
  OBVIOUS
<1>3. /\ step = "log" => next = "done" /\ request.run = Nothing
      /\ step = "judge" => request.run \in Run
      /\ step = "write" /\ request.run # Nothing => next = "done"
  BY <1>0 DEF QueueInv, NamesAPrint, RequestRow
<1> HIDE DEF step
<1>4. /\ changes' \in [Session -> ChangeRecord]
      /\ changes'[c].step = step /\ changes'[c].next = next /\ changes'[c].run = request.run
      /\ \A d \in Session \ {c} : changes'[d] = changes[d]
  BY <1>0, <1>1, <1>2 DEF QueueInv, Queue!TypeOK, ChangeRecord, RequestRow
<1>5. asked' \in 0..MaxPress
  BY RequestsAssumption DEF QueueInv, Queue!TypeOK, Queue!Look
<1>6. beside' = IF Queue!Quiet THEN beside ELSE {c} \cup {d \in Session : ~Queue!At(d, "idle")}
  BY DEF Queue!Look
<1>7. /\ beside' \subseteq Session /\ Queue!At(c, "idle") /\ ~Queue!At(c, "idle")'
      /\ UNCHANGED <<request, prints, late, strays>>
      /\ \A d \in Session \ {c} : Queue!At(d, "idle")' <=> Queue!At(d, "idle")
  BY <1>2, <1>4, <1>6 DEF QueueInv, Queue!TypeOK, Queue!At, Queue!Look
<1>8. Queue!TypeOK'
  BY <1>4, <1>5, <1>7 DEF QueueInv, Queue!TypeOK, Queue!Look, ChangeRecord
<1>9. Knowing'
  BY <1>2, <1>3, <1>4 DEF QueueInv, Knowing
<1>10. OneByOne'
  <2>1. CASE Queue!Quiet
    <3>1. \A d \in Session \ {c} : Queue!At(d, "idle")'
      BY <1>7, <2>1 DEF Queue!Quiet, Queue!At
    <3> QED
      BY <1>4, <1>7, <3>1 DEF QueueInv, OneByOne
  <2>2. CASE ~Queue!Quiet
    <3>1. \A d \in Session : Queue!At(d, "idle")' \/ d \in beside'
      BY <1>6, <1>7, <2>2
    <3> QED
      BY <1>4, <1>7, <3>1 DEF QueueInv, OneByOne
  <2> QED
    BY <2>1, <2>2
<1>11. OnePrint'
  <2>1. changes[c].run = Nothing /\ Nothing \notin Run
    BY <1>7, QueueTypes DEF QueueInv, OneByOne
  <2> QED
    BY <1>4, <1>7, <2>1 DEF QueueInv, OnePrint
<1>12. Informed'
  <2>1. CASE Queue!Quiet
    BY <1>4, <1>7, <2>1 DEF Informed, Queue!Quiet, Queue!At
  <2>2. CASE ~Queue!Quiet
    BY <1>6, <1>7, <2>2 DEF Informed
  <2> QED
    BY <2>1, <2>2
<1>13. Untouched'
  BY <1>2, <1>4, <1>7 DEF QueueInv, Untouched, Queue!At
<1> QED
  BY <1>7, <1>8, <1>9, <1>10, <1>11, <1>12, <1>13 DEF QueueInv, NamesAPrint, Queue!Recorded

\* The print that is logged is known to its change.
LEMMA LogKeeps == ASSUME QueueInv, NEW c \in Session, Queue!Log(c) PROVE QueueInv'
<1>0. /\ changes[c].run = Nothing /\ changes[c].next = "done" /\ Nothing \notin Run
      /\ changes[c] \in ChangeRecord /\ UNCHANGED <<request, models, late, strays, asked, broken>>
      /\ Queue!At(c, "log")
  BY QueueTypes DEF QueueInv, Knowing, Queue!Log, Queue!At
<1>1. request.run \in Run \cup {Nothing}
  BY QueueTypes, DeletedIsNoRow DEF QueueInv, RequestRow
<1>2. CASE changes[c].model \in models
  <2> PICK r \in Run :
        /\ prints[r] = "none"
        /\ prints' = [prints EXCEPT ![r] = "made"]
        /\ shelf' = [shelf EXCEPT ![r] = changes[c].model]
        /\ changes' = [changes EXCEPT ![c].step = "write", ![c].run = r]
        /\ UNCHANGED beside
    BY <1>2 DEF Queue!Log
  <2>1. /\ changes' \in [Session -> ChangeRecord]
        /\ changes'[c].step = "write" /\ changes'[c].next = "done" /\ changes'[c].run = r
        /\ \A d \in Session \ {c} : changes'[d] = changes[d]
    BY <1>0 DEF QueueInv, Queue!TypeOK, ChangeRecord
  <2>2. /\ prints' \in [Run -> PrintState] /\ prints'[r] = "made"
        /\ \A s \in Run \ {r} : prints'[s] = prints[s]
    BY DEF QueueInv, Queue!TypeOK, PrintState
  <2>3. shelf' \in [Run -> Model \cup {Nothing}]
    BY <1>0 DEF QueueInv, Queue!TypeOK, ChangeRecord
  <2>4. Queue!TypeOK'
    BY <1>0, <2>1, <2>2, <2>3 DEF QueueInv, Queue!TypeOK, ChangeRecord, PrintState
  <2>5. Knowing' /\ OneByOne'
    BY <1>0, <2>1 DEF QueueInv, Knowing, OneByOne, Queue!At
  <2>6. NamesAPrint' /\ (request.run # Nothing => request.run # r)
    BY <1>0, <1>1, <2>2 DEF QueueInv, NamesAPrint, Queue!Recorded
  <2>7. OnePrint'
    BY <1>0, <2>1, <2>2 DEF QueueInv, OnePrint
  <2>8. Informed'
    BY <1>0, <1>1, <2>1, <2>2, <2>6 DEF QueueInv, Informed, Queue!At
  <2>9. Untouched'
    BY <1>0, <2>1, <2>2 DEF QueueInv, Untouched, Knowing, Queue!At
  <2> QED
    BY <2>4, <2>5, <2>6, <2>7, <2>8, <2>9 DEF QueueInv
<1>3. CASE changes[c].model \notin models
  <2>0. Queue!Finish(c) /\ UNCHANGED <<prints, shelf>>
    BY <1>3 DEF Queue!Log
  <2>1. /\ changes' \in [Session -> ChangeRecord] /\ changes'[c].step = "idle"
        /\ changes'[c].run = Nothing /\ beside' = beside \ {c}
        /\ \A d \in Session \ {c} : changes'[d] = changes[d]
    BY <2>0, ChangeEnds DEF QueueInv
  <2>2. Queue!TypeOK'
    BY <1>0, <2>0, <2>1 DEF QueueInv, Queue!TypeOK, ChangeRecord
  <2>3. Knowing' /\ OneByOne' /\ Informed' /\ Untouched'
    BY <1>0, <2>0, <2>1 DEF QueueInv, Knowing, OneByOne, Informed, Untouched, Queue!At
  <2>4. OnePrint'
    BY <1>0, <2>0, <2>1 DEF QueueInv, OnePrint
  <2> QED
    BY <1>0, <2>0, <2>2, <2>3, <2>4 DEF QueueInv, NamesAPrint, Queue!Recorded
<1> QED
  BY <1>2, <1>3

\* What is about to be withdrawn nobody has filled in.
LEMMA JudgeKeeps == ASSUME QueueInv, NEW c \in Session, Queue!Judge(c) PROVE QueueInv'
<1>0. /\ changes[c].run \in Run /\ changes[c] \in ChangeRecord /\ Queue!At(c, "judge")
      /\ UNCHANGED <<request, models, prints, shelf, beside, late, strays, asked, broken>>
      /\ Nothing \notin Run
  BY QueueTypes DEF QueueInv, Knowing, Queue!Judge, Queue!At
<1>1. /\ changes' \in [Session -> ChangeRecord]
      /\ \/ changes'[c].step = "withdraw" /\ changes'[c].run = changes[c].run
              /\ prints[changes[c].run] = "made"
         \/ changes'[c].step = "write" /\ changes'[c].run = Nothing
              /\ prints[changes[c].run] # "made"
      /\ \A d \in Session \ {c} : changes'[d] = changes[d]
  <2>1. CASE prints[changes[c].run] = "made"
    BY <2>1, ChangeGoes DEF QueueInv, Queue!Judge
  <2>2. CASE prints[changes[c].run] # "made"
    BY <1>0, <2>2 DEF QueueInv, Queue!TypeOK, Queue!Judge, ChangeRecord
  <2> QED
    BY <2>1, <2>2
<1>2. Queue!TypeOK'
  BY <1>0, <1>1 DEF QueueInv, Queue!TypeOK, ChangeRecord
<1>3. Knowing' /\ OneByOne' /\ Untouched'
  BY <1>0, <1>1 DEF QueueInv, Knowing, OneByOne, Untouched, Queue!At
<1>4. OnePrint' /\ Informed'
  BY <1>0, <1>1 DEF QueueInv, OnePrint, Informed, Queue!At
<1> QED
  BY <1>0, <1>2, <1>3, <1>4 DEF QueueInv, NamesAPrint, Queue!Recorded

\* What deleting prints leaves of the request and of the history.
LEMMA Dropping ==
  ASSUME QueueInv, NEW gone \in SUBSET Run,
         prints' = [r \in Run |-> IF r \in gone THEN "gone" ELSE prints[r]],
         NEW model \in Model \cup {Nothing}, request = Queue!Deleted => model = Nothing,
         request' = [request EXCEPT !.run = IF @ \in gone THEN Nothing ELSE @, !.model = model]
  PROVE  /\ request' \in RequestRow \cup {Queue!Deleted} /\ prints' \in [Run -> PrintState]
         /\ NamesAPrint'
         /\ request' = Queue!Deleted <=> request = Queue!Deleted
         /\ request'.run = IF request.run \in gone THEN Nothing ELSE request.run
         /\ \A r \in Run : prints'[r] \in {prints[r], "gone"}
         /\ \A r \in Run : prints'[r] = "made" => prints[r] = "made" /\ r \notin gone
         /\ \A r \in gone : prints'[r] = "gone"
         /\ \A r \in Run \ gone : prints'[r] = prints[r]
<1>1. prints' \in [Run -> PrintState]
  BY QueueTypes DEF QueueInv, PrintState
<1>2. CASE request = Queue!Deleted
  <2>1. request' = Queue!Deleted
    BY <1>2, QueueTypes DEF QueueInv, Queue!Deleted
  <2> QED
    BY <1>1, <1>2, <2>1, QueueTypes, DeletedIsNoRow DEF QueueInv, NamesAPrint
<1>3. CASE request \in RequestRow
  <2>1. /\ request' \in RequestRow /\ request'.status = request.status
        /\ request'.run = IF request.run \in gone THEN Nothing ELSE request.run
    BY <1>3 DEF RequestRow
  <2>2. request' # Queue!Deleted /\ request # Queue!Deleted
    BY <1>3, <2>1, DeletedIsNoRow
  <2>3. request.run \in Run \cup {Nothing}
    BY <1>3 DEF RequestRow
  <2>4. NamesAPrint'
    BY <2>1, <2>3 DEF QueueInv, NamesAPrint, Queue!Recorded
  <2> QED
    BY <1>1, <2>1, <2>2, <2>4
<1> QED
  BY <1>2, <1>3, QueueTypes DEF QueueInv

\* Dropping prints, as one act.
LEMMA DropIsDropping ==
  ASSUME QueueInv, NEW gone \in SUBSET Run, Queue!Drop(gone)
  PROVE  request' = [request EXCEPT !.run = IF @ \in gone THEN Nothing ELSE @,
                                    !.model = request.model]
<1>1. CASE request = Queue!Deleted
  BY <1>1 DEF Queue!Drop, Queue!Deleted
<1>2. CASE request \in RequestRow
  BY <1>2 DEF Queue!Drop, RequestRow
<1> QED
  BY <1>1, <1>2, QueueTypes DEF QueueInv

\* What a request, deleted or not, says of its model.
LEMMA RequestModel == ASSUME QueueInv PROVE request.model \in Model \cup {Nothing}
  BY QueueTypes, DeletedIsNoRow DEF QueueInv, RequestRow

\* The print that goes is named no more.
LEMMA WithdrawKeeps == ASSUME QueueInv, NEW c \in Session, Queue!Withdraw(c) PROVE QueueInv'
<1> DEFINE gone == {changes[c].run}
<1>0. /\ gone \subseteq Run /\ Queue!At(c, "withdraw") /\ changes[c] \in ChangeRecord
      /\ Queue!Drop(gone) /\ UNCHANGED <<models, shelf, beside, strays, asked, broken>> /\ Nothing \notin Run
      /\ late' = late \ {c}
      /\ changes' = [changes EXCEPT ![c].step = "write", ![c].run = Nothing]
  BY QueueTypes DEF QueueInv, Knowing, Queue!Withdraw, Queue!At
<1>1. /\ changes' \in [Session -> ChangeRecord]
      /\ changes'[c].step = "write" /\ changes'[c].run = Nothing
      /\ \A d \in Session \ {c} : changes'[d] = changes[d]
  BY <1>0 DEF QueueInv, Queue!TypeOK, ChangeRecord
<1>2. changes[c].run \in gone
  OBVIOUS
<1> HIDE DEF gone
<1>3. prints' = [r \in Run |-> IF r \in gone THEN "gone" ELSE prints[r]]
  BY <1>0 DEF Queue!Drop
<1>4. /\ request' \in RequestRow \cup {Queue!Deleted} /\ prints' \in [Run -> PrintState] /\ NamesAPrint'
      /\ request' = Queue!Deleted <=> request = Queue!Deleted
      /\ request'.run = IF request.run \in gone THEN Nothing ELSE request.run
      /\ \A r \in Run : prints'[r] \in {prints[r], "gone"}
      /\ \A r \in Run : prints'[r] = "made" => prints[r] = "made" /\ r \notin gone
  BY <1>0, <1>3, Dropping, DropIsDropping, RequestModel, DeletedIsNoRow
<1>5. Queue!TypeOK'
  BY <1>0, <1>1, <1>4 DEF QueueInv, Queue!TypeOK, ChangeRecord, RequestRow, PrintState
<1>6. Knowing' /\ OneByOne'
  BY <1>0, <1>1 DEF QueueInv, Knowing, OneByOne, Queue!At
<1>7. OnePrint'
  <2>1. ASSUME NEW r \in Run, prints'[r] = "made", r \notin strays, request # Queue!Deleted
        PROVE  request'.run = r \/ \E d \in Session : changes'[d].run = r
    BY <1>1, <1>2, <1>4, <2>1 DEF QueueInv, OnePrint
  <2> QED
    BY <1>0, <1>4, <2>1 DEF OnePrint
<1>8. Informed'
  <2>1. request.run \in Run \cup {Nothing}
    BY QueueTypes, DeletedIsNoRow DEF QueueInv, RequestRow
  <2>2. ASSUME NEW d \in Session \ beside, ~Queue!At(d, "idle")', request' # Queue!Deleted
        PROVE  request'.run = changes'[d].run \/ request'.run = Nothing \/ prints'[request'.run] # "made"
    BY <1>0, <1>1, <1>2, <1>4, <2>1, <2>2 DEF QueueInv, Informed, Queue!At
  <2> QED
    BY <1>0, <2>2 DEF Informed
<1>9. Untouched'
  <2>1. \A d \in Session : Queue!At(d, "withdraw") => changes[d].run \in Run
    BY DEF QueueInv, Knowing, Queue!At
  <2> QED
    BY <1>0, <1>1, <1>4, <2>1 DEF QueueInv, Untouched, Queue!At
<1> QED
  BY <1>4, <1>5, <1>6, <1>7, <1>8, <1>9 DEF QueueInv

\* What is written agrees with what was logged or withdrawn; only a change that
\* overlaps another leaves a print without its request.
LEMMA WriteKeeps == ASSUME QueueInv, NEW c \in Session, Queue!Write(c) PROVE QueueInv'
<1>0. /\ Queue!At(c, "write") /\ changes[c] \in ChangeRecord /\ Nothing \notin Run
      /\ UNCHANGED <<models, prints, shelf, late, asked, broken>>
  BY QueueTypes DEF QueueInv, Queue!Write
<1>1. /\ changes' \in [Session -> ChangeRecord] /\ changes'[c].step = "idle"
      /\ changes'[c].run = Nothing /\ beside' = beside \ {c}
      /\ \A d \in Session \ {c} : changes'[d] = changes[d]
  BY ChangeEnds DEF QueueInv, Queue!Write
<1>2. Knowing' /\ OneByOne' /\ Untouched'
  BY <1>0, <1>1 DEF QueueInv, Knowing, OneByOne, Untouched, Queue!At
<1>3. request.run \in Run \cup {Nothing} /\ changes[c].run \in Run \cup {Nothing}
  BY <1>0, QueueTypes, DeletedIsNoRow DEF QueueInv, RequestRow, ChangeRecord
<1>4. /\ c \in beside => strays' = strays \cup ({request.run, changes[c].run} \ {request'.run, Nothing})
      /\ c \notin beside => strays' = strays
  BY DEF Queue!Write, Queue!Leaves
<1>5. strays \subseteq strays' /\ strays' \subseteq Run
  BY <1>3, <1>4, QueueTypes DEF QueueInv
\* What else was made is in another change's hand, or named.
<1>6. ASSUME NEW r \in Run, prints[r] = "made", r \notin strays', request # Queue!Deleted
      PROVE  r \in {request.run, changes[c].run} \/ \E d \in Session : changes'[d].run = r
  BY <1>1, <1>5, <1>6 DEF QueueInv, OnePrint
<1>7. ASSUME c \notin beside, NEW d \in Session \ {c} PROVE changes'[d].run = Nothing /\ Queue!At(d, "idle")
  BY <1>0, <1>1, <1>7 DEF QueueInv, OneByOne, Queue!At
<1>8. CASE request = Queue!Deleted \/ (changes[c].run # Nothing /\ ~Queue!Recorded(changes[c].run))
  <2>1. UNCHANGED request
    BY <1>8 DEF Queue!Write
  <2>2. Queue!TypeOK'
    BY <1>0, <1>1, <1>5, <2>1 DEF QueueInv, Queue!TypeOK, ChangeRecord
  <2>3. NamesAPrint' /\ Informed'
    BY <1>0, <1>1, <2>1 DEF QueueInv, NamesAPrint, Informed, Queue!Recorded, Queue!At
  <2>4. OnePrint'
    BY <1>0, <1>6, <1>8, <2>1 DEF OnePrint, Queue!Recorded
  <2> QED
    BY <1>2, <2>2, <2>3, <2>4 DEF QueueInv
<1>9. CASE request # Queue!Deleted /\ (changes[c].run = Nothing \/ Queue!Recorded(changes[c].run))
  <2>1. request' = [request EXCEPT !.status = changes[c].next, !.run = changes[c].run]
    BY <1>9 DEF Queue!Write
  <2>2. request \in RequestRow
    BY <1>9, QueueTypes DEF QueueInv
  <2>3. /\ request' \in RequestRow /\ request'.status = changes[c].next
        /\ request'.run = changes[c].run
    BY <1>0, <2>1, <2>2 DEF RequestRow, ChangeRecord
  <2>4. Queue!TypeOK'
    BY <1>0, <1>1, <1>5, <2>3 DEF QueueInv, Queue!TypeOK, ChangeRecord, RequestRow
  <2>5. NamesAPrint'
    BY <1>0, <1>9, <2>3 DEF QueueInv, NamesAPrint, Queue!Recorded, Knowing, Queue!At
  <2>6. OnePrint'
    <3>1. ASSUME NEW r \in Run, prints[r] = "made", r \notin strays'
          PROVE  request'.run = r \/ \E d \in Session : changes'[d].run = r
      <4>1. CASE c \in beside
        BY <1>4, <1>6, <1>9, <2>3, <3>1, <4>1, <1>0
      <4>2. CASE c \notin beside
        BY <1>0, <1>6, <1>9, <2>3, <3>1, <4>2 DEF QueueInv, Informed, Queue!At
      <4> QED
        BY <4>1, <4>2
    <3> QED
      BY <1>0, <3>1 DEF OnePrint
  <2>7. Informed'
    <3>1. ASSUME NEW d \in Session \ beside' PROVE Queue!At(d, "idle")'
      BY <1>0, <1>1, <3>1 DEF QueueInv, OneByOne, Queue!At
    <3> QED
      BY <3>1 DEF Informed
  <2> QED
    BY <1>2, <2>4, <2>5, <2>6, <2>7 DEF QueueInv
<1> QED
  BY <1>8, <1>9

\* A change that breaks off leaves what it had logged.
LEMMA BreakOffKeeps == ASSUME QueueInv, NEW c \in Session, Queue!BreakOff(c) PROVE QueueInv'
<1>0. /\ changes[c] \in ChangeRecord /\ UNCHANGED <<request, models, prints, shelf, asked>>
      /\ late' = late \ {c} /\ strays' = strays \cup ({changes[c].run} \ {request.run, Nothing})
  BY QueueTypes DEF QueueInv, Queue!BreakOff, Queue!Leaves
<1>1. /\ changes' \in [Session -> ChangeRecord] /\ changes'[c].step = "idle"
      /\ changes'[c].run = Nothing /\ beside' = beside \ {c}
      /\ \A d \in Session \ {c} : changes'[d] = changes[d]
  BY ChangeEnds DEF QueueInv, Queue!BreakOff
<1>2. broken' \in 0..MaxBreak
  BY RequestsAssumption DEF QueueInv, Queue!TypeOK, Queue!BreakOff
<1>3. strays' \subseteq Run
  BY <1>0, QueueTypes DEF QueueInv, ChangeRecord
<1>4. Queue!TypeOK'
  BY <1>0, <1>1, <1>2, <1>3 DEF QueueInv, Queue!TypeOK, ChangeRecord
<1>5. Knowing' /\ OneByOne' /\ Informed' /\ Untouched'
  BY <1>0, <1>1 DEF QueueInv, Knowing, OneByOne, Informed, Untouched, Queue!At
<1>6. OnePrint'
  BY <1>0, <1>1, QueueTypes DEF QueueInv, OnePrint
<1> QED
  BY <1>0, <1>4, <1>5, <1>6 DEF QueueInv, NamesAPrint, Queue!Recorded

----------------------------------------------------------------------------
(* What else is done. *)

\* A link says nothing of prints.
LEMMA LinkKeeps == ASSUME QueueInv, NEW m \in Model \cup {Nothing}, Queue!Link(m) PROVE QueueInv'
<1>1. request \in RequestRow /\ request # Queue!Deleted
  BY QueueTypes DEF QueueInv, Queue!Link
<1>2. /\ request' \in RequestRow /\ request'.run = request.run
      /\ request'.status = request.status
  BY <1>1 DEF Queue!Link, RequestRow
<1>3. Queue!TypeOK'
  BY <1>2 DEF QueueInv, Queue!TypeOK, Queue!Link, RequestRow
<1> QED
  BY <1>1, <1>2, <1>3
  DEF QueueInv, Queue!Link, Knowing, NamesAPrint, Queue!Recorded, OnePrint, OneByOne, Informed, Untouched,
      Queue!At

\* A deleted request names nothing.
LEMMA DeleteRequestKeeps == ASSUME QueueInv, Queue!DeleteRequest PROVE QueueInv'
<1>1. Queue!TypeOK'
  BY DEF QueueInv, Queue!TypeOK, Queue!DeleteRequest
<1>2. NamesAPrint'
  BY DeletedIsNoRow DEF NamesAPrint, Queue!DeleteRequest
<1> QED
  BY <1>1, <1>2
  DEF QueueInv, Queue!DeleteRequest, Knowing, OnePrint, OneByOne, Informed, Untouched, Queue!At

\* A print that is filled in is no longer one the queue made.
LEMMA FillInKeeps == ASSUME QueueInv, NEW r \in Run, Queue!FillIn(r) PROVE QueueInv'
<1>0. /\ prints[r] = "made" /\ UNCHANGED <<request, models, shelf, changes, beside, strays, asked, broken>>
      /\ late' = late \cup {c \in Session : Queue!At(c, "withdraw") /\ changes[c].run = r}
  BY DEF Queue!FillIn
<1>1. /\ prints' \in [Run -> PrintState] /\ prints'[r] = "filled"
      /\ \A s \in Run \ {r} : prints'[s] = prints[s]
  BY DEF QueueInv, Queue!TypeOK, Queue!FillIn, PrintState
<1>2. late' \subseteq Session
  BY <1>0 DEF QueueInv, Queue!TypeOK
<1>3. Queue!TypeOK'
  BY <1>0, <1>1, <1>2 DEF QueueInv, Queue!TypeOK, PrintState
<1>4. request.run \in Run \cup {Nothing}
  BY QueueTypes, DeletedIsNoRow DEF QueueInv, RequestRow
<1>5. NamesAPrint'
  BY <1>0, <1>1, <1>4 DEF QueueInv, NamesAPrint, Queue!Recorded
<1>6. Knowing' /\ OneByOne'
  BY <1>0 DEF QueueInv, Knowing, OneByOne, Queue!At
<1>7. OnePrint'
  BY <1>0, <1>1 DEF QueueInv, OnePrint
<1>8. Informed'
  BY <1>0, <1>1, <1>4 DEF QueueInv, Informed, Queue!At
<1>9. Untouched'
  BY <1>0, <1>1 DEF QueueInv, Untouched, Knowing, Queue!At
<1> QED
  BY <1>3, <1>5, <1>6, <1>7, <1>8, <1>9 DEF QueueInv

\* Deleting prints, by themselves or with their model.
LEMMA GoneKeeps ==
  ASSUME QueueInv, NEW gone \in SUBSET Run,
         prints' = [r \in Run |-> IF r \in gone THEN "gone" ELSE prints[r]],
         NEW model \in Model \cup {Nothing}, request = Queue!Deleted => model = Nothing,
         request' = [request EXCEPT !.run = IF @ \in gone THEN Nothing ELSE @, !.model = model],
         models' \subseteq Model, UNCHANGED <<shelf, changes, beside, late, strays, asked, broken>>
  PROVE  QueueInv'
<1>1. /\ request' \in RequestRow \cup {Queue!Deleted} /\ prints' \in [Run -> PrintState] /\ NamesAPrint'
      /\ request' = Queue!Deleted <=> request = Queue!Deleted
      /\ request'.run = IF request.run \in gone THEN Nothing ELSE request.run
      /\ \A r \in Run : prints'[r] \in {prints[r], "gone"}
      /\ \A r \in Run : prints'[r] = "made" => prints[r] = "made" /\ r \notin gone
  BY Dropping
<1>2. Queue!TypeOK'
  BY <1>1 DEF QueueInv, Queue!TypeOK, RequestRow, PrintState
<1>3. Knowing' /\ OneByOne'
  BY DEF QueueInv, Knowing, OneByOne, Queue!At
<1>4. OnePrint'
  BY <1>1 DEF QueueInv, OnePrint
<1>5. Informed'
  <2>1. request.run \in Run \cup {Nothing}
    BY QueueTypes, DeletedIsNoRow DEF QueueInv, RequestRow
  <2> QED
    BY <1>1, <2>1 DEF QueueInv, Informed, Queue!At
<1>6. Untouched'
  BY <1>1 DEF QueueInv, Untouched, Knowing, Queue!At
<1> QED
  BY <1>1, <1>2, <1>3, <1>4, <1>5, <1>6 DEF QueueInv

\* A deleted print is named no more.
LEMMA DeletePrintKeeps == ASSUME QueueInv, NEW r \in Run, Queue!DeletePrint(r) PROVE QueueInv'
<1> DEFINE gone == {r}
<1>1. gone \in SUBSET Run /\ Queue!Drop(gone)
  BY DEF Queue!DeletePrint
<1>2. models \subseteq Model
  BY DEF QueueInv, Queue!TypeOK
<1> HIDE DEF gone
<1>3. prints' = [s \in Run |-> IF s \in gone THEN "gone" ELSE prints[s]]
  BY <1>1 DEF Queue!Drop
<1> QED
  BY <1>1, <1>2, <1>3, GoneKeeps, DropIsDropping, RequestModel, DeletedIsNoRow DEF Queue!DeletePrint

\* The prints of a deleted model go, and are named no more.
LEMMA DeleteModelKeeps == ASSUME QueueInv, NEW m \in Model, Queue!DeleteModel(m) PROVE QueueInv'
<1> DEFINE gone == {r \in Run : Queue!Recorded(r) /\ shelf[r] = m}
           model == IF request.model = m THEN Nothing ELSE request.model
<1>1. /\ prints' = [r \in Run |-> IF r \in gone THEN "gone" ELSE prints[r]]
      /\ request' = [request EXCEPT !.run = IF @ \in gone THEN Nothing ELSE @,
                                    !.model = IF @ = m THEN Nothing ELSE @]
      /\ models' = models \ {m} /\ UNCHANGED <<shelf, changes, beside, late, strays, asked, broken>>
  BY DEF Queue!DeleteModel
<1>2. gone \in SUBSET Run
  OBVIOUS
<1>3. model \in Model \cup {Nothing} /\ (request = Queue!Deleted => model = Nothing)
  BY RequestModel, DeletedIsNoRow
<1>4. models' \subseteq Model
  BY <1>1 DEF QueueInv, Queue!TypeOK
<1> HIDE DEF gone
<1>5. request' = [request EXCEPT !.run = IF @ \in gone THEN Nothing ELSE @, !.model = model]
  <2>1. CASE request = Queue!Deleted
    BY <1>1, <2>1 DEF Queue!Deleted
  <2>2. CASE request \in RequestRow
    BY <1>1, <2>2 DEF RequestRow
  <2> QED
    BY <2>1, <2>2, QueueTypes DEF QueueInv
<1> HIDE DEF model
<1> QED
  BY <1>1, <1>2, <1>3, <1>4, <1>5, GoneKeeps

\* Every step keeps the invariant: one case for each action.
LEMMA QueueStands == QueueInv /\ [Queue!Next]_queueVars => QueueInv'
<1> SUFFICES ASSUME QueueInv, [Queue!Next]_queueVars PROVE QueueInv'
  OBVIOUS
<1>1. CASE \E c \in Session :
             \/ \E next \in Queue!Status : Queue!Look(c, next)
             \/ Queue!Log(c) \/ Queue!Judge(c) \/ Queue!Withdraw(c) \/ Queue!Write(c) \/ Queue!BreakOff(c)
  BY <1>1, LookKeeps, LogKeeps, JudgeKeeps, WithdrawKeeps, WriteKeeps, BreakOffKeeps
<1>2. CASE \/ \E m \in Model \cup {Nothing} : Queue!Link(m)
           \/ \E r \in Run : Queue!FillIn(r) \/ Queue!DeletePrint(r)
           \/ \E m \in Model : Queue!DeleteModel(m)
           \/ Queue!DeleteRequest
  BY <1>2, LinkKeeps, FillInKeeps, DeletePrintKeeps, DeleteModelKeeps, DeleteRequestKeeps
<1>3. CASE UNCHANGED queueVars
  BY <1>3
  DEF queueVars, QueueInv, Queue!TypeOK, Knowing, NamesAPrint, Queue!Recorded, OnePrint, OneByOne, Informed,
              Untouched, Queue!At
<1> QED
  BY <1>1, <1>2, <1>3 DEF Queue!Next

\* Every variable has its type, for any sessions, models, prints and changes.
THEOREM RequestsAreTyped == Queue!Spec => []Queue!TypeOK
<1>1. QueueInv => Queue!TypeOK
  BY DEF QueueInv
<1> QED
  BY <1>1, QueueBegins, QueueStands, PTL DEF Queue!Spec, Queue!queueVars, queueVars

\* A request names a print only when it is done and the print exists, and a print the
\* queue made is the one it names, or in the hand of a change, or was left by one that
\* overlapped another or broke off (request-service.ts, setRequestStatus); for any
\* number of sessions, models, prints and changes.
THEOREM RequestAndHistoryAgree == Queue!Spec => []HistoryAgrees
<1>1. QueueInv => HistoryAgrees
  BY DEF QueueInv, HistoryAgrees, NamesAPrint, OnePrint, Deleted, Recorded, Queue!Deleted, Queue!Recorded
<1> QED
  BY <1>1, QueueBegins, QueueStands, PTL DEF Queue!Spec, Queue!queueVars, queueVars

\* Changing a status drops a print in one step only, and then one nobody has
\* filled in, unless that happened after the look at it.
LEMMA Keeps ==
  ASSUME QueueInv, Queue!Next, changes' # changes, NEW r \in Run, prints[r] = "filled"
  PROVE  prints'[r] = "filled" \/ \E c \in late : changes[c].run = r /\ changes'[c] # changes[c]
<1>1. ASSUME NEW c \in Session, Queue!Withdraw(c)
      PROVE  prints'[r] = "filled" \/ \E d \in late : changes[d].run = r /\ changes'[d] # changes[d]
  <2>1. CASE changes[c].run = r
    <3>1. c \in late
      BY <1>1, <2>1 DEF QueueInv, Untouched, Queue!Withdraw
    <3>2. changes'[c].step = "write" /\ changes[c].step = "withdraw"
      BY <1>1 DEF QueueInv, Queue!TypeOK, Queue!Withdraw, Queue!At
    <3> QED
      BY <2>1, <3>1, <3>2
  <2>2. CASE changes[c].run # r
    BY <1>1, <2>2 DEF Queue!Withdraw, Queue!Drop
  <2> QED
    BY <2>1, <2>2
<1>2. ASSUME NEW c \in Session, Queue!Log(c) PROVE prints'[r] = "filled"
  BY <1>2 DEF Queue!Log, QueueInv, Queue!TypeOK
<1>3. ASSUME NEW c \in Session,
             (\E next \in Queue!Status : Queue!Look(c, next)) \/ Queue!Judge(c) \/ Queue!Write(c) \/ Queue!BreakOff(c)
      PROVE  prints'[r] = "filled"
  BY <1>3 DEF Queue!Look, Queue!Judge, Queue!Write, Queue!BreakOff
<1>4. \/ \E m \in Model \cup {Nothing} : Queue!Link(m)
      \/ \E s \in Run : Queue!FillIn(s) \/ Queue!DeletePrint(s)
      \/ \E m \in Model : Queue!DeleteModel(m)
      \/ Queue!DeleteRequest
      => UNCHANGED changes
  BY DEF Queue!Link, Queue!FillIn, Queue!DeletePrint, Queue!DeleteModel, Queue!DeleteRequest
<1> QED
  BY <1>1, <1>2, <1>3, <1>4 DEF Queue!Next

\* "Deleting it would throw away work the queue never owned": whatever overlaps and
\* breaks off, a change of status deletes a print somebody has filled in only if it
\* had found it untouched and that happened since (request-service.ts,
\* isUntouchedRun and deletePrint); for any number of changes.
THEOREM WorkIsNeverThrownAway == Queue!Spec => FilledInIsKept
<1>1. QueueInv /\ [Queue!Next]_queueVars =>
        [changes' # changes =>
           \A r \in Run : prints[r] = "filled" =>
             \/ prints'[r] = "filled"
             \/ \E c \in late : changes[c].run = r /\ changes'[c] # changes[c]]_queueVars
  BY Keeps
<1> QED
  BY <1>1, QueueBegins, QueueStands, PTL DEF Queue!Spec, Queue!queueVars, queueVars, FilledInIsKept

=============================================================================
