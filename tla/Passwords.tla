------------------------------ MODULE Passwords ------------------------------
(***************************************************************************)
(* One account's password and sessions: reset links (auth/src/             *)
(* password-recovery.ts), a change by the user (auth.ts), signing in, and  *)
(* an administrator who suspends the account (admin/users/actions.ts).     *)
(*                                                                         *)
(* The user row, locked FOR UPDATE, serializes what replaces the password. *)
(* Signing in takes no lock, but a new session refers to the user, so its  *)
(* row waits for the lock; a suspension updates the user row and waits.    *)
(***************************************************************************)
EXTENDS PasswordState, FiniteSets

\* nth is the link or the session a request carries; knows is the password
\* it was given, or the one whose hash it has verified.
Idle == [step |-> "idle", nth |-> 0, knows |-> 0]
NoLink == [nth |-> 0, binds |-> 0]
Step == {"idle", "validate", "lockReset", "checkReset", "reset", "find", "lockChange",
         "checkChange", "change", "admit", "enter", "drop"}

At(c, step) == requests[c].step = step
Go(c, step) == requests' = [requests EXCEPT ![c].step = step]
Begin(c, step, nth, knows) ==
  requests' = [requests EXCEPT ![c] = [step |-> step, nth |-> nth, knows |-> knows]]
Finish(c) == requests' = [requests EXCEPT ![c] = Idle]

Live(n) == \E s \in sessions : s.nth = n

\* The link is in the row, and its hour is not over.
Standing(n) == link.nth = n /\ n # 0 /\ ~lapsed

----------------------------------------------------------------------------
(* issuePasswordReset, asked for by an administrator: one transaction. *)

Issue ==
  /\ userLock = Free /\ ~suspended /\ issued < MaxLink
  /\ issued' = issued + 1
  /\ link' = [nth |-> issued + 1, binds |-> password]
  /\ lapsed' = FALSE
  /\ UNCHANGED <<password, sessions, entered, suspended, userLock, requests>>

----------------------------------------------------------------------------
(* resetPassword *)

Reset(c) ==
  /\ At(c, "idle")
  /\ \E n \in 1..issued : Begin(c, "validate", n, 0)
  /\ UNCHANGED <<password, link, issued, lapsed, sessions, entered, suspended, userLock>>

\* validatePasswordReset, before the hash is computed
Validate(c) ==
  /\ At(c, "validate")
  /\ IF Standing(requests[c].nth) /\ ~suspended /\ link.binds = password
     THEN Go(c, "lockReset") ELSE Finish(c)
  /\ UNCHANGED <<password, link, issued, lapsed, sessions, entered, suspended, userLock>>

LockReset(c) ==
  /\ At(c, "lockReset") /\ userLock = Free
  /\ IF suspended THEN Finish(c) /\ UNCHANGED userLock
     ELSE Go(c, "checkReset") /\ userLock' = c
  /\ UNCHANGED <<password, link, issued, lapsed, sessions, entered, suspended>>

\* The record again, under the lock, and the fingerprint of the hash.
CheckReset(c) ==
  /\ At(c, "checkReset")
  /\ IF Standing(requests[c].nth) /\ link.binds = password
     THEN /\ requests' = [requests EXCEPT ![c].step = "reset", ![c].knows = link.binds]
          /\ UNCHANGED userLock
     ELSE Finish(c) /\ userLock' = Free
  /\ UNCHANGED <<password, link, issued, lapsed, sessions, entered, suspended>>

\* Mutant: the sessions of the old password are left.
WriteResetAlone(c) ==
  /\ At(c, "reset") /\ password < MaxSet
  /\ password' = password + 1
  /\ link' = NoLink
  /\ userLock' = Free /\ Finish(c)
  /\ UNCHANGED <<issued, lapsed, sessions, entered, suspended>>

WriteReset(c) ==
  /\ At(c, "reset") /\ password < MaxSet
  /\ password' = password + 1
  /\ sessions' = {} /\ link' = NoLink
  /\ userLock' = Free /\ Finish(c)
  /\ UNCHANGED <<issued, lapsed, entered, suspended>>

----------------------------------------------------------------------------
(* changeOwnPassword, through serializePasswordChange.  Anyone with a      *)
(* session may ask, with the current password, an older one or a guess.    *)

Change(c) ==
  /\ At(c, "idle") /\ ~suspended
  /\ \E s \in sessions, p \in 0..password : Begin(c, "find", s.nth, p)
  /\ UNCHANGED <<password, link, issued, lapsed, sessions, entered, suspended, userLock>>

\* getSession, to know whose row to lock.  Without a session the endpoint
\* runs without the lock, and refuses.
FindSession(c) ==
  /\ At(c, "find")
  /\ IF Live(requests[c].nth) THEN Go(c, "lockChange") ELSE Finish(c)
  /\ UNCHANGED <<password, link, issued, lapsed, sessions, entered, suspended, userLock>>

\* Mutant: the native endpoint as it is, without the transaction.
RunUnlocked(c) ==
  /\ At(c, "lockChange")
  /\ Go(c, "checkChange")
  /\ UNCHANGED <<password, link, issued, lapsed, sessions, entered, suspended, userLock>>

LockChange(c) ==
  /\ At(c, "lockChange") /\ userLock = Free
  /\ Go(c, "checkChange") /\ userLock' = c
  /\ UNCHANGED <<password, link, issued, lapsed, sessions, entered, suspended>>

\* The endpoint reads the session again and verifies the password it is given.
CheckChange(c) ==
  /\ At(c, "checkChange")
  /\ IF Live(requests[c].nth) /\ requests[c].knows = password
     THEN Go(c, "change") /\ UNCHANGED userLock
     ELSE Finish(c) /\ userLock' = Free
  /\ UNCHANGED <<password, link, issued, lapsed, sessions, entered, suspended>>

\* The new hash, the other sessions' end and a session of its own commit
\* together; a session for a suspended account is refused, and all rolled back.
WriteChange(c) ==
  /\ At(c, "change") /\ password < MaxSet /\ entered < MaxSession
  /\ IF suspended THEN UNCHANGED <<password, sessions, entered>>
     ELSE /\ password' = password + 1
          /\ entered' = entered + 1
          /\ sessions' = {[nth |-> entered + 1, by |-> password + 1, late |-> FALSE]}
  /\ userLock' = Free /\ Finish(c)
  /\ UNCHANGED <<link, issued, lapsed, suspended>>

----------------------------------------------------------------------------
(* Signing in: the hash is verified, the suspension asked, a row inserted. *)

SignIn(c) ==
  /\ At(c, "idle")
  /\ Begin(c, "admit", 0, password)
  /\ UNCHANGED <<password, link, issued, lapsed, sessions, entered, suspended, userLock>>

Admit(c) ==
  /\ At(c, "admit")
  /\ IF suspended THEN Finish(c) ELSE Go(c, "enter")
  /\ UNCHANGED <<password, link, issued, lapsed, sessions, entered, suspended, userLock>>

Enter(c) ==
  /\ At(c, "enter") /\ userLock = Free /\ entered < MaxSession
  /\ entered' = entered + 1
  /\ sessions' = sessions \cup {[nth |-> entered + 1, by |-> requests[c].knows,
                                late |-> suspended \/ requests[c].knows # password]}
  /\ Finish(c)
  /\ UNCHANGED <<password, link, issued, lapsed, suspended, userLock>>

SignOut ==
  /\ \E s \in sessions : sessions' = sessions \ {s}
  /\ UNCHANGED <<password, link, issued, lapsed, entered, suspended, userLock, requests>>

----------------------------------------------------------------------------
(* setSuspended: two statements, each committed alone. *)

Suspend(c) ==
  /\ At(c, "idle") /\ userLock = Free
  /\ suspended' = TRUE
  /\ Go(c, "drop")
  /\ UNCHANGED <<password, link, issued, lapsed, sessions, entered, userLock>>

Drop(c) ==
  /\ At(c, "drop")
  /\ sessions' = {}
  /\ Finish(c)
  /\ UNCHANGED <<password, link, issued, lapsed, entered, suspended, userLock>>

Unsuspend ==
  /\ suspended /\ userLock = Free
  /\ suspended' = FALSE
  /\ UNCHANGED <<password, link, issued, lapsed, sessions, entered, userLock, requests>>

----------------------------------------------------------------------------
(* Time, and the web process. *)

Expire ==
  /\ link # NoLink /\ ~lapsed
  /\ lapsed' = TRUE
  /\ UNCHANGED <<password, link, issued, sessions, entered, suspended, userLock, requests>>

\* The connection of a dying process is closed: its transaction is rolled back.
Abandon(c) ==
  /\ ~At(c, "idle")
  /\ Finish(c)
  /\ userLock' = IF userLock = c THEN Free ELSE userLock
  /\ sessions' = IF At(c, "drop") THEN {[s EXCEPT !.late = TRUE] : s \in sessions} ELSE sessions
  /\ UNCHANGED <<password, link, issued, lapsed, entered, suspended>>

Init ==
  /\ password = 0 /\ link = NoLink /\ issued = 0 /\ lapsed = FALSE
  /\ sessions = {[nth |-> 1, by |-> 0, late |-> FALSE]} /\ entered = 1
  /\ suspended = FALSE /\ userLock = Free
  /\ requests = [c \in Call |-> Idle]

Next ==
  \/ \E c \in Call :
       \/ Reset(c) \/ Validate(c) \/ LockReset(c) \/ CheckReset(c) \/ WriteReset(c)
       \/ Change(c) \/ FindSession(c) \/ LockChange(c) \/ CheckChange(c) \/ WriteChange(c)
       \/ SignIn(c) \/ Admit(c) \/ Enter(c)
       \/ Suspend(c) \/ Drop(c) \/ Abandon(c)
  \/ Issue \/ SignOut \/ Unsuspend \/ Expire

Spec == Init /\ [][Next]_passwordVars

----------------------------------------------------------------------------

TypeOK ==
  /\ password \in 0..MaxSet
  /\ link \in [nth : 0..MaxLink, binds : 0..MaxSet]
  /\ issued \in 0..MaxLink /\ lapsed \in BOOLEAN
  /\ sessions \subseteq [nth : 1..MaxSession, by : 0..MaxSet, late : BOOLEAN]
  /\ entered \in 0..MaxSession
  /\ suspended \in BOOLEAN /\ userLock \in Call \cup {Free}
  /\ requests \in [Call -> [step : Step, nth : 0..(MaxLink + MaxSession), knows : 0..MaxSet]]

=============================================================================
