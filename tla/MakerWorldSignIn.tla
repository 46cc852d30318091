-------------------------- MODULE MakerWorldSignIn --------------------------
(***************************************************************************)
(* Signing one user in to MakerWorld (core/src/import/                     *)
(* makerworld-auth-service.ts, settings/makerworld-actions.ts).            *)
(*                                                                         *)
(* Every server action is a call of its own; calls of several tabs run at  *)
(* once.  No lock is held while Bambu is asked, so the rows that say which *)
(* attempt is current are read again, under the user's lifecycle lock,     *)
(* after every answer.  One transaction under that lock is one action.     *)
(***************************************************************************)
EXTENDS SignInState, FiniteSets

CONSTANT Call  \* server actions that can run at once

Challenge == [attempt : Attempt, nth : 0..MaxRetry]
Idle == [step |-> "idle", attempt |-> None, nth |-> 0]
Step == {"idle", "open", "ask", "challenge", "close", "claim", "code", "retry", "save", "paste"}

At(c, step) == calls[c].step = step
Go(c, step) == calls' = [calls EXCEPT ![c].step = step]
Finish(c) == calls' = [calls EXCEPT ![c] = Idle]
ChallengeOf(c) == [attempt |-> calls[c].attempt, nth |-> calls[c].nth]

\* Mutant: any guard row will do.
CurrentIfAny(a) == guard # None /\ a \notin expired

\* requireGeneration
Current(a) == guard = a /\ a \notin expired

\* consumeAttempt
MayTry == allowed /\ ~cooldown /\ tries < TryLimit

----------------------------------------------------------------------------
(* startMakerWorldSignIn *)

Start(c) ==
  /\ At(c, "idle") /\ MayTry
  /\ tries' = tries + 1
  /\ Go(c, "open")
  /\ UNCHANGED <<guard, challenges, handed, opened, expired, cooldown, allowed, credential>>

\* Mutant: the challenges of an older attempt are left.
OpenBeside(c) ==
  /\ At(c, "open")
  /\ \E a \in Attempt \ opened :
       /\ guard' = a /\ opened' = opened \cup {a}
       /\ calls' = [calls EXCEPT ![c] = [step |-> "ask", attempt |-> a, nth |-> 0]]
  /\ UNCHANGED <<challenges, handed, expired, tries, cooldown, allowed, credential>>

Open(c) ==
  /\ At(c, "open")
  /\ \E a \in Attempt \ opened :
       /\ guard' = a /\ opened' = opened \cup {a}
       /\ calls' = [calls EXCEPT ![c] = [step |-> "ask", attempt |-> a, nth |-> 0]]
  /\ challenges' = {}
  /\ UNCHANGED <<handed, expired, tries, cooldown, allowed, credential>>

\* Bambu answers: a token, a second factor to ask for, a refusal, or a block,
\* which noteBlock records.
Answer(c) ==
  /\ At(c, "ask")
  /\ \/ Go(c, "save") /\ UNCHANGED cooldown
     \/ Go(c, "challenge") /\ UNCHANGED cooldown
     \/ Go(c, "close") /\ cooldown' \in {cooldown, TRUE}
  /\ UNCHANGED <<guard, challenges, handed, opened, expired, tries, allowed, credential>>

AddChallenge(c) ==
  /\ At(c, "challenge")
  /\ IF Current(calls[c].attempt)
     THEN /\ challenges' = challenges \cup {ChallengeOf(c)}
          /\ handed' = handed \cup {ChallengeOf(c)}
          /\ Finish(c)
     ELSE Go(c, "close") /\ UNCHANGED <<challenges, handed>>
  /\ UNCHANGED <<guard, opened, expired, tries, cooldown, allowed, credential>>

\* The error path deletes the guard of its own attempt only.
Close(c) ==
  /\ At(c, "close")
  /\ guard' = IF guard = calls[c].attempt THEN None ELSE guard
  /\ Finish(c)
  /\ UNCHANGED <<challenges, handed, opened, expired, tries, cooldown, allowed, credential>>

\* saveIssuedToken; its own failure is not caught by the caller's error path.
Save(c) ==
  /\ At(c, "save")
  /\ IF allowed /\ Current(calls[c].attempt)
     THEN credential' = calls[c].attempt /\ guard' = None /\ challenges' = {}
     ELSE UNCHANGED <<credential, guard, challenges>>
  /\ Finish(c)
  /\ UNCHANGED <<handed, opened, expired, tries, cooldown, allowed>>

----------------------------------------------------------------------------
(* verifyMakerWorldSignIn *)

Verify(c) ==
  /\ At(c, "idle") /\ MayTry
  /\ tries' = tries + 1
  /\ \E ch \in handed :
       calls' = [calls EXCEPT ![c] = [step |-> "claim", attempt |-> ch.attempt, nth |-> ch.nth]]
  /\ UNCHANGED <<guard, challenges, handed, opened, expired, cooldown, allowed, credential>>

\* The row is deleted outside the lifecycle lock; whoever deletes it has it.
Claim(c) ==
  /\ At(c, "claim")
  /\ challenges' = challenges \ {ChallengeOf(c)}
  /\ IF ChallengeOf(c) \in challenges /\ calls[c].attempt \notin expired
     THEN Go(c, "code") ELSE Finish(c)
  /\ UNCHANGED <<guard, handed, opened, expired, tries, cooldown, allowed, credential>>

\* Bambu takes the code, or a wrong code or an outage leaves room for another.
AnswerCode(c) ==
  /\ At(c, "code")
  /\ \/ Go(c, "save") /\ UNCHANGED cooldown
     \/ /\ calls[c].nth < MaxRetry
        /\ IF calls[c].attempt \in expired THEN Finish(c) ELSE Go(c, "retry")
        /\ cooldown' \in {cooldown, TRUE}
  /\ UNCHANGED <<guard, challenges, handed, opened, expired, tries, allowed, credential>>

Retry(c) ==
  /\ At(c, "retry")
  /\ LET again == [ChallengeOf(c) EXCEPT !.nth = @ + 1]
     IN IF Current(again.attempt)
        THEN challenges' = challenges \cup {again} /\ handed' = handed \cup {again}
        ELSE UNCHANGED <<challenges, handed>>
  /\ Finish(c)
  /\ UNCHANGED <<guard, opened, expired, tries, cooldown, allowed, credential>>

----------------------------------------------------------------------------
(* cancelMakerWorldSignIn, alone or before a cookie is saved. *)

Cancel(c) ==
  /\ At(c, "idle") /\ allowed
  /\ guard' = None /\ challenges' = {}
  /\ \/ UNCHANGED calls
     \/ Go(c, "paste")
  /\ UNCHANGED <<handed, opened, expired, tries, cooldown, allowed, credential>>

\* saveMakerWorldCookie: a token of the user's own, or none.
Paste(c) ==
  /\ At(c, "paste")
  /\ IF allowed THEN credential' \in {Cookie, None} ELSE UNCHANGED credential
  /\ Finish(c)
  /\ UNCHANGED <<guard, challenges, handed, opened, expired, tries, cooldown, allowed>>

----------------------------------------------------------------------------
(* Time, the administrator and the web process. *)

Expire(a) ==
  /\ a \in opened \ expired
  /\ expired' = expired \cup {a}
  /\ UNCHANGED <<guard, challenges, handed, opened, tries, cooldown, allowed, credential, calls>>

ForgetTries ==
  /\ tries > 0 \/ cooldown
  /\ tries' = 0 /\ cooldown' = FALSE
  /\ UNCHANGED <<guard, challenges, handed, opened, expired, allowed, credential, calls>>

Suspend ==
  /\ allowed' = ~allowed
  /\ UNCHANGED <<guard, challenges, handed, opened, expired, tries, cooldown, credential, calls>>

\* The process that serves a call dies, or Bambu's answer cannot be read.
Abandon(c) ==
  /\ ~At(c, "idle")
  /\ Finish(c)
  /\ UNCHANGED <<guard, challenges, handed, opened, expired, tries, cooldown, allowed, credential>>

----------------------------------------------------------------------------

Init ==
  /\ guard = None /\ challenges = {} /\ handed = {} /\ opened = {} /\ expired = {}
  /\ tries = 0 /\ cooldown = FALSE /\ allowed = TRUE
  /\ credential \in {None, Cookie}
  /\ calls = [c \in Call |-> Idle]

Next ==
  \/ \E c \in Call :
       \/ Start(c) \/ Open(c) \/ Answer(c) \/ AddChallenge(c) \/ Close(c) \/ Save(c)
       \/ Verify(c) \/ Claim(c) \/ AnswerCode(c) \/ Retry(c)
       \/ Cancel(c) \/ Paste(c) \/ Abandon(c)
  \/ \E a \in Attempt : Expire(a)
  \/ ForgetTries \/ Suspend

Spec == Init /\ [][Next]_signInVars

----------------------------------------------------------------------------

TypeOK ==
  /\ guard \in Attempt \cup {None}
  /\ challenges \subseteq Challenge /\ handed \subseteq Challenge
  /\ opened \subseteq Attempt /\ expired \subseteq Attempt
  /\ tries \in 0..TryLimit
  /\ cooldown \in BOOLEAN /\ allowed \in BOOLEAN
  /\ credential \in Attempt \cup {None, Cookie}
  /\ calls \in [Call -> [step : Step, attempt : Attempt \cup {None}, nth : 0..MaxRetry]]

=============================================================================
