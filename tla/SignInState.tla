--------------------------- MODULE SignInState -----------------------------
(* Signing in to MakerWorld: its parameters, its state and its promises. *)
EXTENDS Integers

CONSTANTS
  Attempt,     \* generations of a sign-in, random and never used twice
  None,
  Cookie,      \* a token pasted by hand
  TryLimit,    \* sign-in attempts in five minutes
  MaxRetry     \* bound on the wrong codes of one attempt

ASSUME SignInAssumption ==
  /\ None \notin Attempt /\ Cookie \notin Attempt \cup {None}
  /\ TryLimit \in Nat \ {0} /\ MaxRetry \in Nat

VARIABLES
  guard,       \* verification row of the user: the current generation
  challenges,  \* verification rows that wait for a code
  handed,      \* challenge ids a browser has been given
  opened,      \* generations that have been written
  expired,     \* generations whose ten minutes are over
  tries,       \* rows of consumeAttempt that have not expired
  cooldown,    \* Bambu blocked a request in the last five minutes
  allowed,     \* the user may upload, and is not suspended
  credential,  \* whose token provider_credentials holds
  calls        \* where each call is

signInVars == <<guard, challenges, handed, opened, expired, tries, cooldown, allowed,
                credential, calls>>

----------------------------------------------------------------------------

\* A challenge that still waits for a code belongs to the current attempt: a
\* newer attempt, a cancellation, a failure and a success each take it away,
\* and neither a late first answer nor a wrong code puts one back.
ChallengesAreCurrent == \A ch \in challenges : ch.attempt = guard

\* "Cancellation or a newer login wins over an old in-flight response": the
\* sign-in keeps what LatestAttempt promises.
Promise == INSTANCE LatestAttempt WITH
  current <- IF guard \in expired THEN None ELSE guard,
  begun <- opened,
  saved <- credential

LateAnswersAreIgnored == Promise!Spec

=============================================================================
