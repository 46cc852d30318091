---------------------------- MODULE LatestAttempt ----------------------------
(***************************************************************************)
(* What signing in to a source promises the person who does it: the token  *)
(* of an attempt is saved only while the attempt is the current one.  An   *)
(* attempt that has been cancelled, has failed or expired, or was replaced *)
(* by a newer one is never current again, however late its answer comes.   *)
(***************************************************************************)
CONSTANTS Attempt, None, Cookie

VARIABLES
  current,     \* the attempt under way
  begun,       \* attempts that have been current
  saved        \* whose token is stored

vars == <<current, begun, saved>>

Init == current = None /\ begun = {} /\ saved \in {None, Cookie}

Begin(a) ==
  /\ a \in Attempt \ begun
  /\ current' = a /\ begun' = begun \cup {a}
  /\ UNCHANGED saved

End ==
  /\ current # None
  /\ current' = None
  /\ UNCHANGED <<begun, saved>>

Save ==
  /\ current # None
  /\ saved' = current /\ current' = None
  /\ UNCHANGED begun

\* A cookie pasted by hand, or the connection removed.
Paste ==
  /\ saved' \in {Cookie, None}
  /\ UNCHANGED <<current, begun>>

Next == (\E a \in Attempt : Begin(a)) \/ End \/ Save \/ Paste

Spec == Init /\ [][Next]_vars

=============================================================================
