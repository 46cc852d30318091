-------------------------- MODULE RequestState -----------------------------
(* A print request and the history: the parameters, the state and the promises. *)
EXTENDS Integers

CONSTANTS
  Session,     \* status changes that can run at once
  Manager,     \* those asked by someone who may run the queue
  Model, Run,  \* models, and prints that can come to be, as numbers used in order
  Nothing,
  MaxPress, MaxBreak   \* bounds on the status changes, and on those that break off

ASSUME RequestsAssumption ==
  /\ Manager \subseteq Session /\ Run \subseteq Nat /\ Nothing \notin Model \cup Run
  /\ MaxPress \in Nat /\ MaxBreak \in Nat

VARIABLES
  request,     \* the row: its status, the model linked and the print it made
  models,      \* models there are
  prints,      \* [Run -> what became of the print]
  shelf,       \* [Run -> the model it is a print of, or Nothing]
  changes,     \* where each status change is, and what it has read
  beside,      \* the changes under way that have overlapped another
  late,        \* those about to withdraw a print somebody filled in since they looked
  strays,      \* prints left without their request by a change that overlapped
               \* another, or that broke off
  asked, broken

queueVars == <<request, models, prints, shelf, changes, beside, late, strays, asked, broken>>

Deleted == [status |-> "deleted", model |-> Nothing, run |-> Nothing]
Quiet == \A c \in Session : changes[c].step = "idle"
Recorded(r) == prints[r] \in {"made", "filled"}

----------------------------------------------------------------------------

\* "The two would otherwise disagree": only a request that is done names a
\* print, which exists, however many sessions change its status at once.  And
\* "marking something printed twice is a double click, not a second print": a
\* print the queue made and nobody has filled in is the one the request names, or
\* one a change under way has in hand, except a stray.  (A double click whose two
\* changes overlap does leave a second print, and so does a change that breaks off
\* and is asked again: what overlaps nothing, before or afterwards, does not.)
HistoryAgrees ==
  /\ request.run # Nothing => request.status = "done" /\ Recorded(request.run)
  /\ request # Deleted =>
       \A r \in Run : prints[r] = "made" /\ r \notin strays =>
         request.run = r \/ \E c \in Session : changes[c].run = r

\* "Deleting it would throw away work the queue never owned": whatever overlaps
\* and breaks off, a change of status never deletes a print that somebody has filled
\* in, except the very print it had found untouched and that was filled in since.
FilledInIsKept ==
  [][changes' # changes =>
       \A r \in Run : prints[r] = "filled" =>
         \/ prints'[r] = "filled"
         \/ \E c \in late : changes[c].run = r /\ changes'[c] # changes[c]]_queueVars

=============================================================================
