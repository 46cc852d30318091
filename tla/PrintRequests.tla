---------------------------- MODULE PrintRequests ----------------------------
(***************************************************************************)
(* One request in the print queue (core/src/services/request-service.ts)   *)
(* and the print history it writes to.  Marking it printed logs a print of *)
(* the model it is linked to, reopening it withdraws that print: each in   *)
(* several transactions, while others mark, link and delete, fill in what  *)
(* was logged, and delete prints and models.                               *)
(*                                                                         *)
(* Foreign keys clear the request's link to a model or a print that goes,  *)
(* and take the prints of a model with it.                                 *)
(***************************************************************************)
EXTENDS RequestState, FiniteSets

Status == {"requested", "printing", "done", "cancelled"}
Idle == [step |-> "idle", next |-> "requested", model |-> Nothing, run |-> Nothing]

Go(c, step) == changes' = [changes EXCEPT ![c].step = step]
Finish(c) == changes' = [changes EXCEPT ![c] = Idle] /\ beside' = beside \ {c}
At(c, step) == changes[c].step = step
\* Which of these prints have no request, when that is as r says.
Leaves(runs, r) == strays' = strays \cup (runs \ {r.run, Nothing})

\* deletePrint, and what the foreign key does to the request
Drop(gone) ==
  /\ prints' = [r \in Run |-> IF r \in gone THEN "gone" ELSE prints[r]]
  /\ request' = [request EXCEPT !.run = IF @ \in gone THEN Nothing ELSE @]

----------------------------------------------------------------------------
(* setStatus and setRequestStatus *)

\* Who runs the queue may do all, who asked may cancel and reopen.  The row as
\* it is here decides what is done; authorize's reading of it is the same.
Look(c, next) ==
  /\ At(c, "idle") /\ request # Deleted /\ asked < MaxPress
  /\ c \in Manager \/ next \in {"requested", "cancelled"}
  /\ changes' = [changes EXCEPT ![c] =
       [step |-> IF next = "done" /\ request.status # "done" /\ request.model # Nothing
                      /\ request.run = Nothing THEN "log"
                 ELSE IF next # "done" /\ request.status = "done" /\ request.run # Nothing
                 THEN "judge" ELSE "write",
        next |-> next, model |-> request.model, run |-> request.run]]
  /\ asked' = asked + 1
  /\ beside' = IF Quiet THEN beside ELSE {c} \cup {d \in Session : ~At(d, "idle")}
  /\ UNCHANGED <<request, models, prints, shelf, late, strays, broken>>

\* logPrint fails when the model has gone.
Log(c) ==
  /\ At(c, "log")
  /\ IF changes[c].model \in models
     THEN \E r \in Run :
            /\ prints[r] = "none" /\ \A s \in Run : s < r => prints[s] # "none"
            /\ prints' = [prints EXCEPT ![r] = "made"]
            /\ shelf' = [shelf EXCEPT ![r] = changes[c].model]
            /\ changes' = [changes EXCEPT ![c].step = "write", ![c].run = r]
            /\ UNCHANGED beside
     ELSE Finish(c) /\ UNCHANGED <<prints, shelf>>
  /\ UNCHANGED <<request, models, late, strays, asked, broken>>

\* Mutant: what somebody filled in goes as well.
JudgeNothing(c) ==
  /\ At(c, "judge") /\ Go(c, "withdraw")
  /\ UNCHANGED <<request, models, prints, shelf, beside, late, strays, asked, broken>>

\* isUntouchedRun
Judge(c) ==
  /\ At(c, "judge")
  /\ IF prints[changes[c].run] = "made" THEN Go(c, "withdraw")
     ELSE changes' = [changes EXCEPT ![c].step = "write", ![c].run = Nothing]
  /\ UNCHANGED <<request, models, prints, shelf, beside, late, strays, asked, broken>>

Withdraw(c) ==
  /\ At(c, "withdraw")
  /\ Drop({changes[c].run})
  /\ changes' = [changes EXCEPT ![c].step = "write", ![c].run = Nothing]
  /\ late' = late \ {c}
  /\ UNCHANGED <<models, shelf, beside, strays, asked, broken>>

\* Mutant: the status is written, and not the print it made.
WriteStatusOnly(c) ==
  /\ At(c, "write")
  /\ request' = IF request = Deleted THEN request ELSE [request EXCEPT !.status = changes[c].next]
  /\ Finish(c)
  /\ IF c \in beside THEN Leaves({request.run, changes[c].run}, request') ELSE UNCHANGED strays
  /\ UNCHANGED <<models, prints, shelf, late, asked, broken>>

\* A print that has gone and that the row no longer names cannot be written.
Write(c) ==
  /\ At(c, "write")
  /\ request' = IF request = Deleted \/ (changes[c].run # Nothing /\ ~Recorded(changes[c].run))
                THEN request
                ELSE [request EXCEPT !.status = changes[c].next, !.run = changes[c].run]
  /\ Finish(c)
  /\ IF c \in beside THEN Leaves({request.run, changes[c].run}, request') ELSE UNCHANGED strays
  /\ UNCHANGED <<models, prints, shelf, late, asked, broken>>

\* A transaction fails, or the process dies.
BreakOff(c) ==
  /\ ~At(c, "idle") /\ broken < MaxBreak
  /\ Finish(c)
  /\ Leaves({changes[c].run}, request)
  /\ broken' = broken + 1 /\ late' = late \ {c}
  /\ UNCHANGED <<request, models, prints, shelf, asked>>

----------------------------------------------------------------------------
(* What else is done to the request, to its print and to models. *)

\* linkRequest
Link(m) ==
  /\ request # Deleted /\ m \in models \cup {Nothing}
  /\ request' = [request EXCEPT !.model = m]
  /\ UNCHANGED <<models, prints, shelf, changes, beside, late, strays, asked, broken>>

DeleteRequest ==
  /\ request # Deleted
  /\ request' = Deleted
  /\ UNCHANGED <<models, prints, shelf, changes, beside, late, strays, asked, broken>>

\* updatePrint with a rating, a weight, a printer, a failure
FillIn(r) ==
  /\ prints[r] = "made"
  /\ prints' = [prints EXCEPT ![r] = "filled"]
  /\ late' = late \cup {c \in Session : At(c, "withdraw") /\ changes[c].run = r}
  /\ UNCHANGED <<request, models, shelf, changes, beside, strays, asked, broken>>

\* From the model's page.
DeletePrint(r) ==
  /\ Recorded(r)
  /\ Drop({r})
  /\ UNCHANGED <<models, shelf, changes, beside, late, strays, asked, broken>>

DeleteModel(m) ==
  /\ m \in models
  /\ models' = models \ {m}
  /\ LET gone == {r \in Run : Recorded(r) /\ shelf[r] = m}
     IN /\ prints' = [r \in Run |-> IF r \in gone THEN "gone" ELSE prints[r]]
        /\ request' = [request EXCEPT !.run = IF @ \in gone THEN Nothing ELSE @,
                                      !.model = IF @ = m THEN Nothing ELSE @]
  /\ UNCHANGED <<shelf, changes, beside, late, strays, asked, broken>>

\* createRequest links it to a model by choice or by its name, or to none.
Init ==
  /\ models = Model
  /\ \E m \in Model \cup {Nothing} : request = [status |-> "requested", model |-> m, run |-> Nothing]
  /\ prints = [r \in Run |-> "none"] /\ shelf = [r \in Run |-> Nothing]
  /\ changes = [c \in Session |-> Idle] /\ beside = {} /\ late = {} /\ strays = {}
  /\ asked = 0 /\ broken = 0

Next ==
  \/ \E c \in Session :
       \/ \E next \in Status : Look(c, next)
       \/ Log(c) \/ Judge(c) \/ Withdraw(c) \/ Write(c) \/ BreakOff(c)
  \/ \E m \in Model \cup {Nothing} : Link(m)
  \/ \E r \in Run : FillIn(r) \/ DeletePrint(r)
  \/ \E m \in Model : DeleteModel(m)
  \/ DeleteRequest

Spec == Init /\ [][Next]_queueVars

----------------------------------------------------------------------------

TypeOK ==
  /\ request \in [status : Status, model : Model \cup {Nothing}, run : Run \cup {Nothing}] \cup {Deleted}
  /\ models \subseteq Model
  /\ prints \in [Run -> {"none", "made", "filled", "gone"}]
  /\ shelf \in [Run -> Model \cup {Nothing}]
  /\ changes \in [Session -> [step : {"idle", "log", "judge", "withdraw", "write"}, next : Status,
                           model : Model \cup {Nothing}, run : Run \cup {Nothing}]]
  /\ beside \subseteq Session /\ late \subseteq Session /\ strays \subseteq Run
  /\ asked \in 0..MaxPress /\ broken \in 0..MaxBreak

=============================================================================
