--------------------------- MODULE FilamentLedger ---------------------------
(***************************************************************************)
(* The filament stock (packages/core/src/services/filament-service.ts)     *)
(* and the prints that draw on it (print-service.ts).  A balance is never  *)
(* stored: it is the sum of a spool's stock changes, to which a print      *)
(* adds what its record says now less what it said before.  Recording,     *)
(* editing and deleting a print, weighing a spool and archiving are        *)
(* transactions at READ COMMITTED that lock, read, and write; every lock   *)
(* is held to the end of its transaction.                                  *)
(***************************************************************************)
EXTENDS Integers, FiniteSets

CONSTANTS
  Spool,       \* the uuids of spools, as numbers in their order
  Filament, FilamentOf,
  PrintRun,       \* the uuids of print runs
  Key, NoKey,  \* what a submission calls itself when it is retried
  Tx,          \* connections that run one transaction at a time
  Gram,        \* weights a print may record
  Weight,      \* weights a spool may be opened with or measured at
  NoPrint, NoFilament,
  MaxBegin     \* bound on the transactions begun

Status == {"in_progress", "finished"}

ASSUME LedgerAssumption ==
  /\ Spool \subseteq Nat /\ FilamentOf \in [Spool -> Filament]
  /\ Gram \subseteq Nat /\ Weight \subseteq Nat
  /\ NoKey \notin Key /\ NoPrint \notin PrintRun /\ NoFilament \notin Filament
  /\ MaxBegin \in Nat

VARIABLES
  run,       \* print_runs and print_filament_usage: what is recorded of a print
  fate,      \* "fresh", "live", "deleted", or "swept" away with its model
  keyOf,     \* recording_key
  charged,   \* sum of filament_stock_changes that name a print and a spool
  stock,     \* sum of filament_stock_changes of a spool
  made,      \* the rows of filament_spools
  spoolArchived, filamentArchived,
  pc,        \* what each connection is about to do
  job,       \* what it was asked
  before,    \* getPrintUsage and previousStatus, as it read them
  next,      \* the usage and the status it is to record
  read,      \* the balance it read
  todo,      \* the spools lockSpools has still to lock
  held,      \* the spools it has locked
  begun      \* transactions begun, for MaxBegin

ledger == <<run, fate, keyOf, charged, stock>>
shelf == <<made, spoolArchived, filamentArchived>>
vars == <<ledger, shelf, pc, job, before, next, read, todo, held, begun>>

----------------------------------------------------------------------------
\* A print run with the spools it names and the grams of each.

Row == {r \in [status : Status, uses : SUBSET Spool, grams : [Spool -> Gram \cup {0}]] :
          \A s \in Spool : r.grams[s] \in IF s \in r.uses THEN Gram ELSE {0}}

\* How reconcilePrintUsage sees a print that is not yet, or no longer, there.
NoRow == [status |-> "in_progress", uses |-> {}, grams |-> [s \in Spool |-> 0]]

\* Mutant: an unfinished print is taken to have used its estimate.
ChargeAtOnce(r, s) == r.grams[s]

\* What a row takes from a spool: an unfinished print takes nothing yet.
Charge(r, s) == IF r.status = "in_progress" THEN 0 ELSE r.grams[s]

Op == {"log", "update", "delete", "measure", "archiveSpool", "archiveFilament"}
Job == [op : Op, print : PrintRun \cup {NoPrint}, key : Key \cup {NoKey},
        filament : Filament \cup {NoFilament}]
Ask(op, p, k, f) == [op |-> op, print |-> p, key |-> k, filament |-> f]
NoJob == Ask("log", NoPrint, NoKey, NoFilament)

Init ==
  /\ run = [p \in PrintRun |-> NoRow] /\ fate = [p \in PrintRun |-> "fresh"]
  /\ keyOf = [p \in PrintRun |-> NoKey]
  /\ charged = [p \in PrintRun |-> [s \in Spool |-> 0]]
  /\ stock = [s \in Spool |-> 0]
  /\ made = {} /\ spoolArchived = {} /\ filamentArchived = {}
  /\ pc = [t \in Tx |-> "idle"] /\ job = [t \in Tx |-> NoJob]
  /\ before = [t \in Tx |-> NoRow] /\ next = [t \in Tx |-> NoRow]
  /\ read = [t \in Tx |-> 0]
  /\ todo = [t \in Tx |-> {}] /\ held = [t \in Tx |-> {}]
  /\ begun = 0

----------------------------------------------------------------------------
\* Locks: the advisory lock of a key, the row of a print, of a filament, of a
\* spool.  A run being inserted is seen by nobody else until its commit.

KeyFree(t, k) == \A u \in Tx \ {t} : job[u].key = k => pc[u] = "key"
PrintFree(t, p) == \A u \in Tx \ {t} : job[u].print = p => pc[u] \in {"key", "row"}
FilamentFree(f) == \A u \in Tx : job[u].filament # f
SpoolFree(t, s) == \A u \in Tx \ {t} : s \notin held[u]

\* The end of a transaction, committed or rolled back, lets every lock go.
End(t) ==
  /\ pc' = [pc EXCEPT ![t] = "idle"] /\ job' = [job EXCEPT ![t] = NoJob]
  /\ before' = [before EXCEPT ![t] = NoRow] /\ next' = [next EXCEPT ![t] = NoRow]
  /\ read' = [read EXCEPT ![t] = 0]
  /\ todo' = [todo EXCEPT ![t] = {}] /\ held' = [held EXCEPT ![t] = {}]
  /\ UNCHANGED begun

\* A refusal, a lost connection, a process that dies.
Rollback(t) == pc[t] # "idle" /\ End(t) /\ UNCHANGED <<ledger, shelf>>

Begin(t, j, at, spools) ==
  /\ pc[t] = "idle" /\ begun < MaxBegin /\ begun' = begun + 1
  /\ pc' = [pc EXCEPT ![t] = at] /\ job' = [job EXCEPT ![t] = j]
  /\ todo' = [todo EXCEPT ![t] = spools]
  /\ UNCHANGED <<ledger, shelf, before, next, read, held>>

----------------------------------------------------------------------------
\* Prints.

\* logPrint, from the form with a key or from the print queue without one.
BeginLog(t) ==
  \E p \in PrintRun, k \in Key \cup {NoKey} :
    /\ fate[p] = "fresh" /\ \A u \in Tx : job[u].print # p
    /\ Begin(t, Ask("log", p, k, NoFilament), "key", {})

\* updatePrint and deletePrint, on a print the caller saw.
BeginEdit(t) ==
  \E p \in PrintRun, op \in {"update", "delete"} :
    fate[p] = "live" /\ Begin(t, Ask(op, p, NoKey, NoFilament), "row", {})

\* The caller's usage and status; left out of an update they are the old ones.
Ready(t, old, new) ==
  /\ pc' = [pc EXCEPT ![t] = "spools"]
  /\ before' = [before EXCEPT ![t] = old] /\ next' = [next EXCEPT ![t] = new]
  /\ todo' = [todo EXCEPT ![t] = old.uses \cup new.uses]
  /\ UNCHANGED <<ledger, shelf, job, read, held, begun>>

\* A retry waits for the submission it repeats, and is answered with its run;
\* otherwise the run is inserted.
TakeKey(t) ==
  LET k == job[t].key IN
  /\ pc[t] = "key"
  /\ k # NoKey => KeyFree(t, k)
  /\ IF k # NoKey /\ \E p \in PrintRun : fate[p] = "live" /\ keyOf[p] = k
     THEN End(t) /\ UNCHANGED <<ledger, shelf>>
     ELSE \E new \in Row : Ready(t, NoRow, new)

\* SELECT ... FOR UPDATE of the run; one that is gone ends the transaction.
LockRow(t) ==
  LET p == job[t].print IN
  /\ pc[t] = "row" /\ PrintFree(t, p)
  /\ IF fate[p] # "live"
     THEN End(t) /\ UNCHANGED <<ledger, shelf>>
     ELSE \E new \in IF job[t].op = "delete" THEN {NoRow} ELSE Row :
            Ready(t, run[p], new)

\* Mutant: the spools are locked in the order the caller names them.
LockSpoolAnyOrder(t) ==
  \E s \in todo[t] :
    /\ pc[t] = "spools" /\ s \in made /\ SpoolFree(t, s)
    /\ held' = [held EXCEPT ![t] = @ \cup {s}] /\ todo' = [todo EXCEPT ![t] = @ \ {s}]
    /\ UNCHANGED <<ledger, shelf, pc, job, before, next, read, begun>>

\* lockSpools takes the rows in the order of their uuids, waiting for each.
LockSpool(t) ==
  \E s \in todo[t] :
    /\ pc[t] = "spools" /\ \A other \in todo[t] : s <= other
    /\ s \in made /\ SpoolFree(t, s)
    /\ held' = [held EXCEPT ![t] = @ \cup {s}] /\ todo' = [todo EXCEPT ![t] = @ \ {s}]
    /\ UNCHANGED <<ledger, shelf, pc, job, before, next, read, begun>>

\* lockSpools refuses a spool that does not exist.
NoSuchSpool(t) == pc[t] = "spools" /\ ~ todo[t] \subseteq made /\ Rollback(t)

Archived == spoolArchived \cup {s \in Spool : FilamentOf[s] \in filamentArchived}

\* Every lock is held: the spools are read, and a print that newly names an
\* archived one is refused.
CheckSpools(t) ==
  /\ pc[t] = "spools" /\ todo[t] = {} /\ job[t].op \in {"log", "update", "delete"}
  /\ IF (next[t].uses \ before[t].uses) \cap Archived # {}
     THEN Rollback(t)
     ELSE /\ pc' = [pc EXCEPT ![t] = "write"]
          /\ UNCHANGED <<ledger, shelf, job, before, next, read, todo, held, begun>>

\* Each spool's change is what the print took less what it takes now; the usage
\* rows are replaced, and deletePrint drops the run.
CommitPrint(t) ==
  LET p == job[t].print
      delta == [s \in Spool |-> Charge(before[t], s) - Charge(next[t], s)] IN
  /\ pc[t] = "write" /\ job[t].op \in {"log", "update", "delete"}
  /\ charged' = [charged EXCEPT ![p] = [s \in Spool |-> @[s] + delta[s]]]
  /\ stock' = [s \in Spool |-> stock[s] + delta[s]]
  /\ run' = [run EXCEPT ![p] = next[t]]
  /\ fate' = [fate EXCEPT ![p] = IF job[t].op = "delete" THEN "deleted" ELSE "live"]
  /\ keyOf' = [keyOf EXCEPT ![p] = CASE job[t].op = "log" -> job[t].key
                                     [] job[t].op = "update" -> @
                                     [] OTHER -> NoKey]
  /\ End(t) /\ UNCHANGED shelf

\* Deleting a model takes its runs and their usage along, and no stock change:
\* the filament was used.
DeleteModel(p) ==
  /\ fate[p] = "live"
  /\ \A u \in Tx : job[u].print = p => pc[u] \in {"key", "row"}
  /\ fate' = [fate EXCEPT ![p] = "swept"] /\ run' = [run EXCEPT ![p] = NoRow]
  /\ keyOf' = [keyOf EXCEPT ![p] = NoKey]
  /\ UNCHANGED <<charged, stock, shelf, pc, job, before, next, read, todo, held, begun>>

----------------------------------------------------------------------------
\* Spools.

\* createSpool, of a filament that is not archived, with its opening weight.
CreateSpool(s) ==
  /\ begun < MaxBegin /\ begun' = begun + 1
  /\ s \notin made /\ FilamentFree(FilamentOf[s]) /\ FilamentOf[s] \notin filamentArchived
  /\ made' = made \cup {s}
  /\ \E w \in Weight : stock' = [stock EXCEPT ![s] = w]
  /\ UNCHANGED <<run, fate, keyOf, charged, spoolArchived, filamentArchived,
                 pc, job, before, next, read, todo, held>>

BeginSpool(t) ==
  \E s \in made, op \in {"measure", "archiveSpool"} : Begin(t, Ask(op, NoPrint, NoKey, NoFilament), "spools", {s})

\* Mutant: the filament is archived without waiting for its spools.
BeginFilamentAlone(t) ==
  \E f \in Filament :
    /\ FilamentFree(f)
    /\ Begin(t, Ask("archiveFilament", NoPrint, NoKey, f), "spools", {})

\* archiveFilament locks the filament, then the spools it finds of it.
BeginFilament(t) ==
  \E f \in Filament :
    /\ FilamentFree(f)
    /\ Begin(t, Ask("archiveFilament", NoPrint, NoKey, f), "spools",
             {s \in made : FilamentOf[s] = f})

\* measureSpool adds up the changes of the spool it has locked ...
ReadBalance(t) ==
  \E s \in held[t] :
    /\ pc[t] = "spools" /\ todo[t] = {} /\ job[t].op = "measure"
    /\ read' = [read EXCEPT ![t] = stock[s]] /\ pc' = [pc EXCEPT ![t] = "write"]
    /\ UNCHANGED <<ledger, shelf, job, before, next, todo, held, begun>>

\* ... and adds the difference between the scales and the sum.
CommitMeasure(t) ==
  \E s \in held[t], w \in Weight :
    /\ pc[t] = "write" /\ job[t].op = "measure"
    /\ stock' = [stock EXCEPT ![s] = @ + w - read[t]]
    /\ End(t) /\ UNCHANGED <<run, fate, keyOf, charged, shelf>>

CommitArchive(t) ==
  /\ pc[t] = "spools" /\ todo[t] = {}
  /\ \/ /\ job[t].op = "archiveSpool"
        /\ \/ spoolArchived' = spoolArchived \cup held[t]
           \/ spoolArchived' = spoolArchived \ held[t]
        /\ UNCHANGED filamentArchived
     \/ /\ job[t].op = "archiveFilament"
        /\ \/ filamentArchived' = filamentArchived \cup {job[t].filament}
           \/ filamentArchived' = filamentArchived \ {job[t].filament}
        /\ UNCHANGED spoolArchived
  /\ End(t) /\ UNCHANGED <<ledger, made>>

----------------------------------------------------------------------------
Step(t) ==
  \/ TakeKey(t) \/ LockRow(t) \/ LockSpool(t) \/ NoSuchSpool(t) \/ CheckSpools(t)
  \/ CommitPrint(t) \/ ReadBalance(t) \/ CommitMeasure(t) \/ CommitArchive(t)

Next ==
  \/ \E t \in Tx : BeginLog(t) \/ BeginEdit(t) \/ BeginSpool(t) \/ BeginFilament(t)
                   \/ Step(t) \/ Rollback(t)
  \/ \E p \in PrintRun : DeleteModel(p)
  \/ \E s \in Spool : CreateSpool(s)

Spec == Init /\ [][Next]_vars

\* A connection that can go on does; begins are bounded, so no lock is asked for
\* for ever and weak fairness will do.
FairSpec == Spec /\ \A t \in Tx : WF_vars(Step(t))

----------------------------------------------------------------------------
(* Properties *)

\* Every variable has its type; only spools that exist are locked, used or
\* archived (lockSpools).
TypeOK ==
  /\ run \in [PrintRun -> Row] /\ fate \in [PrintRun -> {"fresh", "live", "deleted", "swept"}]
  /\ keyOf \in [PrintRun -> Key \cup {NoKey}]
  /\ charged \in [PrintRun -> [Spool -> Int]] /\ stock \in [Spool -> Int]
  /\ made \subseteq Spool /\ spoolArchived \subseteq made /\ filamentArchived \subseteq Filament
  /\ pc \in [Tx -> {"idle", "key", "row", "spools", "write"}] /\ job \in [Tx -> Job]
  /\ before \in [Tx -> Row] /\ next \in [Tx -> Row] /\ read \in [Tx -> Int]
  /\ todo \in [Tx -> SUBSET Spool] /\ held \in [Tx -> SUBSET made]
  /\ begun \in Nat

\* Whatever was recorded, edited, reopened, reassigned and deleted, in whatever
\* order it was committed, the stock changes that name a print add up to what it
\* now says it used: nothing for one that is running, deleted or never was
\* (reconcilePrintUsage).
ChargedForWhatIsRecorded ==
  \A p \in PrintRun, s \in Spool : fate[p] # "swept" =>
    charged[p][s] = IF run[p].status = "finished" THEN -run[p].grams[s] ELSE 0

\* The balance measureSpool read is still the balance when it adds its
\* correction, so the spool then holds exactly what the scales said.
MeasuredIsExact ==
  \A t \in Tx, s \in Spool :
    pc[t] = "write" /\ job[t].op = "measure" /\ s \in held[t] => read[t] = stock[s]

\* A print that is about to name a spool it did not name finds it in use: no
\* archiving slips between the check and the write (reconcilePrintUsage,
\* archiveFilament).
OnlyActiveSpoolsAreAdded ==
  \A t \in Tx : pc[t] = "write" => (next[t].uses \ before[t].uses) \cap Archived = {}

\* A submission that goes on to insert its run meets no run of the same key: a
\* retry is answered, never refused by print_runs_recording_key_idx (logPrint).
RetryIsAnswered ==
  \A t \in Tx, p \in PrintRun :
    /\ pc[t] \in {"spools", "write"} /\ job[t].op = "log" /\ job[t].key # NoKey
    /\ fate[p] = "live"
    => keyOf[p] # job[t].key

\* What a transaction checked is still so when it writes, for each of the three
\* things that are checked: a balance, what is in use, a submission's key.
ChecksHoldAtTheWrite == MeasuredIsExact /\ OnlyActiveSpoolsAreAdded /\ RetryIsAnswered

\* No transaction waits for ever: the locks are taken in one order, so nobody
\* has to be rolled back for another to go on (lockSpools).
EveryTransactionEnds == \A t \in Tx : pc[t] # "idle" ~> pc[t] = "idle"
=============================================================================
