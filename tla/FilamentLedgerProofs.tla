------------------------ MODULE FilamentLedgerProofs ------------------------
(***************************************************************************)
(* Proofs about FilamentLedger for any number of connections, spools,      *)
(* filaments, prints, submissions and weights.                             *)
(***************************************************************************)
EXTENDS FilamentLedger, TLAPS

\* TypeOK in three parts: the tables, the shelf with who has locked what of it,
\* and the connections.
TypeLedger ==
  /\ run \in [PrintRun -> Row] /\ fate \in [PrintRun -> {"fresh", "live", "deleted", "swept"}]
  /\ keyOf \in [PrintRun -> Key \cup {NoKey}]
  /\ charged \in [PrintRun -> [Spool -> Int]] /\ stock \in [Spool -> Int]
TypeShelf ==
  /\ made \subseteq Spool /\ spoolArchived \subseteq made /\ filamentArchived \subseteq Filament
  /\ held \in [Tx -> SUBSET made]
TypeTx ==
  /\ pc \in [Tx -> {"idle", "key", "row", "spools", "write"}] /\ job \in [Tx -> Job]
  /\ before \in [Tx -> Row] /\ next \in [Tx -> Row] /\ read \in [Tx -> Int]
  /\ todo \in [Tx -> SUBSET Spool] /\ begun \in Nat

\* The parts are TypeOK.
LEMMA TypeParts == TypeOK <=> TypeLedger /\ TypeShelf /\ TypeTx
  BY DEF TypeOK, TypeLedger, TypeShelf, TypeTx

\* A print that records nothing is a row.
LEMMA NoRowIsRow == NoRow \in Row
  BY DEF NoRow, Row, Status

\* The fields of a row; it weighs nothing of a spool it does not use.
LEMMA RowFields ==
  ASSUME NEW r \in Row
  PROVE  /\ r.status \in Status /\ r.uses \subseteq Spool /\ r.grams \in [Spool -> Nat]
         /\ \A s \in Spool \ r.uses : r.grams[s] = 0
<1>1. r \in [status : Status, uses : SUBSET Spool, grams : [Spool -> Gram \cup {0}]]
  BY DEF Row
<1>2. \A s \in Spool : r.grams[s] \in IF s \in r.uses THEN Gram ELSE {0}
  BY DEF Row
<1>3. Gram \cup {0} \subseteq Nat
  BY LedgerAssumption
<1>4. r.grams \in [Spool -> Gram \cup {0}]
  BY <1>1
<1>5. r.grams \in [Spool -> Nat]
  BY <1>3, <1>4
<1> QED
  BY <1>1, <1>2, <1>5

\* A print charges a natural number, and nothing to a spool it does not use.
LEMMA ChargeIsNat ==
  ASSUME NEW r \in Row, NEW s \in Spool
  PROVE  Charge(r, s) \in Nat /\ (s \notin r.uses => Charge(r, s) = 0)
  BY RowFields DEF Charge

\* What the callers of Begin ask for.
LEMMA Asked ==
  ASSUME NEW op \in Op, NEW p \in PrintRun \cup {NoPrint}, NEW k \in Key \cup {NoKey},
         NEW f \in Filament \cup {NoFilament}
  PROVE  LET j == Ask(op, p, k, f) IN
         j \in Job /\ j.op = op /\ j.print = p /\ j.key = k /\ j.filament = f
  BY DEF Ask, Job

\* A connection at rest has asked for nothing.
LEMMA NothingAsked ==
  /\ NoJob \in Job /\ NoJob.op = "log" /\ NoJob.print = NoPrint /\ NoJob.key = NoKey
  /\ NoJob.filament = NoFilament
  BY DEF NoJob, Ask, Job, Op

\* The end of a transaction leaves its connection idle and the others alone.
LEMMA EndFrame ==
  ASSUME TypeShelf, TypeTx, NEW t \in Tx, End(t), made \subseteq made', made' \subseteq Spool,
         spoolArchived' \subseteq made', filamentArchived' \subseteq Filament
  PROVE  /\ TypeTx' /\ TypeShelf'
         /\ pc'[t] = "idle" /\ job'[t] = NoJob /\ held'[t] = {}
         /\ \A u \in Tx \ {t} :
              /\ pc'[u] = pc[u] /\ job'[u] = job[u] /\ before'[u] = before[u]
              /\ next'[u] = next[u] /\ read'[u] = read[u] /\ todo'[u] = todo[u]
              /\ held'[u] = held[u]
<1>1. NoRow \in Row /\ NoJob \in Job
  BY NoRowIsRow, NothingAsked
<1> QED
  BY <1>1 DEF End, TypeTx, TypeShelf

\* Begin touches its own connection only.
LEMMA BeginFrame ==
  ASSUME TypeTx, TypeShelf, NEW t \in Tx, NEW j \in Job,
         NEW at \in {"key", "row", "spools"}, NEW spools \in SUBSET Spool,
         Begin(t, j, at, spools)
  PROVE  /\ TypeTx' /\ TypeShelf' /\ UNCHANGED <<ledger, shelf, held, before, next, read>>
         /\ pc'[t] = at /\ job'[t] = j /\ todo'[t] = spools
         /\ \A u \in Tx \ {t} : pc'[u] = pc[u] /\ job'[u] = job[u] /\ todo'[u] = todo[u]
         /\ pc[t] = "idle"
  BY DEF Begin, TypeTx, TypeShelf, shelf

\* So does Ready.
LEMMA ReadyFrame ==
  ASSUME TypeTx, TypeShelf, NEW t \in Tx, NEW old \in Row, NEW new \in Row, Ready(t, old, new)
  PROVE  /\ TypeTx' /\ TypeShelf' /\ UNCHANGED <<ledger, shelf, job, held, read>>
         /\ pc'[t] = "spools" /\ before'[t] = old /\ next'[t] = new
         /\ todo'[t] = old.uses \cup new.uses
         /\ \A u \in Tx \ {t} : /\ pc'[u] = pc[u] /\ before'[u] = before[u]
                                /\ next'[u] = next[u] /\ todo'[u] = todo[u]
<1>1. old.uses \cup new.uses \subseteq Spool
  BY RowFields
<1> QED
  BY <1>1 DEF Ready, TypeTx, TypeShelf, shelf

\* A rollback keeps the types.
LEMMA RollbackFrame ==
  ASSUME TypeShelf, TypeTx, NEW t \in Tx, End(t), UNCHANGED <<ledger, shelf>>
  PROVE  TypeTx' /\ TypeShelf'
<1>1. UNCHANGED <<made, spoolArchived, filamentArchived>>
  BY DEF shelf
<1> QED
  BY <1>1, EndFrame DEF TypeShelf

----------------------------------------------------------------------------
\* Types.

\* Who is asked for a print or a filament has been given one.
PrintsAreAsked ==
  \A t \in Tx :
    /\ pc[t] = "idle" => job[t] = NoJob
    /\ pc[t] # "idle" /\ job[t].op \in {"log", "update", "delete"} => job[t].print \in PrintRun
    /\ pc[t] # "idle" /\ job[t].op \notin {"log", "update", "delete"}
         => job[t].print = NoPrint
    /\ pc[t] # "idle" /\ job[t].op = "archiveFilament" => job[t].filament \in Filament
    /\ pc[t] = "key" => job[t].op = "log"
    /\ pc[t] = "row" => job[t].op \in {"update", "delete"}

\* The types hold at first.
LEMMA TypeInit == Init => TypeOK
<1>1. NoRow \in Row /\ NoJob \in Job
  BY NoRowIsRow, NothingAsked
<1> QED
  BY <1>1 DEF Init, TypeOK

\* A lock added to those held.
LEMMA LockSpoolFrame ==
  ASSUME TypeOK, NEW t \in Tx, LockSpool(t)
  PROVE  /\ TypeTx' /\ TypeShelf' /\ UNCHANGED <<ledger, shelf, pc, job, before, next, read>>
         /\ pc[t] = "spools"
         /\ \A u \in Tx \ {t} : todo'[u] = todo[u] /\ held'[u] = held[u]
         /\ \E s \in todo[t] : /\ held'[t] = held[t] \cup {s} /\ todo'[t] = todo[t] \ {s}
                               /\ \A u \in Tx \ {t} : s \notin held[u]
  BY DEF LockSpool, TypeOK, TypeTx, TypeShelf, shelf, SpoolFree

\* What a print's commit writes.
LEMMA CommitPrintFrame ==
  ASSUME TypeOK, NEW t \in Tx, CommitPrint(t), job[t].print \in PrintRun
  PROVE  LET p == job[t].print IN
         /\ TypeOK'
         /\ End(t) /\ UNCHANGED shelf
         /\ pc[t] = "write" /\ job[t].op \in {"log", "update", "delete"}
         /\ run' = [run EXCEPT ![p] = next[t]]
         /\ fate' = [fate EXCEPT ![p] = IF job[t].op = "delete" THEN "deleted" ELSE "live"]
         /\ \A s \in Spool :
              /\ charged'[p][s] = charged[p][s] + Charge(before[t], s) - Charge(next[t], s)
              /\ stock'[s] = stock[s] + Charge(before[t], s) - Charge(next[t], s)
         /\ \A q \in PrintRun \ {p} : charged'[q] = charged[q]
         /\ keyOf'[p] \in {job[t].key, keyOf[p], NoKey}
         /\ job[t].op = "update" => keyOf'[p] = keyOf[p]
         /\ \A q \in PrintRun \ {p} : keyOf'[q] = keyOf[q]
<1> DEFINE p == job[t].print
           delta == [s \in Spool |-> Charge(before[t], s) - Charge(next[t], s)]
<1>1. before[t] \in Row /\ next[t] \in Row /\ job[t] \in Job
  BY DEF TypeOK
<1>2. delta \in [Spool -> Int]
  BY <1>1, ChargeIsNat
<1>3. /\ charged' = [charged EXCEPT ![p] = [s \in Spool |-> charged[p][s] + delta[s]]]
      /\ stock' = [s \in Spool |-> stock[s] + delta[s]]
  BY DEF CommitPrint
<1>4. \A s \in Spool : charged[p][s] \in Int /\ stock[s] \in Int
  BY DEF TypeOK
<1>5. charged' \in [PrintRun -> [Spool -> Int]] /\ stock' \in [Spool -> Int]
  <2> HIDE DEF delta
  <2>1. [s \in Spool |-> charged[p][s] + delta[s]] \in [Spool -> Int]
    BY <1>2, <1>4
  <2>2. [s \in Spool |-> stock[s] + delta[s]] \in [Spool -> Int]
    BY <1>2, <1>4
  <2> QED
    BY <1>3, <2>1, <2>2 DEF TypeOK
<1>6. /\ \A s \in Spool : /\ charged'[p][s] = charged[p][s] + delta[s]
                          /\ stock'[s] = stock[s] + delta[s]
      /\ \A q \in PrintRun \ {p} : charged'[q] = charged[q]
  <2> HIDE DEF delta
  <2> QED
    BY <1>3 DEF TypeOK
<1>7. /\ run' = [run EXCEPT ![p] = next[t]]
      /\ fate' = [fate EXCEPT ![p] = IF job[t].op = "delete" THEN "deleted" ELSE "live"]
      /\ keyOf' = [keyOf EXCEPT ![p] = CASE job[t].op = "log" -> job[t].key
                                         [] job[t].op = "update" -> keyOf[p]
                                         [] OTHER -> NoKey]
      /\ End(t) /\ UNCHANGED shelf /\ pc[t] = "write"
      /\ job[t].op \in {"log", "update", "delete"}
  BY DEF CommitPrint
<1>8. job[t].key \in Key \cup {NoKey} /\ keyOf[p] \in Key \cup {NoKey}
  BY <1>1 DEF TypeOK, Job
<1>9. keyOf' \in [PrintRun -> Key \cup {NoKey}]
  BY <1>7, <1>8 DEF TypeOK
<1>10. TypeLedger'
  BY <1>1, <1>5, <1>7, <1>9 DEF TypeLedger, TypeOK
<1>11. TypeShelf' /\ TypeTx'
  <2>1. UNCHANGED <<made, spoolArchived, filamentArchived>>
    BY <1>7 DEF shelf
  <2> QED
    BY <1>7, <2>1, TypeParts, EndFrame DEF TypeShelf
<1>12. TypeOK'
  BY <1>10, <1>11 DEF TypeOK, TypeLedger, TypeShelf, TypeTx
<1>13. \A s \in Spool :
         /\ charged'[p][s] = charged[p][s] + Charge(before[t], s) - Charge(next[t], s)
         /\ stock'[s] = stock[s] + Charge(before[t], s) - Charge(next[t], s)
  BY <1>1, <1>4, <1>6, ChargeIsNat
<1>14. /\ keyOf'[p] \in {job[t].key, keyOf[p], NoKey}
       /\ job[t].op = "update" => keyOf'[p] = keyOf[p]
       /\ \A q \in PrintRun \ {p} : keyOf'[q] = keyOf[q]
  BY <1>7, <1>8 DEF TypeOK
<1> QED
  BY <1>6, <1>7, <1>12, <1>13, <1>14

\* Every step keeps them.
LEMMA TypeStep ==
  ASSUME TypeOK, [Next]_vars, PrintsAreAsked
  PROVE  TypeOK'
<1>0. TypeLedger /\ TypeShelf /\ TypeTx
  BY TypeParts
<1>p. ASSUME TypeLedger', TypeShelf', TypeTx' PROVE TypeOK'
  BY <1>p DEF TypeOK, TypeLedger, TypeShelf, TypeTx
<1>l. ASSUME UNCHANGED ledger PROVE TypeLedger'
  BY <1>0, <1>l DEF TypeLedger, ledger
<1>s. ASSUME UNCHANGED <<shelf, held>> PROVE TypeShelf'
  BY <1>0, <1>s DEF TypeShelf, shelf
<1>e. ASSUME NEW t \in Tx, End(t), UNCHANGED <<ledger, shelf>> PROVE TypeOK'
  BY <1>0, <1>e, <1>l, <1>p, RollbackFrame
<1>b. ASSUME NEW t \in Tx, NEW j \in Job, NEW at \in {"key", "row", "spools"},
             NEW spools \in SUBSET Spool, Begin(t, j, at, spools)
      PROVE  TypeOK'
  <2>1. UNCHANGED ledger
    BY <1>0, <1>b, BeginFrame
  <2> QED
    BY <1>0, <1>b, <1>l, <1>p, <2>1, BeginFrame
<1>1. ASSUME NEW t \in Tx, BeginLog(t) PROVE TypeOK'
  <2>1. PICK p \in PrintRun, k \in Key \cup {NoKey} : Begin(t, Ask("log", p, k, NoFilament), "key", {})
    BY <1>1 DEF BeginLog
  <2>2. Ask("log", p, k, NoFilament) \in Job
    BY Asked DEF Op
  <2> QED
    BY <1>b, <2>1, <2>2
<1>2. ASSUME NEW t \in Tx, BeginEdit(t) PROVE TypeOK'
  <2>1. PICK p \in PrintRun, op \in {"update", "delete"} :
          Begin(t, Ask(op, p, NoKey, NoFilament), "row", {})
    BY <1>2 DEF BeginEdit
  <2>2. Ask(op, p, NoKey, NoFilament) \in Job
    BY Asked DEF Op
  <2> QED
    BY <1>b, <2>1, <2>2
<1>3. ASSUME NEW t \in Tx, BeginSpool(t) PROVE TypeOK'
  <2>1. PICK s \in made, op \in {"measure", "archiveSpool"} :
          Begin(t, Ask(op, NoPrint, NoKey, NoFilament), "spools", {s})
    BY <1>3 DEF BeginSpool
  <2>2. Ask(op, NoPrint, NoKey, NoFilament) \in Job /\ {s} \in SUBSET Spool
    BY <1>0, Asked DEF Op, TypeShelf
  <2> QED
    BY <1>b, <2>1, <2>2
<1>4. ASSUME NEW t \in Tx, BeginFilament(t) PROVE TypeOK'
  <2>1. PICK f \in Filament : Begin(t, Ask("archiveFilament", NoPrint, NoKey, f), "spools",
                                    {s \in made : FilamentOf[s] = f})
    BY <1>4 DEF BeginFilament
  <2>2. Ask("archiveFilament", NoPrint, NoKey, f) \in Job
    BY Asked DEF Op
  <2>3. {s \in made : FilamentOf[s] = f} \in SUBSET Spool
    BY <1>0 DEF TypeShelf
  <2> QED
    BY <1>b, <2>1, <2>2, <2>3
<1>5. ASSUME NEW t \in Tx, NEW old \in Row, NEW new \in Row, Ready(t, old, new) PROVE TypeOK'
  <2>1. UNCHANGED ledger
    BY <1>0, <1>5, ReadyFrame
  <2> QED
    BY <1>0, <1>5, <1>l, <1>p, <2>1, ReadyFrame
<1>6. ASSUME NEW t \in Tx, TakeKey(t) PROVE TypeOK'
  BY <1>5, <1>6, <1>e, NoRowIsRow DEF TakeKey
<1>7. ASSUME NEW t \in Tx, LockRow(t) PROVE TypeOK'
  <2>1. job[t].print \in PrintRun
    BY <1>7 DEF LockRow, PrintsAreAsked
  <2>2. run[job[t].print] \in Row
    BY <1>0, <2>1 DEF TypeLedger
  <2> QED
    BY <1>5, <1>7, <1>e, <2>2, NoRowIsRow DEF LockRow
<1>8. ASSUME NEW t \in Tx, LockSpool(t) PROVE TypeOK'
  BY <1>8, <1>l, <1>p, LockSpoolFrame
<1>9. ASSUME NEW t \in Tx, Rollback(t) PROVE TypeOK'
  BY <1>9, <1>e DEF Rollback
<1>10. ASSUME NEW t \in Tx, NoSuchSpool(t) PROVE TypeOK'
  BY <1>9, <1>10 DEF NoSuchSpool
<1>11. ASSUME NEW t \in Tx, CheckSpools(t) PROVE TypeOK'
  <2>1. CASE Rollback(t)
    BY <1>9, <2>1
  <2>2. CASE /\ pc' = [pc EXCEPT ![t] = "write"]
             /\ UNCHANGED <<ledger, shelf, job, before, next, read, todo, held, begun>>
    <3>1. TypeTx'
      BY <1>0, <2>2 DEF TypeTx
    <3> QED
      BY <1>l, <1>s, <1>p, <2>2, <3>1
  <2> QED
    BY <1>11, <2>1, <2>2 DEF CheckSpools
<1>12. ASSUME NEW t \in Tx, CommitPrint(t) PROVE TypeOK'
  <2>1. job[t].print \in PrintRun
    BY <1>12 DEF CommitPrint, PrintsAreAsked
  <2> QED
    BY <1>12, <2>1, CommitPrintFrame
<1>13. ASSUME NEW t \in Tx, ReadBalance(t) PROVE TypeOK'
  <2>1. PICK s \in held[t] :
          /\ read' = [read EXCEPT ![t] = stock[s]] /\ pc' = [pc EXCEPT ![t] = "write"]
          /\ UNCHANGED <<ledger, shelf, job, before, next, todo, held, begun>>
    BY <1>13 DEF ReadBalance
  <2>2. stock[s] \in Int
    BY <1>0 DEF TypeLedger, TypeShelf
  <2>3. TypeTx'
    BY <1>0, <2>1, <2>2 DEF TypeTx
  <2> QED
    BY <1>l, <1>s, <1>p, <2>1, <2>3
<1>14. ASSUME NEW t \in Tx, CommitMeasure(t) PROVE TypeOK'
  <2>1. PICK s \in held[t], w \in Weight :
          /\ stock' = [stock EXCEPT ![s] = @ + w - read[t]]
          /\ End(t) /\ UNCHANGED <<run, fate, keyOf, charged, shelf>>
    BY <1>14 DEF CommitMeasure
  <2>2. s \in Spool /\ stock[s] \in Int /\ read[t] \in Int /\ w \in Int
    BY <1>0, LedgerAssumption DEF TypeLedger, TypeShelf, TypeTx
  <2>3. TypeLedger'
    BY <1>0, <2>1, <2>2 DEF TypeLedger
  <2>4. UNCHANGED <<made, spoolArchived, filamentArchived>>
    BY <2>1 DEF shelf
  <2>5. TypeTx' /\ TypeShelf'
    BY <1>0, <2>1, <2>4, EndFrame DEF TypeShelf
  <2> QED
    BY <1>p, <2>3, <2>5
<1>15. ASSUME NEW t \in Tx, CommitArchive(t) PROVE TypeOK'
  <2>1. End(t) /\ UNCHANGED ledger /\ made' = made
    BY <1>15 DEF CommitArchive
  <2>2. held[t] \subseteq made
    BY <1>0 DEF TypeShelf
  <2>3. spoolArchived' \subseteq made
    BY <1>0, <1>15, <2>2 DEF CommitArchive, TypeShelf
  <2>4. job[t].filament \in Filament \/ filamentArchived' = filamentArchived
    BY <1>15 DEF CommitArchive, PrintsAreAsked
  <2>5. filamentArchived' \subseteq Filament
    BY <1>0, <1>15, <2>4 DEF CommitArchive, TypeShelf
  <2>6. TypeTx' /\ TypeShelf'
    BY <1>0, <2>1, <2>3, <2>5, EndFrame DEF TypeShelf
  <2> QED
    BY <1>l, <1>p, <2>1, <2>6
<1>16. ASSUME NEW p \in PrintRun, DeleteModel(p) PROVE TypeOK'
  BY <1>0, <1>16, <1>p, NoRowIsRow DEF DeleteModel, TypeLedger, TypeShelf, TypeTx, shelf
<1>17. ASSUME NEW s \in Spool, CreateSpool(s) PROVE TypeOK'
  <2>1. TypeLedger'
    BY <1>0, <1>17, LedgerAssumption DEF CreateSpool, TypeLedger
  <2> QED
    BY <1>0, <1>17, <1>p, <2>1 DEF CreateSpool, TypeShelf, TypeTx
<1>18. ASSUME UNCHANGED vars PROVE TypeOK'
  BY <1>18 DEF vars, ledger, shelf, TypeOK
<1> QED
  BY <1>1, <1>2, <1>3, <1>4, <1>6, <1>7, <1>8, <1>9, <1>10, <1>11, <1>12, <1>13, <1>14,
     <1>15, <1>16, <1>17, <1>18 DEF Next, Step

----------------------------------------------------------------------------
\* What a print is charged.

Printing(t) == pc[t] \in {"spools", "write"} /\ job[t].op \in {"log", "update", "delete"}

\* A run being inserted is not there yet.
LogIsFresh == \A t \in Tx : pc[t] # "idle" /\ job[t].op = "log" => fate[job[t].print] = "fresh"

\* Two connections on one print: neither inserts it, and one waits for its row.
Alone ==
  \A t, u \in Tx :
    /\ t # u /\ pc[t] # "idle" /\ pc[u] # "idle"
    /\ job[t].print \in PrintRun /\ job[u].print = job[t].print
    => job[t].op # "log" /\ (pc[t] = "row" \/ pc[u] = "row")

\* What was read under the row's lock is still so.
Seen ==
  \A t \in Tx : Printing(t) =>
    /\ before[t] = run[job[t].print]
    /\ fate[job[t].print] = IF job[t].op = "log" THEN "fresh" ELSE "live"
    /\ job[t].op = "delete" => next[t] = NoRow

\* A run that is not there counts as one that took nothing.
Gone == \A p \in PrintRun : fate[p] # "live" => run[p] = NoRow

LedgerInv ==
  /\ TypeOK /\ PrintsAreAsked /\ LogIsFresh /\ Alone /\ Seen /\ Gone
  /\ ChargedForWhatIsRecorded

\* The parts that speak of connections and of the tables they read.
ConnInv == PrintsAreAsked /\ LogIsFresh /\ Alone /\ Seen

\* A connection that ends, the others going on and the tables staying.
LEMMA ConnEnd ==
  ASSUME TypeOK, ConnInv, NEW t \in Tx, End(t), UNCHANGED <<run, fate>>, TypeShelf',
         made \subseteq made'
  PROVE  ConnInv'
<1>1. /\ pc'[t] = "idle" /\ job'[t] = NoJob
      /\ \A u \in Tx \ {t} : /\ pc'[u] = pc[u] /\ job'[u] = job[u]
                             /\ before'[u] = before[u] /\ next'[u] = next[u]
  BY TypeParts, EndFrame DEF TypeShelf
<1>2. PrintsAreAsked'
  BY <1>1 DEF ConnInv, PrintsAreAsked
<1>3. LogIsFresh'
  BY <1>1 DEF ConnInv, LogIsFresh
<1>4. Alone'
  BY <1>1 DEF ConnInv, Alone
<1>5. Seen'
  BY <1>1 DEF ConnInv, Seen, Printing
<1> QED
  BY <1>2, <1>3, <1>4, <1>5 DEF ConnInv

\* A connection that begins, on a fresh run, on one that is there, or on none.
LEMMA ConnBegin ==
  ASSUME TypeOK, ConnInv, NEW t \in Tx, NEW op \in Op, NEW p \in PrintRun \cup {NoPrint},
         NEW k \in Key \cup {NoKey}, NEW f \in Filament \cup {NoFilament},
         NEW at \in {"key", "row", "spools"}, NEW spools \in SUBSET Spool,
         Begin(t, Ask(op, p, k, f), at, spools),
         \/ /\ op = "log" /\ at = "key" /\ p \in PrintRun /\ fate[p] = "fresh"
            /\ \A u \in Tx : job[u].print # p
         \/ op \in {"update", "delete"} /\ at = "row" /\ p \in PrintRun /\ fate[p] = "live"
         \/ op \notin {"log", "update", "delete"} /\ at = "spools" /\ p = NoPrint,
         op = "archiveFilament" => f \in Filament
  PROVE  ConnInv'
<1> DEFINE j == Ask(op, p, k, f)
<1>1. j \in Job /\ j.op = op /\ j.print = p /\ j.filament = f
  BY Asked
<1> HIDE DEF j
<1>2. /\ UNCHANGED <<run, fate, before, next>> /\ pc'[t] = at /\ job'[t] = j /\ pc[t] = "idle"
      /\ \A u \in Tx \ {t} : pc'[u] = pc[u] /\ job'[u] = job[u]
  BY <1>1, TypeParts, BeginFrame DEF j, ledger
<1>3. PrintsAreAsked'
  BY <1>1, <1>2 DEF ConnInv, PrintsAreAsked
<1>4. LogIsFresh'
  BY <1>1, <1>2 DEF ConnInv, LogIsFresh
<1>5. Alone'
  BY <1>1, <1>2, LedgerAssumption DEF ConnInv, Alone, LogIsFresh
<1>6. Seen'
  BY <1>1, <1>2 DEF ConnInv, Seen, Printing
<1> QED
  BY <1>3, <1>4, <1>5, <1>6 DEF ConnInv

\* A connection that has read its run.
LEMMA ConnReady ==
  ASSUME TypeOK, ConnInv, NEW t \in Tx, NEW new \in Row, NEW old \in Row, Ready(t, old, new),
         old = run[job[t].print],
         fate[job[t].print] = IF pc[t] = "row" THEN "live" ELSE "fresh",
         job[t].op = "delete" => new = NoRow,
         pc[t] \in {"key", "row"},
         pc[t] = "row" => PrintFree(t, job[t].print)
  PROVE  ConnInv'
<1>1. /\ UNCHANGED <<run, fate, job>>
      /\ pc'[t] = "spools" /\ before'[t] = old /\ next'[t] = new
      /\ \A u \in Tx \ {t} : pc'[u] = pc[u] /\ before'[u] = before[u] /\ next'[u] = next[u]
  BY TypeParts, ReadyFrame DEF ledger
<1>2. PrintsAreAsked'
  BY <1>1 DEF ConnInv, PrintsAreAsked
<1>3. LogIsFresh'
  BY <1>1 DEF ConnInv, LogIsFresh
<1>4. ASSUME NEW u \in Tx \ {t}, pc[u] # "idle", job[u].print = job[t].print
      PROVE  pc[t] = "row" /\ pc[u] = "row" /\ job[u].op # "log"
  <2>1. job[t].print \in PrintRun
    BY DEF ConnInv, PrintsAreAsked
  <2>2. pc[t] = "row"
    BY <1>4, <2>1 DEF ConnInv, Alone, PrintsAreAsked
  <2>3. pc[u] \in {"key", "row"} /\ job[u].op # "log"
    BY <1>4, <2>1, <2>2 DEF PrintFree, ConnInv, Alone, LogIsFresh
  <2> QED
    BY <2>2, <2>3 DEF ConnInv, PrintsAreAsked
<1>5. Alone'
  BY <1>1, <1>4 DEF ConnInv, Alone, PrintsAreAsked
<1>6. Seen'
  BY <1>1 DEF ConnInv, Seen, Printing, PrintsAreAsked
<1> QED
  BY <1>2, <1>3, <1>5, <1>6 DEF ConnInv

\* A print's commit: nobody else has read its run.
LEMMA ConnCommit ==
  ASSUME LedgerInv, NEW t \in Tx, CommitPrint(t)
  PROVE  ConnInv' /\ Gone' /\ ChargedForWhatIsRecorded'
<1> DEFINE p == job[t].print
<1>0. TypeOK /\ ConnInv /\ Gone /\ ChargedForWhatIsRecorded
  BY DEF LedgerInv, ConnInv
<1>1. /\ p \in PrintRun /\ Printing(t) /\ pc[t] = "write"
      /\ before[t] = run[p] /\ fate[p] \in {"fresh", "live"}
      /\ job[t].op = "delete" => next[t] = NoRow
  BY <1>0 DEF CommitPrint, ConnInv, PrintsAreAsked, Printing, Seen
<1>2. /\ TypeOK' /\ End(t) /\ UNCHANGED shelf
      /\ run' = [run EXCEPT ![p] = next[t]]
      /\ fate' = [fate EXCEPT ![p] = IF job[t].op = "delete" THEN "deleted" ELSE "live"]
      /\ \A s \in Spool :
           charged'[p][s] = charged[p][s] + Charge(before[t], s) - Charge(next[t], s)
      /\ \A q \in PrintRun \ {p} : charged'[q] = charged[q]
      /\ job[t].op \in {"log", "update", "delete"}
  BY <1>0, <1>1, CommitPrintFrame
<1>3. /\ pc'[t] = "idle" /\ job'[t] = NoJob
      /\ \A u \in Tx \ {t} : /\ pc'[u] = pc[u] /\ job'[u] = job[u]
                             /\ before'[u] = before[u] /\ next'[u] = next[u]
  <2>1. UNCHANGED <<made, spoolArchived, filamentArchived>>
    BY <1>2 DEF shelf
  <2> QED
    BY <1>0, <1>2, <2>1, TypeParts, EndFrame DEF TypeShelf
<1>4. /\ run'[p] = next[t] /\ fate'[p] = IF job[t].op = "delete" THEN "deleted" ELSE "live"
      /\ \A q \in PrintRun \ {p} : run'[q] = run[q] /\ fate'[q] = fate[q]
  BY <1>0, <1>1, <1>2 DEF TypeOK
<1>5. ASSUME NEW u \in Tx \ {t}, pc[u] # "idle", job[u].print = p
      PROVE  pc[u] = "row" /\ job[u].op # "log"
  BY <1>0, <1>1, <1>5 DEF ConnInv, Alone
<1> HIDE DEF p
<1>6. PrintsAreAsked'
  BY <1>0, <1>3 DEF ConnInv, PrintsAreAsked
<1>7. LogIsFresh'
  BY <1>0, <1>3, <1>4, <1>5 DEF ConnInv, LogIsFresh, PrintsAreAsked
<1>8. Alone'
  BY <1>0, <1>3 DEF ConnInv, Alone
<1>9. Seen'
  BY <1>0, <1>3, <1>4, <1>5 DEF ConnInv, Seen, Printing, PrintsAreAsked
<1>10. Gone'
  BY <1>0, <1>1, <1>4 DEF Gone
<1>11. ASSUME NEW s \in Spool
       PROVE  charged'[p][s] = IF next[t].status = "finished" THEN -next[t].grams[s] ELSE 0
  <2>1. charged[p][s] = IF run[p].status = "finished" THEN -run[p].grams[s] ELSE 0
    BY <1>0, <1>1 DEF ChargedForWhatIsRecorded
  <2>2. before[t] \in Row /\ next[t] \in Row
    BY <1>0 DEF TypeOK
  <2>3. /\ before[t].status \in Status /\ before[t].grams[s] \in Nat
        /\ next[t].status \in Status /\ next[t].grams[s] \in Nat
    BY <2>2, RowFields
  <2>4. charged[p][s] = -Charge(before[t], s)
    BY <1>1, <2>1, <2>3 DEF Charge, Status
  <2>5. charged'[p][s] = -Charge(next[t], s)
    BY <1>2, <2>2, <2>4, ChargeIsNat
  <2> QED
    BY <2>3, <2>5 DEF Charge, Status
<1>12. ChargedForWhatIsRecorded'
  BY <1>0, <1>2, <1>4, <1>11 DEF ChargedForWhatIsRecorded
<1> QED
  BY <1>6, <1>7, <1>8, <1>9, <1>10, <1>12 DEF ConnInv

\* What reads nothing of a print and writes nothing of one.
LEMMA ConnAside ==
  ASSUME ConnInv, UNCHANGED <<run, fate, job, before, next>>,
         \A t \in Tx : \/ pc'[t] = pc[t]
                       \/ pc[t] \in {"spools", "write"} /\ pc'[t] \in {"spools", "write"}
  PROVE  ConnInv'
<1>1. PrintsAreAsked'
  BY DEF ConnInv, PrintsAreAsked
<1>2. LogIsFresh'
  BY DEF ConnInv, LogIsFresh
<1>3. Alone'
  BY DEF ConnInv, Alone
<1>4. Seen'
  BY DEF ConnInv, Seen, Printing
<1> QED
  BY <1>1, <1>2, <1>3, <1>4 DEF ConnInv

\* The runs and the changes that name them stay as they are.
LEMMA TablesStay ==
  ASSUME Gone, ChargedForWhatIsRecorded, UNCHANGED <<run, fate, charged>>
  PROVE  Gone' /\ ChargedForWhatIsRecorded'
  BY DEF Gone, ChargedForWhatIsRecorded

\* Every step keeps the ledger's invariant.
LEMMA LedgerStep == LedgerInv /\ [Next]_vars => LedgerInv'
<1> SUFFICES ASSUME LedgerInv, [Next]_vars PROVE LedgerInv'
  OBVIOUS
<1>0. TypeOK /\ TypeLedger /\ TypeShelf /\ TypeTx /\ ConnInv /\ Gone /\ ChargedForWhatIsRecorded
  BY TypeParts DEF LedgerInv, ConnInv
<1>t. TypeOK' /\ TypeShelf'
  BY <1>0, TypeStep, TypeParts DEF ConnInv, TypeOK, TypeShelf
<1>p. ASSUME ConnInv', Gone', ChargedForWhatIsRecorded' PROVE LedgerInv'
  BY <1>t, <1>p DEF LedgerInv, ConnInv
<1>k. ASSUME ConnInv', UNCHANGED <<run, fate, charged>> PROVE LedgerInv'
  BY <1>0, <1>k, <1>p, TablesStay
<1>e. ASSUME NEW t \in Tx, End(t), UNCHANGED <<run, fate, charged, made>> PROVE LedgerInv'
  BY <1>0, <1>t, <1>e, <1>k, ConnEnd
<1>s. ASSUME NEW t \in Tx, End(t), UNCHANGED <<ledger, shelf>> PROVE LedgerInv'
  BY <1>s, <1>e DEF ledger, shelf
<1>1. ASSUME NEW t \in Tx, BeginLog(t) PROVE LedgerInv'
  <2>1. PICK p \in PrintRun, k \in Key \cup {NoKey} :
          /\ fate[p] = "fresh" /\ \A u \in Tx : job[u].print # p
          /\ Begin(t, Ask("log", p, k, NoFilament), "key", {})
    BY <1>1 DEF BeginLog
  <2>2. ConnInv'
    BY <1>0, <2>1, ConnBegin DEF Op
  <2> QED
    BY <1>k, <2>1, <2>2 DEF Begin, ledger
<1>2. ASSUME NEW t \in Tx, BeginEdit(t) PROVE LedgerInv'
  <2>1. PICK p \in PrintRun, op \in {"update", "delete"} :
          fate[p] = "live" /\ Begin(t, Ask(op, p, NoKey, NoFilament), "row", {})
    BY <1>2 DEF BeginEdit
  <2>2. ConnInv'
    BY <1>0, <2>1, ConnBegin DEF Op
  <2> QED
    BY <1>k, <2>1, <2>2 DEF Begin, ledger
<1>3. ASSUME NEW t \in Tx, BeginSpool(t) PROVE LedgerInv'
  <2>1. PICK s \in made, op \in {"measure", "archiveSpool"} :
          Begin(t, Ask(op, NoPrint, NoKey, NoFilament), "spools", {s})
    BY <1>3 DEF BeginSpool
  <2>2. {s} \in SUBSET Spool
    BY <1>0 DEF TypeShelf
  <2>3. ConnInv'
    BY <1>0, <2>1, <2>2, ConnBegin DEF Op
  <2> QED
    BY <1>k, <2>1, <2>3 DEF Begin, ledger
<1>4. ASSUME NEW t \in Tx, BeginFilament(t) PROVE LedgerInv'
  <2>1. PICK f \in Filament : Begin(t, Ask("archiveFilament", NoPrint, NoKey, f), "spools",
                                    {s \in made : FilamentOf[s] = f})
    BY <1>4 DEF BeginFilament
  <2>2. {s \in made : FilamentOf[s] = f} \in SUBSET Spool
    BY <1>0 DEF TypeShelf
  <2>3. ConnInv'
    BY <1>0, <2>1, <2>2, ConnBegin DEF Op
  <2> QED
    BY <1>k, <2>1, <2>3 DEF Begin, ledger
<1>5. ASSUME NEW t \in Tx, TakeKey(t) PROVE LedgerInv'
  <2>1. CASE End(t) /\ UNCHANGED <<ledger, shelf>>
    BY <1>s, <2>1
  <2>2. ASSUME NEW new \in Row, Ready(t, NoRow, new) PROVE LedgerInv'
    <3>1. pc[t] = "key" /\ job[t].op = "log" /\ job[t].print \in PrintRun
      BY <1>0, <1>5 DEF TakeKey, ConnInv, PrintsAreAsked
    <3>2. fate[job[t].print] = "fresh" /\ run[job[t].print] = NoRow
      BY <1>0, <3>1 DEF ConnInv, LogIsFresh, Gone
    <3>3. ConnInv'
      BY <1>0, <2>2, <3>1, <3>2, NoRowIsRow, ConnReady
    <3> QED
      BY <1>k, <2>2, <3>3 DEF Ready, ledger
  <2> QED
    BY <1>5, <2>1, <2>2 DEF TakeKey
<1>6. ASSUME NEW t \in Tx, LockRow(t) PROVE LedgerInv'
  <2> DEFINE p == job[t].print
  <2>1. CASE End(t) /\ UNCHANGED <<ledger, shelf>>
    BY <1>s, <2>1
  <2>2. ASSUME fate[p] = "live",
               NEW new \in IF job[t].op = "delete" THEN {NoRow} ELSE Row, Ready(t, run[p], new)
        PROVE  LedgerInv'
    <3>1. pc[t] = "row" /\ PrintFree(t, p) /\ p \in PrintRun
      BY <1>0, <1>6 DEF LockRow, ConnInv, PrintsAreAsked
    <3>2. run[p] \in Row /\ new \in Row /\ (job[t].op = "delete" => new = NoRow)
      BY <1>0, <2>2, <3>1, NoRowIsRow DEF TypeLedger
    <3>3. ConnInv'
      BY <1>0, <2>2, <3>1, <3>2, ConnReady
    <3> QED
      BY <1>k, <2>2, <3>3 DEF Ready, ledger
  <2> QED
    BY <1>6, <2>1, <2>2 DEF LockRow
<1>7. ASSUME NEW t \in Tx, LockSpool(t) PROVE LedgerInv'
  <2>1. UNCHANGED <<run, fate, charged, job, before, next, pc>>
    BY <1>7 DEF LockSpool, ledger
  <2> QED
    BY <1>0, <1>k, <2>1, ConnAside
<1>8. ASSUME NEW t \in Tx, Rollback(t) PROVE LedgerInv'
  BY <1>8, <1>s DEF Rollback
<1>9. ASSUME NEW t \in Tx, pc[t] = "spools", pc' = [pc EXCEPT ![t] = "write"],
             UNCHANGED <<run, fate, charged, job, before, next>>
      PROVE  LedgerInv'
  <2>1. pc'[t] = "write" /\ \A u \in Tx \ {t} : pc'[u] = pc[u]
    BY <1>0, <1>9 DEF TypeTx
  <2> QED
    BY <1>0, <1>9, <1>k, <2>1, ConnAside
<1>10. ASSUME NEW t \in Tx, CheckSpools(t) PROVE LedgerInv'
  BY <1>8, <1>9, <1>10 DEF CheckSpools, ledger
<1>11. ASSUME NEW t \in Tx, ReadBalance(t) PROVE LedgerInv'
  BY <1>9, <1>11 DEF ReadBalance, ledger
<1>12. ASSUME NEW t \in Tx, CommitPrint(t) PROVE LedgerInv'
  BY <1>12, <1>p, ConnCommit
<1>13. ASSUME NEW t \in Tx, CommitMeasure(t) PROVE LedgerInv'
  BY <1>13, <1>e DEF CommitMeasure, shelf
<1>14. ASSUME NEW t \in Tx, CommitArchive(t) PROVE LedgerInv'
  BY <1>14, <1>e DEF CommitArchive, ledger
<1>15. ASSUME NEW p \in PrintRun, DeleteModel(p) PROVE LedgerInv'
  \* Nobody has read the run: who has would hold its row.
  <2>1. /\ fate[p] = "live" /\ \A u \in Tx : job[u].print = p => pc[u] \in {"key", "row"}
        /\ fate'[p] = "swept" /\ run'[p] = NoRow
        /\ \A q \in PrintRun \ {p} : fate'[q] = fate[q] /\ run'[q] = run[q]
        /\ UNCHANGED <<charged, pc, job, before, next>>
    BY <1>0, <1>15 DEF DeleteModel, TypeLedger
  <2>2. PrintsAreAsked' /\ Alone'
    BY <1>0, <2>1 DEF ConnInv, PrintsAreAsked, Alone
  <2>3. LogIsFresh'
    BY <1>0, <2>1 DEF ConnInv, LogIsFresh, PrintsAreAsked
  <2>4. Seen'
    BY <1>0, <2>1 DEF ConnInv, Seen, Printing, PrintsAreAsked
  <2>5. Gone' /\ ChargedForWhatIsRecorded'
    BY <1>0, <2>1 DEF Gone, ChargedForWhatIsRecorded
  <2> QED
    BY <1>p, <2>2, <2>3, <2>4, <2>5 DEF ConnInv
<1>16. ASSUME NEW s \in Spool, CreateSpool(s) PROVE LedgerInv'
  <2>1. UNCHANGED <<run, fate, charged, pc, job, before, next>>
    BY <1>16 DEF CreateSpool
  <2> QED
    BY <1>0, <1>k, <2>1, ConnAside
<1>17. ASSUME UNCHANGED vars PROVE LedgerInv'
  <2>1. UNCHANGED <<run, fate, charged, pc, job, before, next>>
    BY <1>17 DEF vars, ledger
  <2> QED
    BY <1>0, <1>k, <2>1, ConnAside
<1>18. ASSUME NEW t \in Tx, NoSuchSpool(t) PROVE LedgerInv'
  BY <1>8, <1>18 DEF NoSuchSpool
<1> QED
  BY <1>1, <1>2, <1>3, <1>4, <1>5, <1>6, <1>7, <1>8, <1>10, <1>11, <1>12, <1>13, <1>14,
     <1>15, <1>16, <1>17, <1>18 DEF Next, Step

\* It holds at first.
LEMMA LedgerInit == Init => LedgerInv
<1> SUFFICES ASSUME Init PROVE LedgerInv
  OBVIOUS
<1>1. TypeOK
  BY TypeInit
<1>2. PrintsAreAsked /\ LogIsFresh /\ Alone /\ Seen
  BY DEF Init, PrintsAreAsked, LogIsFresh, Alone, Seen, Printing
<1>3. Gone /\ ChargedForWhatIsRecorded
  BY DEF Init, Gone, ChargedForWhatIsRecorded, NoRow
<1> QED
  BY <1>1, <1>2, <1>3 DEF LedgerInv

\* For any number of connections, prints and spools every variable keeps its
\* type, and only spools that exist are locked or archived.
THEOREM LedgerIsTyped == Spec => []TypeOK
<1>1. LedgerInv => TypeOK
  BY DEF LedgerInv
<1> QED
  BY <1>1, LedgerInit, LedgerStep, PTL DEF Spec

\* However recording, editing, deleting, weighing, archiving and roll-backs
\* interleave, a print has been charged exactly what its record says it used.
THEOREM PrintsAreChargedOnce == Spec => []ChargedForWhatIsRecorded
<1>1. LedgerInv => ChargedForWhatIsRecorded
  BY DEF LedgerInv
<1> QED
  BY <1>1, LedgerInit, LedgerStep, PTL DEF Spec

----------------------------------------------------------------------------
\* What a lock on spools is worth.

HeldApart == \A t, u \in Tx : t # u => held[t] \cap held[u] = {}

\* A connection has locked, or is still to lock, every spool it is about to
\* write or to judge, and has locked them all before it writes.
LocksWhatItNeeds ==
  \A t \in Tx :
    /\ pc[t] \notin {"spools", "write"} => held[t] = {}
    /\ pc[t] = "write" => todo[t] = {}
    /\ Printing(t) => before[t].uses \cup next[t].uses \subseteq held[t] \cup todo[t]
    /\ ~Printing(t) => next[t] = NoRow
    /\ pc[t] # "idle" /\ job[t].op = "measure" => \E s \in Spool : held[t] \cup todo[t] \subseteq {s}
    /\ pc[t] # "idle" /\ job[t].op = "archiveFilament" =>
         /\ pc[t] = "spools"
         /\ \A s \in made : FilamentOf[s] = job[t].filament => s \in held[t] \cup todo[t]

SpoolInv == HeldApart /\ LocksWhatItNeeds /\ MeasuredIsExact /\ OnlyActiveSpoolsAreAdded

\* The end of a transaction that changed balances of, or archived, only spools
\* it had locked.
LEMMA SpoolEnd ==
  ASSUME LedgerInv, SpoolInv, NEW t \in Tx, End(t), TypeShelf', made' = made,
         \A s \in Spool \ held[t] : stock'[s] = stock[s],
         \A s \in made \ held[t] : s \in Archived' => s \in Archived
  PROVE  SpoolInv'
<1>0. TypeOK /\ TypeShelf /\ TypeTx
  BY TypeParts DEF LedgerInv
<1>1. /\ pc'[t] = "idle" /\ job'[t] = NoJob /\ held'[t] = {}
      /\ \A u \in Tx \ {t} :
           /\ pc'[u] = pc[u] /\ job'[u] = job[u] /\ before'[u] = before[u]
           /\ next'[u] = next[u] /\ read'[u] = read[u] /\ todo'[u] = todo[u]
           /\ held'[u] = held[u]
  BY <1>0, EndFrame DEF TypeShelf
<1>2. HeldApart'
  BY <1>1 DEF SpoolInv, HeldApart
<1>3. LocksWhatItNeeds'
  <2>1. next'[t] = NoRow
    BY <1>0 DEF End, TypeTx
  <2>2. ASSUME NEW u \in Tx PROVE Printing(u)' <=> u # t /\ Printing(u)
    BY <1>1 DEF Printing
  <2> QED
    BY <1>1, <2>1, <2>2 DEF SpoolInv, LocksWhatItNeeds
<1>4. MeasuredIsExact'
  BY <1>1 DEF SpoolInv, MeasuredIsExact, HeldApart
<1>5. ASSUME NEW u \in Tx, pc'[u] = "write" PROVE (next'[u].uses \ before'[u].uses) \cap Archived' = {}
  <2>1. u # t /\ pc[u] = "write" /\ next'[u] = next[u] /\ before'[u] = before[u]
    BY <1>1, <1>5
  <2>2. (next[u].uses \ before[u].uses) \cap Archived = {}
    BY <2>1 DEF SpoolInv, OnlyActiveSpoolsAreAdded
  <2>3. next[u] \in Row /\ before[u] \in Row
    BY <1>0 DEF TypeTx
  <2>4. CASE Printing(u)
    <3>1. next[u].uses \subseteq held[u]
      BY <2>1, <2>4 DEF SpoolInv, LocksWhatItNeeds
    <3>2. next[u].uses \subseteq made \ held[t]
      BY <1>0, <2>1, <3>1 DEF SpoolInv, HeldApart, TypeShelf
    <3> QED
      BY <2>1, <2>2, <3>2
  <2>5. CASE ~Printing(u)
    \* Weighing and archiving record no usage.
    BY <2>1, <2>5 DEF SpoolInv, LocksWhatItNeeds, NoRow
  <2> QED
    BY <2>4, <2>5
<1>6. OnlyActiveSpoolsAreAdded'
  BY <1>5 DEF OnlyActiveSpoolsAreAdded
<1> QED
  BY <1>2, <1>3, <1>4, <1>6 DEF SpoolInv

\* A connection that begins has locked nothing yet.
LEMMA SpoolBegin ==
  ASSUME LedgerInv, SpoolInv, NEW t \in Tx, NEW op \in Op, NEW p \in PrintRun \cup {NoPrint},
         NEW k \in Key \cup {NoKey}, NEW f \in Filament \cup {NoFilament},
         NEW at \in {"key", "row", "spools"}, NEW spools \in SUBSET Spool,
         Begin(t, Ask(op, p, k, f), at, spools),
         op \in {"log", "update", "delete"} => at \in {"key", "row"},
         op = "measure" => \E s \in Spool : spools = {s},
         op = "archiveFilament" => at = "spools" /\ spools = {s \in made : FilamentOf[s] = f}
  PROVE  SpoolInv'
<1> DEFINE j == Ask(op, p, k, f)
<1>0. j \in Job /\ j.op = op /\ j.filament = f
  BY Asked
<1> HIDE DEF j
<1>1. /\ UNCHANGED <<stock, made, spoolArchived, filamentArchived, before, next, held, read>>
      /\ pc'[t] = at /\ job'[t] = j /\ todo'[t] = spools /\ pc[t] = "idle"
      /\ \A u \in Tx \ {t} : pc'[u] = pc[u] /\ job'[u] = job[u] /\ todo'[u] = todo[u]
  BY <1>0, TypeParts, BeginFrame DEF j, ledger, shelf, LedgerInv
<1>2. ~Printing(t) /\ ~Printing(t)' /\ next[t] = NoRow /\ held[t] = {}
  BY <1>0, <1>1 DEF Printing, SpoolInv, LocksWhatItNeeds
<1>3. \A u \in Tx \ {t} : Printing(u)' <=> Printing(u)
  BY <1>1 DEF Printing
<1>4. HeldApart'
  BY <1>1 DEF SpoolInv, HeldApart
<1>5. LocksWhatItNeeds'
  BY <1>0, <1>1, <1>2, <1>3 DEF SpoolInv, LocksWhatItNeeds
<1>6. MeasuredIsExact'
  BY <1>1 DEF SpoolInv, MeasuredIsExact
<1>7. Archived' = Archived
  BY <1>1 DEF Archived
<1>8. OnlyActiveSpoolsAreAdded'
  BY <1>1, <1>7 DEF SpoolInv, OnlyActiveSpoolsAreAdded
<1> QED
  BY <1>4, <1>5, <1>6, <1>8 DEF SpoolInv

\* A connection that knows which spools it needs has still to lock them.
LEMMA SpoolReady ==
  ASSUME LedgerInv, SpoolInv, NEW t \in Tx, NEW old \in Row, NEW new \in Row, Ready(t, old, new),
         pc[t] \in {"key", "row"}
  PROVE  SpoolInv'
<1>1. /\ UNCHANGED <<stock, made, spoolArchived, filamentArchived, job, held, read>>
      /\ pc'[t] = "spools" /\ before'[t] = old /\ next'[t] = new
      /\ todo'[t] = old.uses \cup new.uses
      /\ \A u \in Tx \ {t} : /\ pc'[u] = pc[u] /\ before'[u] = before[u]
                             /\ next'[u] = next[u] /\ todo'[u] = todo[u]
  BY TypeParts, ReadyFrame DEF ledger, shelf, LedgerInv
<1>2. job[t].op \in {"log", "update", "delete"}
  BY DEF LedgerInv, PrintsAreAsked
<1>3. Printing(t)' /\ \A u \in Tx \ {t} : Printing(u)' <=> Printing(u)
  BY <1>1, <1>2 DEF Printing
<1>4. HeldApart'
  BY <1>1 DEF SpoolInv, HeldApart
<1>5. LocksWhatItNeeds'
  BY <1>1, <1>2, <1>3 DEF SpoolInv, LocksWhatItNeeds
<1>6. MeasuredIsExact'
  BY <1>1 DEF SpoolInv, MeasuredIsExact
<1>7. Archived' = Archived
  BY <1>1 DEF Archived
<1>8. OnlyActiveSpoolsAreAdded'
  BY <1>1, <1>7 DEF SpoolInv, OnlyActiveSpoolsAreAdded
<1> QED
  BY <1>4, <1>5, <1>6, <1>8 DEF SpoolInv

\* One lock more, on a spool nobody else has locked.
LEMMA SpoolLock ==
  ASSUME LedgerInv, SpoolInv, NEW t \in Tx, LockSpool(t)
  PROVE  SpoolInv'
<1>0. TypeOK
  BY DEF LedgerInv
<1>1. /\ UNCHANGED <<stock, made, spoolArchived, filamentArchived, pc, job, before, next, read>>
      /\ pc[t] = "spools"
      /\ \A u \in Tx \ {t} : todo'[u] = todo[u] /\ held'[u] = held[u]
      /\ held'[t] \cup todo'[t] = held[t] \cup todo[t]
  BY <1>0, LockSpoolFrame DEF ledger, shelf
<1>2. HeldApart'
  BY <1>0, <1>1, LockSpoolFrame DEF SpoolInv, HeldApart
<1>3. \A u \in Tx : Printing(u)' <=> Printing(u)
  BY <1>1 DEF Printing
<1>4. LocksWhatItNeeds'
  BY <1>1, <1>3 DEF SpoolInv, LocksWhatItNeeds
<1>5. MeasuredIsExact'
  BY <1>1 DEF SpoolInv, MeasuredIsExact
<1>6. Archived' = Archived
  BY <1>1 DEF Archived
<1>7. OnlyActiveSpoolsAreAdded'
  BY <1>1, <1>6 DEF SpoolInv, OnlyActiveSpoolsAreAdded
<1> QED
  BY <1>2, <1>4, <1>5, <1>7 DEF SpoolInv

\* Every lock is held, and what the write depends on has been read.
LEMMA SpoolCheck ==
  ASSUME LedgerInv, SpoolInv, NEW t \in Tx,
         pc[t] = "spools", todo[t] = {}, pc' = [pc EXCEPT ![t] = "write"],
         UNCHANGED <<stock, shelf, job, before, next, todo, held>>,
         \A u \in Tx \ {t} : read'[u] = read[u],
         \/ /\ job[t].op \in {"log", "update", "delete"}
            /\ (next[t].uses \ before[t].uses) \cap Archived = {}
         \/ job[t].op = "measure" /\ \A s \in held[t] : read'[t] = stock[s]
  PROVE  SpoolInv'
<1>1. /\ pc'[t] = "write" /\ \A u \in Tx \ {t} : pc'[u] = pc[u]
      /\ UNCHANGED <<made, spoolArchived, filamentArchived>>
  BY DEF LedgerInv, TypeOK, shelf
<1>2. \A u \in Tx : Printing(u)' <=> Printing(u)
  BY <1>1 DEF Printing
<1>3. HeldApart'
  BY DEF SpoolInv, HeldApart
<1>4. LocksWhatItNeeds'
  BY <1>1, <1>2 DEF SpoolInv, LocksWhatItNeeds
<1>5. MeasuredIsExact'
  BY <1>1 DEF SpoolInv, MeasuredIsExact
<1>6. Archived' = Archived
  BY <1>1 DEF Archived
<1>7. job[t].op = "measure" => next[t].uses = {}
  BY DEF SpoolInv, LocksWhatItNeeds, Printing, NoRow
<1>8. OnlyActiveSpoolsAreAdded'
  BY <1>1, <1>6, <1>7 DEF SpoolInv, OnlyActiveSpoolsAreAdded
<1> QED
  BY <1>3, <1>4, <1>5, <1>8 DEF SpoolInv

\* Every step keeps who has locked which spools.
LEMMA SpoolStep == LedgerInv /\ SpoolInv /\ [Next]_vars => SpoolInv'
<1> SUFFICES ASSUME LedgerInv, SpoolInv, [Next]_vars PROVE SpoolInv'
  OBVIOUS
<1>0. TypeOK /\ TypeLedger /\ TypeShelf /\ TypeTx /\ PrintsAreAsked
  BY TypeParts DEF LedgerInv
<1>t. TypeOK' /\ TypeShelf'
  BY <1>0, TypeStep, TypeParts DEF TypeOK, TypeShelf
<1>e. ASSUME NEW t \in Tx, End(t), UNCHANGED <<ledger, shelf>> PROVE SpoolInv'
  <2>1. UNCHANGED <<made, stock, spoolArchived, filamentArchived>>
    BY <1>e DEF ledger, shelf
  <2>2. Archived' = Archived
    BY <2>1 DEF Archived
  <2> QED
    BY <1>e, <1>t, <2>1, <2>2, SpoolEnd
<1>1. ASSUME NEW t \in Tx, BeginLog(t) PROVE SpoolInv'
  <2>1. PICK p \in PrintRun, k \in Key \cup {NoKey} :
          Begin(t, Ask("log", p, k, NoFilament), "key", {})
    BY <1>1 DEF BeginLog
  <2> QED
    BY <2>1, SpoolBegin DEF Op
<1>2. ASSUME NEW t \in Tx, BeginEdit(t) PROVE SpoolInv'
  <2>1. PICK p \in PrintRun, op \in {"update", "delete"} :
          Begin(t, Ask(op, p, NoKey, NoFilament), "row", {})
    BY <1>2 DEF BeginEdit
  <2> QED
    BY <2>1, SpoolBegin DEF Op
<1>3. ASSUME NEW t \in Tx, BeginSpool(t) PROVE SpoolInv'
  <2>1. PICK s \in made, op \in {"measure", "archiveSpool"} :
          Begin(t, Ask(op, NoPrint, NoKey, NoFilament), "spools", {s})
    BY <1>3 DEF BeginSpool
  <2>2. {s} \in SUBSET Spool /\ \E x \in Spool : {s} = {x}
    BY <1>0 DEF TypeShelf
  <2> QED
    BY <2>1, <2>2, SpoolBegin DEF Op
<1>4. ASSUME NEW t \in Tx, BeginFilament(t) PROVE SpoolInv'
  <2>1. PICK f \in Filament : Begin(t, Ask("archiveFilament", NoPrint, NoKey, f), "spools",
                                    {s \in made : FilamentOf[s] = f})
    BY <1>4 DEF BeginFilament
  <2>2. {s \in made : FilamentOf[s] = f} \in SUBSET Spool
    BY <1>0 DEF TypeShelf
  <2> QED
    BY <2>1, <2>2, SpoolBegin DEF Op
<1>5. ASSUME NEW t \in Tx, TakeKey(t) PROVE SpoolInv'
  BY <1>5, <1>e, NoRowIsRow, SpoolReady DEF TakeKey
<1>6. ASSUME NEW t \in Tx, LockRow(t) PROVE SpoolInv'
  <2>1. run[job[t].print] \in Row
    BY <1>0, <1>6 DEF LockRow, PrintsAreAsked, TypeLedger
  <2> QED
    BY <1>6, <1>e, <2>1, NoRowIsRow, SpoolReady DEF LockRow
<1>7. ASSUME NEW t \in Tx, LockSpool(t) PROVE SpoolInv'
  BY <1>7, SpoolLock
<1>8. ASSUME NEW t \in Tx, Rollback(t) PROVE SpoolInv'
  BY <1>8, <1>e DEF Rollback
<1>9. ASSUME NEW t \in Tx, NoSuchSpool(t) PROVE SpoolInv'
  BY <1>8, <1>9 DEF NoSuchSpool
<1>10. ASSUME NEW t \in Tx, CheckSpools(t) PROVE SpoolInv'
  <2>1. CASE Rollback(t)
    BY <1>8, <2>1
  <2>2. CASE ~Rollback(t)
    <3>1. /\ pc[t] = "spools" /\ todo[t] = {} /\ pc' = [pc EXCEPT ![t] = "write"]
          /\ UNCHANGED <<stock, shelf, job, before, next, read, todo, held>>
          /\ job[t].op \in {"log", "update", "delete"}
          /\ (next[t].uses \ before[t].uses) \cap Archived = {}
      BY <1>10, <2>2 DEF CheckSpools, ledger
    <3> QED
      BY <3>1, SpoolCheck
  <2> QED
    BY <2>1, <2>2
<1>11. ASSUME NEW t \in Tx, ReadBalance(t) PROVE SpoolInv'
  <2>1. PICK s \in held[t] : read' = [read EXCEPT ![t] = stock[s]]
    BY <1>11 DEF ReadBalance
  <2>2. /\ pc[t] = "spools" /\ todo[t] = {} /\ pc' = [pc EXCEPT ![t] = "write"]
        /\ UNCHANGED <<stock, shelf, job, before, next, todo, held>>
        /\ job[t].op = "measure"
    BY <1>11 DEF ReadBalance, ledger
  <2>3. read'[t] = stock[s] /\ \A u \in Tx \ {t} : read'[u] = read[u]
    BY <1>0, <2>1 DEF TypeTx
  <2>4. \A x \in held[t] : x = s
    BY <2>2 DEF SpoolInv, LocksWhatItNeeds
  <2> QED
    BY <2>2, <2>3, <2>4, SpoolCheck
<1>12. ASSUME NEW t \in Tx, CommitPrint(t) PROVE SpoolInv'
  <2>1. pc[t] = "write" /\ job[t].op \in {"log", "update", "delete"} /\ job[t].print \in PrintRun
    BY <1>0, <1>12 DEF CommitPrint, PrintsAreAsked
  <2>2. /\ End(t) /\ UNCHANGED shelf
        /\ \A s \in Spool : stock'[s] = stock[s] + Charge(before[t], s) - Charge(next[t], s)
    BY <1>0, <1>12, <2>1, CommitPrintFrame
  <2>3. before[t].uses \cup next[t].uses \subseteq held[t]
    BY <2>1 DEF SpoolInv, LocksWhatItNeeds, Printing
  <2>4. \A s \in Spool \ held[t] : Charge(before[t], s) = 0 /\ Charge(next[t], s) = 0
    BY <1>0, <2>3, ChargeIsNat DEF TypeTx
  <2>5. \A s \in Spool : stock[s] \in Int
    BY <1>0 DEF TypeLedger
  <2>6. \A s \in Spool \ held[t] : stock'[s] = stock[s]
    BY <2>2, <2>4, <2>5
  <2>7. made' = made /\ Archived' = Archived
    BY <2>2 DEF shelf, Archived
  <2> QED
    BY <1>t, <2>2, <2>6, <2>7, SpoolEnd
<1>13. ASSUME NEW t \in Tx, CommitMeasure(t) PROVE SpoolInv'
  <2>1. End(t) /\ UNCHANGED shelf /\ \E s \in held[t], w \in Weight :
          stock' = [stock EXCEPT ![s] = @ + w - read[t]]
    BY <1>13 DEF CommitMeasure
  <2>2. \A s \in Spool \ held[t] : stock'[s] = stock[s]
    BY <1>0, <2>1 DEF TypeLedger
  <2>3. made' = made /\ Archived' = Archived
    BY <2>1 DEF shelf, Archived
  <2> QED
    BY <1>t, <2>1, <2>2, <2>3, SpoolEnd
<1>14. ASSUME NEW t \in Tx, CommitArchive(t) PROVE SpoolInv'
  <2>1. End(t) /\ UNCHANGED <<stock, made>> /\ pc[t] = "spools" /\ todo[t] = {}
    BY <1>14 DEF CommitArchive, ledger
  <2>2. ASSUME NEW s \in made \ held[t], s \in Archived' PROVE s \in Archived
    <3>1. CASE job[t].op = "archiveSpool"
      BY <1>14, <2>2, <3>1 DEF CommitArchive, Archived
    <3>2. CASE job[t].op = "archiveFilament"
      <4>1. FilamentOf[s] # job[t].filament
        BY <2>1, <2>2, <3>2 DEF SpoolInv, LocksWhatItNeeds
      <4> QED
        BY <1>14, <2>2, <3>2, <4>1 DEF CommitArchive, Archived
    <3> QED
      BY <1>14, <3>1, <3>2 DEF CommitArchive
  <2> QED
    BY <1>t, <2>1, <2>2, SpoolEnd
<1>15. ASSUME UNCHANGED <<stock, shelf, pc, job, before, next, read, todo, held>> PROVE SpoolInv'
  <2>1. UNCHANGED <<made, spoolArchived, filamentArchived>>
    BY <1>15 DEF shelf
  <2>2. HeldApart' /\ MeasuredIsExact'
    BY <1>15 DEF SpoolInv, HeldApart, MeasuredIsExact
  <2>3. LocksWhatItNeeds'
    BY <1>15, <2>1 DEF SpoolInv, LocksWhatItNeeds, Printing
  <2>4. OnlyActiveSpoolsAreAdded'
    BY <1>15, <2>1 DEF SpoolInv, OnlyActiveSpoolsAreAdded, Archived
  <2> QED
    BY <2>2, <2>3, <2>4 DEF SpoolInv
<1>16. ASSUME NEW p \in PrintRun, DeleteModel(p) PROVE SpoolInv'
  BY <1>15, <1>16 DEF DeleteModel
<1>17. ASSUME NEW s0 \in Spool, CreateSpool(s0) PROVE SpoolInv'
  \* Nobody has locked a spool that was not there, nor its filament.
  <2>1. /\ s0 \notin made /\ made' = made \cup {s0}
        /\ \A u \in Tx : job[u].filament # FilamentOf[s0]
        /\ \A s \in made : stock'[s] = stock[s]
        /\ UNCHANGED <<spoolArchived, filamentArchived, pc, job, before, next, read, todo, held>>
    BY <1>0, <1>17 DEF CreateSpool, FilamentFree, TypeLedger, TypeShelf
  <2>2. HeldApart'
    BY <2>1 DEF SpoolInv, HeldApart
  <2>3. MeasuredIsExact'
    BY <1>0, <2>1 DEF SpoolInv, MeasuredIsExact, TypeShelf
  <2>4. LocksWhatItNeeds'
    BY <2>1 DEF SpoolInv, LocksWhatItNeeds, Printing
  <2>5. OnlyActiveSpoolsAreAdded'
    BY <2>1 DEF SpoolInv, OnlyActiveSpoolsAreAdded, Archived
  <2> QED
    BY <2>2, <2>3, <2>4, <2>5 DEF SpoolInv
<1>18. ASSUME UNCHANGED vars PROVE SpoolInv'
  BY <1>15, <1>18 DEF vars, ledger
<1> QED
  BY <1>1, <1>2, <1>3, <1>4, <1>5, <1>6, <1>7, <1>8, <1>9, <1>10, <1>11, <1>12, <1>13,
     <1>14, <1>16, <1>17, <1>18 DEF Next, Step

\* That invariant holds at first.
LEMMA SpoolInit == Init => SpoolInv
  BY DEF Init, SpoolInv, HeldApart, LocksWhatItNeeds, Printing, MeasuredIsExact,
         OnlyActiveSpoolsAreAdded

\* Whatever other connections print, edit or weigh meanwhile, a measured spool
\* ends up with exactly the weight that was measured.
THEOREM MeasuringIsExact == Spec => []MeasuredIsExact
<1>1. SpoolInv => MeasuredIsExact
  BY DEF SpoolInv
<1> QED
  BY <1>1, LedgerInit, LedgerStep, SpoolInit, SpoolStep, PTL DEF Spec

\* No archiving of a spool or of its filament slips between a print's check and
\* the write that newly names the spool.
THEOREM ArchivedIsNeverAdded == Spec => []OnlyActiveSpoolsAreAdded
<1>1. SpoolInv => OnlyActiveSpoolsAreAdded
  BY DEF SpoolInv
<1> QED
  BY <1>1, LedgerInit, LedgerStep, SpoolInit, SpoolStep, PTL DEF Spec

----------------------------------------------------------------------------
\* What the lock of a submission's key is worth.

\* Of two connections that carry one submission, one waits for the other.
KeyApart ==
  \A t, u \in Tx :
    /\ t # u /\ pc[t] # "idle" /\ pc[u] # "idle"
    /\ job[t].key = job[u].key /\ job[t].key # NoKey
    => pc[t] = "key" \/ pc[u] = "key"

\* Only recording a print carries a key.
OnlyLogsHaveKeys ==
  \A t \in Tx : pc[t] # "idle" /\ job[t].key # NoKey => job[t].op = "log"

KeyInv == KeyApart /\ OnlyLogsHaveKeys /\ RetryIsAnswered

\* The end of a transaction that named no run but its own, by its own key.
LEMMA KeyEnd ==
  ASSUME LedgerInv, KeyInv, NEW t \in Tx, End(t), TypeShelf', made' = made,
         \A q \in PrintRun : fate'[q] = "live" /\ ~(fate[q] = "live" /\ keyOf'[q] = keyOf[q])
                            => pc[t] = "write" /\ keyOf'[q] = job[t].key
  PROVE  KeyInv'
<1>1. /\ pc'[t] = "idle"
      /\ \A u \in Tx \ {t} : pc'[u] = pc[u] /\ job'[u] = job[u]
  BY TypeParts, EndFrame DEF TypeShelf, LedgerInv
<1>2. KeyApart' /\ OnlyLogsHaveKeys'
  BY <1>1 DEF KeyInv, KeyApart, OnlyLogsHaveKeys
<1>3. ASSUME NEW u \in Tx, NEW q \in PrintRun, pc'[u] \in {"spools", "write"},
             job'[u].op = "log", job'[u].key # NoKey, fate'[q] = "live"
      PROVE  keyOf'[q] # job'[u].key
  <2>1. u # t /\ pc[u] = pc'[u] /\ job[u] = job'[u]
    BY <1>1, <1>3
  <2>2. CASE fate[q] = "live" /\ keyOf'[q] = keyOf[q]
    BY <1>3, <2>1, <2>2 DEF KeyInv, RetryIsAnswered
  <2>3. CASE pc[t] = "write" /\ keyOf'[q] = job[t].key
    BY <1>3, <2>1, <2>3 DEF KeyInv, KeyApart
  <2> QED
    BY <1>3, <2>2, <2>3
<1>4. RetryIsAnswered'
  BY <1>3 DEF RetryIsAnswered
<1> QED
  BY <1>2, <1>4 DEF KeyInv

\* Beginning a transaction keeps the invariant of submission keys.
LEMMA KeyBegin ==
  ASSUME LedgerInv, KeyInv, NEW t \in Tx, NEW op \in Op, NEW p \in PrintRun \cup {NoPrint},
         NEW k \in Key \cup {NoKey}, NEW f \in Filament \cup {NoFilament},
         NEW at \in {"key", "row", "spools"}, NEW spools \in SUBSET Spool,
         Begin(t, Ask(op, p, k, f), at, spools),
         k # NoKey => op = "log",
         op = "log" => at = "key"
  PROVE  KeyInv'
<1> DEFINE j == Ask(op, p, k, f)
<1>0. j \in Job /\ j.op = op /\ j.key = k
  BY DEF Ask, Job
<1> HIDE DEF j
<1>1. /\ UNCHANGED <<fate, keyOf>> /\ pc'[t] = at /\ job'[t] = j /\ pc[t] = "idle"
      /\ \A u \in Tx \ {t} : pc'[u] = pc[u] /\ job'[u] = job[u]
  BY <1>0, TypeParts, BeginFrame DEF j, ledger, LedgerInv
<1>2. job'[t].key # NoKey => pc'[t] = "key" /\ job'[t].op = "log"
  BY <1>0, <1>1
<1>3. KeyApart'
  BY <1>1, <1>2 DEF KeyInv, KeyApart
<1>4. OnlyLogsHaveKeys'
  BY <1>1, <1>2 DEF KeyInv, OnlyLogsHaveKeys
<1>5. RetryIsAnswered'
  BY <1>0, <1>1 DEF KeyInv, RetryIsAnswered
<1> QED
  BY <1>3, <1>4, <1>5 DEF KeyInv

\* So does every step.
LEMMA KeyStep == LedgerInv /\ KeyInv /\ [Next]_vars => KeyInv'
<1> SUFFICES ASSUME LedgerInv, KeyInv, [Next]_vars PROVE KeyInv'
  OBVIOUS
<1>0. TypeOK /\ TypeLedger /\ TypeShelf /\ TypeTx /\ PrintsAreAsked
  BY TypeParts DEF LedgerInv
<1>t. TypeOK' /\ TypeShelf'
  BY <1>0, TypeStep, TypeParts DEF TypeOK, TypeShelf
<1>e. ASSUME NEW t \in Tx, End(t), UNCHANGED <<fate, keyOf, made>> PROVE KeyInv'
  BY <1>e, <1>t, KeyEnd
<1>s. ASSUME NEW t \in Tx, End(t), UNCHANGED <<ledger, shelf>> PROVE KeyInv'
  BY <1>e, <1>s DEF ledger, shelf
<1>1. ASSUME NEW t \in Tx, BeginLog(t) PROVE KeyInv'
  <2>1. PICK p \in PrintRun, k \in Key \cup {NoKey} :
          Begin(t, Ask("log", p, k, NoFilament), "key", {})
    BY <1>1 DEF BeginLog
  <2> QED
    BY <2>1, KeyBegin DEF Op
<1>2. ASSUME NEW t \in Tx, BeginEdit(t) PROVE KeyInv'
  <2>1. PICK p \in PrintRun, op \in {"update", "delete"} :
          Begin(t, Ask(op, p, NoKey, NoFilament), "row", {})
    BY <1>2 DEF BeginEdit
  <2> QED
    BY <2>1, KeyBegin DEF Op
<1>3. ASSUME NEW t \in Tx, BeginSpool(t) PROVE KeyInv'
  <2>1. PICK s \in made, op \in {"measure", "archiveSpool"} :
          Begin(t, Ask(op, NoPrint, NoKey, NoFilament), "spools", {s})
    BY <1>3 DEF BeginSpool
  <2>2. {s} \in SUBSET Spool
    BY <1>0 DEF TypeShelf
  <2> QED
    BY <2>1, <2>2, KeyBegin DEF Op
<1>4. ASSUME NEW t \in Tx, BeginFilament(t) PROVE KeyInv'
  <2>1. PICK f \in Filament : Begin(t, Ask("archiveFilament", NoPrint, NoKey, f), "spools",
                                    {s \in made : FilamentOf[s] = f})
    BY <1>4 DEF BeginFilament
  <2>2. {s \in made : FilamentOf[s] = f} \in SUBSET Spool
    BY <1>0 DEF TypeShelf
  <2> QED
    BY <2>1, <2>2, KeyBegin DEF Op
<1>5. ASSUME NEW t \in Tx, NEW old \in Row, NEW new \in Row, Ready(t, old, new),
             pc[t] \in {"key", "row"},
             pc[t] = "key" /\ job[t].key # NoKey =>
               /\ KeyFree(t, job[t].key)
               /\ \A p \in PrintRun : fate[p] = "live" => keyOf[p] # job[t].key
      PROVE  KeyInv'
  <2>1. /\ UNCHANGED <<fate, keyOf, job>> /\ pc'[t] = "spools"
        /\ \A u \in Tx \ {t} : pc'[u] = pc[u]
    BY <1>0, <1>5, ReadyFrame DEF ledger
  <2>2. pc[t] = "row" => job[t].key = NoKey /\ job[t].op # "log"
    BY <1>0 DEF PrintsAreAsked, KeyInv, OnlyLogsHaveKeys
  <2>3. KeyApart'
    BY <1>5, <2>1, <2>2 DEF KeyInv, KeyApart, KeyFree
  <2>4. OnlyLogsHaveKeys' /\ RetryIsAnswered'
    BY <1>5, <2>1, <2>2 DEF KeyInv, OnlyLogsHaveKeys, RetryIsAnswered
  <2> QED
    BY <2>3, <2>4 DEF KeyInv
<1>6. ASSUME NEW t \in Tx, TakeKey(t) PROVE KeyInv'
  BY <1>5, <1>6, <1>s, NoRowIsRow DEF TakeKey
<1>7. ASSUME NEW t \in Tx, LockRow(t) PROVE KeyInv'
  <2>1. run[job[t].print] \in Row
    BY <1>0, <1>7 DEF LockRow, PrintsAreAsked, TypeLedger
  <2> QED
    BY <1>5, <1>7, <1>s, <2>1, NoRowIsRow DEF LockRow
<1>8. ASSUME UNCHANGED <<fate, keyOf, job>>,
             \A t \in Tx : \/ pc'[t] = pc[t]
                           \/ pc[t] \in {"spools", "write"} /\ pc'[t] \in {"spools", "write"}
      PROVE  KeyInv'
  <2>1. KeyApart' /\ OnlyLogsHaveKeys'
    BY <1>8 DEF KeyInv, KeyApart, OnlyLogsHaveKeys
  <2>2. RetryIsAnswered'
    BY <1>8 DEF KeyInv, RetryIsAnswered
  <2> QED
    BY <2>1, <2>2 DEF KeyInv
<1>9. ASSUME NEW t \in Tx, pc[t] = "spools", pc' = [pc EXCEPT ![t] = "write"],
             UNCHANGED <<fate, keyOf, job>>
      PROVE  KeyInv'
  <2>1. pc'[t] = "write" /\ \A u \in Tx \ {t} : pc'[u] = pc[u]
    BY <1>0, <1>9 DEF TypeTx
  <2> QED
    BY <1>8, <1>9, <2>1
<1>10. ASSUME NEW t \in Tx, LockSpool(t) PROVE KeyInv'
  BY <1>8, <1>10 DEF LockSpool, ledger
<1>11. ASSUME NEW t \in Tx, Rollback(t) PROVE KeyInv'
  BY <1>11, <1>s DEF Rollback
<1>12. ASSUME NEW t \in Tx, NoSuchSpool(t) PROVE KeyInv'
  BY <1>11, <1>12 DEF NoSuchSpool
<1>13. ASSUME NEW t \in Tx, CheckSpools(t) PROVE KeyInv'
  BY <1>9, <1>11, <1>13 DEF CheckSpools, ledger
<1>14. ASSUME NEW t \in Tx, ReadBalance(t) PROVE KeyInv'
  BY <1>9, <1>14 DEF ReadBalance, ledger
<1>15. ASSUME NEW t \in Tx, CommitPrint(t) PROVE KeyInv'
  <2> DEFINE p == job[t].print
  <2>1. /\ pc[t] = "write" /\ job[t].op \in {"log", "update", "delete"} /\ p \in PrintRun
        /\ End(t) /\ made' = made
    BY <1>0, <1>15 DEF CommitPrint, PrintsAreAsked, shelf
  <2>2. /\ fate' = [fate EXCEPT ![p] = IF job[t].op = "delete" THEN "deleted" ELSE "live"]
        /\ \A q \in PrintRun \ {p} : keyOf'[q] = keyOf[q]
        /\ keyOf' = [keyOf EXCEPT ![p] = CASE job[t].op = "log" -> job[t].key
                                           [] job[t].op = "update" -> keyOf[p]
                                           [] OTHER -> NoKey]
    BY <1>0, <1>15, <2>1, CommitPrintFrame DEF CommitPrint
  <2>3. \A q \in PrintRun \ {p} : fate'[q] = fate[q]
    BY <1>0, <2>2 DEF TypeLedger
  <2>4. CASE job[t].op = "log"
    <3>1. keyOf'[p] = job[t].key
      BY <1>0, <2>1, <2>2, <2>4 DEF TypeLedger
    <3>2. \A q \in PrintRun : fate'[q] = "live" /\ ~(fate[q] = "live" /\ keyOf'[q] = keyOf[q])
                             => pc[t] = "write" /\ keyOf'[q] = job[t].key
      BY <2>1, <2>2, <2>3, <3>1
    <3> QED
      BY <1>t, <2>1, <3>2, KeyEnd
  <2>5. CASE job[t].op = "update"
    \* The run it changed was there, under the key it keeps.
    <3>1. keyOf'[p] = keyOf[p] /\ fate[p] = "live"
      BY <1>0, <2>1, <2>2, <2>5 DEF TypeLedger, LedgerInv, Seen, Printing
    <3>2. \A q \in PrintRun : fate'[q] = "live" /\ ~(fate[q] = "live" /\ keyOf'[q] = keyOf[q])
                             => pc[t] = "write" /\ keyOf'[q] = job[t].key
      BY <2>1, <2>2, <2>3, <3>1
    <3> QED
      BY <1>t, <2>1, <3>2, KeyEnd
  <2>6. CASE job[t].op = "delete"
    <3>1. fate'[p] = "deleted"
      BY <1>0, <2>1, <2>2, <2>6 DEF TypeLedger
    <3>2. \A q \in PrintRun : fate'[q] = "live" /\ ~(fate[q] = "live" /\ keyOf'[q] = keyOf[q])
                             => pc[t] = "write" /\ keyOf'[q] = job[t].key
      BY <2>1, <2>2, <2>3, <3>1
    <3> QED
      BY <1>t, <2>1, <3>2, KeyEnd
  <2> QED
    BY <2>1, <2>4, <2>5, <2>6
<1>16. ASSUME NEW t \in Tx, CommitMeasure(t) PROVE KeyInv'
  BY <1>16, <1>e DEF CommitMeasure, shelf
<1>17. ASSUME NEW t \in Tx, CommitArchive(t) PROVE KeyInv'
  BY <1>17, <1>e DEF CommitArchive, ledger
<1>18. ASSUME NEW p \in PrintRun, DeleteModel(p) PROVE KeyInv'
  <2>1. /\ fate'[p] = "swept" /\ UNCHANGED <<pc, job>>
        /\ \A q \in PrintRun \ {p} : fate'[q] = fate[q] /\ keyOf'[q] = keyOf[q]
    BY <1>0, <1>18 DEF DeleteModel, TypeLedger
  <2>2. KeyApart' /\ OnlyLogsHaveKeys'
    BY <2>1 DEF KeyInv, KeyApart, OnlyLogsHaveKeys
  <2>3. RetryIsAnswered'
    BY <2>1 DEF KeyInv, RetryIsAnswered
  <2> QED
    BY <2>2, <2>3 DEF KeyInv
<1>19. ASSUME NEW s \in Spool, CreateSpool(s) PROVE KeyInv'
  BY <1>8, <1>19 DEF CreateSpool
<1>20. ASSUME UNCHANGED vars PROVE KeyInv'
  BY <1>8, <1>20 DEF vars, ledger
<1> QED
  BY <1>1, <1>2, <1>3, <1>4, <1>6, <1>7, <1>10, <1>11, <1>12, <1>13, <1>14, <1>15, <1>16,
     <1>17, <1>18, <1>19, <1>20 DEF Next, Step

\* It holds at first.
LEMMA KeyInit == Init => KeyInv
  BY DEF Init, KeyInv, KeyApart, OnlyLogsHaveKeys, RetryIsAnswered

\* However often and however concurrently a submission is sent again, it never
\* runs into the run it has already recorded.
THEOREM SubmissionsAreNeverRefused == Spec => []RetryIsAnswered
<1>1. KeyInv => RetryIsAnswered
  BY DEF KeyInv
<1> QED
  BY <1>1, LedgerInit, LedgerStep, KeyInit, KeyStep, PTL DEF Spec

\* Whatever runs beside it, no transaction writes on the strength of a balance, a
\* spool in use or an unused key that has changed since it looked.
THEOREM ChecksHold == Spec => []ChecksHoldAtTheWrite
  BY MeasuringIsExact, ArchivedIsNeverAdded, SubmissionsAreNeverRefused, PTL
     DEF ChecksHoldAtTheWrite
=============================================================================
