-------------------------- MODULE DerivedWorkProofs --------------------------
(***************************************************************************)
(* Proofs about DerivedWork for any names, contents, rows and kinds of     *)
(* work, and any number of troubles and scans.                             *)
(***************************************************************************)
EXTENDS DerivedWork, TLAPS

File == [content : Content \cup {None}, stamp : Stamp]
Entry == [path : Path \cup {None}, stamp : Stamp, gone : BOOLEAN,
          digest : Content \cup {None},
          analysis : Content \cup {Pending, Failed}, thumb : Content \cup {Pending, Failed}]
Work == [step : {"free", "write", "match", "fold"}, stamp : Stamp,
         row : Row \cup {0}, old : Row \cup {0},
         got : Content \cup {None}, late : BOOLEAN, new : BOOLEAN]

\* No time of writing is yet to come; a file on disk holds something, and so does
\* a handler at work.
Dated ==
  /\ \A p \in Path : disk[p].stamp <= troubles /\ (p \in OnDisk => disk[p].content \in Content)
  /\ \A r \in Row : rows[r].stamp <= troubles
  /\ \A r \in Row, s \in Stamp : s > troubles => store[<<r, s>>] = None
  /\ \A k \in Kind :
       /\ work[k].stamp <= troubles
       /\ ~At(k, "free") => work[k].row \in Row /\ work[k].got \in Content
       /\ At(k, "match") \/ At(k, "fold") => k = "digest"
       /\ At(k, "fold") => work[k].old \in Row

\* What a row was given of content c, unless it came late, or nothing yet.
Tells(r, c) ==
  \A k \in Kind : <<r, k>> \notin overtaken => rows[r][k] \in {c, None, Pending, Failed}

\* A handler carries what it took from content c, unless it came late.
Carries(k, c) == ~At(k, "free") /\ ~work[k].late => work[k].got = c

\* A preview shows what its key names, where the times are those of f.
Shows(f) ==
  /\ \A c \in Content \ spoiled : store[c] \in {c, None}
  /\ \A r \in Row, s \in Stamp : <<r, s>> \notin spoiled => store[<<r, s>>] \in {f[s], None}

\* f[s] is what was written at time s: every file, row, preview and handler that
\* has the time s says so, wherever renames and folds have taken it.
Written(f) ==
  /\ \A p \in OnDisk : disk[p].content = f[disk[p].stamp]
  /\ \A r \in Row : Tells(r, f[rows[r].stamp])
  /\ \A k \in Kind : Carries(k, f[work[k].stamp])
  /\ Shows(f)

OneTimeOneContent == \E f \in [Stamp -> Content] : Written(f)

DerivedInv == TypeOK /\ Dated /\ OneTimeOneContent

LEMMA Types ==
  TypeOK <=>
    /\ disk \in [Path -> File] /\ rows \in [Row -> Entry] /\ store \in [Keys -> Content \cup {None}]
    /\ jobs \subseteq Kind \X Row /\ work \in [Kind -> Work]
    /\ handing \in BOOLEAN /\ overtaken \subseteq Row \X Kind /\ spoiled \subseteq Keys
    /\ troubles \in 0..MaxTrouble /\ scans \in 0..MaxScan
  BY DEF TypeOK, File, Entry, Work

\* The times of writing there are, and the contents nothing has.
LEMMA Constants ==
  /\ 0 \in Stamp /\ Stamp \subseteq Nat /\ None \notin Path /\ None \notin Content
  /\ First \in Content /\ Original \in Path /\ 1 \in Row /\ 0 \notin Row
  /\ NoFile \in File /\ NoRow \in Entry /\ Free \in Work /\ MaxTrouble \in Nat
  /\ Kind \subseteq {"analysis", "thumb", "digest"} /\ "digest" \in Kind
  /\ Pending \notin Content /\ Failed \notin Content
  /\ \A r \in Row, s \in Stamp : <<r, s>> \notin Content
  BY DerivedAssumption DEF DerivedAssumption, Stamp, NoFile, NoRow, Free, File, Entry, Work

\* The fields of the records, one by one.
LEMMA Fields ==
  ASSUME TypeOK
  PROVE  /\ troubles \in Nat /\ troubles \in Stamp
         /\ \A p \in Path : disk[p].stamp \in Stamp /\ disk[p].content \in Content \cup {None}
         /\ \A r \in Row : /\ rows[r].stamp \in Stamp /\ rows[r].path \in Path \cup {None}
                           /\ rows[r].gone \in BOOLEAN /\ rows[r].digest \in Content \cup {None}
                           /\ rows[r].analysis \in Content \cup {Pending, Failed}
                           /\ rows[r].thumb \in Content \cup {Pending, Failed}
         /\ \A k \in Kind : /\ work[k].step \in {"free", "write", "match", "fold"}
                            /\ work[k].row \in Row \cup {0} /\ work[k].stamp \in Stamp
                            /\ work[k].old \in Row \cup {0}
                            /\ work[k].got \in Content \cup {None}
                            /\ work[k].late \in BOOLEAN /\ work[k].new \in BOOLEAN
<1>1. troubles \in Nat /\ troubles \in Stamp
  BY Types, Constants DEF Stamp
<1>2. \A p \in Path : disk[p] \in File
  BY Types
<1>3. \A r \in Row : rows[r] \in Entry
  BY Types
<1>4. \A k \in Kind : work[k] \in Work
  BY Types
<1>5. \A x \in File : x.stamp \in Stamp /\ x.content \in Content \cup {None}
  BY DEF File
<1>6. \A x \in Entry : /\ x.stamp \in Stamp /\ x.path \in Path \cup {None}
                      /\ x.gone \in BOOLEAN /\ x.digest \in Content \cup {None}
                      /\ x.analysis \in Content \cup {Pending, Failed}
                      /\ x.thumb \in Content \cup {Pending, Failed}
  BY DEF Entry
<1>7. \A x \in Work : /\ x.step \in {"free", "write", "match", "fold"}
                     /\ x.row \in Row \cup {0} /\ x.stamp \in Stamp /\ x.old \in Row \cup {0}
                     /\ x.got \in Content \cup {None} /\ x.late \in BOOLEAN /\ x.new \in BOOLEAN
  BY DEF Work
<1> QED
  BY <1>1, <1>2, <1>3, <1>4, <1>5, <1>6, <1>7

LEMMA Times ==
  ASSUME TypeOK, Dated
  PROVE  /\ troubles \in Nat
         /\ \A p \in Path : disk[p].stamp \in Nat /\ disk[p].stamp <= troubles
         /\ \A r \in Row : rows[r].stamp \in Nat /\ rows[r].stamp <= troubles
         /\ \A k \in Kind : work[k].stamp \in Nat /\ work[k].stamp <= troubles
<1>1. \A s \in Stamp : s \in Nat
  BY Constants
<1> QED
  BY <1>1, Fields DEF Dated

THEOREM InitInv == Init => DerivedInv
<1> SUFFICES ASSUME Init PROVE DerivedInv
  OBVIOUS
<1> USE Constants
<1>1. disk \in [Path -> File] /\ \A p \in Path : disk[p].stamp = 0 /\ disk[p].content \in {First, None}
  BY DEF Init, NoFile, File
<1>2. \A p \in OnDisk : disk[p].content = First
  BY <1>1 DEF OnDisk, NoFile, File, Init
<1>3. rows \in [Row -> Entry] /\ \A r \in Row : /\ rows[r].stamp = 0 /\ rows[r].digest = None
                                               /\ rows[r].analysis = Pending /\ rows[r].thumb = Pending
  BY DEF Init, NoRow, Entry
<1>4. \A k \in Kind : work[k] = Free
  BY DEF Init
<1>5. TypeOK
  BY <1>1, <1>3, Types, DerivedAssumption DEF Init, DerivedAssumption
<1>6. \A c \in Content : store[c] = None
  BY DEF Init, Keys
<1>7. \A r \in Row, s \in Stamp : store[<<r, s>>] = None
  BY DEF Init, Keys
<1>8. Dated
  BY <1>1, <1>2, <1>3, <1>4, <1>7 DEF Dated, Init, At, Free
<1>9. \A r \in Row, k \in Kind : rows[r][k] \in {None, Pending}
  BY <1>3
<1>10. Written([s \in Stamp |-> First])
  BY <1>1, <1>2, <1>4, <1>6, <1>7, <1>9 DEF Written, Carries, Tells, Shows, Free, At, OnDisk
<1> QED
  BY <1>5, <1>8, <1>10 DEF DerivedInv, OneTimeOneContent

----------------------------------------------------------------------------
(* The owner of the files. *)

\* After a change a name holds what some name held before, or what is new.
Moved(c) ==
  \A q \in Path : \/ disk'[q] = NoFile \/ \E p \in Path : disk'[q] = disk[p]
                  \/ disk'[q] = [content |-> c, stamp |-> troubles + 1]

LEMMA ChangeMoves ==
  ASSUME TypeOK, Dated, Change
  PROVE  disk' \in [Path -> File] /\ \E c \in Content : Moved(c)
<1> USE Constants
<1>0. troubles + 1 \in Stamp /\ disk \in [Path -> File]
  BY Types DEF Change, Trouble, Stamp
<1>1. PICK p \in OnDisk :
        \/ \E c \in Content \ {disk[p].content} : Save(p, c)
        \/ Delete(p)
        \/ \E q \in Path \ OnDisk : Save(q, disk[p].content)
        \/ \E q \in Path \ {p} : Rename(p, q)
  BY DEF Change
<1>2. p \in Path /\ disk[p] \in File /\ disk[p].content \in Content
  BY <1>0, <1>1 DEF OnDisk, Dated
<1>3. ASSUME NEW q \in Path, NEW c \in Content, Save(q, c)
      PROVE  disk' \in [Path -> File] /\ Moved(c)
  BY <1>0, <1>3 DEF Save, Moved, File
<1>4. CASE Delete(p)
  BY <1>0, <1>2, <1>4 DEF Delete, Moved
<1>5. ASSUME NEW q \in Path, Rename(p, q) PROVE disk' \in [Path -> File] /\ Moved(First)
  BY <1>0, <1>2, <1>5 DEF Rename, Moved
<1> QED
  BY <1>1, <1>2, <1>3, <1>4, <1>5

LEMMA ChangeKeepsInv ==
  ASSUME DerivedInv, Change
  PROVE  DerivedInv'
<1> TypeOK /\ Dated
  BY DEF DerivedInv
<1>1. PICK c \in Content : Moved(c)
  BY ChangeMoves
<1>2. /\ troubles' = troubles + 1 /\ troubles' \in 0..MaxTrouble /\ troubles' \in Stamp
      /\ UNCHANGED <<rows, store, jobs, work, handing, overtaken, spoiled, scans>>
  BY Types, Constants DEF Change, Trouble, Stamp
<1>3. disk \in [Path -> File] /\ disk' \in [Path -> File]
  BY ChangeMoves, Types
<1>4. TypeOK'
  BY <1>2, <1>3, Types DEF TypeOK, File
<1>5. \A q \in Path : /\ disk'[q].stamp <= troubles + 1
                      /\ disk'[q] # NoFile => disk'[q].content \in Content
  <2> SUFFICES ASSUME NEW q \in Path
               PROVE  /\ disk'[q].stamp <= troubles + 1
                      /\ disk'[q] # NoFile => disk'[q].content \in Content
    OBVIOUS
  <2>1. CASE disk'[q] = NoFile
    BY <2>1, Types DEF NoFile
  <2>2. CASE \E p \in Path : disk'[q] = disk[p]
    <3>1. PICK p \in Path : disk'[q] = disk[p]
      BY <2>2
    <3>2. disk[p].stamp \in Nat /\ disk[p].stamp <= troubles /\ troubles \in Nat
      BY Times
    <3>3. disk[p] # NoFile => disk[p].content \in Content
      BY DEF Dated, OnDisk
    <3> QED
      BY <3>1, <3>2, <3>3
  <2>3. CASE disk'[q] = [content |-> c, stamp |-> troubles + 1]
    BY <2>3, Types
  <2> QED
    BY <1>1, <2>1, <2>2, <2>3 DEF Moved
<1>6. Dated'
  <2>1. \A r \in Row : rows'[r].stamp <= troubles'
    BY <1>2, Times
  <2>2. \A k \in Kind : work'[k].stamp <= troubles'
    BY <1>2, Times
  <2>3. \A p \in Path : disk'[p].stamp <= troubles'
    BY <1>2, <1>5
  <2>4. \A r \in Row, s \in Stamp : s > troubles' => store'[<<r, s>>] = None
    <3>1. \A s \in Stamp : s \in Nat /\ troubles \in Nat
      BY Times, Constants
    <3> QED
      BY <1>2, <3>1 DEF Dated
  <2> QED
    BY <1>2, <1>5, <2>1, <2>2, <2>3, <2>4 DEF Dated, OnDisk, At
<1>7. PICK f \in [Stamp -> Content] : Written(f)
  BY DEF DerivedInv, OneTimeOneContent
<1>8. PICK g \in [Stamp -> Content] :
        (\A s \in Stamp : s <= troubles => g[s] = f[s]) /\ g[troubles + 1] = c
  <2>1. [f EXCEPT ![troubles + 1] = c] \in [Stamp -> Content]
    OBVIOUS
  <2>2. \A s \in Stamp : s <= troubles => s # troubles + 1
    BY Types
  <2> QED
    BY <1>2, <2>1, <2>2
<1>10. \A q \in Path : disk'[q] # NoFile => disk'[q].content = g[disk'[q].stamp]
  <2> SUFFICES ASSUME NEW q \in Path, disk'[q] # NoFile PROVE disk'[q].content = g[disk'[q].stamp]
    OBVIOUS
  <2>1. CASE disk'[q] = [content |-> c, stamp |-> troubles + 1]
    BY <2>1, <1>8
  <2>2. ASSUME NEW p \in Path, disk'[q] = disk[p] PROVE disk'[q].content = g[disk'[q].stamp]
    <3>1. disk[p] # NoFile /\ disk[p].stamp \in Stamp /\ disk[p].stamp <= troubles
      BY <1>3, <2>2 DEF File, Dated
    <3> QED
      BY <3>1, <1>7, <1>8, <2>2 DEF Written, OnDisk
  <2> QED
    BY <1>1, <2>1, <2>2 DEF Moved
<1>11. \A r \in Row : g[rows[r].stamp] = f[rows[r].stamp]
  BY <1>8, Fields, Times
<1>12. \A k \in Kind : g[work[k].stamp] = f[work[k].stamp]
  BY <1>8, Fields, Times
<1>13. Shows(g)'
  <2>1. \A s \in Stamp : s <= troubles \/ s > troubles
    <3>1. \A s \in Stamp : s \in Nat
      BY Constants
    <3>2. troubles \in Nat
      BY Times
    <3> QED
      BY <3>1, <3>2
  <2>2. Shows(f) /\ \A r \in Row, s \in Stamp : s > troubles => store[<<r, s>>] = None
    BY <1>7 DEF Written, Dated
  <2> QED
    BY <1>2, <1>8, <2>1, <2>2 DEF Shows
<1>14. Written(g)'
  BY <1>2, <1>7, <1>10, <1>11, <1>12, <1>13 DEF Written, Tells, Carries, At, OnDisk, Exists
<1>15. OneTimeOneContent'
  BY <1>14 DEF OneTimeOneContent
<1> QED
  BY <1>4, <1>6, <1>15 DEF DerivedInv

----------------------------------------------------------------------------
(* A scan: a row is made anew from what is on disk, or keeps what it holds. *)

Anew(r) == \E p \in OnDisk : rows'[r] = Fresh(p)
Stays(r) == /\ \E g \in BOOLEAN : rows'[r] = [rows[r] EXCEPT !.gone = g]
            /\ \A k \in Kind : <<r, k>> \in overtaken' <=> <<r, k>> \in overtaken

LEMMA ScanRows ==
  ASSUME TypeOK, Scan
  PROVE  rows' \in [Row -> Entry] /\ overtaken' \subseteq overtaken /\ \A r \in Row : Anew(r) \/ Stays(r)
<1> DEFINE known == {r \in Row : rows[r].path \in OnDisk}
           new == OnDisk \ {rows[r].path : r \in known}
<1>1. PICK born \in [new -> Unborn] :
        /\ rows' = [r \in Row |->
               IF r \in known THEN Refreshed(r)
               ELSE IF Exists(r) THEN [rows[r] EXCEPT !.gone = TRUE]
               ELSE IF \E p \in new : born[p] = r THEN Fresh(CHOOSE p \in new : born[p] = r)
               ELSE rows[r]]
        /\ overtaken' = overtaken \ ({r \in known : Changed(r)} \X Kind)
  BY DEF Scan
<1>2. \A p \in OnDisk : Fresh(p) \in Entry
  BY Fields, Constants DEF Fresh, Entry, OnDisk
<1>3. \A r \in Row : rows[r] \in Entry
  BY Types
<1>4. \A r \in Row, g \in BOOLEAN : [rows[r] EXCEPT !.gone = g] \in Entry
  BY <1>3 DEF Entry
<1>5. \A r \in Row : rows[r] = [rows[r] EXCEPT !.gone = rows[r].gone]
  BY <1>3 DEF Entry
<1>6. ASSUME NEW r \in Row PROVE Anew(r) \/ Stays(r)
  <2>1. CASE r \in known /\ Changed(r)
    BY <1>1, <2>1 DEF Refreshed, Anew
  <2>2. CASE r \in known /\ ~Changed(r)
    BY <1>1, <2>2 DEF Refreshed, Stays
  <2>3. CASE r \notin known /\ Exists(r)
    BY <1>1, <2>3 DEF Stays
  <2>4. CASE r \notin known /\ ~Exists(r) /\ \E p \in new : born[p] = r
    BY <1>1, <2>4 DEF Anew
  <2>5. CASE r \notin known /\ ~Exists(r) /\ ~\E p \in new : born[p] = r
    <3>1. rows'[r] = rows[r] /\ rows[r].gone \in BOOLEAN
      BY <1>1, <2>5, Fields
    <3>2. \A k \in Kind : <<r, k>> \in overtaken' <=> <<r, k>> \in overtaken
      BY <1>1, <2>5
    <3> QED
      BY <1>5, <3>1, <3>2 DEF Stays
  <2> QED
    BY <2>1, <2>2, <2>3, <2>4, <2>5
<1>7. \A r \in Row : rows'[r] \in Entry
  BY <1>2, <1>4, <1>6 DEF Anew, Stays
<1>8. rows' \in [Row -> Entry]
  <2> HIDE DEF known, new
  <2> QED
    BY <1>1, <1>7
<1> QED
  BY <1>1, <1>6, <1>8

LEMMA ScanKeepsInv ==
  ASSUME DerivedInv, Scan
  PROVE  DerivedInv'
<1> TypeOK /\ Dated
  BY DEF DerivedInv
<1>1. rows' \in [Row -> Entry] /\ overtaken' \subseteq overtaken /\ \A r \in Row : Anew(r) \/ Stays(r)
  BY ScanRows
<1>2. handing' = TRUE /\ scans' = scans + 1 /\ scans < MaxScan
        /\ UNCHANGED <<disk, store, jobs, work, spoiled, troubles>>
  BY DEF Scan
<1>3. TypeOK'
  <2>1. scans' \in 0..MaxScan
    BY <1>2, Types, DerivedAssumption DEF DerivedAssumption
  <2> QED
    BY <1>1, <1>2, <2>1, Types DEF TypeOK, Entry
<1>4. ASSUME NEW r \in Row, NEW p \in OnDisk, rows'[r] = Fresh(p)
      PROVE  rows'[r].stamp = disk[p].stamp /\ \A k \in Kind : rows'[r][k] \in {None, Pending}
  BY <1>4, Constants DEF Fresh
<1>5. ASSUME NEW r \in Row, Stays(r)
      PROVE  /\ rows'[r].path = rows[r].path /\ rows'[r].stamp = rows[r].stamp
             /\ \A k \in Kind : rows'[r][k] = rows[r][k]
  <2>1. rows[r] \in Entry
    BY Types
  <2> QED
    BY <1>5, <2>1, Constants DEF Stays, Entry
<1>6. Dated'
  <2>1. \A r \in Row : rows'[r].stamp <= troubles
    BY <1>1, <1>4, <1>5, Times DEF Anew, OnDisk
  <2> QED
    BY <1>2, <2>1 DEF Dated, OnDisk, At
<1>7. PICK f \in [Stamp -> Content] : Written(f)
  BY DEF DerivedInv, OneTimeOneContent
<1>8. ASSUME NEW r \in Row PROVE Tells(r, f[rows[r].stamp])'
  <2>1. CASE Anew(r)
    BY <1>4, <2>1 DEF Anew, Tells
  <2>2. CASE Stays(r)
    <3>1. \A k \in Kind : <<r, k>> \in overtaken' <=> <<r, k>> \in overtaken
      BY <2>2 DEF Stays
    <3>2. Tells(r, f[rows[r].stamp])
      BY <1>7 DEF Written
    <3> QED
      BY <1>2, <1>5, <2>2, <3>1, <3>2 DEF Tells
  <2> QED
    BY <1>1, <2>1, <2>2
<1>9. Written(f)'
  BY <1>2, <1>7, <1>8 DEF Written, Carries, Shows, At, OnDisk
<1>10. OneTimeOneContent'
  BY <1>9 DEF OneTimeOneContent
<1> QED
  BY <1>3, <1>6, <1>10 DEF DerivedInv

----------------------------------------------------------------------------
(* Steps that hand out work, and those of a handler. *)

LEMMA HandingKeepsInv ==
  ASSUME DerivedInv, UNCHANGED <<disk, rows, store, work, overtaken, spoiled, troubles, scans>>,
         handing' \in BOOLEAN, jobs' \subseteq Kind \X Row
  PROVE  DerivedInv'
<1>1. TypeOK'
  BY DEF DerivedInv, TypeOK
<1>2. Dated'
  BY DEF DerivedInv, Dated, OnDisk, At
<1>3. PICK f \in [Stamp -> Content] : Written(f)
  BY DEF DerivedInv, OneTimeOneContent
<1>4. Written(f)'
  BY <1>3 DEF Written, Tells, Carries, Shows, OnDisk, At
<1> QED
  BY <1>1, <1>2, <1>4 DEF DerivedInv, OneTimeOneContent

LEMMA Later ==
  ASSUME TypeOK, Trouble \/ UNCHANGED <<troubles, scans>>
  PROVE  troubles' \in 0..MaxTrouble /\ troubles' \in Nat /\ troubles <= troubles' /\ scans' = scans
<1>1. troubles \in 0..MaxTrouble /\ MaxTrouble \in Nat
  BY Types, Constants
<1> QED
  BY <1>1 DEF Trouble

\* What a row holds of one kind is replaced; the rest of it stays.
LEMMA Updating ==
  ASSUME TypeOK, NEW k \in Kind, NEW r \in Row, NEW v,
         v \in Content \/ (v = Failed /\ k # "digest"), Update(k, r, v)
  PROVE  /\ rows' \in [Row -> Entry]
         /\ \A q \in Row :
              /\ rows'[q].path = rows[q].path /\ rows'[q].stamp = rows[q].stamp
              /\ \A j \in Kind : rows'[q][j] = IF Exists(r) /\ q = r /\ j = k THEN v ELSE rows[q][j]
<1>1. k \in {"analysis", "thumb", "digest"}
  BY DerivedAssumption DEF DerivedAssumption
<1>2. rows \in [Row -> Entry] /\ rows[r] \in Entry
  BY Types
<1>3. CASE ~Exists(r)
  BY <1>2, <1>3 DEF Update
<1>4. CASE Exists(r)
  <2>1. PICK e : e = [rows[r] EXCEPT ![k] = v]
    OBVIOUS
  <2>2. rows' = [rows EXCEPT ![r] = e]
    BY <1>2, <1>4, <2>1 DEF Update
  <2>3. CASE k = "analysis"
    <3>1. e = [rows[r] EXCEPT !.analysis = v]
      BY <2>1, <2>3
    <3>2. /\ e \in Entry /\ e.path = rows[r].path /\ e.stamp = rows[r].stamp
          /\ \A j \in Kind : e[j] = IF j = k THEN v ELSE rows[r][j]
      BY <1>2, <3>1, <2>3, Constants DEF Entry
    <3> QED
      BY <1>2, <1>4, <2>2, <2>3, <3>2
  <2>4. CASE k = "thumb"
    <3>1. e = [rows[r] EXCEPT !.thumb = v]
      BY <2>1, <2>4
    <3>2. /\ e \in Entry /\ e.path = rows[r].path /\ e.stamp = rows[r].stamp
          /\ \A j \in Kind : e[j] = IF j = k THEN v ELSE rows[r][j]
      BY <1>2, <3>1, <2>4, Constants DEF Entry
    <3> QED
      BY <1>2, <1>4, <2>2, <2>4, <3>2
  <2>5. CASE k = "digest"
    <3>1. e = [rows[r] EXCEPT !.digest = v]
      BY <2>1, <2>5
    <3>2. /\ e \in Entry /\ e.path = rows[r].path /\ e.stamp = rows[r].stamp
          /\ \A j \in Kind : e[j] = IF j = k THEN v ELSE rows[r][j]
      BY <1>2, <3>1, <2>5, Constants DEF Entry
    <3> QED
      BY <1>2, <1>4, <2>2, <2>5, <3>2
  <2> QED
    BY <1>1, <2>3, <2>4, <2>5
<1> QED
  BY <1>3, <1>4

LEMMA FailKeepsInv ==
  ASSUME DerivedInv, NEW k \in Kind, NEW r \in Row, Fail(k, r)
  PROVE  DerivedInv'
<1> TypeOK /\ Dated
  BY DEF DerivedInv
<1>1. /\ UNCHANGED <<disk, store, work, handing, overtaken, spoiled, scans>> /\ jobs' \subseteq Kind \X Row
      /\ troubles' \in 0..MaxTrouble /\ troubles' \in Nat /\ troubles <= troubles'
  <2>1. jobs' \subseteq jobs /\ UNCHANGED <<disk, store, work, handing, overtaken, spoiled>>
    BY DEF Fail, Job
  <2>2. Trouble \/ UNCHANGED <<troubles, scans>>
    BY DEF Fail
  <2> QED
    BY <2>1, <2>2, Later, Types
<1>2. /\ rows' \in [Row -> Entry]
      /\ \A q \in Row : /\ rows'[q].path = rows[q].path /\ rows'[q].stamp = rows[q].stamp
                        /\ \A j \in Kind : rows'[q][j] \in {rows[q][j], Failed}
  <2>1. CASE k = "digest"
    BY <2>1, Types DEF Fail
  <2>2. CASE k # "digest"
    <3>1. Update(k, r, Failed)
      BY <2>2 DEF Fail
    <3> QED
      BY <2>2, <3>1, Updating
  <2> QED
    BY <2>1, <2>2
<1>3. TypeOK'
  BY <1>1, <1>2, Types DEF TypeOK, Entry
<1>4. Dated'
  <2>1. \A s \in Stamp : s > troubles' => s > troubles
    <3>1. \A s \in Stamp : s \in Nat
      BY Constants
    <3>2. troubles \in Nat
      BY Times
    <3> QED
      BY <1>1, <3>1, <3>2
  <2> QED
    BY <1>1, <1>2, <2>1, Times DEF Dated, OnDisk, At
<1>5. PICK f \in [Stamp -> Content] : Written(f)
  BY DEF DerivedInv, OneTimeOneContent
<1>6. Written(f)'
  BY <1>1, <1>2, <1>5 DEF Written, Tells, Carries, Shows, OnDisk, At
<1> QED
  BY <1>3, <1>4, <1>6 DEF DerivedInv, OneTimeOneContent

LEMMA CrashKeepsInv ==
  ASSUME DerivedInv, Crash
  PROVE  DerivedInv'
<1> TypeOK /\ Dated
  BY DEF DerivedInv
<1>1. /\ UNCHANGED <<disk, rows, store, overtaken, spoiled, scans>> /\ handing' = FALSE
      /\ \A k \in Kind : work'[k] = Free
      /\ troubles' \in 0..MaxTrouble /\ troubles' \in Nat /\ troubles <= troubles'
  <2>1. Trouble /\ UNCHANGED <<disk, rows, store, overtaken, spoiled>> /\ handing' = FALSE
    BY DEF Crash
  <2>2. \A k \in Kind : work'[k] = Free
    BY DEF Crash
  <2> QED
    BY <2>1, <2>2, Later
<1>2. jobs' \subseteq Kind \X Row
  <2>1. \A k \in Kind : ~At(k, "free") => work[k].row \in Row
    BY DEF Dated
  <2> QED
    BY <2>1, Types DEF Crash
<1>3. work' \in [Kind -> Work]
  BY Constants DEF Crash
<1>4. TypeOK'
  BY <1>1, <1>2, <1>3, Types DEF TypeOK, Work
<1>5. Dated'
  <2>1. \A s \in Stamp : s > troubles' => s > troubles
    BY <1>1, Times, Constants
  <2> QED
    BY <1>1, <2>1, Times DEF Dated, OnDisk, At, Free
<1>6. PICK f \in [Stamp -> Content] : Written(f)
  BY DEF DerivedInv, OneTimeOneContent
<1>7. Written(f)'
  BY <1>1, <1>6 DEF Written, Tells, Carries, Shows, OnDisk, At, Free
<1> QED
  BY <1>4, <1>5, <1>7 DEF DerivedInv, OneTimeOneContent

\* A row's key names what was written at its time, if its digest is sound.
LEMMA Named ==
  ASSUME TypeOK, NEW f \in [Stamp -> Content], NEW r \in Row, Tells(r, f[rows[r].stamp])
  PROVE  /\ Key(r) \in Keys
         /\ rows[r].digest = None => Key(r) = <<r, rows[r].stamp>>
         /\ rows[r].digest # None => Key(r) = rows[r].digest /\ Key(r) \in Content
         /\ rows[r].digest # None /\ <<r, "digest">> \notin overtaken => Key(r) = f[rows[r].stamp]
<1>1. rows[r].digest \in Content \cup {None} /\ rows[r].stamp \in Stamp
  BY Fields
<1>2. <<r, "digest">> \notin overtaken => rows[r]["digest"] \in {f[rows[r].stamp], None, Pending, Failed}
  BY Constants DEF Tells
<1>3. rows[r]["digest"] = rows[r].digest
  OBVIOUS
<1> QED
  BY <1>1, <1>2, <1>3, Constants DEF Key, Keys

LEMMA ReadKeepsInv ==
  ASSUME DerivedInv, NEW k \in Kind, NEW r \in Row, Read(k, r)
  PROVE  DerivedInv'
<1> TypeOK /\ Dated
  BY DEF DerivedInv
<1> DEFINE c == disk[rows[r].path].content
           misled == <<r, "digest">> \in overtaken
           rendered == IF k = "thumb" /\ ~Kept(k, r) THEN {Key(r)} ELSE {}
<1>1. PICK w : w = [step |-> "write", row |-> r, stamp |-> rows[r].stamp, old |-> 0,
                    new |-> rows[r].digest = None,
                    got |-> IF Kept(k, r) THEN store[Key(r)] ELSE c,
                    late |-> IF Kept(k, r) THEN misled \/ Key(r) \in spoiled ELSE Changed(r)]
  OBVIOUS
<1>2. /\ work' = [work EXCEPT ![k] = w] /\ jobs' \subseteq jobs
      /\ store' = [key \in Keys |-> IF key \in rendered THEN c ELSE store[key]]
      /\ spoiled' = IF misled \/ Changed(r) THEN spoiled \cup rendered ELSE spoiled
      /\ UNCHANGED <<disk, rows, handing, overtaken, troubles, scans>>
  BY <1>1 DEF Read, Job
<1>3. /\ w.step = "write" /\ w.row = r /\ w.stamp = rows[r].stamp
      /\ Kept(k, r) => w.got = store[Key(r)] /\ (w.late <=> misled \/ Key(r) \in spoiled)
      /\ ~Kept(k, r) => w.got = c /\ (w.late <=> Changed(r))
  BY <1>1
<1>4. ~Kept(k, r) => rows[r].path \in OnDisk /\ c \in Content
  BY DEF Read, Dated, OnDisk
<1>5. PICK f \in [Stamp -> Content] : Written(f)
  BY DEF DerivedInv, OneTimeOneContent
<1>6. Tells(r, f[rows[r].stamp]) /\ rows[r].stamp \in Stamp /\ rows[r].stamp <= troubles
  BY <1>5, Fields, Times DEF Written, Read, Live
<1>7. /\ Key(r) \in Keys
      /\ rows[r].digest = None => Key(r) = <<r, rows[r].stamp>>
      /\ rows[r].digest # None => Key(r) = rows[r].digest /\ Key(r) \in Content
      /\ rows[r].digest # None /\ ~misled => Key(r) = f[rows[r].stamp]
  BY <1>6, Named
<1>8. Kept(k, r) => k = "thumb" /\ store[Key(r)] \in Content /\ store[Key(r)] # None
  BY <1>7, Types DEF Kept
<1>9. w.got \in Content
  BY <1>3, <1>4, <1>8
<1>10. w \in Work
  <2>1. (rows[r].digest = None) \in BOOLEAN /\ misled \in BOOLEAN /\ Changed(r) \in BOOLEAN
        /\ (misled \/ Key(r) \in spoiled) \in BOOLEAN
    BY DEF Changed
  <2>2. (IF Kept(k, r) THEN store[Key(r)] ELSE c) \in Content
    BY <1>1, <1>9
  <2>3. (IF Kept(k, r) THEN misled \/ Key(r) \in spoiled ELSE Changed(r)) \in BOOLEAN
    BY <2>1
  <2> HIDE DEF misled, c
  <2> QED
    BY <1>1, <1>6, <2>1, <2>2, <2>3 DEF Work
<1>11. rendered \subseteq Keys /\ (rendered # {} => rendered = {Key(r)} /\ ~Kept(k, r))
  BY <1>7
<1>12. store' \in [Keys -> Content \cup {None}]
  <2> HIDE DEF rendered, c
  <2> QED
    BY <1>2, <1>4, <1>11, Types
<1>13. work' \in [Kind -> Work] /\ work'[k] = w /\ \A j \in Kind \ {k} : work'[j] = work[j]
  BY <1>2, <1>10, Types
<1>14. spoiled' \subseteq Keys /\ spoiled \subseteq spoiled'
  BY <1>2, <1>11, Types
<1>15. TypeOK'
  BY <1>2, <1>12, <1>13, <1>14, Types DEF TypeOK, Work
<1>16. Dated'
  <2>1. w.stamp <= troubles /\ w.row \in Row
    BY <1>3, <1>6
  <2>2. ASSUME NEW q \in Row, NEW s \in Stamp, s > troubles PROVE store'[<<q, s>>] = None
    <3>1. <<q, s>> # Key(r)
      <4>1. s # rows[r].stamp
        BY <1>6, <2>2, Times, Constants
      <4> QED
        BY <1>7, <4>1, Constants
    <3>2. <<q, s>> \in Keys /\ store[<<q, s>>] = None
      BY <2>2 DEF Keys, Dated
    <3> QED
      BY <1>2, <3>1, <3>2
  <2> QED
    BY <1>2, <1>3, <1>9, <1>13, <2>1, <2>2, Times DEF Dated, OnDisk, At
<1>17. ~Kept(k, r) /\ ~Changed(r) => c = f[rows[r].stamp]
  BY <1>4, <1>5 DEF Written, Changed
<1>18. Shows(f)'
  <2>1. ASSUME NEW x \in Content, x \notin spoiled' PROVE store'[x] \in {x, None}
    <3>1. x \in Keys /\ store[x] \in {x, None}
      BY <1>5, <1>14, <2>1 DEF Written, Shows, Keys
    <3>2. CASE x \notin rendered
      BY <1>2, <3>1, <3>2
    <3>3. CASE x \in rendered
      <4>1. x = Key(r) /\ ~Kept(k, r) /\ ~misled /\ ~Changed(r)
        BY <1>2, <1>11, <2>1, <3>3
      <4>2. rows[r].digest # None
        BY <1>6, <1>7, <4>1, Constants
      <4>3. store'[x] = c
        BY <1>2, <3>1, <3>3
      <4> QED
        BY <1>7, <1>17, <4>1, <4>2, <4>3
    <3> QED
      BY <3>2, <3>3
  <2>2. ASSUME NEW q \in Row, NEW s \in Stamp, <<q, s>> \notin spoiled'
        PROVE  store'[<<q, s>>] \in {f[s], None}
    <3>1. <<q, s>> \in Keys /\ store[<<q, s>>] \in {f[s], None}
      BY <1>5, <1>14, <2>2 DEF Written, Shows, Keys
    <3>2. CASE <<q, s>> \notin rendered
      BY <1>2, <3>1, <3>2
    <3>3. CASE <<q, s>> \in rendered
      <4>1. <<q, s>> = Key(r) /\ ~Kept(k, r) /\ ~Changed(r)
        BY <1>2, <1>11, <2>2, <3>3
      <4>2. rows[r].digest = None
        BY <1>7, <4>1, Constants
      <4>3. s = rows[r].stamp
        BY <1>7, <4>1, <4>2
      <4>4. store'[<<q, s>>] = c
        BY <1>2, <3>1, <3>3
      <4> QED
        BY <1>17, <4>1, <4>3, <4>4
    <3> QED
      BY <3>2, <3>3
  <2> QED
    BY <2>1, <2>2 DEF Shows
<1>19. ASSUME ~w.late PROVE w.got = f[w.stamp]
  <2>1. CASE Kept(k, r)
    <3>1. Key(r) \notin spoiled /\ ~misled /\ w.got = store[Key(r)]
      BY <1>3, <1>19, <2>1
    <3>2. CASE rows[r].digest = None
      BY <1>3, <1>5, <1>6, <1>7, <1>8, <2>1, <3>1, <3>2 DEF Written, Shows
    <3>3. CASE rows[r].digest # None
      BY <1>3, <1>5, <1>7, <1>8, <2>1, <3>1, <3>3 DEF Written, Shows
    <3> QED
      BY <3>2, <3>3
  <2>2. CASE ~Kept(k, r)
    BY <1>3, <1>17, <1>19, <2>2
  <2> QED
    BY <2>1, <2>2
<1>20. ASSUME NEW j \in Kind PROVE Carries(j, f[work[j].stamp])'
  <2>1. CASE j # k
    BY <1>5, <1>13, <2>1 DEF Written, Carries, At
  <2>2. CASE j = k
    BY <1>13, <1>19, <2>2 DEF Carries
  <2> QED
    BY <2>1, <2>2
<1>21. Written(f)'
  BY <1>2, <1>5, <1>18, <1>20 DEF Written, Tells, OnDisk
<1> QED
  BY <1>15, <1>16, <1>21 DEF DerivedInv, OneTimeOneContent

LEMMA WriteKeepsInv ==
  ASSUME DerivedInv, NEW k \in Kind, Write(k)
  PROVE  DerivedInv'
<1> TypeOK /\ Dated
  BY DEF DerivedInv
<1>1. PICK w : w = work[k]
  OBVIOUS
<1>2. /\ w.step = "write" /\ w.row \in Row /\ w.got \in Content /\ w \in Work
      /\ Update(k, w.row, w.got)
      /\ overtaken' = IF ~w.late /\ Exists(w.row) /\ rows[w.row].stamp = w.stamp
                      THEN overtaken \ {<<w.row, k>>} ELSE overtaken \cup {<<w.row, k>>}
      /\ UNCHANGED <<disk, store, jobs, handing, spoiled, troubles, scans>>
  <2>1. w \in Work
    BY <1>1, Types
  <2> QED
    BY <1>1, <2>1 DEF Write, At, Dated
<1>3. /\ rows' \in [Row -> Entry]
      /\ \A q \in Row :
           /\ rows'[q].path = rows[q].path /\ rows'[q].stamp = rows[q].stamp
           /\ \A j \in Kind :
                rows'[q][j] = IF Exists(w.row) /\ q = w.row /\ j = k THEN w.got ELSE rows[q][j]
  BY <1>2, Updating
<1>4. PICK v \in Work : /\ work' = [work EXCEPT ![k] = v]
                        /\ \/ v = Free
                           \/ /\ k = "digest" /\ v.step = "match" /\ v.row = w.row
                              /\ v.stamp = w.stamp /\ v.got = w.got /\ v.late = w.late
  <2>1. CASE k = "digest" /\ w.new
    <3>1. work' = [work EXCEPT ![k] = [w EXCEPT !.step = "match"]]
      BY <1>1, <2>1, Types DEF Write
    <3>2. [w EXCEPT !.step = "match"] \in Work
      BY <1>2 DEF Work
    <3>3. \A x \in Work : LET y == [x EXCEPT !.step = "match"]
                          IN /\ y.step = "match" /\ y.row = x.row /\ y.stamp = x.stamp
                             /\ y.got = x.got /\ y.late = x.late
      BY DEF Work
    <3> QED
      BY <1>2, <2>1, <3>1, <3>2, <3>3
  <2>2. CASE ~(k = "digest" /\ w.new)
    BY <1>1, <2>2, Constants DEF Write, Finish
  <2> QED
    BY <2>1, <2>2
<1>5. work' \in [Kind -> Work] /\ work'[k] = v /\ \A j \in Kind \ {k} : work'[j] = work[j]
  BY <1>4, Types
<1>6. overtaken' \subseteq Row \X Kind
  BY <1>2, Types
<1>7. TypeOK'
  BY <1>2, <1>3, <1>5, <1>6, Types DEF TypeOK, Work, Entry
<1>8. Dated'
  <2>1. /\ v.stamp <= troubles /\ (v.step # "free" => v.row \in Row /\ v.got \in Content)
        /\ (v.step = "match" => k = "digest") /\ v.step # "fold"
    BY <1>1, <1>2, <1>4, Times DEF Free
  <2> QED
    BY <1>2, <1>3, <1>5, <2>1, Times DEF Dated, OnDisk, At
<1>9. PICK f \in [Stamp -> Content] : Written(f)
  BY DEF DerivedInv, OneTimeOneContent
<1>10. ~w.late => w.got = f[w.stamp]
  BY <1>1, <1>2, <1>9 DEF Written, Carries, At
<1>11. ASSUME NEW q \in Row, NEW j \in Kind, <<q, j>> \notin overtaken'
       PROVE  rows'[q][j] \in {f[rows'[q].stamp], None, Pending, Failed}
  <2>1. Tells(q, f[rows[q].stamp])
    BY <1>9 DEF Written
  <2>2. CASE q = w.row /\ j = k
    <3>1. ~w.late /\ Exists(w.row) /\ rows[q].stamp = w.stamp
      BY <1>2, <1>11, <2>2
    <3> QED
      BY <1>3, <1>10, <2>1, <2>2, <3>1
  <2>3. CASE ~(q = w.row /\ j = k)
    <3>1. <<q, j>> \notin overtaken
      BY <1>2, <1>11, <2>3
    <3> QED
      BY <1>3, <2>1, <2>3, <3>1 DEF Tells
  <2> QED
    BY <2>2, <2>3
<1>12. ASSUME NEW j \in Kind PROVE Carries(j, f[work[j].stamp])'
  <2>1. CASE j # k
    BY <1>2, <1>5, <1>9, <2>1 DEF Written, Carries, At
  <2>2. CASE j = k
    BY <1>4, <1>5, <1>10, <2>2 DEF Carries, At, Free
  <2> QED
    BY <2>1, <2>2
<1>13. Written(f)'
  <2>1. \A q \in Row : Tells(q, f[rows[q].stamp])'
    BY <1>11 DEF Tells
  <2> QED
    BY <1>2, <1>9, <1>12, <2>1 DEF Written, Shows, OnDisk
<1> QED
  BY <1>7, <1>8, <1>13 DEF DerivedInv, OneTimeOneContent

LEMMA MatchKeepsInv ==
  ASSUME DerivedInv, NEW k \in Kind, Match(k)
  PROVE  DerivedInv'
<1> TypeOK /\ Dated
  BY DEF DerivedInv
<1>1. PICK w \in Work : w = work[k]
  BY Types
<1>2. /\ w.step = "match" /\ w.row \in Row /\ w.got \in Content /\ k = "digest"
      /\ UNCHANGED <<disk, rows, store, jobs, handing, overtaken, spoiled, troubles, scans>>
  BY <1>1 DEF Match, At, Dated
<1>3. PICK v \in Work : /\ work' = [work EXCEPT ![k] = v]
                        /\ \/ v = Free
                           \/ /\ v.step = "fold" /\ v.row = w.row /\ v.stamp = w.stamp
                              /\ v.got = w.got /\ v.late = w.late /\ v.old \in Row
  <2>1. CASE Finish(k)
    BY <2>1, Constants DEF Finish
  <2>2. ASSUME NEW old \in Row, work' = [work EXCEPT ![k].step = "fold", ![k].old = old]
        PROVE  \E v \in Work : /\ work' = [work EXCEPT ![k] = v]
                               /\ v.step = "fold" /\ v.row = w.row /\ v.stamp = w.stamp
                               /\ v.got = w.got /\ v.late = w.late /\ v.old \in Row
    <3>1. PICK v : v = [[w EXCEPT !.step = "fold"] EXCEPT !.old = old]
      OBVIOUS
    <3>2. /\ v \in Work /\ v.step = "fold" /\ v.row = w.row /\ v.stamp = w.stamp
          /\ v.got = w.got /\ v.late = w.late /\ v.old = old
      BY <1>1, <3>1 DEF Work
    <3>3. work' = [work EXCEPT ![k] = v]
      BY <1>1, <2>2, <3>1, Types
    <3> QED
      BY <3>2, <3>3
  <2> QED
    BY <2>1, <2>2 DEF Match
<1>4. work' \in [Kind -> Work] /\ work'[k] = v /\ \A j \in Kind \ {k} : work'[j] = work[j]
  BY <1>3, Types
<1>5. TypeOK'
  BY <1>2, <1>4, Types DEF TypeOK, Work
<1>6. Dated'
  <2>1. /\ v.stamp <= troubles /\ v.step # "match"
        /\ (v.step # "free" => v.row \in Row /\ v.got \in Content)
        /\ (v.step = "fold" => v.old \in Row)
    BY <1>1, <1>2, <1>3, Times DEF Free
  <2> QED
    BY <1>2, <1>4, <2>1, Times DEF Dated, OnDisk, At
<1>7. PICK f \in [Stamp -> Content] : Written(f)
  BY DEF DerivedInv, OneTimeOneContent
<1>8. ASSUME NEW j \in Kind PROVE Carries(j, f[work[j].stamp])'
  <2>1. CASE j # k
    BY <1>4, <1>7, <2>1 DEF Written, Carries, At
  <2>2. CASE j = k
    BY <1>1, <1>2, <1>3, <1>4, <1>7, <2>2 DEF Written, Carries, At, Free
  <2> QED
    BY <2>1, <2>2
<1>9. Written(f)'
  BY <1>2, <1>7, <1>8 DEF Written, Tells, Shows, OnDisk
<1> QED
  BY <1>5, <1>6, <1>9 DEF DerivedInv, OneTimeOneContent

LEMMA FoldKeepsInv ==
  ASSUME DerivedInv, NEW k \in Kind, Fold(k)
  PROVE  DerivedInv'
<1> TypeOK /\ Dated
  BY DEF DerivedInv
<1>1. PICK w : w = work[k]
  OBVIOUS
<1>2. /\ w.step = "fold" /\ w.row \in Row /\ w.old \in Row /\ w.got \in Content /\ w.got # None
      /\ w.stamp \in Stamp /\ w.stamp <= troubles
  <2>1. w.step = "fold" /\ w.row \in Row /\ w.old \in Row /\ w.got \in Content
    BY <1>1 DEF Fold, At, Dated
  <2>2. w.stamp \in Stamp /\ w.stamp <= troubles
    BY <1>1, Fields, Times
  <2> QED
    BY <2>1, <2>2, Constants
<1>3. /\ rows' = [r \in Row |->
                   IF r = w.row THEN Folded
                   ELSE IF r = w.old
                   THEN [rows[r] EXCEPT !.path = rows[w.row].path, !.stamp = w.stamp, !.gone = FALSE]
                   ELSE rows[r]]
      /\ overtaken' = IF w.late \/ rows[w.old].digest # w.got \/ <<w.old, "digest">> \in overtaken
                      THEN overtaken \cup ({w.old} \X Kind) ELSE overtaken
      /\ work' = [work EXCEPT ![k] = Free]
      /\ UNCHANGED <<disk, store, jobs, handing, spoiled, troubles, scans>>
  BY <1>1 DEF Fold, Finish
\* A row stays, is the one folded away, or takes the newer one's name.
<1> DEFINE Same(r) == rows'[r] = rows[r]
           Away(r) == rows'[r] = Folded
           Takes(r) == /\ r = w.old
                       /\ rows'[r] \in Entry /\ rows'[r].stamp = w.stamp
                       /\ \A j \in Kind : rows'[r][j] = rows[r][j]
<1>4. ASSUME NEW r \in Row PROVE Same(r) \/ Away(r) \/ Takes(r)
  <2>1. CASE r # w.row /\ r # w.old
    BY <1>3, <2>1
  <2>2. CASE r = w.row
    BY <1>3, <2>2
  <2>3. CASE r # w.row /\ r = w.old
    <3>1. PICK n \in Path \cup {None} : n = rows[w.row].path
      BY <1>2, Fields
    <3>2. PICK e \in Entry : e = rows[r]
      BY Types
    <3>3. PICK y : y = [e EXCEPT !.path = n, !.stamp = w.stamp, !.gone = FALSE]
      OBVIOUS
    <3>4. y \in Entry /\ y.stamp = w.stamp /\ \A j \in Kind : y[j] = e[j]
      BY <1>2, <3>3, Constants DEF Entry
    <3>5. rows'[r] = y
      BY <1>3, <2>3, <3>1, <3>2, <3>3
    <3> QED
      BY <2>3, <3>2, <3>4, <3>5
  <2> QED
    BY <2>1, <2>2, <2>3
<1>5. /\ Folded \in Entry /\ Folded.stamp = 0
      /\ \A j \in Kind : Folded[j] \in {None, Pending}
  BY Constants DEF Folded, NoRow, Entry
<1>6. rows' \in [Row -> Entry]
  <2>1. \A r \in Row : rows'[r] \in Entry
    BY <1>4, <1>5, Types
  <2> HIDE DEF Same, Away, Takes
  <2>2. rows' = [r \in Row |-> rows'[r]]
    BY <1>3
  <2> QED
    BY <2>1, <2>2
<1>7. work' \in [Kind -> Work] /\ work'[k] = Free /\ \A j \in Kind \ {k} : work'[j] = work[j]
  BY <1>3, Types, Constants
<1>8. overtaken \subseteq overtaken' /\ overtaken' \subseteq Row \X Kind
  BY <1>2, <1>3, Types
<1>9. TypeOK'
  BY <1>3, <1>6, <1>7, <1>8, Types DEF TypeOK, Entry, Work
<1>10. Dated'
  <2>1. \A r \in Row : rows'[r].stamp <= troubles
    BY <1>2, <1>4, <1>5, Times
  <2>2. \A j \in Kind : /\ work'[j].stamp <= troubles
                        /\ work'[j].step # "free" => work'[j].row \in Row /\ work'[j].got \in Content
                        /\ work'[j].step \in {"match", "fold"} => j = "digest"
                        /\ work'[j].step = "fold" => work'[j].old \in Row
    BY <1>7, Times DEF Dated, At, Free
  <2> QED
    BY <1>3, <2>1, <2>2 DEF Dated, OnDisk, At
<1>11. PICK f \in [Stamp -> Content] : Written(f)
  BY DEF DerivedInv, OneTimeOneContent
<1>12. ~w.late => f[w.stamp] = w.got
  BY <1>1, <1>2, <1>11 DEF Written, Carries, At
<1>13. ASSUME NEW r \in Row, NEW j \in Kind, <<r, j>> \notin overtaken'
       PROVE  rows'[r][j] \in {f[rows'[r].stamp], None, Pending, Failed}
  <2>1. <<r, j>> \notin overtaken
    BY <1>8, <1>13
  <2>2. CASE Same(r)
    BY <1>11, <2>1, <2>2 DEF Written, Tells
  <2>3. CASE Away(r)
    BY <1>5, <2>3
  <2>4. CASE Takes(r)
    <3>1. ~w.late /\ rows[r].digest = w.got /\ <<r, "digest">> \notin overtaken
      BY <1>3, <1>13, <2>4
    <3>2. Tells(r, f[rows[r].stamp])
      BY <1>11 DEF Written
    <3>3. w.got = f[rows[r].stamp]
      BY <1>2, <3>1, <3>2, Named
    <3> QED
      BY <1>12, <2>1, <2>4, <3>1, <3>2, <3>3 DEF Tells
  <2> QED
    BY <1>4, <2>2, <2>3, <2>4
<1>14. ASSUME NEW j \in Kind PROVE Carries(j, f[work[j].stamp])'
  BY <1>3, <1>7, <1>11 DEF Written, Carries, At, Free
<1>15. Written(f)'
  <2>1. \A r \in Row : Tells(r, f[rows[r].stamp])'
    BY <1>13 DEF Tells
  <2> QED
    BY <1>3, <1>11, <1>14, <2>1 DEF Written, Shows, OnDisk
<1> QED
  BY <1>9, <1>10, <1>15 DEF DerivedInv, OneTimeOneContent


----------------------------------------------------------------------------
(* The theorems. *)

THEOREM DerivedInvStays == DerivedInv /\ [Next]_vars => DerivedInv'
<1> SUFFICES ASSUME DerivedInv, [Next]_vars PROVE DerivedInv'
  OBVIOUS
<1> TypeOK /\ Dated
  BY DEF DerivedInv
<1>1. CASE Change
  BY <1>1, ChangeKeepsInv
<1>2. CASE Crash
  BY <1>2, CrashKeepsInv
<1>3. CASE Scan
  BY <1>3, ScanKeepsInv
<1>4. CASE HandOff
  <2>1. jobs' \subseteq Kind \X Row
    BY <1>4, Types DEF HandOff
  <2>2. handing' \in BOOLEAN /\ UNCHANGED <<disk, rows, store, work, overtaken, spoiled, troubles, scans>>
    BY <1>4 DEF HandOff
  <2> QED
    BY <2>1, <2>2, HandingKeepsInv
<1>5. CASE Reconcile
  <2>1. jobs' \subseteq Kind \X Row
    BY <1>5, Types DEF Reconcile, Shown
  <2>2. handing' \in BOOLEAN /\ UNCHANGED <<disk, rows, store, work, overtaken, spoiled, troubles, scans>>
    BY <1>5, Types DEF Reconcile
  <2> QED
    BY <2>1, <2>2, HandingKeepsInv
<1>6. ASSUME NEW k \in Kind, Write(k) PROVE DerivedInv'
  BY <1>6, WriteKeepsInv
<1>7. ASSUME NEW k \in Kind, Match(k) \/ Fold(k) PROVE DerivedInv'
  BY <1>7, MatchKeepsInv, FoldKeepsInv
<1>8. ASSUME NEW k \in Kind, NEW r \in Row, Skip(k, r) PROVE DerivedInv'
  <2>1. handing' \in BOOLEAN /\ jobs' \subseteq Kind \X Row
        /\ UNCHANGED <<disk, rows, store, work, overtaken, spoiled, troubles, scans>>
    BY <1>8, Types DEF Skip, Job
  <2> QED
    BY <2>1, HandingKeepsInv
<1>9. ASSUME NEW k \in Kind, NEW r \in Row, Read(k, r) PROVE DerivedInv'
  BY <1>9, ReadKeepsInv
<1>10. ASSUME NEW k \in Kind, NEW r \in Row, Fail(k, r) PROVE DerivedInv'
  BY <1>10, FailKeepsInv
<1>11. CASE UNCHANGED vars
  <2>1. handing' \in BOOLEAN /\ jobs' \subseteq Kind \X Row
        /\ UNCHANGED <<disk, rows, store, work, overtaken, spoiled, troubles, scans>>
    BY <1>11, Types DEF vars
  <2> QED
    BY <2>1, HandingKeepsInv
<1> QED
  BY <1>1, <1>2, <1>3, <1>4, <1>5, <1>6, <1>7, <1>8, <1>9, <1>10, <1>11 DEF Next

THEOREM DerivedInvAlways == Spec => []DerivedInv
  BY InitInv, DerivedInvStays, PTL DEF Spec

\* Files, rows, previews, jobs and handlers are what they are typed as.
THEOREM DerivedWorkIsTyped == Spec => []TypeOK
<1>1. DerivedInv => TypeOK
  BY DEF DerivedInv
<1> QED
  BY <1>1, DerivedInvAlways, PTL

LEMMA InvIsCurrent == DerivedInv => DerivedIsCurrent
<1> SUFFICES ASSUME DerivedInv, NEW r \in Row, NEW k \in Kind,
                    Live(r), rows[r].path \in OnDisk, ~Changed(r), <<r, k>> \notin overtaken
             PROVE  rows[r][k] \in {disk[rows[r].path].content, None, Pending, Failed}
  BY DEF DerivedIsCurrent
<1>1. PICK f \in [Stamp -> Content] : Written(f)
  BY DEF DerivedInv, OneTimeOneContent
<1>2. disk[rows[r].path].content = f[rows[r].stamp]
  BY <1>1 DEF Written, Changed
<1>3. Tells(r, f[rows[r].stamp])
  BY <1>1 DEF Written, Live
<1> QED
  BY <1>2, <1>3 DEF Tells

\* What a row says of a file that has not changed since it was scanned is true
\* of that file (upsertFiles, previewKey, the handlers of analyze.ts, resolveRename),
\* each kind of it unless that was overtaken, for any number of saves, copies,
\* renames, deletions, folds, failed reads and crashes.
THEOREM DerivedStaysCurrent == Spec => []DerivedIsCurrent
  BY DerivedInvAlways, InvIsCurrent, PTL

=============================================================================
