---------------------------- MODULE ScanQueueProofs ----------------------------
(***************************************************************************)
(* Proofs about ScanQueue for any libraries, schedules, retry limit and    *)
(* number of failures.                                                     *)
(***************************************************************************)
EXTENDS ScanQueue, TLAPS

\* The worker is at an active job, and what it scans is the library of that job.
WorksOnActive ==
  /\ busy # NoJob => active[busy] # NoJob
  /\ scanning # NoJob => busy # NoJob /\ scanning = active[busy]
  /\ owed \subseteq {scanning} \ {NoJob}

\* Under the key of a library only its own scans are queued; the sweep's jobs,
\* which may be of any library, stay under theirs.
KeyedIsOwn ==
  \A lib \in Library : {created[lib], retry[lib], active[lib]} \subseteq {lib, NoJob}

\* The job of a key, failed so often or about to, has cost as many failures.
Spent(key) == attempt[key] + (IF active[key] # NoJob /\ busy # key THEN 1 ELSE 0)
FailuresCounted == \A key \in Key : Spent(key) <= failures

Queued(lib) == created[lib] = lib \/ retry[lib] = lib
Pending(lib) == active[lib] = lib /\ (busy = lib => scanning = NoJob)

\* What a scan that has begun owes is still under the library's own key: in the
\* scan itself, or waiting behind one of the sweep.
OwedIsHeld ==
  failures <= RetryLimit =>
    \A lib \in owed : Queued(lib) \/ active[lib] = lib

Inv ==
  /\ TypeOK /\ WorksOnActive /\ KeyedIsOwn /\ FailuresCounted
  /\ WantedIsQueued /\ OwedIsHeld

\* The invariant holds at first.
LEMMA InitInv == Init => Inv
<1> SUFFICES ASSUME Init PROVE Inv
  OBVIOUS
<1>0. \A key \in Key : /\ created[key] = NoJob /\ retry[key] = NoJob
                       /\ active[key] = NoJob /\ attempt[key] = 0
  BY DEF Init, Nothing
<1>1. TypeOK
  BY QueueAssumption DEF Init, TypeOK, Nothing, DueAt
<1>2. WorksOnActive
  BY DEF Init, WorksOnActive
<1>3. KeyedIsOwn
  BY <1>0 DEF KeyedIsOwn, Key
<1>4. FailuresCounted
  BY <1>0, QueueAssumption DEF Init, FailuresCounted, Spent
<1>5. WantedIsQueued /\ OwedIsHeld
  BY DEF Init, WantedIsQueued, OwedIsHeld
<1> QED
  BY <1>1, <1>2, <1>3, <1>4, <1>5 DEF Inv

\* The types, per component, in the form the steps use.
LEMMA Types ==
  ASSUME Inv
  PROVE  /\ created \in [Key -> Library \cup {NoJob}]
         /\ retry \in [Key -> Library \cup {NoJob}]
         /\ active \in [Key -> Library \cup {NoJob}]
         /\ attempt \in [Key -> 0..RetryLimit]
         /\ busy \in Key \cup {NoJob}
         /\ scanning \in Library \cup {NoJob}
         /\ clock \in 0..(Period - 1) /\ failures \in 0..MaxFail
         /\ due \subseteq Library /\ sweep \subseteq Library
         /\ wanted \subseteq Library /\ owed \subseteq Library
         /\ Period \in Nat \ {0} /\ RetryLimit \in Nat /\ MaxFail \in Nat
         /\ NoKey \notin Library /\ NoJob \notin Key /\ NoJob \notin Library
         /\ Library \subseteq Key /\ NoKey \in Key
  BY QueueAssumption DEF Inv, TypeOK, Key

\* Sending puts a job where none waits, and under a library's key only its own.
LEMMA SendStep ==
  ASSUME Inv, NEW key \in Key, NEW lib \in Library, key \in {lib, NoKey},
         Send(key, lib), wanted \subseteq wanted', wanted' \subseteq wanted \cup {key},
         wanted' \subseteq Library,
         UNCHANGED <<retry, active, attempt, workVars, failures>>,
         clock' \in 0..(Period - 1), due' \subseteq Library, sweep' \subseteq Library
  PROVE  Inv'
<1>0. /\ created' \in [Key -> Library \cup {NoJob}]
      /\ \A k \in Key : created'[k] = created[k] \/ (k = key /\ created[k] = NoJob /\ created'[k] = lib)
      /\ created'[key] # NoJob
  BY Types DEF Send
<1>1. TypeOK'
  BY <1>0, Types DEF TypeOK, workVars
<1>2. WorksOnActive'
  BY DEF Inv, WorksOnActive, workVars
<1>3. KeyedIsOwn'
  <2> SUFFICES ASSUME NEW l \in Library
               PROVE  {created'[l], retry[l], active[l]} \subseteq {l, NoJob}
    BY DEF KeyedIsOwn, workVars
  <2>1. l # key \/ l = lib
    BY Types
  <2> QED
    BY <1>0, <2>1, Types DEF Inv, KeyedIsOwn
<1>4. FailuresCounted'
  BY DEF Inv, FailuresCounted, Spent, workVars
<1>5. \A l \in Library : created[l] = l => created'[l] = l
  BY <1>0, Types
<1>6. key \in Library => created'[key] = key
  BY <1>0, <1>3, Types DEF KeyedIsOwn
<1>7. WantedIsQueued' /\ OwedIsHeld'
  BY <1>5, <1>6, Types DEF Inv, WantedIsQueued, OwedIsHeld, Queued, workVars
<1> QED
  BY <1>1, <1>2, <1>3, <1>4, <1>7 DEF Inv

\* A job taken is active and not yet at its walk.
LEMMA FetchStep == ASSUME Inv, NEW key \in Key, Fetch(key) PROVE Inv'
<1>0. /\ busy = NoJob /\ active[key] = NoJob /\ busy' = key
      /\ UNCHANGED <<attempt, scanning, owed, sweepVars, wanted, failures>>
      /\ scanning = NoJob /\ owed = {}
  BY Types DEF Fetch, Inv, WorksOnActive
<1>1. PICK job \in Library :
        /\ active' = [active EXCEPT ![key] = job]
        /\ \/ created[key] = job /\ created' = [created EXCEPT ![key] = NoJob] /\ retry' = retry
           \/ retry[key] = job /\ retry' = [retry EXCEPT ![key] = NoJob] /\ created' = created
  BY Types DEF Fetch
<1>2. /\ created' \in [Key -> Library \cup {NoJob}] /\ retry' \in [Key -> Library \cup {NoJob}]
      /\ active' \in [Key -> Library \cup {NoJob}] /\ active'[key] = job
      /\ \A k \in Key \ {key} :
           created'[k] = created[k] /\ retry'[k] = retry[k] /\ active'[k] = active[k]
      /\ created'[key] \in {created[key], NoJob} /\ retry'[key] \in {retry[key], NoJob}
  BY <1>1, Types
<1>3. TypeOK'
  BY <1>0, <1>2, Types DEF TypeOK, sweepVars
<1>4. WorksOnActive'
  BY <1>0, <1>2, Types DEF WorksOnActive
<1>5. KeyedIsOwn'
  <2> SUFFICES ASSUME NEW l \in Library
               PROVE  {created'[l], retry'[l], active'[l]} \subseteq {l, NoJob}
    BY DEF KeyedIsOwn
  <2>1. {created[l], retry[l], active[l]} \subseteq {l, NoJob}
    BY DEF Inv, KeyedIsOwn
  <2>2. l = key => job \in {created[l], retry[l]}
    BY <1>1
  <2> QED
    BY <1>2, <2>1, <2>2, Types
<1>6. FailuresCounted'
  <2> SUFFICES ASSUME NEW k \in Key PROVE Spent(k)' <= failures
    BY <1>0 DEF FailuresCounted
  <2>1. Spent(k) <= failures /\ attempt[k] \in Nat
    BY Types DEF Inv, FailuresCounted
  <2>2. Spent(k)' = Spent(k)
    <3>1. attempt'[k] = attempt[k] /\ (busy' # k <=> k # key) /\ busy # k
      BY <1>0, Types
    <3>2. (active'[k] # NoJob /\ busy' # k) <=> (active[k] # NoJob /\ busy # k)
      BY <1>0, <1>2, <3>1
    <3> QED
      BY <3>1, <3>2 DEF Spent
  <2> QED
    BY <2>1, <2>2
<1>7. WantedIsQueued'
  <2> SUFFICES ASSUME failures <= RetryLimit, NEW l \in wanted
               PROVE  created'[l] = l \/ retry'[l] = l \/ active'[l] = l
    BY <1>0 DEF WantedIsQueued
  <2>1. created[l] = l \/ retry[l] = l \/ active[l] = l
    BY DEF Inv, WantedIsQueued
  <2>2. CASE l # key
    BY <1>2, <2>1, <2>2, Types
  <2>3. CASE l = key
    BY <1>2, <1>5, <2>3, Types DEF KeyedIsOwn
  <2> QED
    BY <2>2, <2>3
<1>8. OwedIsHeld'
  BY <1>0 DEF OwedIsHeld
<1> QED
  BY <1>3, <1>4, <1>5, <1>6, <1>7, <1>8 DEF Inv

\* A scan that begins takes over what its library is owed.
LEMMA BeginScanStep == ASSUME Inv, BeginScan PROVE Inv'
<1>0. /\ busy \in Key /\ scanning = NoJob /\ scanning' = active[busy]
      /\ active[busy] \in Library /\ owed = {}
      /\ owed' = wanted \cap {active[busy]} /\ wanted' = wanted \ owed'
      /\ due' \subseteq Library
      /\ UNCHANGED <<jobVars, busy, clock, sweep, failures>>
  BY Types DEF BeginScan, Inv, WorksOnActive
<1>1. TypeOK'
  BY <1>0, Types DEF TypeOK, jobVars
<1>2. WorksOnActive'
  BY <1>0, Types DEF WorksOnActive, jobVars, Inv
<1>3. KeyedIsOwn' /\ FailuresCounted'
  <2>1. UNCHANGED <<created, retry, active, attempt, busy, failures>>
    BY <1>0 DEF jobVars
  <2> QED
    BY <2>1 DEF Inv, KeyedIsOwn, FailuresCounted, Spent
<1>4. WantedIsQueued'
  <2> SUFFICES ASSUME failures <= RetryLimit, NEW l \in wanted'
               PROVE  \/ created[l] = l \/ retry[l] = l
                      \/ active[l] = l /\ busy # l
    BY <1>0 DEF WantedIsQueued, jobVars
  <2>1. created[l] = l \/ retry[l] = l \/ active[l] = l
    BY <1>0 DEF Inv, WantedIsQueued
  <2> QED
    BY <1>0, <2>1
<1>5. OwedIsHeld'
  BY <1>0 DEF Inv, WantedIsQueued, OwedIsHeld, Queued, jobVars
<1> QED
  BY <1>1, <1>2, <1>3, <1>4, <1>5 DEF Inv

\* A scan that ends well owes nothing any more.
LEMMA EndScanStep == ASSUME Inv, EndScan PROVE Inv'
<1>0. /\ busy \in Key /\ scanning = active[busy] /\ scanning \in Library
      /\ busy' = NoJob /\ scanning' = NoJob /\ owed' = {}
      /\ active' = [active EXCEPT ![busy] = NoJob]
      /\ attempt' = [attempt EXCEPT ![busy] = 0]
      /\ UNCHANGED <<created, retry, sweepVars, wanted, failures>>
  BY Types DEF EndScan, Finish, Idle, Inv, WorksOnActive
<1>1. /\ active' \in [Key -> Library \cup {NoJob}] /\ attempt' \in [Key -> 0..RetryLimit]
      /\ active'[busy] = NoJob /\ attempt'[busy] = 0
      /\ \A k \in Key \ {busy} : active'[k] = active[k] /\ attempt'[k] = attempt[k]
  BY <1>0, Types
<1>2. TypeOK'
  BY <1>0, <1>1, Types DEF TypeOK, sweepVars
<1>3. WorksOnActive' /\ OwedIsHeld'
  BY <1>0 DEF WorksOnActive, OwedIsHeld
<1>4. KeyedIsOwn'
  BY <1>0, <1>1, Types DEF Inv, KeyedIsOwn
<1>5. FailuresCounted'
  <2> SUFFICES ASSUME NEW k \in Key PROVE Spent(k)' <= failures
    BY <1>0 DEF FailuresCounted
  <2>1. Spent(k) <= failures
    BY DEF Inv, FailuresCounted
  <2> QED
    BY <1>0, <1>1, <2>1, Types DEF Spent
<1>6. WantedIsQueued'
  <2> SUFFICES ASSUME failures <= RetryLimit, NEW l \in wanted
               PROVE  created[l] = l \/ retry[l] = l \/ active'[l] = l
    BY <1>0 DEF WantedIsQueued
  <2>1. \/ created[l] = l \/ retry[l] = l
        \/ active[l] = l /\ busy # l
    BY <1>0, Types DEF Inv, WantedIsQueued
  <2> QED
    BY <1>1, <2>1, Types
<1> QED
  BY <1>2, <1>3, <1>4, <1>5, <1>6 DEF Inv

\* A job that fails is retried within the limit, or one of its library is.
LEMMA FailOf ==
  ASSUME Inv, NEW key \in Key, active[key] # NoJob, Fail(key),
         failures' \in 0..MaxFail, attempt[key] + 1 <= failures', failures <= failures'
  PROVE  /\ retry' \in [Key -> Library \cup {NoJob}]
         /\ active' \in [Key -> Library \cup {NoJob}]
         /\ attempt' \in [Key -> 0..RetryLimit]
         /\ active'[key] = NoJob
         /\ \A k \in Key \ {key} : /\ active'[k] = active[k] /\ retry'[k] = retry[k]
                                   /\ attempt'[k] = attempt[k]
         /\ attempt'[key] <= attempt[key] + 1
         /\ retry'[key] \in {retry[key], active[key]}
         /\ retry[key] # NoJob => retry'[key] = retry[key]
         /\ failures' <= RetryLimit => retry'[key] # NoJob
<1>1. attempt[key] \in 0..RetryLimit
  BY Types
<1>2. failures' <= RetryLimit => attempt[key] < RetryLimit
  BY <1>1, Types
<1>3. /\ retry' \in [Key -> Library \cup {NoJob}] /\ active' \in [Key -> Library \cup {NoJob}]
      /\ active'[key] = NoJob
      /\ \A k \in Key \ {key} : active'[k] = active[k] /\ retry'[k] = retry[k]
      /\ retry'[key] \in {retry[key], active[key]}
      /\ retry[key] # NoJob => retry'[key] = retry[key]
      /\ attempt[key] < RetryLimit => retry'[key] # NoJob
  BY Types DEF Fail
<1>4. /\ attempt' \in [Key -> 0..RetryLimit]
      /\ \A k \in Key \ {key} : attempt'[k] = attempt[k]
      /\ attempt'[key] <= attempt[key] + 1
  BY <1>1, Types DEF Fail
<1> QED
  BY <1>2, <1>3, <1>4

\* What the failure of a job leaves true, whether a handler threw or a job expired.
LEMMA FailStep ==
  ASSUME Inv, NEW key \in Key, active[key] # NoJob, Fail(key),
         \/ busy = key /\ failures' = failures + 1
         \/ busy # key /\ failures' = failures,
         failures' \in 0..MaxFail,
         \/ busy' = busy /\ busy # key
         \/ busy' = NoJob /\ busy = key,
         created' = created
  PROVE  /\ retry' \in [Key -> Library \cup {NoJob}]
         /\ active' \in [Key -> Library \cup {NoJob}]
         /\ attempt' \in [Key -> 0..RetryLimit]
         /\ KeyedIsOwn' /\ FailuresCounted'
         /\ \A k \in Key \ {key} : active'[k] = active[k] /\ retry'[k] = retry[k]
         /\ failures' <= RetryLimit /\ key \in Library => retry'[key] = key
         /\ \A l \in Library : retry[l] = l => retry'[l] = l
<1>0. attempt[key] + 1 <= failures' /\ failures <= failures'
  <2>1. attempt[key] \in Nat /\ Spent(key) <= failures
    BY Types DEF Inv, FailuresCounted
  <2> QED
    BY <2>1, Types DEF Spent
<1>1. /\ retry' \in [Key -> Library \cup {NoJob}] /\ active' \in [Key -> Library \cup {NoJob}]
      /\ attempt' \in [Key -> 0..RetryLimit] /\ active'[key] = NoJob
      /\ \A k \in Key \ {key} : /\ active'[k] = active[k] /\ retry'[k] = retry[k]
                                /\ attempt'[k] = attempt[k]
      /\ attempt'[key] <= attempt[key] + 1
      /\ retry'[key] \in {retry[key], active[key]}
      /\ retry[key] # NoJob => retry'[key] = retry[key]
      /\ failures' <= RetryLimit => retry'[key] # NoJob
  BY <1>0, FailOf
<1>2. KeyedIsOwn'
  <2> SUFFICES ASSUME NEW l \in Library
               PROVE  {created[l], retry'[l], active'[l]} \subseteq {l, NoJob}
    BY DEF KeyedIsOwn
  <2>1. {created[l], retry[l], active[l]} \subseteq {l, NoJob}
    BY DEF Inv, KeyedIsOwn
  <2>2. CASE l = key
    BY <1>1, <2>1, <2>2
  <2>3. CASE l # key
    BY <1>1, <2>1, <2>3, Types
  <2> QED
    BY <2>2, <2>3
<1>3. FailuresCounted'
  <2> SUFFICES ASSUME NEW k \in Key PROVE Spent(k)' <= failures'
    BY DEF FailuresCounted
  <2>1. Spent(k) <= failures /\ attempt[k] \in Nat /\ attempt'[k] \in Nat
    BY <1>1, Types DEF Inv, FailuresCounted
  <2>2. CASE k = key
    BY <1>0, <1>1, <2>1, <2>2, Types DEF Spent
  <2>3. CASE k # key
    <3>1. active'[k] = active[k] /\ attempt'[k] = attempt[k] /\ (busy' # k <=> busy # k)
      BY <1>1, <2>3, Types
    <3>2. Spent(k)' = Spent(k)
      BY <3>1 DEF Spent
    <3> QED
      BY <1>0, <2>1, <3>2, Types DEF Spent
  <2> QED
    BY <2>2, <2>3
<1>4. failures' <= RetryLimit /\ key \in Library => retry'[key] = key
  BY <1>1, <1>2, Types DEF KeyedIsOwn
<1>5. \A l \in Library : retry[l] = l => retry'[l] = l
  BY <1>1, Types
<1> QED
  BY <1>1, <1>2, <1>3, <1>4, <1>5

\* A scan that throws gives back what it owed, behind the retry of its library.
LEMMA FailScanStep == ASSUME Inv, FailScan PROVE Inv'
<1>0. /\ busy \in Key /\ scanning = active[busy] /\ scanning \in Library
      /\ active[busy] # NoJob /\ Fail(busy)
      /\ busy' = NoJob /\ scanning' = NoJob /\ owed' = {}
      /\ wanted' = wanted \cup owed /\ owed \subseteq {active[busy]}
      /\ failures' = failures + 1 /\ failures' \in 0..MaxFail
      /\ UNCHANGED <<created, sweepVars>>
  BY Types DEF FailScan, Idle, Inv, WorksOnActive
<1>1. /\ retry' \in [Key -> Library \cup {NoJob}] /\ active' \in [Key -> Library \cup {NoJob}]
      /\ attempt' \in [Key -> 0..RetryLimit] /\ KeyedIsOwn' /\ FailuresCounted'
      /\ \A k \in Key \ {busy} : active'[k] = active[k] /\ retry'[k] = retry[k]
      /\ failures' <= RetryLimit /\ busy \in Library => retry'[busy] = busy
      /\ \A l \in Library : retry[l] = l => retry'[l] = l
  BY <1>0, FailStep, Types
<1>2. TypeOK'
  BY <1>0, <1>1, Types DEF TypeOK, sweepVars
<1>3. WorksOnActive' /\ OwedIsHeld'
  BY <1>0 DEF WorksOnActive, OwedIsHeld
<1>4. WantedIsQueued'
  <2> SUFFICES ASSUME failures' <= RetryLimit, NEW l \in wanted'
               PROVE  created[l] = l \/ retry'[l] = l \/ active'[l] = l
    BY <1>0 DEF WantedIsQueued
  <2>0. l \in Library /\ failures <= RetryLimit
    BY <1>0, Types
  <2>1. \/ created[l] = l \/ retry[l] = l \/ active[l] = l
    BY <1>0, <2>0 DEF Inv, WantedIsQueued, OwedIsHeld, Queued
  <2>2. CASE l = busy
    BY <1>1, <2>0, <2>2
  <2>3. CASE l # busy
    BY <1>1, <2>0, <2>1, <2>3, Types
  <2> QED
    BY <2>2, <2>3
<1> QED
  BY <1>1, <1>2, <1>3, <1>4 DEF Inv

\* A job nobody works on expires and is retried.
LEMMA ExpireStep == ASSUME Inv, NEW key \in Key, Expire(key) PROVE Inv'
<1>0. /\ active[key] # NoJob /\ busy # key /\ Fail(key) /\ failures \in 0..MaxFail
      /\ UNCHANGED <<created, busy, scanning, owed, sweepVars, wanted, failures>>
  BY Types DEF Expire, workVars
<1>1. /\ retry' \in [Key -> Library \cup {NoJob}] /\ active' \in [Key -> Library \cup {NoJob}]
      /\ attempt' \in [Key -> 0..RetryLimit] /\ KeyedIsOwn' /\ FailuresCounted'
      /\ \A k \in Key \ {key} : active'[k] = active[k] /\ retry'[k] = retry[k]
      /\ failures <= RetryLimit /\ key \in Library => retry'[key] = key
      /\ \A l \in Library : retry[l] = l => retry'[l] = l
  BY <1>0, FailStep, Types
<1>2. TypeOK'
  BY <1>0, <1>1, Types DEF TypeOK, sweepVars
<1>3. WorksOnActive'
  BY <1>0, <1>1, Types DEF Inv, WorksOnActive
<1>4. ASSUME failures <= RetryLimit, NEW l \in Library,
             created[l] = l \/ retry[l] = l \/ active[l] = l
      PROVE  \/ created[l] = l \/ retry'[l] = l
             \/ active'[l] = l /\ active[l] = l
  BY <1>1, <1>4, Types
<1>5. WantedIsQueued'
  <2> SUFFICES ASSUME failures <= RetryLimit, NEW l \in wanted
               PROVE  \/ created[l] = l \/ retry'[l] = l
                      \/ active'[l] = l /\ (busy = l => scanning = NoJob)
    BY <1>0 DEF WantedIsQueued
  <2>1. \/ created[l] = l \/ retry[l] = l
        \/ active[l] = l /\ (busy = l => scanning = NoJob)
    BY DEF Inv, WantedIsQueued
  <2>2. \/ created[l] = l \/ retry'[l] = l
        \/ active'[l] = l /\ active[l] = l
    BY <1>4, <2>1, Types
  <2>3. active[l] = l /\ ~(busy = l => scanning = NoJob) => created[l] = l \/ retry'[l] = l
    BY <1>1, <2>1, Types
  <2> QED
    BY <2>2, <2>3
<1>6. OwedIsHeld'
  BY <1>0, <1>4, Types DEF Inv, OwedIsHeld, Queued
<1> QED
  BY <1>1, <1>2, <1>3, <1>5, <1>6 DEF Inv

\* A worker that dies leaves its job active, and what it owed is wanted again.
LEMMA CrashStep == ASSUME Inv, Crash PROVE Inv'
<1>0. /\ busy \in Key /\ active[busy] # NoJob
      /\ busy' = NoJob /\ scanning' = NoJob /\ owed' = {}
      /\ wanted' = wanted \cup owed
      /\ failures' = failures + 1 /\ failures' \in 0..MaxFail
      /\ UNCHANGED <<created, retry, active, attempt, sweepVars>>
  BY Types DEF Crash, Idle, Inv, WorksOnActive, jobVars
<1>1. TypeOK'
  BY <1>0, Types DEF TypeOK, sweepVars
<1>2. WorksOnActive' /\ OwedIsHeld' /\ KeyedIsOwn'
  BY <1>0 DEF Inv, WorksOnActive, OwedIsHeld, KeyedIsOwn
<1>3. FailuresCounted'
  <2> SUFFICES ASSUME NEW k \in Key PROVE Spent(k)' <= failures + 1
    BY <1>0 DEF FailuresCounted
  <2>1. Spent(k) <= failures /\ attempt[k] \in Nat /\ attempt'[k] = attempt[k]
    BY <1>0, Types DEF Inv, FailuresCounted
  <2>2. attempt[k] <= failures
    BY <2>1, Types DEF Spent
  <2>3. Spent(k)' \in {attempt[k], attempt[k] + 1}
    BY <2>1 DEF Spent
  <2> QED
    BY <2>1, <2>2, <2>3, Types
<1>4. WantedIsQueued'
  <2> SUFFICES ASSUME failures' <= RetryLimit, NEW l \in wanted'
               PROVE  created[l] = l \/ retry[l] = l \/ active[l] = l
    BY <1>0 DEF WantedIsQueued
  <2>1. failures <= RetryLimit
    BY <1>0, Types
  <2> QED
    BY <1>0, <2>1 DEF Inv, WantedIsQueued, OwedIsHeld, Queued
<1> QED
  BY <1>1, <1>2, <1>3, <1>4 DEF Inv

\* The schedules fire, or find a sweep done.
LEMMA BeginSweepStep == ASSUME Inv, BeginSweep PROVE Inv'
<1>1. clock' \in 0..(Period - 1)
  BY Types DEF BeginSweep
<1>2. due' \subseteq Library /\ sweep' \subseteq Library
  BY Types, QueueAssumption DEF BeginSweep, DueAt
<1>3. UNCHANGED <<created, retry, active, attempt, busy, scanning, owed, wanted, failures>>
  BY DEF BeginSweep, jobVars, workVars
<1>4. TypeOK'
  BY <1>1, <1>2, <1>3, Types DEF TypeOK
<1> QED
  BY <1>3, <1>4 DEF Inv, WorksOnActive, KeyedIsOwn, FailuresCounted, Spent,
                    WantedIsQueued, OwedIsHeld, Queued

\* Every step keeps the invariant.
LEMMA StepInv == Inv /\ [Next]_vars => Inv'
<1> SUFFICES ASSUME Inv, [Next]_vars PROVE Inv'
  OBVIOUS
<1>1. ASSUME NEW lib \in Library, RequestScan(lib) PROVE Inv'
  <2>1. /\ Send(lib, lib) /\ wanted' = wanted \cup {lib}
        /\ UNCHANGED <<retry, active, attempt, workVars, failures>>
        /\ clock' = clock /\ due' = due /\ sweep' = sweep
    BY <1>1 DEF RequestScan, sweepVars
  <2> QED
    BY <2>1, SendStep, Types
<1>2. ASSUME SweepOne PROVE Inv'
  <2>1. PICK lib \in sweep : Send(NoKey, lib) /\ sweep' = sweep \ {lib}
    BY <1>2 DEF SweepOne
  <2>2. /\ UNCHANGED <<retry, active, attempt, workVars, failures>>
        /\ wanted' = wanted /\ clock' = clock /\ due' = due
    BY <1>2 DEF SweepOne
  <2> QED
    BY <2>1, <2>2, SendStep, Types
<1>3. CASE UNCHANGED vars
  BY <1>3 DEF vars, jobVars, workVars, sweepVars, Inv, TypeOK, WorksOnActive, KeyedIsOwn,
              FailuresCounted, Spent, WantedIsQueued, OwedIsHeld, Queued
<1> QED
  BY <1>1, <1>2, <1>3, FetchStep, ExpireStep, BeginScanStep, EndScanStep, FailScanStep,
     CrashStep, BeginSweepStep DEF Next, Sweeping

\* Every variable of the queue has its type.
THEOREM QueueIsTyped == Spec => []TypeOK
<1>1. Inv => TypeOK
  BY DEF Inv
<1> QED
  BY <1>1, InitInv, StepInv, PTL DEF Spec

\* For any libraries and schedules, and up to as many failures and deaths of the
\* worker as the retry limit: a library somebody wants scanned has a job under its
\* own key that will look at it, so a request may collapse into one that waits.
THEOREM RequestsMayCollapse == Spec => []WantedIsQueued
<1>1. Inv => WantedIsQueued
  BY DEF Inv
<1> QED
  BY <1>1, InitInv, StepInv, PTL DEF Spec
=============================================================================
