------------------------------ MODULE ScanQueue ------------------------------
(***************************************************************************)
(* The queue every library goes through, library.scan                      *)
(* (packages/jobs/src/names.ts, queue.ts), who sends to it and the worker  *)
(* that takes from it.                                                     *)
(*                                                                         *)
(* It is `stately`: per singleton key at most one job waits, one is to be  *)
(* retried and one is active.  The button, the watcher, an upload and a    *)
(* move send scans under the key of their library; the schedule sweep      *)
(* sends without a key.  Jobs without a key share one.                     *)
(***************************************************************************)
EXTENDS Integers, FiniteSets

CONSTANTS
  Library,
  Rank,        \* [Library -> Nat]: the order in which librariesDue lists them
  Scheduled,   \* the libraries with a scan_cron
  NoKey,       \* the key of jobs sent without one
  NoJob,
  Period,      \* sweeps between two fires of a schedule
  RetryLimit,  \* retryLimit
  MaxFail      \* bound on failures and deaths of the worker

Key == Library \cup {NoKey}

ASSUME QueueAssumption ==
  /\ IsFiniteSet(Library) /\ Scheduled \subseteq Library
  /\ Rank \in [Library -> Nat]
  /\ NoKey \notin Library /\ NoJob \notin Key
  /\ Period \in Nat \ {0} /\ RetryLimit \in Nat /\ MaxFail \in Nat

VARIABLES
  created,     \* [Key -> the library of the job waiting, or NoJob]
  retry,       \* the same for jobs that failed and wait for another attempt
  active,      \* the same for jobs taken by the worker
  attempt,     \* [Key -> failed attempts of the job active or to be retried]
  busy,        \* the key the worker's handler is at, or NoJob
  scanning,    \* the library whose scan has begun its walk, or NoJob
  clock,       \* sweeps since the schedules last fired
  due,         \* the libraries librariesDue would return
  sweep,       \* those the sweep in progress has still to send
  wanted,      \* libraries with a change no scan has begun to look at since
  owed,        \* the one of them the scan that has begun is to look at, if it was
  failures

jobVars == <<created, retry, active, attempt>>
sweepVars == <<clock, due, sweep>>
workVars == <<busy, scanning, owed>>
vars == <<jobVars, workVars, sweepVars, wanted, failures>>

----------------------------------------------------------------------------
(* JobQueue. *)

\* Mutant: `singleton` and no queue behind it: a running scan swallows requests.
SendSingleton(key, lib) ==
  created' = [created EXCEPT ![key] =
                IF @ = NoJob /\ active[key] = NoJob THEN lib ELSE @]

\* send: under `stately` a job waiting under the same key swallows this one.
Send(key, lib) == created' = [created EXCEPT ![key] = IF @ = NoJob THEN lib ELSE @]

\* work: one handler, one job at a time, one active job per key.  The job taken
\* comes from those waiting or from those to be retried.
Fetch(key) ==
  /\ busy = NoJob /\ active[key] = NoJob
  /\ busy' = key
  /\ \/ /\ created[key] # NoJob
        /\ active' = [active EXCEPT ![key] = created[key]]
        /\ created' = [created EXCEPT ![key] = NoJob]
        /\ UNCHANGED retry
     \/ /\ retry[key] # NoJob
        /\ active' = [active EXCEPT ![key] = retry[key]]
        /\ retry' = [retry EXCEPT ![key] = NoJob]
        /\ UNCHANGED created
  /\ UNCHANGED <<attempt, scanning, owed, sweepVars, wanted, failures>>

\* The job of a key leaves the active state for good.
Finish(key) ==
  /\ active' = [active EXCEPT ![key] = NoJob]
  /\ attempt' = [attempt EXCEPT ![key] = 0]
  /\ UNCHANGED retry

\* Mutant: a failed job is not retried.
FailForGood(key) ==
  /\ active' = [active EXCEPT ![key] = NoJob]
  /\ UNCHANGED <<retry, attempt>>

\* A failed or expired job waits for another attempt, up to the limit; behind
\* one already waiting under its key it is dropped.
Fail(key) ==
  LET again == attempt[key] < RetryLimit /\ retry[key] = NoJob
  IN /\ active' = [active EXCEPT ![key] = NoJob]
     /\ retry' = [retry EXCEPT ![key] = IF again THEN active[key] ELSE @]
     /\ attempt' = [attempt EXCEPT ![key] =
                      IF again THEN @ + 1 ELSE IF retry[key] # NoJob THEN @ ELSE 0]

----------------------------------------------------------------------------
(* handleLibraryScan. *)

\* The worker is at nothing.
Idle == busy' = NoJob /\ scanning' = NoJob /\ owed' = {}

\* Up to the row of scan_runs: from here on the library is not due, and the
\* walk sees what changed before.
BeginScan ==
  /\ busy # NoJob /\ scanning = NoJob
  /\ scanning' = active[busy]
  /\ due' = due \ {active[busy]}
  /\ owed' = wanted \cap {active[busy]} /\ wanted' = wanted \ owed'
  /\ UNCHANGED <<jobVars, busy, clock, sweep, failures>>

\* The scan succeeds, or a guard of its own refuses: the job is done.
EndScan ==
  /\ scanning # NoJob
  /\ Finish(busy)
  /\ Idle
  /\ UNCHANGED <<created, sweepVars, wanted, failures>>

\* A scan throws; what it was to look at it has not looked at.
FailScan ==
  /\ scanning # NoJob /\ failures < MaxFail /\ failures' = failures + 1
  /\ Fail(busy)
  /\ wanted' = wanted \cup owed
  /\ Idle
  /\ UNCHANGED <<created, sweepVars>>

\* The worker dies; its job stays active until it expires.
Crash ==
  /\ busy # NoJob
  /\ failures < MaxFail /\ failures' = failures + 1
  /\ wanted' = wanted \cup owed
  /\ Idle
  /\ UNCHANGED <<jobVars, sweepVars>>

Expire(key) ==
  /\ active[key] # NoJob /\ busy # key
  /\ Fail(key)
  /\ UNCHANGED <<created, workVars, sweepVars, wanted, failures>>

----------------------------------------------------------------------------
(* Who sends. *)

\* Files changed: the watcher, an upload, the button, a finished move.
RequestScan(lib) ==
  /\ wanted' = wanted \cup {lib}
  /\ Send(lib, lib)
  /\ UNCHANGED <<retry, active, attempt, workVars, sweepVars, failures>>

\* isScanDue: a fire of the schedule has passed that no scan began after.
DueAt(tick) == IF tick = 0 THEN Scheduled ELSE due

\* handleScheduleSweep every five minutes; every Period sweeps the schedules of
\* all scheduled libraries have fired once more.
BeginSweep ==
  /\ sweep = {}
  /\ clock' = (clock + 1) % Period
  /\ due' = DueAt(clock')
  /\ sweep' = due'
  /\ UNCHANGED <<jobVars, workVars, wanted, failures>>

SweepOne ==
  /\ \E lib \in sweep :
       /\ \A other \in sweep : Rank[lib] <= Rank[other]
       /\ Send(NoKey, lib)
       /\ sweep' = sweep \ {lib}
  /\ UNCHANGED <<retry, active, attempt, workVars, clock, due, wanted, failures>>

----------------------------------------------------------------------------
Nothing == [key \in Key |-> NoJob]

Init ==
  /\ created = Nothing /\ retry = Nothing /\ active = Nothing
  /\ attempt = [key \in Key |-> 0]
  /\ busy = NoJob /\ scanning = NoJob /\ owed = {}
  /\ clock = 0 /\ due = Scheduled /\ sweep = {}
  /\ wanted = {} /\ failures = 0

Sweeping == BeginSweep \/ SweepOne

Next ==
  \/ \E key \in Key : Fetch(key) \/ Expire(key)
  \/ BeginScan \/ EndScan \/ FailScan \/ Crash
  \/ \E lib \in Library : RequestScan(lib)
  \/ Sweeping

Spec == Init /\ [][Next]_vars

\* pg-boss hands out what waits, whichever key it is under; handlers end; jobs
\* nobody works on expire; the cron of the sweep never stops.  Nobody has to
\* press a button.
FairSpec ==
  /\ Spec
  /\ \A key \in Key : SF_vars(Fetch(key)) /\ WF_vars(Expire(key))
  /\ WF_vars(BeginScan) /\ WF_vars(EndScan \/ FailScan) /\ WF_vars(Sweeping)

----------------------------------------------------------------------------
(* Properties. *)

TypeOK ==
  /\ {created, retry, active} \subseteq [Key -> Library \cup {NoJob}]
  /\ attempt \in [Key -> 0..RetryLimit]
  /\ busy \in Key \cup {NoJob}
  /\ scanning \in Library \cup {NoJob}
  /\ clock \in 0..(Period - 1)
  /\ {due, sweep, wanted, owed} \subseteq SUBSET Library
  /\ failures \in 0..MaxFail

\* A scan someone asked for happens: however requests collapse into one another
\* and whatever fails in between, a scan begins after the change that caused it
\* (names.ts: "the running scan finishes, exactly one more is queued behind it,
\* and the rest collapse").
RequestIsHonoured == \A lib \in Library : lib \in wanted ~> lib \notin wanted

\* While a library is wanted, a job under its own key that will look at it
\* waits, is to be retried or has not begun: the reason requests may collapse,
\* whatever the sweep's jobs, which share one key, do to one another.  Failures
\* beyond the retry limit apart.
WantedIsQueued ==
  failures <= RetryLimit =>
    \A lib \in wanted :
      \/ created[lib] = lib \/ retry[lib] = lib
      \/ active[lib] = lib /\ (busy = lib => scanning = NoJob)

\* A library whose schedule has come round is scanned (schedule.ts: "a scan
\* missed while the worker was down is picked up when it returns").
DueIsScanned == \A lib \in Library : lib \in due ~> lib \notin due
=============================================================================
