----------------------------- MODULE RunStatus -----------------------------
(***************************************************************************)
(* The status of an Actions run, which the code derives from the statuses  *)
(* of the run's jobs (models/actions/run_job.go, models/actions/run.go).   *)
(*                                                                         *)
(* UpdateRunJob is four SQL statements: it updates the job, loads the run, *)
(* loads the jobs, and updates the run with the aggregated status.  The    *)
(* run has an optimistic lock: its update names the version it was loaded  *)
(* with, and affects no row when the version has changed.  Most callers    *)
(* wrap the statements (of one job or of several) in a transaction;        *)
(* CancelPreviousJobs does not, each of its statements commits at once.    *)
(*                                                                         *)
(* Transactions read committed data and their own writes, and hold the     *)
(* lock of a row they wrote until they end: the weakest isolation of the   *)
(* databases the program runs on.                                          *)
(***************************************************************************)
EXTENDS Naturals

CONSTANTS
  Jobs,         \* the jobs of the run
  Caller,       \* goroutines that call UpdateRunJob
  Unwrapped,    \* those that call it outside a transaction
  Written,      \* the statuses they write
  MaxVersion    \* bound on the version of the run

Status == {"success", "failure", "cancelled", "skipped",
           "waiting", "running", "blocked"}

ASSUME CallerAssumption == Unwrapped \subseteq Caller
ASSUME WrittenAssumption == Written \subseteq Status
ASSUME VersionAssumption == MaxVersion \in Nat

VARIABLES
  job,       \* committed status of every job
  run,       \* committed row of the run
  pc,        \* the last statement of every caller
  written,   \* job rows written by an open transaction
  locked,    \* the callers that wrote the row of the run and did not end
  row,       \* that uncommitted row
  seen,      \* what a caller loaded: version of the run, aggregate of the jobs
  lost       \* an unwrapped caller gave up between its statements

vars == <<job, run, pc, written, locked, row, seen, lost>>

Row == [status : Status, version : Nat]

IsDone(s) == s \in {"success", "failure", "cancelled", "skipped"}

\* aggregateJobStatus
Aggregate(s) ==
  LET allDone == \A j \in Jobs : IsDone(s[j])
      allWaiting == \A j \in Jobs : s[j] = "waiting" \/ IsDone(s[j])
      hasFailure == \E j \in Jobs : s[j] \in {"failure", "cancelled"}
  IN  IF allDone THEN IF hasFailure THEN "failure" ELSE "success"
      ELSE IF allWaiting THEN "waiting" ELSE "running"

\* What caller c reads: the committed rows and its own writes.
JobsSeenBy(c) == [j \in Jobs |-> IF j \in DOMAIN written[c]
                                 THEN written[c][j] ELSE job[j]]
RunSeenBy(c) == IF c \in locked THEN row[c] ELSE run

NoWrites == [j \in {} |-> "blocked"]
NoRow == [status |-> "waiting", version |-> 0]

TypeOK ==
  /\ job \in [Jobs -> Status]
  /\ run \in Row
  /\ pc \in [Caller -> {"idle", "updated", "loaded", "counted", "aggregated"}]
  /\ \A c \in Caller : /\ DOMAIN written[c] \subseteq Jobs
                       /\ \A j \in DOMAIN written[c] : written[c][j] \in Status
  /\ written = [c \in Caller |-> written[c]]
  /\ locked \subseteq Caller
  /\ row \in [Caller -> Row]
  /\ seen \in [Caller -> Row]
  /\ lost \in BOOLEAN

\* InsertRun: a run is waiting, its jobs wait or are blocked.
Init ==
  /\ job \in [Jobs -> {"waiting", "blocked"}]
  /\ run = [status |-> "waiting", version |-> 1]
  /\ pc = [c \in Caller |-> "idle"]
  /\ written = [c \in Caller |-> NoWrites]
  /\ locked = {}
  /\ row = [c \in Caller |-> NoRow]
  /\ seen = [c \in Caller |-> NoRow]
  /\ lost = FALSE

\* UPDATE action_run_job: a transaction that wrote the row blocks the others.
UpdateJob(c, j, s) ==
  /\ pc[c] \in {"idle", "aggregated"}
  /\ RunSeenBy(c).version < MaxVersion
  /\ \A d \in Caller \ {c} : j \notin DOMAIN written[d]
  /\ pc' = [pc EXCEPT ![c] = "updated"]
  /\ IF c \in Unwrapped
     THEN /\ job' = [job EXCEPT ![j] = s]
          /\ UNCHANGED written
     ELSE /\ written' = [written EXCEPT ![c] =
               [k \in DOMAIN written[c] \cup {j} |->
                  IF k = j THEN s ELSE written[c][k]]]
          /\ UNCHANGED job
  /\ UNCHANGED <<run, locked, row, seen, lost>>

\* GetRunByID
LoadRun(c) ==
  /\ pc[c] = "updated"
  /\ seen' = [seen EXCEPT ![c].version = RunSeenBy(c).version]
  /\ pc' = [pc EXCEPT ![c] = "loaded"]
  /\ UNCHANGED <<job, run, written, locked, row, lost>>

\* GetRunJobsByRunID and aggregateJobStatus
LoadJobs(c) ==
  /\ pc[c] = "loaded"
  /\ seen' = [seen EXCEPT ![c].status = Aggregate(JobsSeenBy(c))]
  /\ pc' = [pc EXCEPT ![c] = "counted"]
  /\ UNCHANGED <<job, run, written, locked, row, lost>>

NextRow(c) == [status |-> seen[c].status, version |-> seen[c].version + 1]

\* Mutant: the version is not compared.
UpdateRunUnversioned(c) ==
  /\ pc[c] = "counted"
  /\ locked \subseteq {c}
  /\ seen' = [seen EXCEPT ![c] = NoRow]
  /\ IF c \in Unwrapped
     THEN /\ run' = NextRow(c)
          /\ pc' = [pc EXCEPT ![c] = "idle"]
          /\ UNCHANGED <<locked, row>>
     ELSE /\ row' = [row EXCEPT ![c] = NextRow(c)]
          /\ locked' = locked \cup {c}
          /\ pc' = [pc EXCEPT ![c] = "aggregated"]
          /\ UNCHANGED run
  /\ UNCHANGED <<job, written, lost>>

\* UpdateRun, the version of the run is the one loaded
UpdateRun(c) ==
  /\ pc[c] = "counted"
  /\ locked \subseteq {c}
  /\ RunSeenBy(c).version = seen[c].version
  /\ seen' = [seen EXCEPT ![c] = NoRow]
  /\ IF c \in Unwrapped
     THEN /\ run' = NextRow(c)
          /\ pc' = [pc EXCEPT ![c] = "idle"]
          /\ UNCHANGED <<locked, row>>
     ELSE /\ row' = [row EXCEPT ![c] = NextRow(c)]
          /\ locked' = locked \cup {c}
          /\ pc' = [pc EXCEPT ![c] = "aggregated"]
          /\ UNCHANGED run
  /\ UNCHANGED <<job, written, lost>>

Forget(c) ==
  /\ pc' = [pc EXCEPT ![c] = "idle"]
  /\ written' = [written EXCEPT ![c] = NoWrites]
  /\ locked' = locked \ {c}
  /\ row' = [row EXCEPT ![c] = NoRow]
  /\ seen' = [seen EXCEPT ![c] = NoRow]

\* The transaction ends without an error.
Commit(c) ==
  /\ pc[c] = "aggregated"
  /\ job' = JobsSeenBy(c)
  /\ run' = RunSeenBy(c)
  /\ Forget(c)
  /\ UNCHANGED lost

\* A caller ends early and its transaction, if it has one, is rolled back:
\* UpdateRun says "run has changed", a condition of a later job does not hold,
\* a statement fails or the program stops.
Abandon(c) ==
  /\ pc[c] # "idle"
  /\ Forget(c)
  /\ lost' = (lost \/ c \in Unwrapped)
  /\ UNCHANGED <<job, run>>

\* UpdateRun of other columns, by Rerun and Approve: the version still grows.
TouchRun ==
  /\ locked = {}
  /\ run.version < MaxVersion
  /\ run' = [run EXCEPT !.version = @ + 1]
  /\ UNCHANGED <<job, pc, written, locked, row, seen, lost>>

Next ==
  \/ \E c \in Caller : \/ \E j \in Jobs, s \in Written : UpdateJob(c, j, s)
                       \/ LoadRun(c)
                       \/ LoadJobs(c)
                       \/ UpdateRun(c)
                       \/ Commit(c)
                       \/ Abandon(c)
  \/ TouchRun

Spec == Init /\ [][Next]_vars
-----------------------------------------------------------------------------
\* An unwrapped caller has committed a job and not yet the run.
Halfway == \E c \in Unwrapped : pc[c] # "idle"

\* The run is as InsertRun left it: nothing was aggregated yet.
Inserted == run.status = "waiting" /\ \A j \in Jobs : job[j] \in {"waiting", "blocked"}

\* The committed status of a run is the aggregate of its committed jobs, however
\* the statements of concurrent callers interleave, unless an unwrapped caller is
\* between its statements or gave up there.  Loading the run before its jobs and
\* the version make it so (run_job.go:128).
RunIsAggregate ==
  Halfway \/ lost \/ Inserted \/ run.status = Aggregate(job)
=============================================================================
