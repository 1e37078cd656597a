----------------------------- MODULE ActionJobs -----------------------------
(***************************************************************************)
(* The jobs of one Actions run and the tasks runners execute for them:     *)
(* the runner API (routers/api/actions/runner/runner.go), the job emitter  *)
(* and the cleaners (services/actions), the buttons Cancel, Rerun and      *)
(* Approve (routers/web/repo/actions/view.go), and the transactions they   *)
(* share (models/actions).                                                 *)
(*                                                                         *)
(* What a handler reads and what it writes later are two actions: other    *)
(* transactions commit in between.  What one transaction writes is one     *)
(* action; the status of the run, which each of them recomputes, is the    *)
(* matter of RunStatus.                                                    *)
(***************************************************************************)
EXTENDS Integers, FiniteSets

CONSTANTS
  Jobs,        \* ids of the jobs, numbers
  JobID,       \* the name each job has in the workflow; jobs of a matrix share one
  Needs,       \* the jobs each job waits for
  HasIf,       \* the jobs with an "if" condition
  Runners,     \* the registered runners
  CanRun,      \* the jobs whose labels a runner has
  Results,     \* what a runner reports
  MaxTasks,    \* bound on the tasks
  MaxReruns    \* bound on the uses of Rerun

Done == {"success", "failure", "cancelled", "skipped"}
Status == Done \cup {"waiting", "running", "blocked"}

ASSUME JobsAssumption == Jobs \subseteq Nat \ {0} /\ IsFiniteSet(Jobs)
ASSUME NeedsAssumption == Needs \in [Jobs -> SUBSET Jobs]
\* A need is a name: it means every job that has it.
ASSUME NamesAssumption ==
  \A j, n, k \in Jobs : n \in Needs[j] /\ JobID[k] = JobID[n] => k \in Needs[j]
ASSUME CanRunAssumption == CanRun \in [Runners -> SUBSET Jobs]
ASSUME ResultsAssumption == Results \subseteq Done
ASSUME BoundAssumption == MaxTasks \in Nat /\ MaxReruns \in Nat

VARIABLES
  job,       \* rows of the jobs: status and the id of the latest task, 0 if none
  task,      \* rows of the tasks: their job and status
  approved,  \* the run needs no approval
  pc,        \* a runner, or the handler of its request
  current,   \* runners that were told the version of the tasks that is current
  fresh,     \* handlers of FetchTask that read the current version
  picked,    \* the job CreateTaskForRunner chose
  held,      \* the task a runner executes
  result,    \* what the runner reports of it
  queued,    \* the run is in the queue of the emitter
  emitter,   \* the handler of that queue, and the statuses it read
  op,        \* the button pressed or the cleaner at work, and what it read
  reruns,    \* uses of Rerun so far
  raced,     \* runners whose last request lost the job it picked
  disturbed, \* something was cancelled, abandoned or rerun
  silent     \* blocked jobs that became ready with nobody to emit the run

rows == <<job, task, approved>>
versions == <<current, fresh>>
runner == <<pc, picked, held, result, raced>>
history == <<disturbed, silent>>
vars == <<rows, versions, runner, queued, emitter, op, reruns, history>>

Tasks == 1..MaxTasks
Unused == [job |-> 0, status |-> "unused"]
NoOp == [kind |-> "none", todo |-> {}, seen |-> <<>>, first |-> 0, task |-> 0]
Row == [status : Status, task : 0..MaxTasks]
Statuses == [j \in Jobs |-> job[j].status]

NeedsDone(s, j) == \A n \in Needs[j] : s[n] \in Done
Ready(s) == {j \in Jobs : s[j] = "blocked" /\ NeedsDone(s, j)}

\* A live runner holds a finished task: it will report, and its report emits.
Owed == \E r \in Runners : held[r] # 0 /\ task[held[r]].status \in Done

\* Jobs made ready by a step that emits nothing.
Quietly ==
  silent' = IF Owed' THEN silent ELSE silent \cup (Ready(Statuses') \ Ready(Statuses))

EmitterState == [pc : {"idle", "popped", "checking"}, seen : [Jobs -> Status]]
Op == [kind : {"none", "stop", "abandon", "cancel", "rerun"}, todo : SUBSET Jobs,
       seen : [Jobs -> Row] \cup {<<>>}, first : Jobs \cup {0}, task : 0..MaxTasks]
TaskRow == [job : Jobs, status : Done \cup {"running"}] \cup {Unused}

TypeOK ==
  /\ job \in [Jobs -> Row]
  /\ task \in [Tasks -> TaskRow]
  /\ approved \in BOOLEAN
  /\ pc \in [Runners -> {"idle", "fetching", "empty", "claiming", "working", "writing", "reported"}]
  /\ current \subseteq Runners /\ fresh \subseteq Runners
  /\ picked \in [Runners -> Jobs \cup {0}]
  /\ held \in [Runners -> 0..MaxTasks]
  /\ result \in [Runners -> Results \cup {"none"}]
  /\ queued \in BOOLEAN
  /\ emitter \in EmitterState
  /\ op \in Op
  /\ reruns \in 0..MaxReruns
  /\ raced \subseteq Runners
  /\ disturbed \in BOOLEAN
  /\ silent \subseteq Jobs

\* InsertRun: a job waits unless it has needs or the run needs approval.
Init ==
  /\ approved \in BOOLEAN
  /\ job = [j \in Jobs |-> [task |-> 0, status |->
              IF Needs[j] # {} \/ ~approved THEN "blocked" ELSE "waiting"]]
  /\ task = [t \in Tasks |-> Unused]
  /\ pc = [r \in Runners |-> "idle"]
  /\ current = {} /\ fresh = {}
  /\ picked = [r \in Runners |-> 0]
  /\ held = [r \in Runners |-> 0]
  /\ result = [r \in Runners |-> "none"]
  /\ queued = FALSE
  /\ emitter = [pc |-> "idle", seen |-> Statuses]
  /\ op = NoOp
  /\ reruns = 0
  /\ raced = {}
  /\ disturbed = FALSE
  /\ silent = Ready(Statuses)
-----------------------------------------------------------------------------
(* The transactions of models/actions.                                     *)

\* UpdateRunJob with the column status: a job that becomes waiting increases the
\* version of the tasks, what was read of it before is old then.
SetJobs(rowsOfJobs) ==
  /\ job' = rowsOfJobs
  /\ IF \E j \in Jobs : job[j].status # "waiting" /\ rowsOfJobs[j].status = "waiting"
     THEN current' = {} /\ fresh' = {}
     ELSE UNCHANGED versions

SetStatuses(s) == SetJobs([j \in Jobs |-> [job[j] EXCEPT !.status = s[j]]])

\* Mutant: the job keeps its status.
EndTaskOnly(t, s) ==
  /\ task' = [task EXCEPT ![t].status = s]
  /\ UNCHANGED <<job, versions>>

\* StopTask and UpdateTaskByState end a task and its job, whatever they are by now.
EndTask(t, s) ==
  /\ job' = [job EXCEPT ![task[t].job].status = s]
  /\ task' = [task EXCEPT ![t].status = s]
  /\ UNCHANGED versions
-----------------------------------------------------------------------------
(* A runner asks for a task: FetchTask, CreateTaskForRunner.               *)

\* The version is read before the jobs are.
FetchTask(r) ==
  /\ pc[r] = "idle" /\ r \notin current
  /\ fresh' = fresh \cup {r}
  /\ pc' = [pc EXCEPT ![r] = "fetching"]
  /\ raced' = raced \ {r}
  /\ UNCHANGED <<rows, current, picked, held, result, queued, emitter, op, reruns, history>>

Candidates(r) == {j \in CanRun[r] : job[j].status = "waiting" /\ job[j].task = 0}

PickJob(r) ==
  /\ pc[r] = "fetching"
  /\ \E j \in Candidates(r) : picked' = [picked EXCEPT ![r] = j]
  /\ pc' = [pc EXCEPT ![r] = "claiming"]
  /\ UNCHANGED <<rows, versions, held, result, raced, queued, emitter, op, reruns, history>>

\* Mutant: the runner is told the version of the moment of the answer.
NothingToDoLatest(r) ==
  /\ pc' = [pc EXCEPT ![r] = "idle"]
  /\ current' = current \cup {r}
  /\ fresh' = fresh \ {r}
  /\ picked' = [picked EXCEPT ![r] = 0]
  /\ UNCHANGED <<rows, held, result, queued, emitter, op, reruns, history>>

\* The runner is told the version that was read and no task.
NothingToDo(r) ==
  /\ pc' = [pc EXCEPT ![r] = "idle"]
  /\ current' = IF r \in fresh THEN current \cup {r} ELSE current
  /\ fresh' = fresh \ {r}
  /\ picked' = [picked EXCEPT ![r] = 0]
  /\ UNCHANGED <<rows, held, result, queued, emitter, op, reruns, history>>

NothingWaits(r) ==
  /\ pc[r] = "fetching" /\ Candidates(r) = {}
  /\ pc' = [pc EXCEPT ![r] = "empty"]
  /\ UNCHANGED <<rows, versions, picked, held, result, raced, queued, emitter, op, reruns, history>>

AnswerNothing(r) ==
  /\ pc[r] = "empty"
  /\ NothingToDo(r)
  /\ UNCHANGED raced

\* Mutant: the update has no condition.
ClaimJobAnyway(r) ==
  /\ pc[r] = "claiming"
  /\ \E t \in Tasks :
       /\ task[t] = Unused /\ \A u \in Tasks : u < t => task[u] # Unused
       /\ task' = [task EXCEPT ![t] = [job |-> picked[r], status |-> "running"]]
       /\ job' = [job EXCEPT ![picked[r]] = [status |-> "running", task |-> t]]
       /\ held' = [held EXCEPT ![r] = t] /\ pc' = [pc EXCEPT ![r] = "working"]
  /\ picked' = [picked EXCEPT ![r] = 0]
  /\ fresh' = fresh \ {r}
  /\ UNCHANGED <<approved, current, result, raced, queued, emitter, op, reruns, history>>

\* UPDATE ... WHERE task_id = 0, whatever the status of the job is by now.
ClaimJob(r) ==
  /\ pc[r] = "claiming" /\ job[picked[r]].task = 0
  /\ \E t \in Tasks :
       /\ task[t] = Unused /\ \A u \in Tasks : u < t => task[u] # Unused
       /\ task' = [task EXCEPT ![t] = [job |-> picked[r], status |-> "running"]]
       /\ job' = [job EXCEPT ![picked[r]] = [status |-> "running", task |-> t]]
       \* the runner gets the answer, or never learns of its task
       /\ \/ held' = [held EXCEPT ![r] = t] /\ pc' = [pc EXCEPT ![r] = "working"]
          \/ pc' = [pc EXCEPT ![r] = "idle"] /\ UNCHANGED held
  /\ picked' = [picked EXCEPT ![r] = 0]
  /\ fresh' = fresh \ {r}
  /\ UNCHANGED <<approved, current, result, raced, queued, emitter, op, reruns, history>>

\* No row is affected: another runner has the job.
LoseJob(r) ==
  /\ pc[r] = "claiming" /\ job[picked[r]].task # 0
  /\ NothingToDo(r)
  /\ raced' = raced \cup {r}

\* The transaction fails, the runner is answered with an error.
ClaimFails(r) ==
  /\ pc[r] = "claiming"
  /\ pc' = [pc EXCEPT ![r] = "idle"]
  /\ picked' = [picked EXCEPT ![r] = 0]
  /\ fresh' = fresh \ {r}
  /\ UNCHANGED <<rows, current, held, result, raced, queued, emitter, op, reruns, history>>
-----------------------------------------------------------------------------
(* A runner reports the end of its task: UpdateTask.                       *)

\* UpdateTaskByState reads the task; of a final one it changes nothing.
Report(r) ==
  /\ pc[r] = "working"
  /\ IF result[r] = "none"
     THEN \E s \in Results : result' = [result EXCEPT ![r] = s]
     ELSE UNCHANGED result
  /\ pc' = [pc EXCEPT ![r] =
              IF task[held[r]].status \in Done THEN "reported" ELSE "writing"]
  /\ UNCHANGED <<rows, versions, picked, held, raced, queued, emitter, op, reruns, history>>

WriteResult(r) ==
  /\ pc[r] = "writing"
  /\ EndTask(held[r], result[r])
  /\ pc' = [pc EXCEPT ![r] = "reported"]
  /\ UNCHANGED <<approved, picked, held, result, raced, queued, emitter, op,
                 reruns, history>>

\* The transaction fails, or the server stops before it answers: the runner tries again.
ReportFails(r) ==
  /\ pc[r] \in {"writing", "reported"}
  /\ pc' = [pc EXCEPT ![r] = "working"]
  /\ UNCHANGED <<rows, versions, picked, held, result, raced, queued, emitter, op,
                 reruns, history>>

Answered(r) ==
  /\ pc' = [pc EXCEPT ![r] = "idle"]
  /\ held' = [held EXCEPT ![r] = 0]
  /\ result' = [result EXCEPT ![r] = "none"]
  /\ UNCHANGED <<rows, versions, picked, raced, emitter, op, reruns, disturbed>>

\* EmitJobsIfReady: the queue is unique, the run is in it once.
Emit(r) ==
  /\ pc[r] = "reported"
  /\ queued' = TRUE
  /\ silent' = {}
  /\ Answered(r)

\* A push that fails is logged, the runner is answered all the same.
EmitFails(r) ==
  /\ pc[r] = "reported"
  /\ silent' = silent \cup Ready(Statuses)
  /\ Answered(r)
  /\ UNCHANGED queued

\* A runner stops and forgets its task.
RunnerDies(r) ==
  /\ pc[r] = "working"
  /\ silent' = silent \cup (IF Owed THEN Ready(Statuses) ELSE {})
  /\ Answered(r)
  /\ UNCHANGED queued
-----------------------------------------------------------------------------
(* The emitter: jobEmitterQueueHandler, checkJobsOfRun.                    *)

EmitterPop ==
  /\ queued /\ emitter.pc = "idle"
  /\ queued' = FALSE
  /\ emitter' = [emitter EXCEPT !.pc = "popped"]
  /\ UNCHANGED <<rows, versions, runner, op, reruns, history>>

\* The jobs are read before the transaction begins.
EmitterRead ==
  /\ emitter.pc = "popped"
  /\ emitter' = [pc |-> "checking", seen |-> Statuses]
  /\ UNCHANGED <<rows, versions, runner, queued, op, reruns, history>>

\* jobStatusResolver.resolve of a job whose needs are done
Release(s, j) ==
  IF j \in HasIf \/ \A n \in Needs[j] : s[n] = "success" THEN "waiting" ELSE "skipped"

\* Blocked jobs one pass of Resolve skips, after those skipped already.
SkippedAfter(s, skipped) ==
  {j \in Jobs : /\ s[j] = "blocked"
                /\ \A n \in Needs[j] : s[n] \in Done \/ n \in skipped
                /\ Release(s, j) = "skipped"}

\* Resolve: as many passes as there are jobs, since a skipped job releases others.
SkippedByResolve(s) ==
  LET skipped[n \in Nat] == IF n = 0 THEN {} ELSE SkippedAfter(s, skipped[n - 1])
  IN  skipped[Cardinality(Jobs)]

Resolve(s) ==
  LET released == {j \in Jobs : /\ s[j] = "blocked"
                                /\ \A n \in Needs[j] :
                                     s[n] \in Done \/ n \in SkippedByResolve(s)}
  IN  [j \in Jobs |-> IF j \in released THEN Release(s, j) ELSE s[j]]

\* Jobs with a need that ended after the jobs were read.
Missed ==
  {j \in Jobs : \/ emitter.seen[j] # "blocked"
                \/ \E n \in Needs[j] : job[n].status \in Done /\ emitter.seen[n] \notin Done}

EmitterDone == emitter' = [pc |-> "idle", seen |-> [j \in Jobs |-> "blocked"]]

\* Each update is conditional on the job being blocked still.
EmitterWrite ==
  LET updates == {j \in Jobs : Resolve(emitter.seen)[j] # emitter.seen[j]} IN
  /\ emitter.pc = "checking"
  /\ \A j \in updates : job[j].status = "blocked"
  /\ SetStatuses([j \in Jobs |-> IF j \in updates THEN Resolve(emitter.seen)[j]
                                 ELSE job[j].status])
  /\ EmitterDone
  /\ silent' = IF queued \/ Owed THEN silent
               ELSE silent \cup ((Ready(Statuses') \ Ready(Statuses)) \cap Missed)
  /\ UNCHANGED <<task, approved, runner, queued, op, reruns, disturbed>>

\* Mutant: the handler returns nothing as unhandled.
EmitterFailsHandled ==
  /\ emitter.pc = "checking"
  /\ EmitterDone
  /\ UNCHANGED <<rows, versions, runner, queued, op, reruns, history>>

\* A job is not blocked any more or the transaction fails: the item is requeued.
EmitterFails ==
  /\ emitter.pc = "checking"
  /\ EmitterDone
  /\ queued' = TRUE
  /\ UNCHANGED <<rows, versions, runner, op, reruns, history>>
-----------------------------------------------------------------------------
(* The cleaners (clear_tasks.go).                                          *)

\* StopZombieTasks, StopEndlessTasks: any running task may be found.
StopRead(t) ==
  /\ op = NoOp /\ task[t].status = "running"
  /\ op' = [NoOp EXCEPT !.kind = "stop", !.task = t]
  /\ UNCHANGED <<rows, versions, runner, queued, emitter, reruns, history>>

StopWrite ==
  /\ op.kind = "stop"
  /\ EndTask(op.task, "failure")
  /\ op' = NoOp
  /\ UNCHANGED <<approved, runner, queued, emitter, reruns, disturbed>>
  /\ Quietly

\* CancelAbandonedJobs: the jobs that wait or are blocked for long.
AbandonRead ==
  /\ op = NoOp
  /\ \E old \in SUBSET {j \in Jobs : job[j].status \in {"waiting", "blocked"}} :
       /\ old # {}
       /\ op' = [NoOp EXCEPT !.kind = "abandon", !.todo = old]
  /\ UNCHANGED <<rows, versions, runner, queued, emitter, reruns, history>>

\* Each job has its transaction; the update has no condition.
AbandonWrite ==
  /\ op.kind = "abandon"
  /\ \E j \in op.todo :
       /\ SetStatuses([Statuses EXCEPT ![j] = "cancelled"])
       /\ op' = IF op.todo = {j} THEN NoOp ELSE [op EXCEPT !.todo = @ \ {j}]
  /\ disturbed' = TRUE
  /\ UNCHANGED <<task, approved, runner, queued, emitter, reruns>>
  /\ Quietly
-----------------------------------------------------------------------------
(* The buttons (view.go).                                                  *)

\* Jobs that have a task are cancelled with it.
CancelRead ==
  /\ op = NoOp /\ \E j \in Jobs : job[j].status \notin Done
  /\ op' = [NoOp EXCEPT !.kind = "cancel", !.seen = job,
                        !.todo = {j \in Jobs : job[j].status \notin Done /\ job[j].task # 0}]
  /\ UNCHANGED <<rows, versions, runner, queued, emitter, reruns, history>>

\* StopTask reads the task: one that ended stays as it is.
CancelLook ==
  /\ op.kind = "cancel"
  /\ \E j \in op.todo :
       /\ \A k \in op.todo : j <= k
       /\ LET read == task[op.seen[j].task].status
          IN  op' = [op EXCEPT !.todo = @ \ {j},
                               !.seen[j].status = IF read \in Done THEN read ELSE @]
  /\ UNCHANGED <<rows, versions, runner, queued, emitter, reruns, history>>

Unclaimed == {j \in Jobs : op.seen[j].status \notin Done /\ op.seen[j].task = 0}
Claimed == {t \in Tasks : \E j \in Jobs : op.seen[j].status \notin Done /\ op.seen[j].task = t}

\* The transaction commits: the jobs without a task, on condition, and the tasks of the
\* others with their jobs, whatever they are by now.
CancelWrite ==
  /\ op.kind = "cancel" /\ op.todo = {}
  /\ \A j \in Unclaimed : job[j].task = 0
  /\ job' = [j \in Jobs |-> IF j \in Unclaimed \/ \E t \in Claimed : task[t].job = j
                            THEN [job[j] EXCEPT !.status = "cancelled"] ELSE job[j]]
  /\ task' = [t \in Tasks |-> IF t \in Claimed THEN [task[t] EXCEPT !.status = "cancelled"]
                              ELSE task[t]]
  /\ op' = NoOp
  /\ disturbed' = TRUE
  /\ UNCHANGED <<versions, approved, runner, queued, emitter, reruns>>
  /\ Quietly

\* "job has changed, try again", or a failed transaction.
OpFails ==
  /\ op.kind \in {"stop", "cancel", "rerun", "abandon"}
  /\ op' = NoOp
  /\ UNCHANGED <<rows, versions, runner, queued, emitter, reruns, history>>

\* GetAllRerunJobs looks at the jobs in the order of their ids, in passes: one that needs
\* a name collected already is collected, unless its own name was.
Looked(collected, m) ==
  LET names == {JobID[k] : k \in collected}
  IN  collected \cup {k \in Jobs : /\ Cardinality({i \in Jobs : i < k}) = m % Cardinality(Jobs)
                                   /\ JobID[k] \notin names
                                   /\ \E n \in Needs[k] : JobID[n] \in names}

\* What is collected after so many looks; every pass but the last collects a job.
Collected(j) ==
  LET after[m \in Nat] == IF m = 0 THEN {j} ELSE Looked(after[m - 1], m - 1) IN after
Looks == Cardinality(Jobs) * Cardinality(Jobs)
Dependents(j) == {k \in Jobs : k \in Collected(j)[Looks]}

\* Rerun of one job and its dependents, or of all jobs (first = 0).
RerunRead ==
  /\ op = NoOp /\ reruns < MaxReruns
  /\ \E j \in Jobs \cup {0} :
       op' = [NoOp EXCEPT !.kind = "rerun", !.seen = job, !.first = j,
                          !.todo = IF j = 0 THEN Jobs ELSE Dependents(j)]
  /\ reruns' = reruns + 1
  /\ UNCHANGED <<rows, versions, runner, queued, emitter, history>>

\* Mutant: the job keeps the task of its earlier attempt.
RerunJobKeepsTask(j) ==
  LET block == IF op.first = 0 THEN Needs[j] # {} ELSE j # op.first
      reset == op.seen[j].status \in Done /\ job[j].status = op.seen[j].status
  IN
  /\ IF reset
     THEN /\ SetJobs([job EXCEPT ![j].status = IF block THEN "blocked" ELSE "waiting"])
          /\ disturbed' = TRUE
     ELSE UNCHANGED <<job, versions, disturbed>>
  /\ op' = IF op.todo = {j} THEN NoOp ELSE [op EXCEPT !.todo = @ \ {j}]
  /\ UNCHANGED <<task, approved, runner, queued, emitter, reruns>>
  /\ Quietly

\* rerunJob: a job whose status is still the final one read is reset.
RerunJob(j) ==
  LET block == IF op.first = 0 THEN Needs[j] # {} ELSE j # op.first
      reset == op.seen[j].status \in Done /\ job[j].status = op.seen[j].status
  IN
  /\ IF reset
     THEN /\ SetJobs([job EXCEPT ![j] = [task |-> 0, status |->
                        IF block THEN "blocked" ELSE "waiting"]])
          /\ disturbed' = TRUE
     ELSE UNCHANGED <<job, versions, disturbed>>
  /\ op' = IF op.todo = {j} THEN NoOp ELSE [op EXCEPT !.todo = @ \ {j}]
  /\ UNCHANGED <<task, approved, runner, queued, emitter, reruns>>
  /\ Quietly

\* All jobs in the order of their ids, or the job and its dependents as collected.
RerunWrite ==
  /\ op.kind = "rerun"
  /\ \E j \in op.todo :
       /\ IF op.first = 0
          THEN \A k \in op.todo : j <= k
          ELSE \E m \in 0..Looks : Collected(op.first)[m] \cap op.todo = {j}
       /\ RerunJob(j)

\* Mutant: the needs of the jobs are forgotten.
ApproveAll ==
  /\ ~approved
  /\ approved' = TRUE
  /\ SetStatuses([j \in Jobs |-> IF job[j].status = "blocked" THEN "waiting"
                                 ELSE job[j].status])
  /\ silent' = {}
  /\ UNCHANGED <<task, runner, queued, emitter, op, reruns, disturbed>>

\* Approve: the version of the run, read before the jobs, must not have changed:
\* the reads and the writes are one step.
Approve ==
  /\ ~approved
  /\ approved' = TRUE
  /\ SetStatuses([j \in Jobs |-> IF Needs[j] = {} /\ job[j].status = "blocked"
                                 THEN "waiting" ELSE job[j].status])
  /\ silent' = silent \ {j \in Jobs : Needs[j] = {}}
  /\ UNCHANGED <<task, runner, queued, emitter, op, reruns, disturbed>>
-----------------------------------------------------------------------------
RunnerStep(r) ==
  \/ FetchTask(r) \/ PickJob(r) \/ NothingWaits(r) \/ AnswerNothing(r)
  \/ ClaimJob(r) \/ LoseJob(r) \/ ClaimFails(r)
  \/ Report(r) \/ WriteResult(r) \/ ReportFails(r)
  \/ Emit(r) \/ EmitFails(r) \/ RunnerDies(r)

EmitterStep == EmitterPop \/ EmitterRead \/ EmitterWrite \/ EmitterFails

OpStep ==
  \/ \E t \in Tasks : StopRead(t)
  \/ StopWrite \/ AbandonRead \/ AbandonWrite \/ CancelRead \/ CancelLook
  \/ CancelWrite \/ RerunRead \/ RerunWrite \/ OpFails \/ Approve

Next == (\E r \in Runners : RunnerStep(r)) \/ EmitterStep \/ OpStep

Spec == Init /\ [][Next]_vars
-----------------------------------------------------------------------------
\* A job that waits or is blocked has no task, or no runner could ever claim it
\* (task.go:238); Rerun has to forget the task of the earlier attempt (view.go:411).
UnclaimedHasNoTask ==
  \A j \in Jobs : job[j].status \in {"waiting", "blocked"} => job[j].task = 0

\* A running job has a running task, which its runner or a cleaner will end: a job
\* that ran on without one would be out of the reach of every cleaner.
RunningHasLiveTask ==
  \A j \in Jobs : job[j].status = "running" =>
    /\ job[j].task # 0
    /\ task[job[j].task] = [job |-> j, status |-> "running"]

\* As long as nothing is cancelled, abandoned or rerun, a job leaves "blocked" only
\* when all its needs are done, though the emitter decides on what it read before.
NeedsRespected ==
  disturbed \/ ~approved \/
  \A j \in Jobs : job[j].status # "blocked" => \A n \in Needs[j] : job[n].status \in Done

\* A runner that was told the current version has no job to fetch, unless its last
\* request lost the job it picked: the version is read before the jobs (runner.go:140).
ToldWhatWaits ==
  \A r \in Runners : pc[r] = "idle" /\ r \in current /\ r \notin raced =>
    Candidates(r) = {}

\* A claimed job goes to another runner only after it was reset, however many
\* runners picked it.
ClaimedOnce ==
  [][\A j \in Jobs : job'[j].task # job[j].task => job[j].task = 0 \/ job'[j].task = 0]_job

\* A blocked job whose needs are all done is on its way to be released: the run is
\* queued, the emitter is going to read its jobs or read them when they were done, or
\* a live runner has yet to report a finished task.  So neither a restart between the
\* transaction and the push nor a failing item strands a job, and a stale read only
\* one that needs a job which ended where the code emits nothing (job_emitter.go:47-75,
\* clear_tasks.go:44, runner.go:226).
ReadyIsCovered ==
  \A j \in Ready(Statuses) \ silent :
    \/ queued
    \/ emitter.pc = "popped"
    \/ emitter.pc = "checking" /\ NeedsDone(emitter.seen, j)
    \/ Owed
=============================================================================
