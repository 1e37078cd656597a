---------------------------- MODULE PullChecker ----------------------------
(***************************************************************************)
(* The conflict check of one pull request (services/pull/check.go): pushes *)
(* set its status to checking and put it in the unique queue of the patch  *)
(* checker, workers of the queue test it against git and write the status, *)
(* mergers merge it.  Workers and mergers hold its place in                *)
(* pullWorkingPool, pushes do not.                                         *)
(*                                                                         *)
(* The state of the branches in git is the number of its latest change and *)
(* whether the patch is empty.  Status tested stands for mergeable,        *)
(* conflict and ancestor, which a test sets whatever the status was before.*)
(* The queue is persistent (type level) and stands for its base queue:     *)
(* what a worker has popped is not in it any more.                         *)
(***************************************************************************)
EXTENDS ExclusivePool

CONSTANTS
  Worker,      \* workers of the patch checker's queue
  Merger,      \* requests that merge, mark as merged or update the head branch
  Pusher,      \* goroutines of AddTestPullRequestTask
  Emptiness,   \* what a push may make of the patch, empty or not
  MaxPushes,   \* bound on the changes of the branches
  MaxFaults    \* bound on the crashes and failing writes

ASSUME EmptinessAssumption == Emptiness \subseteq BOOLEAN
ASSUME BoundAssumption == MaxPushes \in Nat /\ MaxFaults \in Nat

Boot == "boot"
Pull == "pull"
Proc == Worker \cup Merger \cup Pusher \cup {Boot}
ASSUME ProcessAssumption ==
  /\ User = Worker \cup Merger /\ Worker \cap Merger = {}
  /\ (User \cup {Boot}) \cap Pusher = {} /\ Boot \notin User
  /\ Pull \in Identity

VARIABLES
  git,         \* the latest change of the branches; whether the patch is empty
  row,         \* the row of the pull request, and the change its status is about
  queued,      \* it is in the queue
  pc,          \* workers, mergers, pushers and InitializePullRequests
  seen,        \* the status in a worker's copy of the row, and the change it is about
  missed,      \* a write or a push failed, or a crash lost a check nobody will repeat
  faults       \* crashes and failures so far

vars == <<poolVars, git, row, queued, pc, seen, missed, faults>>

Status == {"checking", "tested", "empty", "error", "merged"}
Row == [status : Status,
        tested : 0..MaxPushes, merged : BOOLEAN]

Copy == [status : Status \cup {"none"}, tested : 0..MaxPushes]
NoCopy == [status |-> "none", tested |-> 0]

TypeOK ==
  /\ PoolTypeOK
  /\ git \in [change : 0..MaxPushes, empty : BOOLEAN]
  /\ row \in Row
  /\ queued \in BOOLEAN /\ missed \in BOOLEAN
  /\ seen \in [Worker -> Copy]
  /\ faults \in 0..MaxFaults
  /\ DOMAIN pc = Proc
  /\ \A w \in Worker : pc[w] \in {"idle", "popped", "waiting", "loading", "detecting",
                                  "testing", "failing", "asking", "writing", "leaving"}
  /\ \A m \in Merger : pc[m] \in {"idle", "checked", "waiting", "merging", "hook",
                                  "pending", "editing", "ending", "leaving"}
  /\ \A p \in Pusher : pc[p] \in {"idle", "updating", "pushing"}
  /\ pc[Boot] \in {"idle", "start", "pushing"}

\* A pull request that was tested, when the server starts.
Init ==
  /\ PoolInit
  /\ git = [change |-> 0, empty |-> FALSE]
  /\ row = [status |-> "tested", tested |-> 0, merged |-> FALSE]
  /\ queued = FALSE
  /\ pc = [p \in Proc |-> IF p = Boot THEN "start" ELSE "idle"]
  /\ seen = [w \in Worker |-> NoCopy]
  /\ missed = FALSE
  /\ faults = 0

Fault == faults < MaxFaults /\ faults' = faults + 1
Goto(p, l) == pc' = [pc EXCEPT ![p] = l]

\* Bound on the requests: a push or a merge begins only while there is a goroutine in Pusher
\* besides those that the merges under way will start, so none of them ever waits for one.
Spare ==
  Cardinality({m \in Merger : pc[m] \notin {"idle", "leaving"}})
    < Cardinality({p \in Pusher : pc[p] = "idle"})
-----------------------------------------------------------------------------
(* A push and the goroutine it starts: AddTestPullRequestTask, AddToTaskQueue. *)

\* Someone pushes to the head or the base branch.
Push(p) ==
  /\ pc[p] = "idle" /\ git.change < MaxPushes /\ Spare
  /\ \E e \in Emptiness : git' = [change |-> git.change + 1, empty |-> e]
  /\ Goto(p, "updating")
  /\ UNCHANGED <<poolVars, row, queued, seen, missed, faults>>

\* Mutant: the update is not conditional on has_merged.
SetCheckingAnyway(p) ==
  /\ pc[p] = "updating"
  /\ row' = [row EXCEPT !.status = "checking"]
  /\ Goto(p, "pushing")
  /\ UNCHANGED <<poolVars, git, queued, seen, missed, faults>>

\* UpdateColsIfNotMerged of the status.
SetChecking(p) ==
  /\ pc[p] = "updating"
  /\ row' = IF row.merged THEN row ELSE [row EXCEPT !.status = "checking"]
  /\ Goto(p, "pushing")
  /\ UNCHANGED <<poolVars, git, queued, seen, missed, faults>>

\* Mutant: an item that is being handled is not queued again.
QueuePushUnlessHandled(p) ==
  /\ pc[p] = "pushing"
  /\ queued' = (queued \/ \A w \in Worker : pc[w] = "idle")
  /\ Goto(p, "idle")
  /\ UNCHANGED <<poolVars, git, row, seen, missed, faults>>

\* The item is in the queue, perhaps it was already.
QueuePush(p) ==
  /\ pc[p] = "pushing"
  /\ queued' = TRUE
  /\ Goto(p, "idle")
  /\ UNCHANGED <<poolVars, git, row, seen, missed, faults>>

\* The update or the push fails and is logged.
PushFails(p) ==
  /\ pc[p] \in {"updating", "pushing"}
  /\ missed' = TRUE /\ Fault
  /\ Goto(p, "idle")
  /\ UNCHANGED <<poolVars, git, row, queued, seen>>

PushStep(p) == Push(p) \/ SetChecking(p) \/ QueuePush(p) \/ PushFails(p)
-----------------------------------------------------------------------------
(* A worker of the queue: handler, testPR.                                 *)

Pop(w) ==
  /\ pc[w] = "idle" /\ queued
  /\ queued' = FALSE
  /\ Goto(w, "popped")
  /\ UNCHANGED <<poolVars, git, row, seen, missed, faults>>

TestCheckIn(w) ==
  /\ pc[w] = "popped" /\ CheckIn(w, Pull)
  /\ Goto(w, "waiting")
  /\ UNCHANGED <<git, row, queued, seen, missed, faults>>

TestEnter(w) ==
  /\ pc[w] = "waiting" /\ Enter(w)
  /\ Goto(w, "loading")
  /\ UNCHANGED <<git, row, queued, seen, missed, faults>>

\* GetPullRequestByID
Load(w) ==
  /\ pc[w] = "loading"
  /\ IF row.merged
     THEN Goto(w, "leaving") /\ UNCHANGED seen
     ELSE Goto(w, "detecting") /\ seen' = [seen EXCEPT ![w].status = row.status]
  /\ UNCHANGED <<poolVars, git, row, queued, missed, faults>>

\* manuallyMerged: base does not contain the head or may not be asked, or SetMerged
\* under the lock of the row, whose transaction may fail.
Detect(w) ==
  /\ pc[w] = "detecting"
  /\ \/ /\ Goto(w, "testing")
        /\ UNCHANGED <<row, seen>>
     \/ /\ ~row.merged
        /\ row' = [row EXCEPT !.merged = TRUE, !.status = "merged"]
        /\ Goto(w, "leaving")
        /\ UNCHANGED seen
     \/ /\ seen' = [seen EXCEPT ![w].status = "merged"]
        /\ Goto(w, "testing")
        /\ UNCHANGED row
  /\ UNCHANGED <<poolVars, git, queued, missed, faults>>

\* TestPatch: a patch with content that the copy of the row says is empty stays so
\* (patch.go:105).
Found(w) ==
  IF git.empty THEN {"empty"} ELSE {"tested"} \cup ({seen[w].status} \cap {"empty"})

Test(w) ==
  /\ pc[w] = "testing"
  /\ \E s \in Found(w) \cup {"error"} :
       /\ seen' = [seen EXCEPT ![w] = [status |-> s, tested |-> git.change]]
       /\ Goto(w, IF s = "error" THEN "failing" ELSE "asking")
  /\ UNCHANGED <<poolVars, git, row, queued, missed, faults>>

\* UpdateCols has no condition.
WriteError(w) ==
  /\ pc[w] = "failing"
  /\ row' = [row EXCEPT !.status = "error", !.tested = seen[w].tested]
  /\ Goto(w, "leaving")
  /\ UNCHANGED <<poolVars, git, queued, seen, missed, faults>>

\* checkAndUpdateStatus: a check that waits makes this one worthless, an error of
\* Has is logged.
Ask(w) ==
  /\ pc[w] = "asking"
  /\ Goto(w, "writing") \/ (queued /\ Goto(w, "leaving"))
  /\ UNCHANGED <<poolVars, git, row, queued, seen, missed, faults>>

\* UpdateColsIfNotMerged
WriteStatus(w) ==
  /\ pc[w] = "writing"
  /\ row' = IF row.merged THEN row
            ELSE [row EXCEPT !.status = seen[w].status, !.tested = seen[w].tested]
  /\ Goto(w, "leaving")
  /\ UNCHANGED <<poolVars, git, queued, seen, missed, faults>>

\* The row cannot be read or written; that is logged.
RowFails(w) ==
  /\ pc[w] \in {"loading", "failing", "writing"}
  /\ missed' = TRUE /\ Fault
  /\ Goto(w, "leaving")
  /\ UNCHANGED <<poolVars, git, row, queued, seen>>

\* Mutant: a path that does not check out.
TestLeaveInside(w) ==
  /\ pc[w] = "leaving"
  /\ Goto(w, "idle")
  /\ seen' = [seen EXCEPT ![w] = NoCopy]
  /\ UNCHANGED <<poolVars, git, row, queued, missed, faults>>

TestLeave(w) ==
  /\ pc[w] = "leaving" /\ CheckOut(w)
  /\ Goto(w, "idle")
  /\ seen' = [seen EXCEPT ![w] = NoCopy]
  /\ UNCHANGED <<git, row, queued, missed, faults>>

WorkerStep(w) ==
  \/ Pop(w) \/ TestCheckIn(w) \/ TestEnter(w) \/ Load(w) \/ Detect(w)
  \/ Test(w) \/ WriteError(w) \/ Ask(w) \/ WriteStatus(w) \/ RowFails(w) \/ TestLeave(w)
-----------------------------------------------------------------------------
(* Merge, and the requests MergedManually and Update.                      *)

\* CheckPullMergeable, before the pool is entered.
MergeCheck(m) ==
  /\ pc[m] = "idle" /\ Spare
  /\ row.status \in {"tested", "empty"} /\ ~row.merged
  /\ Goto(m, "checked")
  /\ UNCHANGED <<poolVars, git, row, queued, seen, missed, faults>>

MergeCheckIn(m) ==
  /\ pc[m] = "checked" /\ CheckIn(m, Pull)
  /\ Goto(m, "waiting")
  /\ UNCHANGED <<git, row, queued, seen, missed, faults>>

\* MergedManually and Update enter without a check of the status.
EditCheckIn(m) ==
  /\ pc[m] = "idle" /\ Spare /\ CheckIn(m, Pull)
  /\ Goto(m, "pending")
  /\ UNCHANGED <<git, row, queued, seen, missed, faults>>

MergeEnter(m) ==
  /\ pc[m] \in {"waiting", "pending"} /\ Enter(m)
  /\ Goto(m, IF pc[m] = "waiting" THEN "merging" ELSE "editing")
  /\ UNCHANGED <<git, row, queued, seen, missed, faults>>

\* doMergeAndPush, it changes nothing in the database.  The push ends after its hook.
MergePush(m) ==
  /\ pc[m] = "merging" /\ git.change < MaxPushes
  /\ git' = [change |-> git.change + 1, empty |-> FALSE]
  /\ Goto(m, "hook")
  /\ UNCHANGED <<poolVars, row, queued, seen, missed, faults>>

\* MergedManually: SetMerged looks at the row again in its transaction.
MergeManually(m) ==
  /\ pc[m] = "editing" /\ ~row.merged
  /\ row' = [row EXCEPT !.merged = TRUE, !.status = "merged"]
  /\ Goto(m, "leaving")
  /\ UNCHANGED <<poolVars, git, queued, seen, missed, faults>>

\* Update: the base branch is merged into the head branch and pushed.
UpdateHead(m) ==
  /\ pc[m] = "editing" /\ git.change < MaxPushes
  /\ \E e \in Emptiness : git' = [change |-> git.change + 1, empty |-> e]
  /\ Goto(m, "ending")
  /\ UNCHANGED <<poolVars, row, queued, seen, missed, faults>>

\* The merge style is not allowed, or there is nothing to push.
MergeFails(m) ==
  /\ pc[m] \in {"merging", "editing"}
  /\ \E l \in {"ending", "leaving"} : Goto(m, l)
  /\ UNCHANGED <<poolVars, git, row, queued, seen, missed, faults>>

\* handlePullRequestMerging, called by the hook of the push: SetMerged, unless the
\* pull request is merged already or the transaction fails.
MergeHook(m) ==
  /\ pc[m] = "hook"
  /\ row' \in {row, [row EXCEPT !.merged = TRUE]}
  /\ Goto(m, "ending")
  /\ UNCHANGED <<poolVars, git, queued, seen, missed, faults>>

\* The deferred AddTestPullRequestTask starts a goroutine; Spare has left one for it.
MergeEnd(m) ==
  /\ pc[m] = "ending"
  /\ \E p \in Pusher : pc[p] = "idle" /\ pc' = [pc EXCEPT ![m] = "leaving", ![p] = "updating"]
  /\ UNCHANGED <<poolVars, git, row, queued, seen, missed, faults>>

MergeLeave(m) ==
  /\ pc[m] = "leaving" /\ CheckOut(m)
  /\ Goto(m, "idle")
  /\ UNCHANGED <<git, row, queued, seen, missed, faults>>

MergeStep(m) ==
  \/ MergeCheck(m) \/ MergeCheckIn(m) \/ MergeEnter(m) \/ MergePush(m) \/ MergeFails(m)
  \/ EditCheckIn(m) \/ MergeManually(m) \/ UpdateHead(m)
  \/ MergeHook(m) \/ MergeEnd(m) \/ MergeLeave(m)
-----------------------------------------------------------------------------
(* Start and crash.                                                        *)

\* Init: InitializePullRequests queues what is in status checking.
BootRead ==
  /\ pc[Boot] = "start"
  /\ Goto(Boot, IF row.status = "checking" THEN "pushing" ELSE "idle")
  /\ UNCHANGED <<poolVars, git, row, queued, seen, missed, faults>>

BootPush ==
  /\ pc[Boot] = "pushing"
  /\ queued' = TRUE
  /\ Goto(Boot, "idle")
  /\ UNCHANGED <<poolVars, git, row, seen, missed, faults>>

\* The rows cannot be found or the push fails, which is logged.
BootFails ==
  /\ pc[Boot] # "idle"
  /\ missed' = TRUE /\ Fault
  /\ Goto(Boot, "idle")
  /\ UNCHANGED <<poolVars, git, row, queued, seen>>

\* Rows, branches and the queue survive; checks under way do not.
Crash ==
  /\ Fault
  /\ Restart
  /\ pc' = [p \in Proc |-> IF p = Boot THEN "start" ELSE "idle"]
  /\ missed' = (missed \/ (row.status # "checking" /\ row.tested # git.change /\ ~queued))
  /\ seen' = [w \in Worker |-> NoCopy]
  /\ UNCHANGED <<git, row, queued>>
-----------------------------------------------------------------------------
Next ==
  \/ \E p \in Pusher : PushStep(p)
  \/ \E w \in Worker : WorkerStep(w)
  \/ \E m \in Merger : MergeStep(m)
  \/ BootRead \/ BootPush \/ BootFails \/ Crash

Spec == Init /\ [][Next]_vars

\* Whenever a goroutine that was started can run, one of them does; which one is left open,
\* as is who gets a mutex that several wait for.  Nobody has to push or to merge, and
\* failures may happen or not.
Due ==
  \/ \E p \in Pusher : SetChecking(p) \/ QueuePush(p)
  \/ \E w \in Worker : WorkerStep(w)
  \/ \E m \in Merger : pc[m] # "idle" /\ MergeStep(m)
  \/ BootRead \/ BootPush

Fairness == WF_vars(Due)

FairSpec == Spec /\ Fairness
-----------------------------------------------------------------------------
\* A check that will read git after now, or read it in its present state.
OnItsWay ==
  \/ queued \/ pc[Boot] # "idle"
  \/ \E p \in Pusher : pc[p] # "idle"
  \/ \E w \in Worker :
       \/ pc[w] \in {"popped", "waiting", "loading", "detecting", "testing"}
       \/ /\ pc[w] \in {"asking", "writing", "failing"}
          /\ seen[w].tested = git.change
  \/ \E m \in Merger : pc[m] \in {"hook", "ending"}

\* An open pull request whose status is checking, or about an older state of the
\* branches, has a check on its way, unless a write failed or a crash came between two
\* steps: whatever overtakes whatever, the last status written is about the branches
\* as they are (check.go:47-60, :166-190).
OutdatedIsRechecked ==
  (~row.merged /\ (row.status = "checking" \/ row.tested # git.change)) => (OnItsWay \/ missed)

\* When no check is due any more, a pull request is empty only if its patch is: "Make
\* sure there is no waiting test to process before leaving the checking status"
\* (check.go:179).
EmptyIsTrue ==
  (~row.merged /\ row.status = "empty" /\ ~git.empty) => (OnItsWay \/ missed)

\* A merge is final: no test, push or merge that began before it changes the row.
MergedIsFinal ==
  [][row.merged => UNCHANGED row]_row

\* Users may ask for an update again and again, and each of them starts another check.
RequestsCease == <>[](\A m \in Merger : pc[m] # "pending")

\* If such requests cease, a check ends, whoever holds the place in the pool before it.
CheckingEnds == RequestsCease =>
  ((row.status = "checking" /\ ~row.merged) ~> (row.status # "checking" \/ row.merged \/ missed))
=============================================================================
