\* Job 2 needs job 1; two runners, three tasks, one rerun.
CONSTANTS
  Jobs = {1, 2}
  JobID <- MCJobID
  Needs <- MCNeeds
  HasIf <- MCHasIf
  Runners = {r1, r2}
  CanRun <- MCCanRun
  Results = {"success"}
  MaxTasks = 3
  MaxReruns = 1
SPECIFICATION Spec
INVARIANTS UnclaimedHasNoTask RunningHasLiveTask NeedsRespected ToldWhatWaits ReadyIsCovered
PROPERTIES ClaimedOnce
\* A run that is done stays done.
CHECK_DEADLOCK FALSE
SYMMETRY Symmetry
