\* Batches are dispatched while an administrator changes the limit of workers and two
\* callers flush.
CONSTANTS
  Item = {i1, i2}
  Payload <- Payloads
  Twins = {}
  Worker = {w1, w2, w3}
  Flusher = {f1, f2}
  Length = 1
  BatchLength = 1
  MaxWorkers = 2
  AdminMax = {0, 1}
  ShutdownTimeouts = {5}
  FailBudget = 1
  BaseErrors = FALSE
  Run = run
SPECIFICATION Spec
INVARIANTS WorkerCount WorkerLimit BlockedHasWorker
PROPERTIES FlushIsSynchronous ImplementsContract
SYMMETRY Symmetry
\* A stopped queue does nothing more.
CHECK_DEADLOCK FALSE
