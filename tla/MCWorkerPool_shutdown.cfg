\* Shutdown with and without a timeout, failing handlers, a full or failing base queue.
CONSTANTS
  Item = {i1, i2, i3}
  Payload <- Payloads
  Twins = {i1, i2}
  Worker = {w1, w2}
  Flusher = {}
  Length = 2
  BatchLength = 2
  MaxWorkers = 2
  AdminMax = {}
  ShutdownTimeouts = {0, 5}
  FailBudget = 2
  BaseErrors = TRUE
  Run = run
SPECIFICATION Spec
INVARIANTS Accounted Exclusive StoppedHoldsNothing BufferHasTimer
SYMMETRY Symmetry
\* A stopped queue does nothing more.
CHECK_DEADLOCK FALSE
