\* Goroutines are scheduled, handlers may hang: what must happen in the end.
CONSTANTS
  Item = {i1, i2}
  Payload <- Payloads
  Twins = {}
  Worker = {w1, w2}
  Flusher = {f1}
  Length = 1
  BatchLength = 2
  MaxWorkers = 2
  AdminMax = {}
  ShutdownTimeouts = {0}
  FailBudget = 1
  BaseErrors = FALSE
  Run = run
SPECIFICATION FairSpec
PROPERTIES EventuallyHandled FlushReturns ShutdownEndsUnlessRunWaits
\* A stopped queue does nothing more.
CHECK_DEADLOCK FALSE
