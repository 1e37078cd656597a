\* Two tasks, two workers, pages of one id, and two faults.
CONSTANTS
  MaxTasks = 2
  Caller = {c1}
  Worker = {w1, w2}
  PageSize = 1
  MaxFaults = 2
SPECIFICATION FairSpec
INVARIANTS SentOnce UndeliveredIsUnderway
PROPERTIES RecordIsFinal EventuallyDelivered
\* All tasks may be delivered.
CHECK_DEADLOCK FALSE
