\* Two workers, a request to merge or update, two goroutines of pushes, one crash or failure.
CONSTANTS
  Identity = {"pull"}
  Worker = {w1, w2}
  Merger = {m1}
  Pusher = {p1, p2}
  User <- MCUser
  Mutex = {x1, x2}
  Emptiness = {FALSE}
  MaxPushes = 2
  MaxFaults = 1
SPECIFICATION FairSpec
INVARIANTS MutualExclusion CountedMutex OutdatedIsRechecked
PROPERTIES MergedIsFinal CheckingEnds
\* A merged pull request is left alone.
CHECK_DEADLOCK FALSE
