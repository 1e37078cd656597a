\* Two pushes, one of them makes the patch empty, and two workers.
CONSTANTS
  Identity = {"pull"}
  Worker = {w1, w2}
  Merger = {}
  Pusher = {p1, p2}
  User <- MCUser
  Mutex = {x1, x2}
  Emptiness = {TRUE, FALSE}
  MaxPushes = 2
  MaxFaults = 0
SPECIFICATION Spec
INVARIANTS EmptyIsTrue
\* Nobody has to push.
CHECK_DEADLOCK FALSE
