\* Two producers, two consumers and an administrator's RemoveAll.
\* CHECK_DEADLOCK: a stuck RemoveAll stops every goroutine, which the last property allows.
CONSTANTS
  Item = {x, y}
  Pushers = {p1, p2}
  Poppers = {g1, g2}
  Removers = {r1}
  Length = 2
  Unique = TRUE
SPECIFICATION FairSpec
INVARIANTS QueuedIsRegistered NoDuplicates
PROPERTY PushReturnsUnlessStuck
CHECK_DEADLOCK FALSE
