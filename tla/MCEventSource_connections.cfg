\* Two connections and a sign out of one user, while Run sends.
CONSTANTS
  Conn = {c1, c2}
  User = {u1}
  SignOut = {s1}
  UserOf <- MCUserOf
SPECIFICATION FairSpec
INVARIANTS TypeOK RegisteredIsOpen NoLostWakeup ListeningIsReachable
PROPERTIES LeaversGo SignOutEndsUnlessStuck
\* A connection need not come, and a stuck sign out stops the others.
CHECK_DEADLOCK FALSE
