\* As MCEventSource_connections, with the promise of messenger.go as it is written.
CONSTANTS
  Conn = {c1, c2}
  User = {u1}
  SignOut = {s1}
  UserOf <- MCUserOf
SPECIFICATION FairSpec
PROPERTY SignOutEnds
\* A connection need not come, and a stuck sign out stops the others.
CHECK_DEADLOCK FALSE
