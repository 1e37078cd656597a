--------------------------- MODULE MCEventSource ---------------------------
(* Instances of EventSource for TLC: all connections are of one user.       *)
EXTENDS EventSource

MCUserOf == [p \in Conn \cup SignOut |-> CHOOSE u \in User : TRUE]
=============================================================================
