--------------------------- MODULE ExclusivePool ---------------------------
(***************************************************************************)
(* modules/sync/exclusive_pool.go: a lock for each identity in use.        *)
(*                                                                         *)
(* A mutex is made when an identity is used first and forgotten when its   *)
(* last user leaves, so the mutexes of one identity differ over time.      *)
(* CheckIn counts its user before it waits for the mutex; CheckOut unlocks *)
(* the mutex the map has by then, which is right only if it is the one the *)
(* user locked.                                                            *)
(***************************************************************************)
EXTENDS Naturals, FiniteSets

CONSTANTS
  Identity,   \* what is checked in
  User,       \* goroutines
  Mutex       \* the mutexes that are made

NoMutex == "nil"
ASSUME MutexAssumption == NoMutex \notin Mutex
ASSUME UserAssumption == IsFiniteSet(User)

VARIABLES
  pool,       \* the mutex of every identity, NoMutex if it is not in the map
  count,      \* the map count
  locked,     \* the mutexes that are locked
  visit       \* every user: where it is, for which identity, with which mutex

poolVars == <<pool, count, locked, visit>>

Outside == [at |-> "outside", id |-> "nil", mutex |-> NoMutex]
Inside(u, i) == visit[u].at = "inside" /\ visit[u].id = i
UsersOf(i) == {u \in User : visit[u].at # "outside" /\ visit[u].id = i}

PoolTypeOK ==
  /\ pool \in [Identity -> Mutex \cup {NoMutex}]
  /\ count \in [Identity -> Nat]
  /\ locked \subseteq Mutex
  /\ visit \in [User -> {Outside} \cup
                        [at : {"waiting", "inside"}, id : Identity, mutex : Mutex]]

PoolInit ==
  /\ pool = [i \in Identity |-> NoMutex]
  /\ count = [i \in Identity |-> 0]
  /\ locked = {}
  /\ visit = [u \in User |-> Outside]

\* A mutex nobody refers to stands for a new one.
Fresh == {m \in Mutex : /\ \A i \in Identity : pool[i] # m
                        /\ \A u \in User : visit[u].mutex # m}

\* CheckIn up to p.lock.Unlock()
CheckIn(u, i) ==
  /\ visit[u].at = "outside"
  /\ pool[i] # NoMutex \/ Fresh # {}
  /\ LET m == IF pool[i] = NoMutex THEN CHOOSE x \in Fresh : TRUE ELSE pool[i] IN
       /\ pool' = [pool EXCEPT ![i] = m]
       /\ visit' = [visit EXCEPT ![u] = [at |-> "waiting", id |-> i, mutex |-> m]]
       /\ locked' = IF pool[i] = NoMutex THEN locked \ {m} ELSE locked
  /\ count' = [count EXCEPT ![i] = @ + 1]

\* lock.Lock()
Enter(u) ==
  /\ visit[u].at = "waiting" /\ visit[u].mutex \notin locked
  /\ locked' = locked \cup {visit[u].mutex}
  /\ visit' = [visit EXCEPT ![u].at = "inside"]
  /\ UNCHANGED <<pool, count>>

\* Mutant: the mutex is forgotten though others wait for it.
CheckOutForgets(u) ==
  LET i == visit[u].id IN
  /\ visit[u].at = "inside"
  /\ locked' = locked \ {pool[i]}
  /\ pool' = [pool EXCEPT ![i] = NoMutex]
  /\ count' = [count EXCEPT ![i] = 0]
  /\ visit' = [visit EXCEPT ![u] = Outside]

\* Mutant: the count is left as it is.
CheckOutUncounted(u) ==
  LET i == visit[u].id IN
  /\ visit[u].at = "inside"
  /\ locked' = locked \ {pool[i]}
  /\ IF count[i] = 1 THEN pool' = [pool EXCEPT ![i] = NoMutex] ELSE UNCHANGED pool
  /\ visit' = [visit EXCEPT ![u] = Outside]
  /\ UNCHANGED count

CheckOut(u) ==
  LET i == visit[u].id IN
  /\ visit[u].at = "inside"
  /\ locked' = locked \ {pool[i]}
  /\ IF count[i] = 1
     THEN /\ pool' = [pool EXCEPT ![i] = NoMutex]
          /\ count' = [count EXCEPT ![i] = 0]
     ELSE /\ count' = [count EXCEPT ![i] = @ - 1]
          /\ UNCHANGED pool
  /\ visit' = [visit EXCEPT ![u] = Outside]

\* The program ends and starts again.
Restart ==
  /\ pool' = [i \in Identity |-> NoMutex]
  /\ count' = [i \in Identity |-> 0]
  /\ locked' = {}
  /\ visit' = [u \in User |-> Outside]

PoolNext ==
  \/ \E u \in User : (\E i \in Identity : CheckIn(u, i)) \/ Enter(u) \/ CheckOut(u)
  \/ Restart

PoolSpec == PoolInit /\ [][PoolNext]_poolVars
-----------------------------------------------------------------------------
\* "only one instance with same identity is in the pool at a time"
\* (exclusive_pool.go:11), though its mutex is deleted and made anew between visits.
MutualExclusion ==
  \A i \in Identity, u, v \in User : (Inside(u, i) /\ Inside(v, i)) => u = v

\* Who waits or is inside has the mutex of the map, and the count is the number of
\* these users: CheckOut unlocks the mutex its user locked, never deletes one that is
\* awaited, and the maps are empty when nobody uses them.
CountedMutex ==
  /\ \A u \in User : visit[u].at # "outside" => pool[visit[u].id] = visit[u].mutex
  /\ \A i \in Identity : /\ count[i] = Cardinality(UsersOf(i))
                         /\ (pool[i] = NoMutex) <=> (count[i] = 0)
=============================================================================
