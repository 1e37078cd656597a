------------------------- MODULE PullCheckerProofs -------------------------
(***************************************************************************)
(* The exclusive pool excludes, for every set of users, identities and     *)
(* mutexes, and the conflict check uses it as it is meant to be used, so   *)
(* that a merge is final.                                                  *)
(***************************************************************************)
EXTENDS PullChecker, FiniteSetTheorems, TLAPS

Away(u) == visit[u].at = "outside"

\* The mutex of an identity is its own, and is locked by the one user that is inside.
Owned ==
  /\ \A i, j \in Identity : (pool[i] = pool[j] /\ pool[i] # NoMutex) => i = j
  /\ \A u \in User : visit[u].at = "inside" => visit[u].mutex \in locked
  /\ \A u, v \in User :
       (visit[u].at = "inside" /\ visit[v].at = "inside" /\ visit[u].mutex = visit[v].mutex)
         => u = v

PoolInv == PoolTypeOK /\ CountedMutex /\ Owned

LEMMA PoolExcludes == PoolInv => MutualExclusion
<1> SUFFICES ASSUME PoolInv, NEW i \in Identity, NEW u \in User, NEW v \in User,
                    Inside(u, i), Inside(v, i)
             PROVE  u = v
  BY DEF MutualExclusion
<1>1. visit[u].at = "inside" /\ visit[v].at = "inside" /\ visit[u].id = i /\ visit[v].id = i
  BY DEF Inside
<1>2. visit[u].mutex = visit[v].mutex
  BY <1>1 DEF PoolInv, CountedMutex
<1> QED
  BY <1>1, <1>2 DEF PoolInv, Owned

LEMMA NobodyCounted == ASSUME visit = [u \in User |-> Outside] PROVE \A i : UsersOf(i) = {}
  BY DEF UsersOf, Outside

LEMMA PoolStarts == PoolInit => PoolInv
<1> SUFFICES ASSUME PoolInit PROVE PoolInv
  OBVIOUS
<1>1. PoolTypeOK
  BY DEF PoolTypeOK, PoolInit
<1>2. CountedMutex
  BY NobodyCounted, FS_EmptySet DEF CountedMutex, PoolInit, Outside
<1>3. Owned
  BY DEF Owned, PoolInit, Outside
<1> QED
  BY <1>1, <1>2, <1>3 DEF PoolInv

\* The users of an identity are finitely many.
LEMMA UsersFinite == \A i : IsFiniteSet(UsersOf(i))
  BY UserAssumption, FS_Subset DEF UsersOf

LEMMA PoolCheckIn ==
  ASSUME PoolInv, NEW u \in User, NEW i \in Identity, CheckIn(u, i)
  PROVE  PoolInv'
<1> DEFINE m == IF pool[i] = NoMutex THEN CHOOSE x \in Fresh : TRUE ELSE pool[i]
<1>1. /\ visit[u].at = "outside"
      /\ pool' = [pool EXCEPT ![i] = m]
      /\ visit' = [visit EXCEPT ![u] = [at |-> "waiting", id |-> i, mutex |-> m]]
      /\ locked' = IF pool[i] = NoMutex THEN locked \ {m} ELSE locked
      /\ count' = [count EXCEPT ![i] = @ + 1]
  BY DEF CheckIn
<1>2. pool[i] = NoMutex => m \in Fresh
  BY DEF CheckIn
<1>3. m \in Mutex /\ m # NoMutex
  BY <1>2, MutexAssumption DEF PoolInv, PoolTypeOK, Fresh
<1>4. pool[i] = NoMutex => /\ \A j \in Identity : pool[j] # m
                           /\ \A v \in User : visit[v].mutex # m
  BY <1>2 DEF Fresh
<1>5. /\ visit'[u] = [at |-> "waiting", id |-> i, mutex |-> m]
      /\ \A v \in User : v # u => visit'[v] = visit[v]
      /\ pool'[i] = m /\ \A j \in Identity : j # i => pool'[j] = pool[j]
  BY <1>1 DEF PoolInv, PoolTypeOK
<1> HIDE DEF m
<1>6. PoolTypeOK'
  <2>1. [at |-> "waiting", id |-> i, mutex |-> m]
          \in [at : {"waiting", "inside"}, id : Identity, mutex : Mutex]
    BY <1>3
  <2>2. visit' \in [User -> {Outside} \cup
                        [at : {"waiting", "inside"}, id : Identity, mutex : Mutex]]
    BY <1>1, <2>1 DEF PoolInv, PoolTypeOK
  <2>3. count' \in [Identity -> Nat]
    BY <1>1 DEF PoolInv, PoolTypeOK
  <2>4. pool' \in [Identity -> Mutex \cup {NoMutex}] /\ locked' \subseteq Mutex
    BY <1>1, <1>3 DEF PoolInv, PoolTypeOK
  <2> QED
    BY <2>2, <2>3, <2>4 DEF PoolTypeOK
<1>7. CountedMutex'
  <2>1. \A v \in User : visit'[v].at # "outside" => pool'[visit'[v].id] = visit'[v].mutex
    <3> SUFFICES ASSUME NEW v \in User, visit'[v].at # "outside"
                 PROVE  pool'[visit'[v].id] = visit'[v].mutex
      OBVIOUS
    <3>1. CASE v = u
      BY <1>5, <3>1
    <3>2. CASE v # u
      <4>1. visit'[v] = visit[v] /\ pool[visit[v].id] = visit[v].mutex
        BY <1>5, <3>2 DEF PoolInv, CountedMutex
      <4>2. visit[v].id \in Identity /\ visit[v].mutex # NoMutex
        BY <4>1, MutexAssumption DEF PoolInv, PoolTypeOK, Outside
      <4>3. visit[v].id = i => pool[i] = m
        BY <4>1, <4>2 DEF m
      <4> QED
        BY <1>5, <4>1, <4>2, <4>3
    <3> QED
      BY <3>1, <3>2
  <2>2. ASSUME NEW j \in Identity
        PROVE  /\ count'[j] = Cardinality(UsersOf(j))'
               /\ (pool'[j] = NoMutex) <=> (count'[j] = 0)
    <3>1. count[j] = Cardinality(UsersOf(j)) /\ (pool[j] = NoMutex <=> count[j] = 0)
          /\ count[j] \in Nat
      BY DEF PoolInv, CountedMutex, PoolTypeOK
    <3>2. CASE j = i
      <4>1. UsersOf(j)' = UsersOf(j) \cup {u}
        BY <1>5, <3>2 DEF UsersOf
      <4>2. u \notin UsersOf(j)
        BY <1>1 DEF UsersOf
      <4>3. Cardinality(UsersOf(j))' = Cardinality(UsersOf(j)) + 1
        BY <4>1, <4>2, UsersFinite, FS_AddElement
      <4>4. count'[j] = count[j] + 1
        BY <1>1, <3>2 DEF PoolInv, PoolTypeOK
      <4> QED
        BY <1>3, <1>5, <3>1, <3>2, <4>3, <4>4
    <3>3. CASE j # i
      <4>1. UsersOf(j)' = UsersOf(j)
        BY <1>1, <1>5, <3>3 DEF UsersOf
      <4>2. count'[j] = count[j] /\ pool'[j] = pool[j]
        BY <1>1, <1>5, <3>3 DEF PoolInv, PoolTypeOK
      <4> QED
        BY <3>1, <4>1, <4>2
    <3> QED
      BY <3>2, <3>3
  <2> QED
    BY <2>1, <2>2 DEF CountedMutex
<1>8. Owned'
  <2>1. \A j, k \in Identity : (pool'[j] = pool'[k] /\ pool'[j] # NoMutex) => j = k
    BY <1>4, <1>5 DEF PoolInv, Owned, m
  <2>2. \A v \in User : visit'[v].at = "inside" => v # u /\ visit'[v] = visit[v]
    BY <1>5
  <2>3. \A v \in User : visit'[v].at = "inside" => visit'[v].mutex \in locked'
    BY <1>1, <1>4, <2>2 DEF PoolInv, Owned
  <2> QED
    BY <2>1, <2>2, <2>3 DEF PoolInv, Owned
<1> QED
  BY <1>6, <1>7, <1>8 DEF PoolInv

LEMMA PoolEnter ==
  ASSUME PoolInv, NEW u \in User, Enter(u)
  PROVE  PoolInv'
<1>1. /\ visit[u].at = "waiting" /\ visit[u].mutex \notin locked
      /\ locked' = locked \cup {visit[u].mutex}
      /\ visit' = [visit EXCEPT ![u].at = "inside"]
      /\ pool' = pool /\ count' = count
  BY DEF Enter
<1>2. visit[u] \in [at : {"waiting", "inside"}, id : Identity, mutex : Mutex]
  BY <1>1 DEF PoolInv, PoolTypeOK, Outside
<1>3. /\ visit'[u] = [visit[u] EXCEPT !.at = "inside"]
      /\ \A v \in User : v # u => visit'[v] = visit[v]
  BY <1>1 DEF PoolInv, PoolTypeOK
<1>4. /\ visit'[u].at = "inside" /\ visit'[u].id = visit[u].id
      /\ visit'[u].mutex = visit[u].mutex
  BY <1>2, <1>3
<1>5. PoolTypeOK'
  <2>1. visit'[u] \in [at : {"waiting", "inside"}, id : Identity, mutex : Mutex]
    BY <1>2, <1>3
  <2> QED
    BY <1>1, <1>2, <2>1 DEF PoolInv, PoolTypeOK
<1>6. CountedMutex'
  <2>1. \A j : UsersOf(j)' = UsersOf(j)
    BY <1>1, <1>3, <1>4 DEF UsersOf
  <2>2. \A v \in User : visit'[v].at # "outside" => pool'[visit'[v].id] = visit'[v].mutex
    BY <1>1, <1>3, <1>4 DEF PoolInv, CountedMutex
  <2> QED
    BY <1>1, <2>1, <2>2 DEF PoolInv, CountedMutex
<1>7. Owned'
  BY <1>1, <1>3, <1>4 DEF PoolInv, Owned
<1> QED
  BY <1>5, <1>6, <1>7 DEF PoolInv

LEMMA PoolCheckOut ==
  ASSUME PoolInv, NEW u \in User, CheckOut(u)
  PROVE  PoolInv'
<1>0. PICK i \in Identity : i = visit[u].id
  BY DEF CheckOut, PoolInv, PoolTypeOK, Outside
<1>1. /\ visit[u].at = "inside"
      /\ locked' = locked \ {pool[i]}
      /\ IF count[i] = 1
         THEN /\ pool' = [pool EXCEPT ![i] = NoMutex]
              /\ count' = [count EXCEPT ![i] = 0]
         ELSE /\ count' = [count EXCEPT ![i] = @ - 1]
              /\ pool' = pool
      /\ visit' = [visit EXCEPT ![u] = Outside]
  BY <1>0 DEF CheckOut
<1>2. i \in Identity /\ pool[i] = visit[u].mutex /\ pool[i] # NoMutex
  BY <1>0, <1>1, MutexAssumption DEF PoolInv, PoolTypeOK, CountedMutex, Outside
<1>3. /\ visit'[u] = Outside
      /\ \A v \in User : v # u => visit'[v] = visit[v]
  BY <1>1 DEF PoolInv, PoolTypeOK
<1>4. count[i] \in Nat /\ count[i] = Cardinality(UsersOf(i)) /\ count[i] # 0
  BY <1>2 DEF PoolInv, PoolTypeOK, CountedMutex
<1>5. /\ count'[i] = count[i] - 1
      /\ pool'[i] = IF count[i] = 1 THEN NoMutex ELSE pool[i]
      /\ \A j \in Identity : j # i => (count'[j] = count[j] /\ pool'[j] = pool[j])
  BY <1>1, <1>2, <1>4 DEF PoolInv, PoolTypeOK
<1>6. UsersOf(i)' = UsersOf(i) \ {u} /\ u \in UsersOf(i)
  BY <1>0, <1>1, <1>3 DEF UsersOf, Outside
<1>7. Cardinality(UsersOf(i))' = count[i] - 1
  BY <1>4, <1>6, UsersFinite, FS_RemoveElement
<1>8. PoolTypeOK'
  BY <1>1, <1>2, <1>4 DEF PoolInv, PoolTypeOK
<1>9. CountedMutex'
  <2>1. ASSUME NEW v \in User, visit'[v].at # "outside"
        PROVE  pool'[visit'[v].id] = visit'[v].mutex
    <3>1. v # u /\ visit'[v] = visit[v]
      BY <1>3, <2>1 DEF Outside
    <3>2. visit[v].id \in Identity /\ pool[visit[v].id] = visit[v].mutex
      BY <2>1, <3>1 DEF PoolInv, PoolTypeOK, CountedMutex, Outside
    <3>3. CASE visit[v].id = i
      <4>1. v \in UsersOf(i)'
        BY <2>1, <3>1, <3>3 DEF UsersOf
      <4>2. UsersOf(i)' # {} /\ IsFiniteSet(UsersOf(i)')
        BY <1>6, <4>1, UsersFinite, FS_RemoveElement
      <4>3. count[i] # 1
        BY <1>7, <4>2, FS_EmptySet, <1>4
      <4> QED
        BY <1>5, <3>1, <3>2, <3>3, <4>3
    <3>4. CASE visit[v].id # i
      BY <1>5, <3>1, <3>2, <3>4
    <3> QED
      BY <3>3, <3>4
  <2>2. ASSUME NEW j \in Identity
        PROVE  /\ count'[j] = Cardinality(UsersOf(j))'
               /\ (pool'[j] = NoMutex) <=> (count'[j] = 0)
    <3>1. CASE j = i
      BY <1>2, <1>4, <1>5, <1>7, <3>1
    <3>2. CASE j # i
      <4>1. UsersOf(j)' = UsersOf(j)
        BY <1>0, <1>1, <1>3, <3>2 DEF UsersOf, Outside
      <4> QED
        BY <1>5, <3>2, <4>1 DEF PoolInv, CountedMutex
    <3> QED
      BY <3>1, <3>2
  <2> QED
    BY <2>1, <2>2 DEF CountedMutex
<1>10. Owned'
  <2>1. \A j, k \in Identity : (pool'[j] = pool'[k] /\ pool'[j] # NoMutex) => j = k
    BY <1>5 DEF PoolInv, Owned
  <2>2. \A v \in User : visit'[v].at = "inside" => v # u /\ visit'[v] = visit[v]
    BY <1>3 DEF Outside
  <2>3. \A v \in User : visit'[v].at = "inside" => visit'[v].mutex \in locked'
    BY <1>1, <1>2, <2>2 DEF PoolInv, Owned
  <2> QED
    BY <2>1, <2>2, <2>3 DEF PoolInv, Owned
<1> QED
  BY <1>8, <1>9, <1>10 DEF PoolInv

LEMMA PoolStep == PoolInv /\ [PoolNext]_poolVars => PoolInv'
<1> SUFFICES ASSUME PoolInv, [PoolNext]_poolVars PROVE PoolInv'
  OBVIOUS
<1>1. CASE \E u \in User : (\E i \in Identity : CheckIn(u, i)) \/ Enter(u) \/ CheckOut(u)
  BY <1>1, PoolCheckIn, PoolEnter, PoolCheckOut
<1>2. CASE Restart
  <2>1. PoolInit'
    BY <1>2 DEF Restart, PoolInit
  <2>2. PoolInit' => PoolInv'
    BY PoolStarts, PTL
  <2> QED
    BY <2>1, <2>2
<1>3. CASE UNCHANGED poolVars
  BY <1>3 DEF poolVars, PoolInv, PoolTypeOK, CountedMutex, Owned, UsersOf
<1> QED
  BY <1>1, <1>2, <1>3 DEF PoolNext

\* Whatever the users do, and however often the program starts again, the pool admits one
\* user of an identity at a time (modules/sync/exclusive_pool.go:11).
THEOREM PoolIsExclusive == PoolSpec => []MutualExclusion
<1>1. PoolInit => PoolInv
  BY PoolStarts
<1>2. PoolInv /\ [PoolNext]_poolVars => PoolInv'
  BY PoolStep
<1>3. PoolInv => MutualExclusion
  BY PoolExcludes
<1> QED
  BY <1>1, <1>2, <1>3, PTL DEF PoolSpec

\* The counts are those of the users, and a mutex that is awaited stays in the map.
THEOREM PoolCountsUsers == PoolSpec => []CountedMutex
<1>1. PoolInit => PoolInv
  BY PoolStarts
<1>2. PoolInv /\ [PoolNext]_poolVars => PoolInv'
  BY PoolStep
<1>3. PoolInv => CountedMutex
  BY DEF PoolInv
<1> QED
  BY <1>1, <1>2, <1>3, PTL DEF PoolSpec
-----------------------------------------------------------------------------
(* The conflict check.                                                     *)

Held == {"loading", "detecting", "testing", "failing", "asking", "writing", "leaving"}
MergeHeld == {"merging", "editing", "hook", "ending", "leaving"}

\* A step of a worker or a merger between check-in and check-out is one inside the pool.
Places ==
  /\ \A u \in User : visit[u].at # "outside" => visit[u].id = Pull
  /\ \A w \in Worker : pc[w] \in Held => visit[w].at = "inside"
  /\ \A m \in Merger : pc[m] \in MergeHeld => visit[m].at = "inside"

\* Nobody merges what a worker tests.
Unmerged ==
  \A w \in Worker :
    pc[w] \in {"detecting", "testing", "failing", "asking", "writing"} => ~row.merged

\* A verdict is never that the check goes on.
Settled ==
  \A w \in Worker : pc[w] \in {"asking", "writing"} => seen[w].status \in {"tested", "empty"}

Judging == {"asking", "writing", "failing"}

\* A check that will read the branches later.
Coming ==
  \/ queued \/ pc[Boot] = "pushing"
  \/ \E p \in Pusher : pc[p] # "idle"
  \/ \E w \in Worker : pc[w] \in {"popped", "waiting", "loading", "detecting", "testing"}
  \/ \E m \in Merger : pc[m] \in {"hook", "ending"}

\* Who is about to write a verdict on an older state is followed by another check.
StaleIsFollowed ==
  \A w \in Worker : (pc[w] \in Judging /\ seen[w].tested # git.change) => (missed \/ Coming)

Outdated == ~row.merged /\ (row.status = "checking" \/ row.tested # git.change)

OutdatedIsDue ==
  Outdated => \/ missed \/ Coming
              \/ pc[Boot] = "start" /\ row.status = "checking"
              \/ \E w \in Worker : pc[w] \in Judging /\ seen[w].tested = git.change

Inv ==
  /\ TypeOK /\ PoolInv /\ Places /\ Unmerged /\ Settled /\ StaleIsFollowed /\ OutdatedIsDue

LEMMA Moved ==
  ASSUME TypeOK, NEW p \in Proc, NEW l, Goto(p, l)
  PROVE  DOMAIN pc' = Proc /\ pc'[p] = l /\ \A q \in Proc : q # p => pc'[q] = pc[q]
  BY DEF TypeOK, Goto

\* Nobody else is inside while a worker or a merger is.
LEMMA Alone ==
  ASSUME Inv, NEW u \in User, NEW v \in User, visit[u].at = "inside", visit[v].at = "inside"
  PROVE  u = v
  BY PoolExcludes, ProcessAssumption DEF Inv, Places, MutualExclusion, Inside

LEMMA PushKeeps ==
  ASSUME Inv, NEW p \in Pusher, Push(p)
  PROVE  Inv'
<1>1. p \in Proc
  BY ProcessAssumption DEF Proc
<1>2. TypeOK /\ PoolInv /\ Places /\ Unmerged /\ Settled /\ StaleIsFollowed /\ OutdatedIsDue
  BY DEF Inv
<1>3. /\ pc[p] = "idle" /\ row' = row /\ queued' = queued /\ seen' = seen
      /\ missed' = missed /\ faults' = faults
      /\ \E e \in Emptiness : git' = [change |-> git.change + 1, empty |-> e]
      /\ git.change < MaxPushes
  BY DEF Push, Fault, poolVars
<1>4. DOMAIN pc' = Proc /\ pc'[p] = "updating" /\ \A q \in Proc : q # p => pc'[q] = pc[q]
  BY <1>1, <1>2, Moved DEF Push
<1>5. PoolInv' /\ visit' = visit
  BY <1>2, PoolStep DEF Push, poolVars
<1>6. \A q \in Worker \cup Merger \cup Pusher : q \in Proc
  BY DEF Proc
<1>8. TypeOK'
  BY <1>2, <1>3, <1>4, <1>5, <1>6, ProcessAssumption, BoundAssumption, EmptinessAssumption
     DEF TypeOK, PoolInv, Proc
<1>9. Places'
  BY <1>1, <1>2, <1>3, <1>4, <1>5, <1>6, ProcessAssumption DEF Places, Held, MergeHeld,
     PoolInv, PoolTypeOK, Outside, TypeOK
<1>10. Unmerged'
  BY <1>1, <1>2, <1>3, <1>4, <1>6, ProcessAssumption DEF Unmerged, TypeOK, Row
<1>11. Settled'
  BY <1>1, <1>2, <1>3, <1>4, <1>6, ProcessAssumption DEF Settled, TypeOK, Copy
<1>12. StaleIsFollowed'
  BY <1>1, <1>2, <1>3, <1>4, <1>6, ProcessAssumption DEF StaleIsFollowed, Coming, Judging,
     TypeOK, Copy, Proc
<1>13. OutdatedIsDue'
  BY <1>1, <1>2, <1>3, <1>4, <1>6, ProcessAssumption DEF OutdatedIsDue, StaleIsFollowed,
     Outdated, Coming, Judging, TypeOK, Row, Copy, Proc
<1> QED
  BY <1>5, <1>8, <1>9, <1>10, <1>11, <1>12, <1>13 DEF Inv

LEMMA SetCheckingKeeps ==
  ASSUME Inv, NEW p \in Pusher, SetChecking(p)
  PROVE  Inv'
<1>1. p \in Proc
  BY ProcessAssumption DEF Proc
<1>2. TypeOK /\ PoolInv /\ Places /\ Unmerged /\ Settled /\ StaleIsFollowed /\ OutdatedIsDue
  BY DEF Inv
<1>3. /\ pc[p] = "updating" /\ git' = git /\ queued' = queued /\ seen' = seen
      /\ missed' = missed /\ faults' = faults
      /\ row' = IF row.merged THEN row ELSE [row EXCEPT !.status = "checking"]
  BY DEF SetChecking, Fault, poolVars
<1>4. DOMAIN pc' = Proc /\ pc'[p] = "pushing" /\ \A q \in Proc : q # p => pc'[q] = pc[q]
  BY <1>1, <1>2, Moved DEF SetChecking
<1>5. PoolInv' /\ visit' = visit
  BY <1>2, PoolStep DEF SetChecking, poolVars
<1>6. \A q \in Worker \cup Merger \cup Pusher : q \in Proc
  BY DEF Proc
<1>8. TypeOK'
  BY <1>1, <1>2, <1>3, <1>4, <1>5, <1>6, ProcessAssumption, BoundAssumption DEF TypeOK,
     PoolInv, Row, Copy, Status, NoCopy, Proc
<1>9. Places'
  BY <1>1, <1>2, <1>3, <1>4, <1>5, <1>6, ProcessAssumption DEF Places, Held, MergeHeld,
     PoolInv, PoolTypeOK, Outside, TypeOK
<1>10. Unmerged'
  BY <1>1, <1>2, <1>3, <1>4, <1>6, ProcessAssumption DEF Unmerged, TypeOK, Row
<1>11. Settled'
  BY <1>1, <1>2, <1>3, <1>4, <1>6, ProcessAssumption DEF Settled, TypeOK, Copy
<1>12. StaleIsFollowed'
  BY <1>1, <1>2, <1>3, <1>4, <1>6, ProcessAssumption DEF StaleIsFollowed, Coming, Judging,
     TypeOK, Copy, Proc
<1>13. OutdatedIsDue'
  BY <1>1, <1>2, <1>3, <1>4, <1>6, ProcessAssumption DEF OutdatedIsDue, StaleIsFollowed,
     Outdated, Coming, Judging, TypeOK, Row, Copy, Proc
<1> QED
  BY <1>5, <1>8, <1>9, <1>10, <1>11, <1>12, <1>13 DEF Inv

LEMMA QueuePushKeeps ==
  ASSUME Inv, NEW p \in Pusher, QueuePush(p)
  PROVE  Inv'
<1>1. p \in Proc
  BY ProcessAssumption DEF Proc
<1>2. TypeOK /\ PoolInv /\ Places /\ Unmerged /\ Settled /\ StaleIsFollowed /\ OutdatedIsDue
  BY DEF Inv
<1>3. /\ pc[p] = "pushing" /\ queued' = TRUE /\ git' = git /\ row' = row /\ seen' = seen
      /\ missed' = missed /\ faults' = faults
  BY DEF QueuePush, Fault, poolVars
<1>4. DOMAIN pc' = Proc /\ pc'[p] = "idle" /\ \A q \in Proc : q # p => pc'[q] = pc[q]
  BY <1>1, <1>2, Moved DEF QueuePush
<1>5. PoolInv' /\ visit' = visit
  BY <1>2, PoolStep DEF QueuePush, poolVars
<1>6. \A q \in Worker \cup Merger \cup Pusher : q \in Proc
  BY DEF Proc
<1>8. TypeOK'
  BY <1>1, <1>2, <1>3, <1>4, <1>5, <1>6, ProcessAssumption, BoundAssumption DEF TypeOK,
     PoolInv, Row, Copy, Status, NoCopy, Proc
<1>9. Places'
  BY <1>1, <1>2, <1>3, <1>4, <1>5, <1>6, ProcessAssumption DEF Places, Held, MergeHeld,
     PoolInv, PoolTypeOK, Outside, TypeOK
<1>10. Unmerged'
  BY <1>1, <1>2, <1>3, <1>4, <1>6, ProcessAssumption DEF Unmerged, TypeOK, Row
<1>11. Settled'
  BY <1>1, <1>2, <1>3, <1>4, <1>6, ProcessAssumption DEF Settled, TypeOK, Copy
<1>12. StaleIsFollowed'
  BY <1>1, <1>2, <1>3, <1>4, <1>6, ProcessAssumption DEF StaleIsFollowed, Coming, Judging,
     TypeOK, Copy, Proc
<1>13. OutdatedIsDue'
  BY <1>1, <1>2, <1>3, <1>4, <1>6, ProcessAssumption DEF OutdatedIsDue, StaleIsFollowed,
     Outdated, Coming, Judging, TypeOK, Row, Copy, Proc
<1> QED
  BY <1>5, <1>8, <1>9, <1>10, <1>11, <1>12, <1>13 DEF Inv

LEMMA PushFailsKeeps ==
  ASSUME Inv, NEW p \in Pusher, PushFails(p)
  PROVE  Inv'
<1>1. p \in Proc
  BY ProcessAssumption DEF Proc
<1>2. TypeOK /\ PoolInv /\ Places /\ Unmerged /\ Settled /\ StaleIsFollowed /\ OutdatedIsDue
  BY DEF Inv
<1>3. pc[p] \in {"updating", "pushing"} /\ missed' = TRUE /\ faults < MaxFaults
      /\ faults' = faults + 1 /\ git' = git /\ row' = row /\ seen' = seen /\ queued' = queued
  BY DEF PushFails, Fault, poolVars
<1>4. DOMAIN pc' = Proc /\ pc'[p] = "idle" /\ \A q \in Proc : q # p => pc'[q] = pc[q]
  BY <1>1, <1>2, Moved DEF PushFails
<1>5. PoolInv' /\ visit' = visit
  BY <1>2, PoolStep DEF PushFails, poolVars
<1>6. \A q \in Worker \cup Merger \cup Pusher : q \in Proc
  BY DEF Proc
<1>8. TypeOK'
  BY <1>1, <1>2, <1>3, <1>4, <1>5, <1>6, ProcessAssumption, BoundAssumption DEF TypeOK,
     PoolInv, Row, Copy, Status, NoCopy, Proc
<1>9. Places'
  BY <1>1, <1>2, <1>3, <1>4, <1>5, <1>6, ProcessAssumption DEF Places, Held, MergeHeld,
     PoolInv, PoolTypeOK, Outside, TypeOK
<1>10. Unmerged'
  BY <1>1, <1>2, <1>3, <1>4, <1>6, ProcessAssumption DEF Unmerged, TypeOK, Row
<1>11. Settled'
  BY <1>1, <1>2, <1>3, <1>4, <1>6, ProcessAssumption DEF Settled, TypeOK, Copy
<1>12. StaleIsFollowed'
  BY <1>1, <1>2, <1>3, <1>4, <1>6, ProcessAssumption DEF StaleIsFollowed, Coming, Judging,
     TypeOK, Copy, Proc
<1>13. OutdatedIsDue'
  BY <1>1, <1>2, <1>3, <1>4, <1>6, ProcessAssumption DEF OutdatedIsDue, StaleIsFollowed,
     Outdated, Coming, Judging, TypeOK, Row, Copy, Proc
<1> QED
  BY <1>5, <1>8, <1>9, <1>10, <1>11, <1>12, <1>13 DEF Inv

LEMMA PopKeeps ==
  ASSUME Inv, NEW w \in Worker, Pop(w)
  PROVE  Inv'
<1>1. w \in Proc /\ w \in User
  BY ProcessAssumption DEF Proc
<1>2. TypeOK /\ PoolInv /\ Places /\ Unmerged /\ Settled /\ StaleIsFollowed /\ OutdatedIsDue
  BY DEF Inv
<1>3. /\ pc[w] = "idle" /\ queued /\ queued' = FALSE /\ git' = git /\ row' = row
      /\ seen' = seen /\ missed' = missed /\ faults' = faults
  BY DEF Pop, Fault, poolVars
<1>4. DOMAIN pc' = Proc /\ pc'[w] = "popped" /\ \A q \in Proc : q # w => pc'[q] = pc[q]
  BY <1>1, <1>2, Moved DEF Pop
<1>5. PoolInv' /\ visit' = visit
  BY <1>2, PoolStep DEF Pop, poolVars
<1>6. \A q \in Worker \cup Merger \cup Pusher : q \in Proc
  BY DEF Proc
<1>8. TypeOK'
  BY <1>1, <1>2, <1>3, <1>4, <1>5, <1>6, ProcessAssumption, BoundAssumption DEF TypeOK,
     PoolInv, Row, Copy, Status, NoCopy, Proc
<1>9. Places'
  BY <1>1, <1>2, <1>3, <1>4, <1>5, <1>6, ProcessAssumption DEF Places, Held, MergeHeld,
     PoolInv, PoolTypeOK, Outside, TypeOK
<1>10. Unmerged'
  BY <1>1, <1>2, <1>3, <1>4, <1>6, ProcessAssumption DEF Unmerged, TypeOK, Row
<1>11. Settled'
  BY <1>1, <1>2, <1>3, <1>4, <1>6, ProcessAssumption DEF Settled, TypeOK, Copy
<1>12. StaleIsFollowed'
  BY <1>1, <1>2, <1>3, <1>4, <1>6, ProcessAssumption DEF StaleIsFollowed, Coming, Judging,
     TypeOK, Copy, Proc
<1>13. OutdatedIsDue'
  BY <1>1, <1>2, <1>3, <1>4, <1>6, ProcessAssumption DEF OutdatedIsDue, StaleIsFollowed,
     Outdated, Coming, Judging, TypeOK, Row, Copy, Proc
<1> QED
  BY <1>5, <1>8, <1>9, <1>10, <1>11, <1>12, <1>13 DEF Inv

LEMMA TestCheckInKeeps ==
  ASSUME Inv, NEW w \in Worker, TestCheckIn(w)
  PROVE  Inv'
<1>1. w \in Proc /\ w \in User
  BY ProcessAssumption DEF Proc
<1>2. TypeOK /\ PoolInv /\ Places /\ Unmerged /\ Settled /\ StaleIsFollowed /\ OutdatedIsDue
  BY DEF Inv
<1>3. /\ pc[w] = "popped" /\ git' = git /\ row' = row /\ queued' = queued /\ seen' = seen
      /\ missed' = missed /\ faults' = faults
  BY DEF TestCheckIn, Fault, poolVars
<1>4. DOMAIN pc' = Proc /\ pc'[w] = "waiting" /\ \A q \in Proc : q # w => pc'[q] = pc[q]
  BY <1>1, <1>2, Moved DEF TestCheckIn
<1>5. PoolInv' /\ visit' = [visit EXCEPT ![w] = visit'[w]]
      /\ visit'[w].at = "waiting" /\ visit'[w].id = Pull
  <2>1. PoolInv'
    BY <1>1, <1>2, PoolCheckIn, ProcessAssumption DEF TestCheckIn
  <2> QED
    BY <1>1, <1>2, <2>1 DEF TestCheckIn, CheckIn, PoolInv, PoolTypeOK
<1>6. \A q \in Worker \cup Merger \cup Pusher : q \in Proc
  BY DEF Proc
<1>8. TypeOK'
  BY <1>1, <1>2, <1>3, <1>4, <1>5, <1>6, ProcessAssumption, BoundAssumption DEF TypeOK,
     PoolInv, Row, Copy, Status, NoCopy, Proc
<1>9. Places'
  BY <1>1, <1>2, <1>3, <1>4, <1>5, <1>6, ProcessAssumption DEF Places, Held, MergeHeld,
     PoolInv, PoolTypeOK, Outside, TypeOK
<1>10. Unmerged'
  BY <1>1, <1>2, <1>3, <1>4, <1>6, ProcessAssumption DEF Unmerged, TypeOK, Row
<1>11. Settled'
  BY <1>1, <1>2, <1>3, <1>4, <1>6, ProcessAssumption DEF Settled, TypeOK, Copy
<1>12. StaleIsFollowed'
  BY <1>1, <1>2, <1>3, <1>4, <1>6, ProcessAssumption DEF StaleIsFollowed, Coming, Judging,
     TypeOK, Copy, Proc
<1>13. OutdatedIsDue'
  BY <1>1, <1>2, <1>3, <1>4, <1>6, ProcessAssumption DEF OutdatedIsDue, StaleIsFollowed,
     Outdated, Coming, Judging, TypeOK, Row, Copy, Proc
<1> QED
  BY <1>5, <1>8, <1>9, <1>10, <1>11, <1>12, <1>13 DEF Inv

LEMMA TestEnterKeeps ==
  ASSUME Inv, NEW w \in Worker, TestEnter(w)
  PROVE  Inv'
<1>1. w \in Proc /\ w \in User
  BY ProcessAssumption DEF Proc
<1>2. TypeOK /\ PoolInv /\ Places /\ Unmerged /\ Settled /\ StaleIsFollowed /\ OutdatedIsDue
  BY DEF Inv
<1>3. /\ pc[w] = "waiting" /\ git' = git /\ row' = row /\ queued' = queued /\ seen' = seen
      /\ missed' = missed /\ faults' = faults
  BY DEF TestEnter, Fault, poolVars
<1>4. DOMAIN pc' = Proc /\ pc'[w] = "loading" /\ \A q \in Proc : q # w => pc'[q] = pc[q]
  BY <1>1, <1>2, Moved DEF TestEnter
<1>5. PoolInv' /\ visit'[w].at = "inside" /\ visit'[w].id = visit[w].id
      /\ visit[w].at # "outside" /\ \A v \in User : v # w => visit'[v] = visit[v]
  <2>1. PoolInv' /\ visit[w].at = "waiting" /\ visit' = [visit EXCEPT ![w].at = "inside"]
    BY <1>1, <1>2, PoolEnter DEF TestEnter, Enter
  <2>2. visit[w] \in [at : {"waiting", "inside"}, id : Identity, mutex : Mutex]
    BY <1>1, <1>2, <2>1 DEF PoolInv, PoolTypeOK, Outside
  <2>3. \A v \in User : v # w => visit'[v] = visit[v]
    BY <2>1, <1>2 DEF PoolInv, PoolTypeOK
  <2>4. visit'[w] = [visit[w] EXCEPT !.at = "inside"]
    BY <2>1, <1>1, <1>2 DEF PoolInv, PoolTypeOK
  <2> QED
    BY <2>1, <2>2, <2>3, <2>4
<1>6. \A q \in Worker \cup Merger \cup Pusher : q \in Proc
  BY DEF Proc
<1>8. TypeOK'
  BY <1>1, <1>2, <1>3, <1>4, <1>5, <1>6, ProcessAssumption, BoundAssumption DEF TypeOK,
     PoolInv, Row, Copy, Status, NoCopy, Proc
<1>9. Places'
  BY <1>1, <1>2, <1>3, <1>4, <1>5, <1>6, ProcessAssumption DEF Places, Held, MergeHeld,
     PoolInv, PoolTypeOK, Outside, TypeOK
<1>10. Unmerged'
  BY <1>1, <1>2, <1>3, <1>4, <1>6, ProcessAssumption DEF Unmerged, TypeOK, Row
<1>11. Settled'
  BY <1>1, <1>2, <1>3, <1>4, <1>6, ProcessAssumption DEF Settled, TypeOK, Copy
<1>12. StaleIsFollowed'
  BY <1>1, <1>2, <1>3, <1>4, <1>6, ProcessAssumption DEF StaleIsFollowed, Coming, Judging,
     TypeOK, Copy, Proc
<1>13. OutdatedIsDue'
  BY <1>1, <1>2, <1>3, <1>4, <1>6, ProcessAssumption DEF OutdatedIsDue, StaleIsFollowed,
     Outdated, Coming, Judging, TypeOK, Row, Copy, Proc
<1> QED
  BY <1>5, <1>8, <1>9, <1>10, <1>11, <1>12, <1>13 DEF Inv

LEMMA LoadKeeps ==
  ASSUME Inv, NEW w \in Worker, Load(w)
  PROVE  Inv'
<1>1. w \in Proc /\ w \in User
  BY ProcessAssumption DEF Proc
<1>2. TypeOK /\ PoolInv /\ Places /\ Unmerged /\ Settled /\ StaleIsFollowed /\ OutdatedIsDue
  BY DEF Inv
<1>3. /\ pc[w] = "loading" /\ git' = git /\ row' = row /\ queued' = queued
      /\ missed' = missed /\ faults' = faults
      /\ (seen' = seen \/ seen' = [seen EXCEPT ![w].status = row.status])
  BY DEF Load, Fault, poolVars
<1>4. /\ DOMAIN pc' = Proc /\ pc'[w] = (IF row.merged THEN "leaving" ELSE "detecting")
      /\ \A q \in Proc : q # w => pc'[q] = pc[q]
  BY <1>1, <1>2, Moved DEF Load
<1>5. PoolInv' /\ visit' = visit
  BY <1>2, PoolStep DEF Load, poolVars
<1>6. \A q \in Worker \cup Merger \cup Pusher : q \in Proc
  BY DEF Proc
<1>7. \A v \in User : v # w =>
        /\ ~(v \in Worker /\ pc[v] \in Held)
        /\ ~(v \in Merger /\ pc[v] \in MergeHeld)
  BY <1>1, <1>2, <1>3, Alone DEF Places, Held, MergeHeld
<1>8. TypeOK'
  BY <1>1, <1>2, <1>3, <1>4, <1>5, <1>6, ProcessAssumption, BoundAssumption DEF TypeOK,
     PoolInv, Row, Copy, Status, NoCopy, Proc
<1>9. Places'
  BY <1>1, <1>2, <1>3, <1>4, <1>5, <1>6, ProcessAssumption DEF Places, Held, MergeHeld,
     PoolInv, PoolTypeOK, Outside, TypeOK
<1>10. Unmerged'
  BY <1>1, <1>2, <1>3, <1>4, <1>6, <1>7, ProcessAssumption DEF Held, MergeHeld, Unmerged,
     TypeOK, Row
<1>11. Settled'
  BY <1>1, <1>2, <1>3, <1>4, <1>6, ProcessAssumption DEF Settled, TypeOK, Copy
<1>12. StaleIsFollowed'
  BY <1>1, <1>2, <1>3, <1>4, <1>6, <1>7, ProcessAssumption DEF Held, MergeHeld,
     StaleIsFollowed, Coming, Judging, TypeOK, Copy, Proc
<1>13. OutdatedIsDue'
  BY <1>1, <1>2, <1>3, <1>4, <1>6, <1>7, ProcessAssumption DEF Held, MergeHeld,
     OutdatedIsDue, StaleIsFollowed, Outdated, Coming, Judging, TypeOK, Row, Copy, Proc
<1> QED
  BY <1>5, <1>8, <1>9, <1>10, <1>11, <1>12, <1>13 DEF Inv

LEMMA DetectKeeps ==
  ASSUME Inv, NEW w \in Worker, Detect(w)
  PROVE  Inv'
<1>1. w \in Proc /\ w \in User
  BY ProcessAssumption DEF Proc
<1>2. TypeOK /\ PoolInv /\ Places /\ Unmerged /\ Settled /\ StaleIsFollowed /\ OutdatedIsDue
  BY DEF Inv
<1>3. /\ pc[w] = "detecting" /\ git' = git /\ queued' = queued /\ missed' = missed
      /\ faults' = faults
      /\ \/ /\ pc' = [pc EXCEPT ![w] = "testing"] /\ row' = row
            /\ (seen' = seen \/ seen' = [seen EXCEPT ![w].status = "merged"])
         \/ /\ pc' = [pc EXCEPT ![w] = "leaving"] /\ seen' = seen
            /\ row' = [row EXCEPT !.merged = TRUE, !.status = "merged"]
  BY DEF Detect, Fault, poolVars, Goto
<1>4. DOMAIN pc' = Proc /\ (pc'[w] \in {"testing", "leaving"} /\ (pc'[w] = "leaving" => row'.merged)
       /\ (pc'[w] = "testing" => row' = row)) /\ \A q \in Proc : q # w => pc'[q] = pc[q]
  BY <1>1, <1>2, <1>3 DEF TypeOK, Row
<1>5. PoolInv' /\ visit' = visit
  BY <1>2, PoolStep DEF Detect, poolVars
<1>6. \A q \in Worker \cup Merger \cup Pusher : q \in Proc
  BY DEF Proc
<1>3r. /\ row' \in Row /\ seen' \in [Worker -> Copy]
       /\ \A v \in Worker : v # w => seen'[v] = seen[v]
  <2>1. row' \in Row
    BY <1>2, <1>3 DEF TypeOK, Row, Status
  <2>2. seen' \in [Worker -> Copy]
    <3>1. [seen[w] EXCEPT !.status = "merged"] \in Copy
      BY <1>2 DEF TypeOK, Copy, Status
    <3> QED
      BY <3>1, <1>2, <1>3 DEF TypeOK
  <2>3. \A v \in Worker : v # w => seen'[v] = seen[v]
    BY <1>2, <1>3 DEF TypeOK
  <2> QED
    BY <2>1, <2>2, <2>3
<1>7. \A v \in User : v # w =>
        /\ ~(v \in Worker /\ pc[v] \in Held)
        /\ ~(v \in Merger /\ pc[v] \in MergeHeld)
  BY <1>1, <1>2, <1>3, Alone DEF Places, Held, MergeHeld
<1>8. TypeOK'
  BY <1>1, <1>2, <1>3, <1>3r, <1>4, <1>5, <1>6, ProcessAssumption, BoundAssumption DEF
     TypeOK, PoolInv, Row, Copy, Status, NoCopy, Proc
<1>9. Places'
  BY <1>1, <1>2, <1>3, <1>3r, <1>4, <1>5, <1>6, ProcessAssumption DEF Places, Held,
     MergeHeld, PoolInv, PoolTypeOK, Outside, TypeOK
<1>10. Unmerged'
  BY <1>1, <1>2, <1>3, <1>3r, <1>4, <1>6, <1>7, ProcessAssumption DEF Held, MergeHeld,
     Unmerged, TypeOK, Row
<1>11. Settled'
  BY <1>1, <1>2, <1>3, <1>3r, <1>4, <1>6, ProcessAssumption DEF Settled, TypeOK, Copy
<1>12. StaleIsFollowed'
  BY <1>1, <1>2, <1>3, <1>3r, <1>4, <1>6, <1>7, ProcessAssumption DEF Held, MergeHeld,
     StaleIsFollowed, Coming, Judging, TypeOK, Copy, Proc
<1>13. OutdatedIsDue'
  BY <1>1, <1>2, <1>3, <1>3r, <1>4, <1>6, <1>7, ProcessAssumption DEF Held, MergeHeld,
     OutdatedIsDue, StaleIsFollowed, Outdated, Coming, Judging, TypeOK, Row, Copy, Proc
<1> QED
  BY <1>5, <1>8, <1>9, <1>10, <1>11, <1>12, <1>13 DEF Inv

LEMMA TestKeeps ==
  ASSUME Inv, NEW w \in Worker, Test(w)
  PROVE  Inv'
<1>1. w \in Proc /\ w \in User
  BY ProcessAssumption DEF Proc
<1>2. TypeOK /\ PoolInv /\ Places /\ Unmerged /\ Settled /\ StaleIsFollowed /\ OutdatedIsDue
  BY DEF Inv
<1>3. /\ pc[w] = "testing" /\ git' = git /\ row' = row /\ queued' = queued
      /\ missed' = missed /\ faults' = faults
      /\ \E s \in {"tested", "empty", "error"} :
           /\ seen' = [seen EXCEPT ![w] = [status |-> s, tested |-> git.change]]
           /\ s = "error" \/ pc' = [pc EXCEPT ![w] = "asking"]
           /\ s # "error" \/ pc' = [pc EXCEPT ![w] = "failing"]
  BY DEF Test, Fault, poolVars, Goto, Found
<1>4. /\ DOMAIN pc' = Proc /\ pc'[w] \in {"failing", "asking"}
      /\ \A q \in Proc : q # w => pc'[q] = pc[q]
  BY <1>1, <1>2, Moved DEF Test
<1>5. PoolInv' /\ visit' = visit
  BY <1>2, PoolStep DEF Test, poolVars
<1>6. \A q \in Worker \cup Merger \cup Pusher : q \in Proc
  BY DEF Proc
<1>3r. /\ \A v \in Worker : v # w => seen'[v] = seen[v]
       /\ seen'[w].tested = git.change /\ seen'[w] \in Copy
       /\ pc'[w] = "asking" => seen'[w].status \in {"tested", "empty"}
  BY <1>1, <1>2, <1>3, <1>4 DEF TypeOK, Row, Copy, Status, Settled, Unmerged
<1>7. \A v \in User : v # w =>
        /\ ~(v \in Worker /\ pc[v] \in Held)
        /\ ~(v \in Merger /\ pc[v] \in MergeHeld)
  BY <1>1, <1>2, <1>3, Alone DEF Places, Held, MergeHeld
<1>8. TypeOK'
  BY <1>1, <1>2, <1>3, <1>3r, <1>4, <1>5, <1>6, ProcessAssumption, BoundAssumption DEF
     TypeOK, PoolInv, Row, Copy, Status, NoCopy, Proc
<1>9. Places'
  BY <1>1, <1>2, <1>3, <1>3r, <1>4, <1>5, <1>6, ProcessAssumption DEF Places, Held,
     MergeHeld, PoolInv, PoolTypeOK, Outside, TypeOK
<1>10. Unmerged'
  BY <1>1, <1>2, <1>3, <1>3r, <1>4, <1>6, <1>7, ProcessAssumption DEF Held, MergeHeld,
     Unmerged, TypeOK, Row
<1>11. Settled'
  BY <1>1, <1>2, <1>3, <1>3r, <1>4, <1>6, ProcessAssumption DEF Settled, TypeOK, Copy
<1>12. StaleIsFollowed'
  BY <1>1, <1>2, <1>3, <1>3r, <1>4, <1>6, <1>7, ProcessAssumption DEF Held, MergeHeld,
     StaleIsFollowed, Coming, Judging, TypeOK, Copy, Proc
<1>13. OutdatedIsDue'
  BY <1>1, <1>2, <1>3, <1>3r, <1>4, <1>6, <1>7, ProcessAssumption DEF Held, MergeHeld,
     OutdatedIsDue, StaleIsFollowed, Outdated, Coming, Judging, TypeOK, Row, Copy, Proc
<1> QED
  BY <1>5, <1>8, <1>9, <1>10, <1>11, <1>12, <1>13 DEF Inv

LEMMA WriteErrorKeeps ==
  ASSUME Inv, NEW w \in Worker, WriteError(w)
  PROVE  Inv'
<1>1. w \in Proc /\ w \in User
  BY ProcessAssumption DEF Proc
<1>2. TypeOK /\ PoolInv /\ Places /\ Unmerged /\ Settled /\ StaleIsFollowed /\ OutdatedIsDue
  BY DEF Inv
<1>3. /\ pc[w] = "failing" /\ git' = git /\ queued' = queued /\ seen' = seen
      /\ missed' = missed /\ faults' = faults
      /\ row' = [row EXCEPT !.status = "error", !.tested = seen[w].tested]
  BY DEF WriteError, Fault, poolVars
<1>4. DOMAIN pc' = Proc /\ pc'[w] = "leaving" /\ \A q \in Proc : q # w => pc'[q] = pc[q]
  BY <1>1, <1>2, Moved DEF WriteError
<1>5. PoolInv' /\ visit' = visit
  BY <1>2, PoolStep DEF WriteError, poolVars
<1>6. \A q \in Worker \cup Merger \cup Pusher : q \in Proc
  BY DEF Proc
<1>3r. /\ row'.status = "error" /\ row'.tested = seen[w].tested /\ row'.merged = row.merged
       /\ row' \in Row
  BY <1>1, <1>2, <1>3, <1>4 DEF TypeOK, Row, Copy, Status, Settled, Unmerged
<1>7. \A v \in User : v # w =>
        /\ ~(v \in Worker /\ pc[v] \in Held)
        /\ ~(v \in Merger /\ pc[v] \in MergeHeld)
  BY <1>1, <1>2, <1>3, Alone DEF Places, Held, MergeHeld
<1>8. TypeOK'
  BY <1>1, <1>2, <1>3, <1>3r, <1>4, <1>5, <1>6, ProcessAssumption, BoundAssumption DEF
     TypeOK, PoolInv, Row, Copy, Status, NoCopy, Proc
<1>9. Places'
  BY <1>1, <1>2, <1>3, <1>3r, <1>4, <1>5, <1>6, ProcessAssumption DEF Places, Held,
     MergeHeld, PoolInv, PoolTypeOK, Outside, TypeOK
<1>10. Unmerged'
  BY <1>1, <1>2, <1>3, <1>3r, <1>4, <1>6, <1>7, ProcessAssumption DEF Held, MergeHeld,
     Unmerged, TypeOK, Row
<1>11. Settled'
  BY <1>1, <1>2, <1>3, <1>3r, <1>4, <1>6, ProcessAssumption DEF Settled, TypeOK, Copy
<1>12. StaleIsFollowed'
  BY <1>1, <1>2, <1>3, <1>3r, <1>4, <1>6, <1>7, ProcessAssumption DEF Held, MergeHeld,
     StaleIsFollowed, Coming, Judging, TypeOK, Copy, Proc
<1>13. OutdatedIsDue'
  BY <1>1, <1>2, <1>3, <1>3r, <1>4, <1>6, <1>7, ProcessAssumption DEF Held, MergeHeld,
     OutdatedIsDue, StaleIsFollowed, Outdated, Coming, Judging, TypeOK, Row, Copy, Proc
<1> QED
  BY <1>5, <1>8, <1>9, <1>10, <1>11, <1>12, <1>13 DEF Inv

LEMMA AskKeeps ==
  ASSUME Inv, NEW w \in Worker, Ask(w)
  PROVE  Inv'
<1>1. w \in Proc /\ w \in User
  BY ProcessAssumption DEF Proc
<1>2. TypeOK /\ PoolInv /\ Places /\ Unmerged /\ Settled /\ StaleIsFollowed /\ OutdatedIsDue
  BY DEF Inv
<1>3. /\ pc[w] = "asking" /\ git' = git /\ row' = row /\ queued' = queued /\ seen' = seen
      /\ missed' = missed /\ faults' = faults
  BY DEF Ask, Fault, poolVars
<1>4. /\ DOMAIN pc' = Proc /\ (pc'[w] = "writing" \/ (queued /\ pc'[w] = "leaving"))
      /\ \A q \in Proc : q # w => pc'[q] = pc[q]
  BY <1>1, <1>2, Moved DEF Ask
<1>5. PoolInv' /\ visit' = visit
  BY <1>2, PoolStep DEF Ask, poolVars
<1>6. \A q \in Worker \cup Merger \cup Pusher : q \in Proc
  BY DEF Proc
<1>7. \A v \in User : v # w =>
        /\ ~(v \in Worker /\ pc[v] \in Held)
        /\ ~(v \in Merger /\ pc[v] \in MergeHeld)
  BY <1>1, <1>2, <1>3, Alone DEF Places, Held, MergeHeld
<1>8. TypeOK'
  BY <1>1, <1>2, <1>3, <1>4, <1>5, <1>6, ProcessAssumption, BoundAssumption DEF TypeOK,
     PoolInv, Row, Copy, Status, NoCopy, Proc
<1>9. Places'
  BY <1>1, <1>2, <1>3, <1>4, <1>5, <1>6, ProcessAssumption DEF Places, Held, MergeHeld,
     PoolInv, PoolTypeOK, Outside, TypeOK
<1>10. Unmerged'
  BY <1>1, <1>2, <1>3, <1>4, <1>6, <1>7, ProcessAssumption DEF Held, MergeHeld, Unmerged,
     TypeOK, Row
<1>11. Settled'
  BY <1>1, <1>2, <1>3, <1>4, <1>6, ProcessAssumption DEF Settled, TypeOK, Copy
<1>12. StaleIsFollowed'
  BY <1>1, <1>2, <1>3, <1>4, <1>6, <1>7, ProcessAssumption DEF Held, MergeHeld,
     StaleIsFollowed, Coming, Judging, TypeOK, Copy, Proc
<1>13. OutdatedIsDue'
  BY <1>1, <1>2, <1>3, <1>4, <1>6, <1>7, ProcessAssumption DEF Held, MergeHeld,
     OutdatedIsDue, StaleIsFollowed, Outdated, Coming, Judging, TypeOK, Row, Copy, Proc
<1> QED
  BY <1>5, <1>8, <1>9, <1>10, <1>11, <1>12, <1>13 DEF Inv

LEMMA WriteStatusKeeps ==
  ASSUME Inv, NEW w \in Worker, WriteStatus(w)
  PROVE  Inv'
<1>1. w \in Proc /\ w \in User
  BY ProcessAssumption DEF Proc
<1>2. TypeOK /\ PoolInv /\ Places /\ Unmerged /\ Settled /\ StaleIsFollowed /\ OutdatedIsDue
  BY DEF Inv
<1>3. /\ pc[w] = "writing" /\ git' = git /\ queued' = queued /\ seen' = seen
      /\ missed' = missed /\ faults' = faults
      /\ row' = IF row.merged THEN row
                ELSE [row EXCEPT !.status = seen[w].status, !.tested = seen[w].tested]
  BY DEF WriteStatus, Fault, poolVars
<1>4. DOMAIN pc' = Proc /\ pc'[w] = "leaving" /\ \A q \in Proc : q # w => pc'[q] = pc[q]
  BY <1>1, <1>2, Moved DEF WriteStatus
<1>5. PoolInv' /\ visit' = visit
  BY <1>2, PoolStep DEF WriteStatus, poolVars
<1>6. \A q \in Worker \cup Merger \cup Pusher : q \in Proc
  BY DEF Proc
<1>3r. /\ row' \in Row
       /\ (row'.status \in {"tested", "empty"} /\ row'.tested = seen[w].tested /\ row'.merged = row.merged)
  BY <1>1, <1>2, <1>3, <1>4 DEF TypeOK, Row, Copy, Status, Settled, Unmerged
<1>7. \A v \in User : v # w =>
        /\ ~(v \in Worker /\ pc[v] \in Held)
        /\ ~(v \in Merger /\ pc[v] \in MergeHeld)
  BY <1>1, <1>2, <1>3, Alone DEF Places, Held, MergeHeld
<1>8. TypeOK'
  BY <1>1, <1>2, <1>3, <1>3r, <1>4, <1>5, <1>6, ProcessAssumption, BoundAssumption DEF
     TypeOK, PoolInv, Row, Copy, Status, NoCopy, Proc
<1>9. Places'
  BY <1>1, <1>2, <1>3, <1>3r, <1>4, <1>5, <1>6, ProcessAssumption DEF Places, Held,
     MergeHeld, PoolInv, PoolTypeOK, Outside, TypeOK
<1>10. Unmerged'
  BY <1>1, <1>2, <1>3, <1>3r, <1>4, <1>6, <1>7, ProcessAssumption DEF Held, MergeHeld,
     Unmerged, TypeOK, Row
<1>11. Settled'
  BY <1>1, <1>2, <1>3, <1>3r, <1>4, <1>6, ProcessAssumption DEF Settled, TypeOK, Copy
<1>12. StaleIsFollowed'
  BY <1>1, <1>2, <1>3, <1>3r, <1>4, <1>6, <1>7, ProcessAssumption DEF Held, MergeHeld,
     StaleIsFollowed, Coming, Judging, TypeOK, Copy, Proc
<1>13. OutdatedIsDue'
  BY <1>1, <1>2, <1>3, <1>3r, <1>4, <1>6, <1>7, ProcessAssumption DEF Held, MergeHeld,
     OutdatedIsDue, StaleIsFollowed, Outdated, Coming, Judging, TypeOK, Row, Copy, Proc
<1> QED
  BY <1>5, <1>8, <1>9, <1>10, <1>11, <1>12, <1>13 DEF Inv

LEMMA RowFailsKeeps ==
  ASSUME Inv, NEW w \in Worker, RowFails(w)
  PROVE  Inv'
<1>1. w \in Proc /\ w \in User
  BY ProcessAssumption DEF Proc
<1>2. TypeOK /\ PoolInv /\ Places /\ Unmerged /\ Settled /\ StaleIsFollowed /\ OutdatedIsDue
  BY DEF Inv
<1>3. pc[w] \in {"loading", "failing", "writing"} /\ missed' = TRUE /\ faults < MaxFaults
      /\ faults' = faults + 1 /\ git' = git /\ row' = row /\ seen' = seen /\ queued' = queued
  BY DEF RowFails, Fault, poolVars
<1>4. DOMAIN pc' = Proc /\ pc'[w] = "leaving" /\ \A q \in Proc : q # w => pc'[q] = pc[q]
  BY <1>1, <1>2, Moved DEF RowFails
<1>5. PoolInv' /\ visit' = visit
  BY <1>2, PoolStep DEF RowFails, poolVars
<1>6. \A q \in Worker \cup Merger \cup Pusher : q \in Proc
  BY DEF Proc
<1>7. \A v \in User : v # w =>
        /\ ~(v \in Worker /\ pc[v] \in Held)
        /\ ~(v \in Merger /\ pc[v] \in MergeHeld)
  BY <1>1, <1>2, <1>3, Alone DEF Places, Held, MergeHeld
<1>8. TypeOK'
  BY <1>1, <1>2, <1>3, <1>4, <1>5, <1>6, ProcessAssumption, BoundAssumption DEF TypeOK,
     PoolInv, Row, Copy, Status, NoCopy, Proc
<1>9. Places'
  BY <1>1, <1>2, <1>3, <1>4, <1>5, <1>6, ProcessAssumption DEF Places, Held, MergeHeld,
     PoolInv, PoolTypeOK, Outside, TypeOK
<1>10. Unmerged'
  BY <1>1, <1>2, <1>3, <1>4, <1>6, <1>7, ProcessAssumption DEF Held, MergeHeld, Unmerged,
     TypeOK, Row
<1>11. Settled'
  BY <1>1, <1>2, <1>3, <1>4, <1>6, ProcessAssumption DEF Settled, TypeOK, Copy
<1>12. StaleIsFollowed'
  BY <1>1, <1>2, <1>3, <1>4, <1>6, <1>7, ProcessAssumption DEF Held, MergeHeld,
     StaleIsFollowed, Coming, Judging, TypeOK, Copy, Proc
<1>13. OutdatedIsDue'
  BY <1>1, <1>2, <1>3, <1>4, <1>6, <1>7, ProcessAssumption DEF Held, MergeHeld,
     OutdatedIsDue, StaleIsFollowed, Outdated, Coming, Judging, TypeOK, Row, Copy, Proc
<1> QED
  BY <1>5, <1>8, <1>9, <1>10, <1>11, <1>12, <1>13 DEF Inv

LEMMA TestLeaveKeeps ==
  ASSUME Inv, NEW w \in Worker, TestLeave(w)
  PROVE  Inv'
<1>1. w \in Proc /\ w \in User
  BY ProcessAssumption DEF Proc
<1>2. TypeOK /\ PoolInv /\ Places /\ Unmerged /\ Settled /\ StaleIsFollowed /\ OutdatedIsDue
  BY DEF Inv
<1>3. pc[w] = "leaving" /\ seen' = [seen EXCEPT ![w] = NoCopy]
      /\ git' = git /\ row' = row /\ queued' = queued /\ missed' = missed /\ faults' = faults
  BY DEF TestLeave, Fault, poolVars
<1>4. DOMAIN pc' = Proc /\ pc'[w] = "idle" /\ \A q \in Proc : q # w => pc'[q] = pc[q]
  BY <1>1, <1>2, Moved DEF TestLeave
<1>5. PoolInv' /\ visit' = [visit EXCEPT ![w] = Outside]
  BY <1>1, <1>2, PoolCheckOut DEF TestLeave, CheckOut
<1>6. \A q \in Worker \cup Merger \cup Pusher : q \in Proc
  BY DEF Proc
<1>7. \A v \in User : v # w =>
        /\ ~(v \in Worker /\ pc[v] \in Held)
        /\ ~(v \in Merger /\ pc[v] \in MergeHeld)
  BY <1>1, <1>2, <1>3, Alone DEF Places, Held, MergeHeld
<1>8. TypeOK'
  BY <1>1, <1>2, <1>3, <1>4, <1>5, <1>6, ProcessAssumption, BoundAssumption DEF TypeOK,
     PoolInv, Row, Copy, Status, NoCopy, Proc
<1>9. Places'
  BY <1>1, <1>2, <1>3, <1>4, <1>5, <1>6, ProcessAssumption DEF Places, Held, MergeHeld,
     PoolInv, PoolTypeOK, Outside, TypeOK
<1>10. Unmerged'
  BY <1>1, <1>2, <1>3, <1>4, <1>6, <1>7, ProcessAssumption DEF Held, MergeHeld, Unmerged,
     TypeOK, Row
<1>11. Settled'
  BY <1>1, <1>2, <1>3, <1>4, <1>6, ProcessAssumption DEF Settled, TypeOK, Copy
<1>12. StaleIsFollowed'
  BY <1>1, <1>2, <1>3, <1>4, <1>6, <1>7, ProcessAssumption DEF Held, MergeHeld,
     StaleIsFollowed, Coming, Judging, TypeOK, Copy, Proc
<1>13. OutdatedIsDue'
  BY <1>1, <1>2, <1>3, <1>4, <1>6, <1>7, ProcessAssumption DEF Held, MergeHeld,
     OutdatedIsDue, StaleIsFollowed, Outdated, Coming, Judging, TypeOK, Row, Copy, Proc
<1> QED
  BY <1>5, <1>8, <1>9, <1>10, <1>11, <1>12, <1>13 DEF Inv

LEMMA MergeCheckKeeps ==
  ASSUME Inv, NEW m \in Merger, MergeCheck(m)
  PROVE  Inv'
<1>1. m \in Proc /\ m \in User
  BY ProcessAssumption DEF Proc
<1>2. TypeOK /\ PoolInv /\ Places /\ Unmerged /\ Settled /\ StaleIsFollowed /\ OutdatedIsDue
  BY DEF Inv
<1>3. /\ pc[m] = "idle" /\ git' = git /\ row' = row /\ queued' = queued /\ seen' = seen
      /\ missed' = missed /\ faults' = faults
  BY DEF MergeCheck, Fault, poolVars
<1>4. DOMAIN pc' = Proc /\ pc'[m] = "checked" /\ \A q \in Proc : q # m => pc'[q] = pc[q]
  BY <1>1, <1>2, Moved DEF MergeCheck
<1>5. PoolInv' /\ visit' = visit
  BY <1>2, PoolStep DEF MergeCheck, poolVars
<1>6. \A q \in Worker \cup Merger \cup Pusher : q \in Proc
  BY DEF Proc
<1>8. TypeOK'
  BY <1>1, <1>2, <1>3, <1>4, <1>5, <1>6, ProcessAssumption, BoundAssumption DEF TypeOK,
     PoolInv, Row, Copy, Status, NoCopy, Proc
<1>9. Places'
  BY <1>1, <1>2, <1>3, <1>4, <1>5, <1>6, ProcessAssumption DEF Places, Held, MergeHeld,
     PoolInv, PoolTypeOK, Outside, TypeOK
<1>10. Unmerged'
  BY <1>1, <1>2, <1>3, <1>4, <1>6, ProcessAssumption DEF Unmerged, TypeOK, Row
<1>11. Settled'
  BY <1>1, <1>2, <1>3, <1>4, <1>6, ProcessAssumption DEF Settled, TypeOK, Copy
<1>12. StaleIsFollowed'
  BY <1>1, <1>2, <1>3, <1>4, <1>6, ProcessAssumption DEF StaleIsFollowed, Coming, Judging,
     TypeOK, Copy, Proc
<1>13. OutdatedIsDue'
  BY <1>1, <1>2, <1>3, <1>4, <1>6, ProcessAssumption DEF OutdatedIsDue, StaleIsFollowed,
     Outdated, Coming, Judging, TypeOK, Row, Copy, Proc
<1> QED
  BY <1>5, <1>8, <1>9, <1>10, <1>11, <1>12, <1>13 DEF Inv

LEMMA MergeCheckInKeeps ==
  ASSUME Inv, NEW m \in Merger, MergeCheckIn(m)
  PROVE  Inv'
<1>1. m \in Proc /\ m \in User
  BY ProcessAssumption DEF Proc
<1>2. TypeOK /\ PoolInv /\ Places /\ Unmerged /\ Settled /\ StaleIsFollowed /\ OutdatedIsDue
  BY DEF Inv
<1>3. /\ pc[m] = "checked" /\ git' = git /\ row' = row /\ queued' = queued /\ seen' = seen
      /\ missed' = missed /\ faults' = faults
  BY DEF MergeCheckIn, Fault, poolVars
<1>4. DOMAIN pc' = Proc /\ pc'[m] = "waiting" /\ \A q \in Proc : q # m => pc'[q] = pc[q]
  BY <1>1, <1>2, Moved DEF MergeCheckIn
<1>5. PoolInv' /\ visit' = [visit EXCEPT ![m] = visit'[m]]
      /\ visit'[m].at = "waiting" /\ visit'[m].id = Pull
  <2>1. PoolInv'
    BY <1>1, <1>2, PoolCheckIn, ProcessAssumption DEF MergeCheckIn
  <2> QED
    BY <1>1, <1>2, <2>1 DEF MergeCheckIn, CheckIn, PoolInv, PoolTypeOK
<1>6. \A q \in Worker \cup Merger \cup Pusher : q \in Proc
  BY DEF Proc
<1>8. TypeOK'
  BY <1>1, <1>2, <1>3, <1>4, <1>5, <1>6, ProcessAssumption, BoundAssumption DEF TypeOK,
     PoolInv, Row, Copy, Status, NoCopy, Proc
<1>9. Places'
  BY <1>1, <1>2, <1>3, <1>4, <1>5, <1>6, ProcessAssumption DEF Places, Held, MergeHeld,
     PoolInv, PoolTypeOK, Outside, TypeOK
<1>10. Unmerged'
  BY <1>1, <1>2, <1>3, <1>4, <1>6, ProcessAssumption DEF Unmerged, TypeOK, Row
<1>11. Settled'
  BY <1>1, <1>2, <1>3, <1>4, <1>6, ProcessAssumption DEF Settled, TypeOK, Copy
<1>12. StaleIsFollowed'
  BY <1>1, <1>2, <1>3, <1>4, <1>6, ProcessAssumption DEF StaleIsFollowed, Coming, Judging,
     TypeOK, Copy, Proc
<1>13. OutdatedIsDue'
  BY <1>1, <1>2, <1>3, <1>4, <1>6, ProcessAssumption DEF OutdatedIsDue, StaleIsFollowed,
     Outdated, Coming, Judging, TypeOK, Row, Copy, Proc
<1> QED
  BY <1>5, <1>8, <1>9, <1>10, <1>11, <1>12, <1>13 DEF Inv

LEMMA EditCheckInKeeps ==
  ASSUME Inv, NEW m \in Merger, EditCheckIn(m)
  PROVE  Inv'
<1>1. m \in Proc /\ m \in User
  BY ProcessAssumption DEF Proc
<1>2. TypeOK /\ PoolInv /\ Places /\ Unmerged /\ Settled /\ StaleIsFollowed /\ OutdatedIsDue
  BY DEF Inv
<1>3. /\ pc[m] = "idle" /\ git' = git /\ row' = row /\ queued' = queued /\ seen' = seen
      /\ missed' = missed /\ faults' = faults
  BY DEF EditCheckIn, Fault, poolVars
<1>4. DOMAIN pc' = Proc /\ pc'[m] = "pending" /\ \A q \in Proc : q # m => pc'[q] = pc[q]
  BY <1>1, <1>2, Moved DEF EditCheckIn
<1>5. PoolInv' /\ visit' = [visit EXCEPT ![m] = visit'[m]]
      /\ visit'[m].at = "waiting" /\ visit'[m].id = Pull
  <2>1. PoolInv'
    BY <1>1, <1>2, PoolCheckIn, ProcessAssumption DEF EditCheckIn
  <2> QED
    BY <1>1, <1>2, <2>1 DEF EditCheckIn, CheckIn, PoolInv, PoolTypeOK
<1>6. \A q \in Worker \cup Merger \cup Pusher : q \in Proc
  BY DEF Proc
<1>8. TypeOK'
  BY <1>1, <1>2, <1>3, <1>4, <1>5, <1>6, ProcessAssumption, BoundAssumption DEF TypeOK,
     PoolInv, Row, Copy, Status, NoCopy, Proc
<1>9. Places'
  <2>1. \A v \in User : v # m => visit'[v] = visit[v]
    BY <1>1, <1>2, <1>5 DEF PoolInv, PoolTypeOK
  <2>2. \A w \in Worker : w # m /\ w \in User /\ w \in Proc
    BY <1>1, <1>6, ProcessAssumption
  <2>3. \A u \in Merger : u \in User /\ u \in Proc
    BY <1>6, ProcessAssumption
  <2> QED
    BY <1>1, <1>2, <1>4, <1>5, <2>1, <2>2, <2>3 DEF Places, Held, MergeHeld
<1>10. Unmerged'
  BY <1>1, <1>2, <1>3, <1>4, <1>6, ProcessAssumption DEF Unmerged, TypeOK, Row
<1>11. Settled'
  BY <1>1, <1>2, <1>3, <1>4, <1>6, ProcessAssumption DEF Settled, TypeOK, Copy
<1>12. StaleIsFollowed'
  BY <1>1, <1>2, <1>3, <1>4, <1>6, ProcessAssumption DEF StaleIsFollowed, Coming, Judging,
     TypeOK, Copy, Proc
<1>13. OutdatedIsDue'
  BY <1>1, <1>2, <1>3, <1>4, <1>6, ProcessAssumption DEF OutdatedIsDue, StaleIsFollowed,
     Outdated, Coming, Judging, TypeOK, Row, Copy, Proc
<1> QED
  BY <1>5, <1>8, <1>9, <1>10, <1>11, <1>12, <1>13 DEF Inv

LEMMA MergeEnterKeeps ==
  ASSUME Inv, NEW m \in Merger, MergeEnter(m)
  PROVE  Inv'
<1>1. m \in Proc /\ m \in User
  BY ProcessAssumption DEF Proc
<1>2. TypeOK /\ PoolInv /\ Places /\ Unmerged /\ Settled /\ StaleIsFollowed /\ OutdatedIsDue
  BY DEF Inv
<1>3. /\ pc[m] \in {"waiting", "pending"} /\ git' = git /\ row' = row /\ queued' = queued /\ seen' = seen
      /\ missed' = missed /\ faults' = faults
  BY DEF MergeEnter, Fault, poolVars
<1>4. DOMAIN pc' = Proc /\ pc'[m] \in {"merging", "editing"} /\ \A q \in Proc : q # m => pc'[q] = pc[q]
  BY <1>1, <1>2, Moved DEF MergeEnter
<1>5. PoolInv' /\ visit'[m].at = "inside" /\ visit'[m].id = visit[m].id
      /\ visit[m].at # "outside" /\ \A v \in User : v # m => visit'[v] = visit[v]
  <2>1. PoolInv' /\ visit[m].at = "waiting" /\ visit' = [visit EXCEPT ![m].at = "inside"]
    BY <1>1, <1>2, PoolEnter DEF MergeEnter, Enter
  <2>2. visit[m] \in [at : {"waiting", "inside"}, id : Identity, mutex : Mutex]
    BY <1>1, <1>2, <2>1 DEF PoolInv, PoolTypeOK, Outside
  <2>3. \A v \in User : v # m => visit'[v] = visit[v]
    BY <2>1, <1>2 DEF PoolInv, PoolTypeOK
  <2>4. visit'[m] = [visit[m] EXCEPT !.at = "inside"]
    BY <2>1, <1>1, <1>2 DEF PoolInv, PoolTypeOK
  <2> QED
    BY <2>1, <2>2, <2>3, <2>4
<1>6. \A q \in Worker \cup Merger \cup Pusher : q \in Proc
  BY DEF Proc
<1>8. TypeOK'
  BY <1>1, <1>2, <1>3, <1>4, <1>5, <1>6, ProcessAssumption, BoundAssumption DEF TypeOK,
     PoolInv, Row, Copy, Status, NoCopy, Proc
<1>9. Places'
  BY <1>1, <1>2, <1>3, <1>4, <1>5, <1>6, ProcessAssumption DEF Places, Held, MergeHeld,
     PoolInv, PoolTypeOK, Outside, TypeOK
<1>10. Unmerged'
  BY <1>1, <1>2, <1>3, <1>4, <1>6, ProcessAssumption DEF Unmerged, TypeOK, Row
<1>11. Settled'
  BY <1>1, <1>2, <1>3, <1>4, <1>6, ProcessAssumption DEF Settled, TypeOK, Copy
<1>12. StaleIsFollowed'
  BY <1>1, <1>2, <1>3, <1>4, <1>6, ProcessAssumption DEF StaleIsFollowed, Coming, Judging,
     TypeOK, Copy, Proc
<1>13. OutdatedIsDue'
  BY <1>1, <1>2, <1>3, <1>4, <1>6, ProcessAssumption DEF OutdatedIsDue, StaleIsFollowed,
     Outdated, Coming, Judging, TypeOK, Row, Copy, Proc
<1> QED
  BY <1>5, <1>8, <1>9, <1>10, <1>11, <1>12, <1>13 DEF Inv

LEMMA MergePushKeeps ==
  ASSUME Inv, NEW m \in Merger, MergePush(m)
  PROVE  Inv'
<1>1. m \in Proc /\ m \in User
  BY ProcessAssumption DEF Proc
<1>2. TypeOK /\ PoolInv /\ Places /\ Unmerged /\ Settled /\ StaleIsFollowed /\ OutdatedIsDue
  BY DEF Inv
<1>3. /\ pc[m] = "merging" /\ row' = row /\ queued' = queued /\ seen' = seen
      /\ missed' = missed /\ faults' = faults
      /\ git' = [change |-> git.change + 1, empty |-> FALSE] /\ git.change < MaxPushes
  BY DEF MergePush, Fault, poolVars
<1>4. DOMAIN pc' = Proc /\ pc'[m] = "hook" /\ \A q \in Proc : q # m => pc'[q] = pc[q]
  BY <1>1, <1>2, Moved DEF MergePush
<1>5. PoolInv' /\ visit' = visit
  BY <1>2, PoolStep DEF MergePush, poolVars
<1>6. \A q \in Worker \cup Merger \cup Pusher : q \in Proc
  BY DEF Proc
<1>7. \A v \in User : v # m =>
        /\ ~(v \in Worker /\ pc[v] \in Held)
        /\ ~(v \in Merger /\ pc[v] \in MergeHeld)
  BY <1>1, <1>2, <1>3, Alone DEF Places, Held, MergeHeld
<1>8. TypeOK'
  BY <1>1, <1>2, <1>3, <1>4, <1>5, <1>6, ProcessAssumption, BoundAssumption DEF TypeOK,
     PoolInv, Row, Copy, Status, NoCopy, Proc
<1>9. Places'
  BY <1>1, <1>2, <1>3, <1>4, <1>5, <1>6, ProcessAssumption DEF Places, Held, MergeHeld,
     PoolInv, PoolTypeOK, Outside, TypeOK
<1>10. Unmerged'
  BY <1>1, <1>2, <1>3, <1>4, <1>6, <1>7, ProcessAssumption DEF Held, MergeHeld, Unmerged,
     TypeOK, Row
<1>11. Settled'
  BY <1>1, <1>2, <1>3, <1>4, <1>6, ProcessAssumption DEF Settled, TypeOK, Copy
<1>12. StaleIsFollowed'
  BY <1>1, <1>2, <1>3, <1>4, <1>6, <1>7, ProcessAssumption DEF Held, MergeHeld,
     StaleIsFollowed, Coming, Judging, TypeOK, Copy, Proc
<1>13. OutdatedIsDue'
  BY <1>1, <1>2, <1>3, <1>4, <1>6, <1>7, ProcessAssumption DEF Held, MergeHeld,
     OutdatedIsDue, StaleIsFollowed, Outdated, Coming, Judging, TypeOK, Row, Copy, Proc
<1> QED
  BY <1>5, <1>8, <1>9, <1>10, <1>11, <1>12, <1>13 DEF Inv

LEMMA UpdateHeadKeeps ==
  ASSUME Inv, NEW m \in Merger, UpdateHead(m)
  PROVE  Inv'
<1>1. m \in Proc /\ m \in User
  BY ProcessAssumption DEF Proc
<1>2. TypeOK /\ PoolInv /\ Places /\ Unmerged /\ Settled /\ StaleIsFollowed /\ OutdatedIsDue
  BY DEF Inv
<1>3. /\ pc[m] = "editing" /\ row' = row /\ queued' = queued /\ seen' = seen
      /\ missed' = missed /\ faults' = faults
      /\ git' \in [change : {git.change + 1}, empty : BOOLEAN] /\ git.change < MaxPushes
  BY EmptinessAssumption DEF UpdateHead, Fault, poolVars
<1>4. DOMAIN pc' = Proc /\ pc'[m] = "ending" /\ \A q \in Proc : q # m => pc'[q] = pc[q]
  BY <1>1, <1>2, Moved DEF UpdateHead
<1>5. PoolInv' /\ visit' = visit
  BY <1>2, PoolStep DEF UpdateHead, poolVars
<1>6. \A q \in Worker \cup Merger \cup Pusher : q \in Proc
  BY DEF Proc
<1>7. \A v \in User : v # m =>
        /\ ~(v \in Worker /\ pc[v] \in Held)
        /\ ~(v \in Merger /\ pc[v] \in MergeHeld)
  BY <1>1, <1>2, <1>3, Alone DEF Places, Held, MergeHeld
<1>8. TypeOK'
  BY <1>1, <1>2, <1>3, <1>4, <1>5, <1>6, ProcessAssumption, BoundAssumption DEF TypeOK,
     PoolInv, Row, Copy, Status, NoCopy, Proc
<1>9. Places'
  BY <1>1, <1>2, <1>3, <1>4, <1>5, <1>6, ProcessAssumption DEF Places, Held, MergeHeld,
     PoolInv, PoolTypeOK, Outside, TypeOK
<1>10. Unmerged'
  BY <1>1, <1>2, <1>3, <1>4, <1>6, <1>7, ProcessAssumption DEF Held, MergeHeld, Unmerged,
     TypeOK, Row
<1>11. Settled'
  BY <1>1, <1>2, <1>3, <1>4, <1>6, ProcessAssumption DEF Settled, TypeOK, Copy
<1>12. StaleIsFollowed'
  BY <1>1, <1>2, <1>3, <1>4, <1>6, <1>7, ProcessAssumption DEF Held, MergeHeld,
     StaleIsFollowed, Coming, Judging, TypeOK, Copy, Proc
<1>13. OutdatedIsDue'
  BY <1>1, <1>2, <1>3, <1>4, <1>6, <1>7, ProcessAssumption DEF Held, MergeHeld,
     OutdatedIsDue, StaleIsFollowed, Outdated, Coming, Judging, TypeOK, Row, Copy, Proc
<1> QED
  BY <1>5, <1>8, <1>9, <1>10, <1>11, <1>12, <1>13 DEF Inv

LEMMA MergeFailsKeeps ==
  ASSUME Inv, NEW m \in Merger, MergeFails(m)
  PROVE  Inv'
<1>1. m \in Proc /\ m \in User
  BY ProcessAssumption DEF Proc
<1>2. TypeOK /\ PoolInv /\ Places /\ Unmerged /\ Settled /\ StaleIsFollowed /\ OutdatedIsDue
  BY DEF Inv
<1>3. /\ pc[m] \in {"merging", "editing"} /\ git' = git /\ row' = row /\ queued' = queued /\ seen' = seen
      /\ missed' = missed /\ faults' = faults
  BY DEF MergeFails, Fault, poolVars
<1>4. /\ DOMAIN pc' = Proc /\ pc'[m] \in {"ending", "leaving"}
      /\ \A q \in Proc : q # m => pc'[q] = pc[q]
  BY <1>1, <1>2, Moved DEF MergeFails
<1>5. PoolInv' /\ visit' = visit
  BY <1>2, PoolStep DEF MergeFails, poolVars
<1>6. \A q \in Worker \cup Merger \cup Pusher : q \in Proc
  BY DEF Proc
<1>7. \A v \in User : v # m =>
        /\ ~(v \in Worker /\ pc[v] \in Held)
        /\ ~(v \in Merger /\ pc[v] \in MergeHeld)
  BY <1>1, <1>2, <1>3, Alone DEF Places, Held, MergeHeld
<1>8. TypeOK'
  BY <1>1, <1>2, <1>3, <1>4, <1>5, <1>6, ProcessAssumption, BoundAssumption DEF TypeOK,
     PoolInv, Row, Copy, Status, NoCopy, Proc
<1>9. Places'
  BY <1>1, <1>2, <1>3, <1>4, <1>5, <1>6, ProcessAssumption DEF Places, Held, MergeHeld,
     PoolInv, PoolTypeOK, Outside, TypeOK
<1>10. Unmerged'
  BY <1>1, <1>2, <1>3, <1>4, <1>6, <1>7, ProcessAssumption DEF Held, MergeHeld, Unmerged,
     TypeOK, Row
<1>11. Settled'
  BY <1>1, <1>2, <1>3, <1>4, <1>6, ProcessAssumption DEF Settled, TypeOK, Copy
<1>12. StaleIsFollowed'
  BY <1>1, <1>2, <1>3, <1>4, <1>6, <1>7, ProcessAssumption DEF Held, MergeHeld,
     StaleIsFollowed, Coming, Judging, TypeOK, Copy, Proc
<1>13. OutdatedIsDue'
  BY <1>1, <1>2, <1>3, <1>4, <1>6, <1>7, ProcessAssumption DEF Held, MergeHeld,
     OutdatedIsDue, StaleIsFollowed, Outdated, Coming, Judging, TypeOK, Row, Copy, Proc
<1> QED
  BY <1>5, <1>8, <1>9, <1>10, <1>11, <1>12, <1>13 DEF Inv

LEMMA MergeHookKeeps ==
  ASSUME Inv, NEW m \in Merger, MergeHook(m)
  PROVE  Inv'
<1>1. m \in Proc /\ m \in User
  BY ProcessAssumption DEF Proc
<1>2. TypeOK /\ PoolInv /\ Places /\ Unmerged /\ Settled /\ StaleIsFollowed /\ OutdatedIsDue
  BY DEF Inv
<1>3. /\ pc[m] = "hook" /\ git' = git /\ queued' = queued /\ seen' = seen
      /\ missed' = missed /\ faults' = faults
      /\ row' \in {row, [row EXCEPT !.merged = TRUE]}
  BY DEF MergeHook, Fault, poolVars
<1>4. DOMAIN pc' = Proc /\ pc'[m] = "ending" /\ \A q \in Proc : q # m => pc'[q] = pc[q]
  BY <1>1, <1>2, Moved DEF MergeHook
<1>5. PoolInv' /\ visit' = visit
  BY <1>2, PoolStep DEF MergeHook, poolVars
<1>6. \A q \in Worker \cup Merger \cup Pusher : q \in Proc
  BY DEF Proc
<1>7. \A v \in User : v # m =>
        /\ ~(v \in Worker /\ pc[v] \in Held)
        /\ ~(v \in Merger /\ pc[v] \in MergeHeld)
  BY <1>1, <1>2, <1>3, Alone DEF Places, Held, MergeHeld
<1>8. TypeOK'
  BY <1>1, <1>2, <1>3, <1>4, <1>5, <1>6, ProcessAssumption, BoundAssumption DEF TypeOK,
     PoolInv, Row, Copy, Status, NoCopy, Proc
<1>9. Places'
  BY <1>1, <1>2, <1>3, <1>4, <1>5, <1>6, ProcessAssumption DEF Places, Held, MergeHeld,
     PoolInv, PoolTypeOK, Outside, TypeOK
<1>10. Unmerged'
  BY <1>1, <1>2, <1>3, <1>4, <1>6, <1>7, ProcessAssumption DEF Held, MergeHeld, Unmerged,
     TypeOK, Row
<1>11. Settled'
  BY <1>1, <1>2, <1>3, <1>4, <1>6, ProcessAssumption DEF Settled, TypeOK, Copy
<1>12. StaleIsFollowed'
  BY <1>1, <1>2, <1>3, <1>4, <1>6, <1>7, ProcessAssumption DEF Held, MergeHeld,
     StaleIsFollowed, Coming, Judging, TypeOK, Copy, Proc
<1>13. OutdatedIsDue'
  BY <1>1, <1>2, <1>3, <1>4, <1>6, <1>7, ProcessAssumption DEF Held, MergeHeld,
     OutdatedIsDue, StaleIsFollowed, Outdated, Coming, Judging, TypeOK, Row, Copy, Proc
<1> QED
  BY <1>5, <1>8, <1>9, <1>10, <1>11, <1>12, <1>13 DEF Inv

LEMMA MergeManuallyKeeps ==
  ASSUME Inv, NEW m \in Merger, MergeManually(m)
  PROVE  Inv'
<1>1. m \in Proc /\ m \in User
  BY ProcessAssumption DEF Proc
<1>2. TypeOK /\ PoolInv /\ Places /\ Unmerged /\ Settled /\ StaleIsFollowed /\ OutdatedIsDue
  BY DEF Inv
<1>3. /\ pc[m] = "editing" /\ git' = git /\ queued' = queued /\ seen' = seen
      /\ missed' = missed /\ faults' = faults
      /\ row' = [row EXCEPT !.merged = TRUE, !.status = "merged"]
  BY DEF MergeManually, Fault, poolVars
<1>4. DOMAIN pc' = Proc /\ pc'[m] = "leaving" /\ \A q \in Proc : q # m => pc'[q] = pc[q]
  BY <1>1, <1>2, Moved DEF MergeManually
<1>5. PoolInv' /\ visit' = visit
  BY <1>2, PoolStep DEF MergeManually, poolVars
<1>6. \A q \in Worker \cup Merger \cup Pusher : q \in Proc
  BY DEF Proc
<1>7. \A v \in User : v # m =>
        /\ ~(v \in Worker /\ pc[v] \in Held)
        /\ ~(v \in Merger /\ pc[v] \in MergeHeld)
  BY <1>1, <1>2, <1>3, Alone DEF Places, Held, MergeHeld
<1>8. TypeOK'
  BY <1>1, <1>2, <1>3, <1>4, <1>5, <1>6, ProcessAssumption, BoundAssumption DEF TypeOK,
     PoolInv, Row, Copy, Status, NoCopy, Proc
<1>9. Places'
  BY <1>1, <1>2, <1>3, <1>4, <1>5, <1>6, ProcessAssumption DEF Places, Held, MergeHeld,
     PoolInv, PoolTypeOK, Outside, TypeOK
<1>10. Unmerged'
  BY <1>1, <1>2, <1>3, <1>4, <1>6, <1>7, ProcessAssumption DEF Held, MergeHeld, Unmerged,
     TypeOK, Row
<1>11. Settled'
  BY <1>1, <1>2, <1>3, <1>4, <1>6, ProcessAssumption DEF Settled, TypeOK, Copy
<1>12. StaleIsFollowed'
  BY <1>1, <1>2, <1>3, <1>4, <1>6, <1>7, ProcessAssumption DEF Held, MergeHeld,
     StaleIsFollowed, Coming, Judging, TypeOK, Copy, Proc
<1>13. OutdatedIsDue'
  BY <1>1, <1>2, <1>3, <1>4, <1>6, <1>7, ProcessAssumption DEF Held, MergeHeld,
     OutdatedIsDue, StaleIsFollowed, Outdated, Coming, Judging, TypeOK, Row, Copy, Proc
<1> QED
  BY <1>5, <1>8, <1>9, <1>10, <1>11, <1>12, <1>13 DEF Inv

LEMMA MergeLeaveKeeps ==
  ASSUME Inv, NEW m \in Merger, MergeLeave(m)
  PROVE  Inv'
<1>1. m \in Proc /\ m \in User
  BY ProcessAssumption DEF Proc
<1>2. TypeOK /\ PoolInv /\ Places /\ Unmerged /\ Settled /\ StaleIsFollowed /\ OutdatedIsDue
  BY DEF Inv
<1>3. /\ pc[m] = "leaving" /\ git' = git /\ row' = row /\ queued' = queued /\ seen' = seen
      /\ missed' = missed /\ faults' = faults
  BY DEF MergeLeave, Fault, poolVars
<1>4. DOMAIN pc' = Proc /\ pc'[m] = "idle" /\ \A q \in Proc : q # m => pc'[q] = pc[q]
  BY <1>1, <1>2, Moved DEF MergeLeave
<1>5. PoolInv' /\ visit' = [visit EXCEPT ![m] = Outside]
  BY <1>1, <1>2, PoolCheckOut DEF MergeLeave, CheckOut
<1>6. \A q \in Worker \cup Merger \cup Pusher : q \in Proc
  BY DEF Proc
<1>7. \A v \in User : v # m =>
        /\ ~(v \in Worker /\ pc[v] \in Held)
        /\ ~(v \in Merger /\ pc[v] \in MergeHeld)
  BY <1>1, <1>2, <1>3, Alone DEF Places, Held, MergeHeld
<1>8. TypeOK'
  BY <1>1, <1>2, <1>3, <1>4, <1>5, <1>6, ProcessAssumption, BoundAssumption DEF TypeOK,
     PoolInv, Row, Copy, Status, NoCopy, Proc
<1>9. Places'
  BY <1>1, <1>2, <1>3, <1>4, <1>5, <1>6, ProcessAssumption DEF Places, Held, MergeHeld,
     PoolInv, PoolTypeOK, Outside, TypeOK
<1>10. Unmerged'
  BY <1>1, <1>2, <1>3, <1>4, <1>6, <1>7, ProcessAssumption DEF Held, MergeHeld, Unmerged,
     TypeOK, Row
<1>11. Settled'
  BY <1>1, <1>2, <1>3, <1>4, <1>6, ProcessAssumption DEF Settled, TypeOK, Copy
<1>12. StaleIsFollowed'
  BY <1>1, <1>2, <1>3, <1>4, <1>6, <1>7, ProcessAssumption DEF Held, MergeHeld,
     StaleIsFollowed, Coming, Judging, TypeOK, Copy, Proc
<1>13. OutdatedIsDue'
  BY <1>1, <1>2, <1>3, <1>4, <1>6, <1>7, ProcessAssumption DEF Held, MergeHeld,
     OutdatedIsDue, StaleIsFollowed, Outdated, Coming, Judging, TypeOK, Row, Copy, Proc
<1> QED
  BY <1>5, <1>8, <1>9, <1>10, <1>11, <1>12, <1>13 DEF Inv

LEMMA BootReadKeeps ==
  ASSUME Inv, BootRead
  PROVE  Inv'
<1>1. Boot \in Proc
  BY ProcessAssumption DEF Proc
<1>2. TypeOK /\ PoolInv /\ Places /\ Unmerged /\ Settled /\ StaleIsFollowed /\ OutdatedIsDue
  BY DEF Inv
<1>3. /\ pc[Boot] = "start" /\ git' = git /\ row' = row /\ queued' = queued /\ seen' = seen
      /\ missed' = missed /\ faults' = faults
  BY DEF BootRead, Fault, poolVars
<1>4. /\ DOMAIN pc' = Proc
      /\ pc'[Boot] = (IF row.status = "checking" THEN "pushing" ELSE "idle")
      /\ \A q \in Proc : q # Boot => pc'[q] = pc[q]
  BY <1>1, <1>2, Moved DEF BootRead
<1>5. PoolInv' /\ visit' = visit
  BY <1>2, PoolStep DEF BootRead, poolVars
<1>6. \A q \in Worker \cup Merger \cup Pusher : q \in Proc
  BY DEF Proc
<1>8. TypeOK'
  BY <1>1, <1>2, <1>3, <1>4, <1>5, <1>6, ProcessAssumption, BoundAssumption DEF TypeOK,
     PoolInv, Row, Copy, Status, NoCopy, Proc
<1>9. Places'
  BY <1>1, <1>2, <1>3, <1>4, <1>5, <1>6, ProcessAssumption DEF Places, Held, MergeHeld,
     PoolInv, PoolTypeOK, Outside, TypeOK
<1>10. Unmerged'
  BY <1>1, <1>2, <1>3, <1>4, <1>6, ProcessAssumption DEF Unmerged, TypeOK, Row
<1>11. Settled'
  BY <1>1, <1>2, <1>3, <1>4, <1>6, ProcessAssumption DEF Settled, TypeOK, Copy
<1>12. StaleIsFollowed'
  BY <1>1, <1>2, <1>3, <1>4, <1>6, ProcessAssumption DEF StaleIsFollowed, Coming, Judging,
     TypeOK, Copy, Proc
<1>13. OutdatedIsDue'
  BY <1>1, <1>2, <1>3, <1>4, <1>6, ProcessAssumption DEF OutdatedIsDue, StaleIsFollowed,
     Outdated, Coming, Judging, TypeOK, Row, Copy, Proc
<1> QED
  BY <1>5, <1>8, <1>9, <1>10, <1>11, <1>12, <1>13 DEF Inv

LEMMA BootPushKeeps ==
  ASSUME Inv, BootPush
  PROVE  Inv'
<1>1. Boot \in Proc
  BY ProcessAssumption DEF Proc
<1>2. TypeOK /\ PoolInv /\ Places /\ Unmerged /\ Settled /\ StaleIsFollowed /\ OutdatedIsDue
  BY DEF Inv
<1>3. /\ pc[Boot] = "pushing" /\ queued' = TRUE /\ git' = git /\ row' = row /\ seen' = seen
      /\ missed' = missed /\ faults' = faults
  BY DEF BootPush, Fault, poolVars
<1>4. DOMAIN pc' = Proc /\ pc'[Boot] = "idle" /\ \A q \in Proc : q # Boot => pc'[q] = pc[q]
  BY <1>1, <1>2, Moved DEF BootPush
<1>5. PoolInv' /\ visit' = visit
  BY <1>2, PoolStep DEF BootPush, poolVars
<1>6. \A q \in Worker \cup Merger \cup Pusher : q \in Proc
  BY DEF Proc
<1>8. TypeOK'
  BY <1>1, <1>2, <1>3, <1>4, <1>5, <1>6, ProcessAssumption, BoundAssumption DEF TypeOK,
     PoolInv, Row, Copy, Status, NoCopy, Proc
<1>9. Places'
  BY <1>1, <1>2, <1>3, <1>4, <1>5, <1>6, ProcessAssumption DEF Places, Held, MergeHeld,
     PoolInv, PoolTypeOK, Outside, TypeOK
<1>10. Unmerged'
  BY <1>1, <1>2, <1>3, <1>4, <1>6, ProcessAssumption DEF Unmerged, TypeOK, Row
<1>11. Settled'
  BY <1>1, <1>2, <1>3, <1>4, <1>6, ProcessAssumption DEF Settled, TypeOK, Copy
<1>12. StaleIsFollowed'
  BY <1>1, <1>2, <1>3, <1>4, <1>6, ProcessAssumption DEF StaleIsFollowed, Coming, Judging,
     TypeOK, Copy, Proc
<1>13. OutdatedIsDue'
  BY <1>1, <1>2, <1>3, <1>4, <1>6, ProcessAssumption DEF OutdatedIsDue, StaleIsFollowed,
     Outdated, Coming, Judging, TypeOK, Row, Copy, Proc
<1> QED
  BY <1>5, <1>8, <1>9, <1>10, <1>11, <1>12, <1>13 DEF Inv

LEMMA BootFailsKeeps ==
  ASSUME Inv, BootFails
  PROVE  Inv'
<1>1. Boot \in Proc
  BY ProcessAssumption DEF Proc
<1>2. TypeOK /\ PoolInv /\ Places /\ Unmerged /\ Settled /\ StaleIsFollowed /\ OutdatedIsDue
  BY DEF Inv
<1>3. /\ missed' = TRUE /\ faults < MaxFaults /\ faults' = faults + 1
      /\ git' = git /\ row' = row /\ seen' = seen /\ queued' = queued
  BY DEF BootFails, Fault, poolVars
<1>4. DOMAIN pc' = Proc /\ pc'[Boot] = "idle" /\ \A q \in Proc : q # Boot => pc'[q] = pc[q]
  BY <1>1, <1>2, Moved DEF BootFails
<1>5. PoolInv' /\ visit' = visit
  BY <1>2, PoolStep DEF BootFails, poolVars
<1>6. \A q \in Worker \cup Merger \cup Pusher : q \in Proc
  BY DEF Proc
<1>8. TypeOK'
  BY <1>1, <1>2, <1>3, <1>4, <1>5, <1>6, ProcessAssumption, BoundAssumption DEF TypeOK,
     PoolInv, Row, Copy, Status, NoCopy, Proc
<1>9. Places'
  BY <1>1, <1>2, <1>3, <1>4, <1>5, <1>6, ProcessAssumption DEF Places, Held, MergeHeld,
     PoolInv, PoolTypeOK, Outside, TypeOK
<1>10. Unmerged'
  BY <1>1, <1>2, <1>3, <1>4, <1>6, ProcessAssumption DEF Unmerged, TypeOK, Row
<1>11. Settled'
  BY <1>1, <1>2, <1>3, <1>4, <1>6, ProcessAssumption DEF Settled, TypeOK, Copy
<1>12. StaleIsFollowed'
  BY <1>1, <1>2, <1>3, <1>4, <1>6, ProcessAssumption DEF StaleIsFollowed, Coming, Judging,
     TypeOK, Copy, Proc
<1>13. OutdatedIsDue'
  BY <1>1, <1>2, <1>3, <1>4, <1>6, ProcessAssumption DEF OutdatedIsDue, StaleIsFollowed,
     Outdated, Coming, Judging, TypeOK, Row, Copy, Proc
<1> QED
  BY <1>5, <1>8, <1>9, <1>10, <1>11, <1>12, <1>13 DEF Inv

LEMMA MergeEndKeeps ==
  ASSUME Inv, NEW m \in Merger, MergeEnd(m)
  PROVE  Inv'
<1>1. PICK p \in Pusher :
        pc[p] = "idle" /\ pc' = [pc EXCEPT ![m] = "leaving", ![p] = "updating"]
  BY DEF MergeEnd
<1>2. TypeOK /\ PoolInv /\ Places /\ Unmerged /\ Settled /\ StaleIsFollowed /\ OutdatedIsDue
  BY DEF Inv
<1>3. /\ pc[m] = "ending" /\ git' = git /\ row' = row /\ queued' = queued
      /\ seen' = seen /\ missed' = missed /\ faults' = faults
  BY DEF MergeEnd
<1>4. /\ DOMAIN pc' = Proc /\ pc'[m] = "leaving" /\ pc'[p] = "updating"
      /\ \A q \in Proc : (q # m /\ q # p) => pc'[q] = pc[q]
  BY <1>1, <1>2, ProcessAssumption DEF TypeOK, Proc
<1>5. PoolInv' /\ visit' = visit
  BY <1>2, PoolStep DEF MergeEnd, poolVars
<1>6. /\ \A q \in Worker \cup Merger \cup Pusher : q \in Proc
      /\ \A q \in Worker : q # m /\ q # p
      /\ \A q \in Merger : q # p
  BY ProcessAssumption DEF Proc
<1>7. TypeOK'
  BY <1>2, <1>3, <1>4, <1>5, <1>6, ProcessAssumption DEF TypeOK, PoolInv, Proc
<1>8. Places'
  BY <1>2, <1>3, <1>4, <1>5, <1>6 DEF Places, Held, MergeHeld
<1>9. Unmerged' /\ Settled'
  BY <1>2, <1>3, <1>4, <1>6 DEF Unmerged, Settled
<1>10. Coming'
  BY <1>4 DEF Coming
<1> QED
  BY <1>5, <1>7, <1>8, <1>9, <1>10 DEF Inv, StaleIsFollowed, OutdatedIsDue

LEMMA CrashKeeps ==
  ASSUME Inv, Crash
  PROVE  Inv'
<1>1. TypeOK /\ PoolInv
  BY DEF Inv
<1>2. /\ pc' = [p \in Proc |-> IF p = Boot THEN "start" ELSE "idle"]
      /\ visit' = [u \in User |-> Outside] /\ seen' = [w \in Worker |-> NoCopy]
      /\ git' = git /\ row' = row /\ queued' = queued
      /\ missed' = (missed \/ (row.status # "checking" /\ row.tested # git.change /\ ~queued))
      /\ faults < MaxFaults /\ faults' = faults + 1
  BY DEF Crash, Restart, Fault
<1>3. PoolInv'
  BY <1>1, PoolStep DEF Crash, PoolNext
<1>4. /\ \A w \in Worker : pc'[w] = "idle"
      /\ \A m \in Merger : pc'[m] = "idle"
      /\ \A p \in Pusher : pc'[p] = "idle"
      /\ pc'[Boot] = "start" /\ DOMAIN pc' = Proc
  BY <1>2, ProcessAssumption DEF Proc
<1>5. TypeOK'
  BY <1>1, <1>2, <1>3, <1>4, BoundAssumption DEF TypeOK, PoolInv, NoCopy, Copy
<1>6. Places' /\ Unmerged' /\ Settled' /\ StaleIsFollowed'
  BY <1>2, <1>4 DEF Places, Unmerged, Settled, StaleIsFollowed, Held, MergeHeld, Judging,
     Outside
<1>7. OutdatedIsDue'
  BY <1>2, <1>4 DEF OutdatedIsDue, Outdated, Coming
<1> QED
  BY <1>3, <1>5, <1>6, <1>7 DEF Inv

LEMMA Starts == Init => Inv
<1> SUFFICES ASSUME Init PROVE Inv
  OBVIOUS
<1>1. PoolInv
  BY PoolStarts DEF Init
<1>2. /\ \A w \in Worker : pc[w] = "idle"
      /\ \A m \in Merger : pc[m] = "idle"
      /\ \A p \in Pusher : pc[p] = "idle"
      /\ pc[Boot] = "start" /\ DOMAIN pc = Proc
  BY ProcessAssumption DEF Init, Proc
<1>3. TypeOK
  <2>1. 0 \in 0..MaxPushes /\ 0 \in 0..MaxFaults
    BY BoundAssumption
  <2>2. NoCopy \in Copy
    BY <2>1 DEF NoCopy, Copy
  <2>3. row \in Row /\ git \in [change : 0..MaxPushes, empty : BOOLEAN]
    BY <2>1 DEF Init, Row, Status
  <2> QED
    BY <1>1, <1>2, <2>1, <2>2, <2>3 DEF Init, TypeOK, PoolInv
<1>4. Places /\ Unmerged /\ Settled /\ StaleIsFollowed /\ OutdatedIsDue
  BY <1>2 DEF Init, PoolInit, Places, Unmerged, Settled, StaleIsFollowed, OutdatedIsDue,
              Outdated, Held, MergeHeld, Judging, Outside
<1> QED
  BY <1>1, <1>3, <1>4 DEF Inv

LEMMA StepKeeps == Inv /\ [Next]_vars => Inv'
<1> SUFFICES ASSUME Inv, [Next]_vars PROVE Inv'
  OBVIOUS
<1>1. CASE \E p \in Pusher : PushStep(p)
  BY <1>1, PushKeeps, SetCheckingKeeps, QueuePushKeeps, PushFailsKeeps DEF PushStep
<1>2. CASE \E w \in Worker : WorkerStep(w)
  BY <1>2, PopKeeps, TestCheckInKeeps, TestEnterKeeps, LoadKeeps, DetectKeeps, TestKeeps,
     WriteErrorKeeps, AskKeeps, WriteStatusKeeps, RowFailsKeeps, TestLeaveKeeps
     DEF WorkerStep
<1>3. CASE \E m \in Merger : MergeStep(m)
  BY <1>3, MergeCheckKeeps, MergeCheckInKeeps, MergeEnterKeeps, MergePushKeeps,
     MergeFailsKeeps, MergeHookKeeps, MergeEndKeeps, MergeLeaveKeeps, EditCheckInKeeps,
     MergeManuallyKeeps, UpdateHeadKeeps DEF MergeStep
<1>4. CASE BootRead \/ BootPush \/ BootFails \/ Crash
  BY <1>4, BootReadKeeps, BootPushKeeps, BootFailsKeeps, CrashKeeps
<1>5. CASE UNCHANGED vars
  <2>1. PoolInv'
    BY <1>5, PoolStep DEF vars, Inv
  <2>2. /\ git' = git /\ row' = row /\ queued' = queued /\ pc' = pc /\ visit' = visit
        /\ seen' = seen /\ missed' = missed /\ faults' = faults
    BY <1>5 DEF vars, poolVars
  <2>3. TypeOK'
    BY <2>1, <2>2 DEF Inv, TypeOK, PoolInv
  <2>4. Places' /\ Unmerged' /\ Settled'
    BY <2>2 DEF Inv, Places, Unmerged, Settled
  <2>5. StaleIsFollowed' /\ OutdatedIsDue'
    BY <2>2 DEF Inv, StaleIsFollowed, OutdatedIsDue, Outdated, Coming
  <2> QED
    BY <2>1, <2>3, <2>4, <2>5 DEF Inv
<1> QED
  BY <1>1, <1>2, <1>3, <1>4, <1>5 DEF Next

LEMMA InvHolds == Spec => []Inv
  BY Starts, StepKeeps, PTL DEF Spec

\* Type correctness of the conflict check.
THEOREM TypeCorrect == Spec => []TypeOK
<1>1. Inv => TypeOK
  BY DEF Inv
<1> QED
  BY <1>1, InvHolds, PTL

\* However many workers test and however many requests merge, one of them at a time has
\* the pull request (services/pull/check.go:334, merge.go:182).
THEOREM OneAtATime == Spec => []MutualExclusion
<1>1. Inv => MutualExclusion
  BY PoolExcludes DEF Inv
<1> QED
  BY <1>1, InvHolds, PTL

\* Whatever overtakes whatever, an open pull request whose status is not about the
\* branches as they are has a check on its way, or a fault was recorded.
THEOREM NoCheckForgotten == Spec => []OutdatedIsRechecked
<1>1. ASSUME Inv PROVE OutdatedIsRechecked
  <2>1. (missed \/ Coming \/ pc[Boot] = "start"
          \/ \E w \in Worker : pc[w] \in Judging /\ seen[w].tested = git.change)
        => (OnItsWay \/ missed)
    BY DEF Coming, Judging, OnItsWay
  <2> QED
    BY <1>1, <2>1 DEF Inv, OutdatedIsDue, Outdated, OutdatedIsRechecked
<1> QED
  BY <1>1, InvHolds, PTL

\* Nothing that began before a merge changes the row after it, not even the write of an
\* error, which has no condition (check.go:369): the pool keeps it from happening.
THEOREM MergeIsFinal == Spec => MergedIsFinal
<1>1. Inv /\ [Next]_vars => [row.merged => UNCHANGED row]_row
  <2> SUFFICES ASSUME Inv, [Next]_vars, row.merged, row' # row PROVE FALSE
    OBVIOUS
  <2>1. CASE \E p \in Pusher : PushStep(p)
    BY <2>1 DEF PushStep, Push, SetChecking, QueuePush, PushFails
  <2>2. CASE \E w \in Worker : WorkerStep(w)
    BY <2>2 DEF WorkerStep, Pop, TestCheckIn, TestEnter, Load, Detect, Test, WriteError, Ask,
                WriteStatus, RowFails, TestLeave, Inv, Unmerged
  <2>3. CASE \E m \in Merger : MergeStep(m)
    <3>1. row \in Row
      BY DEF Inv, TypeOK
    <3>2. [row EXCEPT !.merged = TRUE] = row
      BY <3>1 DEF Row
    <3> QED
      BY <2>3, <3>2 DEF MergeStep, MergeCheck, MergeCheckIn, MergeEnter, MergePush,
                        MergeFails, MergeHook, MergeEnd, MergeLeave, EditCheckIn,
                        MergeManually, UpdateHead
  <2>4. CASE BootRead \/ BootPush \/ BootFails \/ Crash \/ UNCHANGED vars
    BY <2>4 DEF BootRead, BootPush, BootFails, Crash, vars
  <2> QED
    BY <2>1, <2>2, <2>3, <2>4 DEF Next
<1> QED
  BY <1>1, InvHolds, PTL DEF Spec, MergedIsFinal
=============================================================================
