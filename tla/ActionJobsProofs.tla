-------------------------- MODULE ActionJobsProofs --------------------------
(***************************************************************************)
(* Theorems of ActionJobs for any jobs, runners, needs and number of       *)
(* tasks.  IInv is the inductive invariant of rows and handlers; Told,     *)
(* Undisturbed and Covered are inductive beside it, each for one property. *)
(***************************************************************************)
EXTENDS ActionJobs, FiniteSetTheorems, WellFoundedInduction, TLAPS

\* What the handlers and the cleaners hold while other transactions commit.
HandlersHold ==
  \A r \in Runners :
    /\ pc[r] = "claiming" => picked[r] \in Jobs
    /\ pc[r] \in {"working", "writing", "reported"} =>
         held[r] \in Tasks /\ task[held[r]] # Unused
    /\ pc[r] \in {"writing", "reported"} => result[r] \in Results

OpHolds ==
  /\ op.kind = "stop" => op.task \in Tasks /\ task[op.task] # Unused
  /\ op.kind \in {"cancel", "rerun"} => op.seen \in [Jobs -> Row]

\* The tasks that Cancel will end are tasks.
CancelHolds == op.kind = "cancel" =>
  \A j \in Jobs : op.seen[j].status \notin Done /\ op.seen[j].task # 0 =>
    task[op.seen[j].task] # Unused

IInv == /\ TypeOK /\ HandlersHold /\ OpHolds /\ CancelHolds
        /\ UnclaimedHasNoTask /\ RunningHasLiveTask

\* A job changes its task only from none or to none.
OneClaim == \A j \in Jobs : job'[j].task # job[j].task => job[j].task = 0 \/ job'[j].task = 0

LEMMA ResolveReleases ==
  ASSUME NEW s \in [Jobs -> Status], NEW j \in Jobs
  PROVE  /\ Resolve(s)[j] \in {s[j], "waiting", "skipped"}
         /\ Resolve(s)[j] # s[j] => s[j] = "blocked"
  BY DEF Resolve, Release

LEMMA ResolveType ==
  ASSUME NEW s \in [Jobs -> Status] PROVE Resolve(s) \in [Jobs -> Status]
  BY DEF Resolve, Release, Status, Done

-----------------------------------------------------------------------------
(* The passes of Resolve.                                                  *)

\* Induction over sets: a set that holds 0 and the successor of each member is Nat.
LEMMA NatSetInduction ==
  ASSUME NEW T, 0 \in T, \A n \in Nat : n \in T => n + 1 \in T
  PROVE  Nat \subseteq T
  <1> DEFINE C == Nat \ T
  <1>1. SUFFICES ASSUME C # {} PROVE FALSE
    OBVIOUS
  <1>2. PICK x \in C : \A y \in C : ~(<<y, x>> \in OpToRel(<, Nat))
    <2>1. C \subseteq Nat
      OBVIOUS
    <2> QED
      BY <1>1, <2>1, NatLessThanWellFounded, WFMin
  <1>3. x \in Nat /\ x # 0
    BY <1>2
  <1>4. x - 1 \in Nat /\ x - 1 + 1 = x /\ x - 1 < x
    BY <1>3
  <1>5. x - 1 \notin C
    BY <1>2, <1>3, <1>4 DEF OpToRel
  <1> QED
    BY <1>2, <1>3, <1>4, <1>5

\* What the first n passes of Resolve found.
Passes(s) == CHOOSE f : f = [n \in Nat |-> IF n = 0 THEN {} ELSE SkippedAfter(s, f[n - 1])]

LEMMA ByPasses == ASSUME NEW s PROVE SkippedByResolve(s) = Passes(s)[Cardinality(Jobs)]
  BY DEF SkippedByResolve, Passes

\* A sequence of passes: the first has found nothing, each goes on from the one before.
PassesUpTo(s, g, n) ==
  /\ g \in [0..n -> SUBSET Jobs] /\ g[0] = {}
  /\ \A i \in 1..n : g[i] = SkippedAfter(s, g[i - 1])

LEMMA PassesUpToExist == ASSUME NEW s PROVE \A n \in Nat : \E g : PassesUpTo(s, g, n)
  <1> DEFINE T == {n \in Nat : \E g : PassesUpTo(s, g, n)}
  <1>1. 0 \in T
    <2>1. PassesUpTo(s, [i \in 0..0 |-> {}], 0)
      BY DEF PassesUpTo
    <2> QED
      BY <2>1
  <1>2. ASSUME NEW n \in Nat, n \in T PROVE n + 1 \in T
    <2>1. PICK g : PassesUpTo(s, g, n)
      BY <1>2
    <2> DEFINE h == [i \in 0..(n + 1) |-> IF i = n + 1 THEN SkippedAfter(s, g[n]) ELSE g[i]]
    <2>2. SkippedAfter(s, g[n]) \in SUBSET Jobs
      BY DEF SkippedAfter
    <2>3. h \in [0..(n + 1) -> SUBSET Jobs] /\ h[0] = {}
      BY <1>2, <2>1, <2>2 DEF PassesUpTo
    <2>4. ASSUME NEW i \in 1..(n + 1) PROVE h[i] = SkippedAfter(s, h[i - 1])
      <3>1. i - 1 \in 0..n /\ i - 1 # n + 1 /\ h[i - 1] = g[i - 1]
        OBVIOUS
      <3>2. CASE i = n + 1
        BY <3>1, <3>2
      <3>3. CASE i # n + 1
        <4>1. i \in 1..n /\ h[i] = g[i]
          BY <3>3
        <4> QED
          BY <2>1, <3>1, <4>1 DEF PassesUpTo
      <3> QED
        BY <3>2, <3>3
    <2>5. PassesUpTo(s, h, n + 1)
      BY <2>3, <2>4 DEF PassesUpTo
    <2> QED
      BY <1>2, <2>5
  <1> HIDE DEF T
  <1>3. Nat \subseteq T
    BY <1>1, <1>2, NatSetInduction
  <1> QED
    BY <1>3 DEF T

LEMMA PassesUpToAgree ==
  ASSUME NEW s, NEW m \in Nat, NEW n \in Nat, NEW g, NEW h, PassesUpTo(s, g, m), PassesUpTo(s, h, n)
  PROVE  \A i \in 0..m : i <= n => g[i] = h[i]
  <1> DEFINE T == {i \in Nat : i <= m /\ i <= n => g[i] = h[i]}
  <1>1. 0 \in T
    BY DEF PassesUpTo
  <1>2. ASSUME NEW i \in Nat, i \in T PROVE i + 1 \in T
    <2>1. SUFFICES ASSUME i + 1 <= m, i + 1 <= n PROVE g[i + 1] = h[i + 1]
      OBVIOUS
    <2>2. g[i] = h[i] /\ i + 1 - 1 = i /\ i + 1 \in 1..m /\ i + 1 \in 1..n
      BY <1>2, <2>1
    <2> QED
      BY <2>2 DEF PassesUpTo
  <1> HIDE DEF T
  <1>3. Nat \subseteq T
    BY <1>1, <1>2, NatSetInduction
  <1> QED
    BY <1>3 DEF T

LEMMA PassesDef ==
  ASSUME NEW s
  PROVE  /\ Passes(s) \in [Nat -> SUBSET Jobs] /\ Passes(s)[0] = {}
         /\ \A n \in Nat : Passes(s)[n + 1] = SkippedAfter(s, Passes(s)[n])
  <1> DEFINE G(n) == CHOOSE g : PassesUpTo(s, g, n)
  <1> DEFINE f == [n \in Nat |-> G(n)[n]]
  <1>1. \A n \in Nat : PassesUpTo(s, G(n), n)
    BY PassesUpToExist
  <1>2. f[0] = {}
    BY <1>1 DEF PassesUpTo
  <1>3. ASSUME NEW n \in Nat \ {0} PROVE f[n] = SkippedAfter(s, f[n - 1])
    <2>1. n - 1 \in Nat /\ n - 1 \in 0..(n - 1) /\ n - 1 <= n /\ n \in 1..n
      OBVIOUS
    <2> HIDE DEF G
    <2>2. PassesUpTo(s, G(n), n) /\ PassesUpTo(s, G(n - 1), n - 1)
      BY <1>1, <2>1
    <2>3. G(n - 1)[n - 1] = G(n)[n - 1]
      BY <2>1, <2>2, PassesUpToAgree
    <2>4. G(n)[n] = SkippedAfter(s, G(n)[n - 1])
      BY <2>1, <2>2 DEF PassesUpTo
    <2> QED
      BY <2>1, <2>3, <2>4
  <1> HIDE DEF f
  <1>4. f = [n \in Nat |-> IF n = 0 THEN {} ELSE SkippedAfter(s, f[n - 1])]
    <2>1. f = [n \in Nat |-> f[n]]
      BY DEF f
    <2> QED
      BY <1>2, <1>3, <2>1
  <1>5. Passes(s) = [n \in Nat |-> IF n = 0 THEN {} ELSE SkippedAfter(s, Passes(s)[n - 1])]
    BY <1>4 DEF Passes
  <1>6. \A X : SkippedAfter(s, X) \in SUBSET Jobs
    BY DEF SkippedAfter
  <1>7. \A n \in Nat : n + 1 \in Nat /\ n + 1 # 0 /\ n + 1 - 1 = n
    OBVIOUS
  <1> HIDE DEF Passes
  <1> DEFINE p == Passes(s)
  <1>8. p = [n \in Nat |-> IF n = 0 THEN {} ELSE SkippedAfter(s, p[n - 1])]
    BY <1>5
  <1> HIDE DEF p
  <1>9. p \in [Nat -> SUBSET Jobs]
    BY <1>6, <1>8
  <1>10. p[0] = {} /\ \A n \in Nat : p[n + 1] = SkippedAfter(s, p[n])
    <2>1. \A m \in Nat : p[m] = IF m = 0 THEN {} ELSE SkippedAfter(s, p[m - 1])
      BY <1>8
    <2>2. ASSUME NEW n \in Nat PROVE p[n + 1] = SkippedAfter(s, p[n])
      <3>1. p[n + 1] = SkippedAfter(s, p[n + 1 - 1])
        BY <1>7, <2>1
      <3> QED
        BY <1>7, <3>1
    <2> QED
      BY <2>1, <2>2
  <1> QED
    BY <1>9, <1>10 DEF p

LEMMA SkipsMore ==
  ASSUME NEW s, NEW X, NEW Y, X \subseteq Y PROVE SkippedAfter(s, X) \subseteq SkippedAfter(s, Y)
  BY DEF SkippedAfter

LEMMA PassesGrow == ASSUME NEW s PROVE \A n \in Nat : Passes(s)[n] \subseteq Passes(s)[n + 1]
  <1> DEFINE T == {n \in Nat : Passes(s)[n] \subseteq Passes(s)[n + 1]}
  <1>1. 0 \in T
    BY PassesDef
  <1>2. ASSUME NEW n \in Nat, n \in T PROVE n + 1 \in T
    <2>1. Passes(s)[n] \subseteq Passes(s)[n + 1] /\ n + 1 \in Nat
      BY <1>2
    <2>2. /\ Passes(s)[n + 1] = SkippedAfter(s, Passes(s)[n])
          /\ Passes(s)[n + 1 + 1] = SkippedAfter(s, Passes(s)[n + 1])
      BY <2>1, PassesDef
    <2>3. SkippedAfter(s, Passes(s)[n]) \subseteq SkippedAfter(s, Passes(s)[n + 1])
      BY <2>1, SkipsMore
    <2> QED
      BY <2>1, <2>2, <2>3
  <1> HIDE DEF T
  <1>3. Nat \subseteq T
    BY <1>1, <1>2, NatSetInduction
  <1> QED
    BY <1>3 DEF T

\* As many passes as there are jobs: one more skips no other job.
LEMMA PassesEnd ==
  ASSUME NEW s, IsFiniteSet(Jobs)
  PROVE  SkippedByResolve(s) = SkippedAfter(s, SkippedByResolve(s))
  <1> DEFINE p == Passes(s)  N == Cardinality(Jobs)
  <1>1. N \in Nat
    BY FS_CardinalityType
  <1>2. p \in [Nat -> SUBSET Jobs] /\ p[0] = {} /\ \A n \in Nat : p[n + 1] = SkippedAfter(s, p[n])
    BY PassesDef
  <1>3. \A n \in Nat : p[n] \subseteq p[n + 1]
    BY PassesGrow
  <1> HIDE DEF p
  <1>4. ASSUME NEW n \in Nat, n <= N, p[n] = p[n + 1] PROVE p[N] = p[N + 1]
    <2> DEFINE T == {k \in Nat : p[n + k] = p[n + k + 1]}
    <2>1. 0 \in T
      BY <1>4
    <2>2. ASSUME NEW k \in Nat, k \in T PROVE k + 1 \in T
      <3>1. p[n + k] = p[n + k + 1] /\ n + k \in Nat /\ n + k + 1 \in Nat /\ n + (k + 1) = n + k + 1
        BY <2>2
      <3>2. p[n + k + 1] = p[n + k + 1 + 1]
        BY <1>2, <3>1
      <3> QED
        BY <3>1, <3>2
    <2> HIDE DEF T
    <2>3. N - n \in T
      <3>1. N - n \in Nat
        BY <1>1, <1>4
      <3> QED
        BY <2>1, <2>2, <3>1, NatSetInduction
    <2>4. n + (N - n) = N
      BY <1>1
    <2> QED
      BY <2>3, <2>4 DEF T
  <1>5. ASSUME \A n \in 0..N : p[n] # p[n + 1] PROVE FALSE
    <2> DEFINE T == {n \in Nat : n <= N + 1 => Cardinality(p[n]) >= n}
    <2>1. \A n \in Nat : IsFiniteSet(p[n]) /\ Cardinality(p[n]) \in Nat /\ Cardinality(p[n]) <= N
      BY <1>2, FS_Subset, FS_CardinalityType
    <2>2. 0 \in T
      BY <2>1
    <2>3. ASSUME NEW n \in Nat, n \in T PROVE n + 1 \in T
      <3>1. SUFFICES ASSUME n + 1 <= N + 1 PROVE Cardinality(p[n + 1]) >= n + 1
        OBVIOUS
      <3>2. n \in 0..N /\ n <= N + 1 /\ n + 1 \in Nat
        BY <1>1, <3>1
      <3>3. p[n] \subseteq p[n + 1] /\ p[n] # p[n + 1] /\ Cardinality(p[n]) >= n
        BY <1>3, <1>5, <2>3, <3>2
      <3>4. IsFiniteSet(p[n + 1]) /\ Cardinality(p[n]) \in Nat /\ Cardinality(p[n + 1]) \in Nat
        BY <2>1, <3>2
      <3>5. Cardinality(p[n]) < Cardinality(p[n + 1])
        BY <3>3, <3>4, FS_Subset
      <3> QED
        BY <3>3, <3>4, <3>5
    <2> HIDE DEF T
    <2>4. N + 1 \in T /\ N + 1 \in Nat
      BY <1>1, <2>2, <2>3, NatSetInduction
    <2> QED
      BY <1>1, <2>1, <2>4 DEF T
  <1>6. PICK n \in 0..N : p[n] = p[n + 1]
    BY <1>5
  <1>7. p[N] = p[N + 1]
    BY <1>1, <1>4, <1>6
  <1> QED
    BY <1>1, <1>2, <1>7, ByPasses DEF p

\* The passes skip no job without cause: any set that is closed under skipping holds
\* what they skip, so a circle of needs stays blocked (job_emitter.go:108-121).
THEOREM SkipsNoMore ==
  \A s, X : X \subseteq Jobs /\ SkippedAfter(s, X) \subseteq X => SkippedByResolve(s) \subseteq X
  <1>1. SUFFICES ASSUME NEW s, NEW X, SkippedAfter(s, X) \subseteq X
                 PROVE  SkippedByResolve(s) \subseteq X
    OBVIOUS
  <1> DEFINE T == {n \in Nat : Passes(s)[n] \subseteq X}
  <1>2. 0 \in T
    BY PassesDef
  <1>3. ASSUME NEW n \in Nat, n \in T PROVE n + 1 \in T
    <2>1. Passes(s)[n] \subseteq X /\ Passes(s)[n + 1] = SkippedAfter(s, Passes(s)[n])
      BY <1>3, PassesDef
    <2>2. SkippedAfter(s, Passes(s)[n]) \subseteq SkippedAfter(s, X)
      BY <2>1, SkipsMore
    <2> QED
      BY <1>1, <2>1, <2>2
  <1> HIDE DEF T
  <1>4. Cardinality(Jobs) \in T
    BY <1>2, <1>3, NatSetInduction, JobsAssumption, FS_CardinalityType
  <1> QED
    BY <1>4, ByPasses DEF T

\* Resolve leaves no job blocked whose needs are done, those it skips included.
THEOREM ResolveComplete ==
  \A s \in [Jobs -> Status] : Ready(Resolve(s)) = {}
  <1>1. SUFFICES ASSUME NEW s \in [Jobs -> Status], NEW j \in Ready(Resolve(s)) PROVE FALSE
    OBVIOUS
  <1> DEFINE X == SkippedByResolve(s)
             Y == {k \in Jobs : s[k] = "blocked" /\ \A n \in Needs[k] : s[n] \in Done \/ n \in X}
  <1>2. X = SkippedAfter(s, X)
    BY PassesEnd, JobsAssumption
  <1> HIDE DEF X
  <1>3. Resolve(s) = [k \in Jobs |-> IF k \in Y THEN Release(s, k) ELSE s[k]]
    BY DEF Resolve, X
  <1>4. /\ j \in Jobs /\ Resolve(s)[j] = "blocked"
        /\ \A n \in Needs[j] : n \in Jobs /\ Resolve(s)[n] \in Done
    BY <1>1, NeedsAssumption DEF Ready, NeedsDone
  <1>5. j \notin Y /\ s[j] = "blocked"
    BY <1>3, <1>4 DEF Release
  <1>6. ASSUME NEW n \in Needs[j] PROVE s[n] \in Done \/ n \in X
    <2>1. CASE n \in Y
      <3>1. Release(s, n) = "skipped"
        BY <1>3, <1>4, <2>1 DEF Release, Done
      <3> QED
        BY <1>2, <2>1, <3>1 DEF SkippedAfter
    <2>2. CASE n \notin Y
      BY <1>3, <1>4, <2>2
    <2> QED
      BY <2>1, <2>2
  <1> QED
    BY <1>4, <1>5, <1>6
-----------------------------------------------------------------------------
(* Rows, tasks and what the handlers hold.                                 *)

LEMMA TypeInit == Init => TypeOK
  <1>1. SUFFICES ASSUME Init PROVE TypeOK
    OBVIOUS
  <1>2. job \in [Jobs -> Row] /\ emitter \in EmitterState
    BY <1>1, BoundAssumption DEF Init, Row, Status, Statuses, EmitterState
  <1>3. op \in Op
    BY <1>1, BoundAssumption DEF Init, NoOp, Op
  <1>4. task \in [Tasks -> TaskRow] /\ result \in [Runners -> Results \cup {"none"}]
    BY <1>1 DEF Init, TaskRow
  <1>5. silent \subseteq Jobs /\ held \in [Runners -> 0..MaxTasks] /\ reruns \in 0..MaxReruns
    BY <1>1, BoundAssumption DEF Init, Ready
  <1>6. queued \in BOOLEAN /\ approved \in BOOLEAN /\ disturbed \in BOOLEAN
    BY <1>1, Zenon DEF Init
  <1>7. /\ pc \in [Runners -> {"idle", "fetching", "empty", "claiming", "working", "writing", "reported"}]
        /\ picked \in [Runners -> Jobs \cup {0}]
        /\ current \subseteq Runners /\ fresh \subseteq Runners /\ raced \subseteq Runners
    BY <1>1 DEF Init
  <1> QED
    BY <1>2, <1>3, <1>4, <1>5, <1>6, <1>7 DEF TypeOK

LEMMA InvInit == Init => IInv
  BY TypeInit DEF Init, IInv, HandlersHold, OpHolds, CancelHolds, UnclaimedHasNoTask,
                  RunningHasLiveTask, NoOp

\* A look at a task changes what Cancel knows of one job, to an ended job at most.
LEMMA CancelLookSeen ==
  ASSUME IInv, CancelLook
  PROVE  /\ op'.seen \in [Jobs -> Row] /\ op'.todo \in SUBSET Jobs
         /\ op'.kind = "cancel" /\ op'.first = op.first /\ op'.task = op.task
         /\ op' = [kind |-> op'.kind, todo |-> op'.todo, seen |-> op'.seen,
                   first |-> op'.first, task |-> op'.task]
         /\ \A j \in Jobs : /\ op'.seen[j].task = op.seen[j].task
                            /\ op'.seen[j].status \in {op.seen[j].status} \cup Done
  <1>1. op \in Op /\ op.kind = "cancel" /\ op.seen \in [Jobs -> Row] /\ Done \subseteq Status
    BY DEF CancelLook, IInv, TypeOK, OpHolds, Status
  <1>2. PICK j \in op.todo : \E s \in {op.seen[j].status} \cup Done :
          op' = [op EXCEPT !.todo = @ \ {j}, !.seen[j].status = s]
    <2>1. PICK j \in op.todo :
            op' = [op EXCEPT !.todo = @ \ {j}, !.seen[j].status =
                     IF task[op.seen[j].task].status \in Done
                     THEN task[op.seen[j].task].status ELSE @]
      BY Zenon DEF CancelLook
    <2>2. CASE task[op.seen[j].task].status \in Done
      BY <2>1, <2>2
    <2>3. CASE task[op.seen[j].task].status \notin Done
      <3>1. op' = [op EXCEPT !.todo = @ \ {j}, !.seen[j].status = op.seen[j].status]
        BY <1>1, <2>1, <2>3 DEF Op
      <3> QED
        BY <3>1
    <2> QED
      BY <2>2, <2>3
  <1>0. PICK s \in {op.seen[j].status} \cup Done :
          op' = [op EXCEPT !.todo = @ \ {j}, !.seen[j].status = s]
    BY <1>2
  <1>3. j \in Jobs /\ op.seen[j] \in Row /\ s \in Status
    BY <1>1, <1>0 DEF Op, Row
  <1>4. /\ op'.seen = [op.seen EXCEPT ![j].status = s] /\ op'.todo = op.todo \ {j}
        /\ op'.kind = op.kind /\ op'.first = op.first /\ op'.task = op.task
        /\ op' = [kind |-> op'.kind, todo |-> op'.todo, seen |-> op'.seen,
                  first |-> op'.first, task |-> op'.task]
    BY <1>1, <1>0 DEF Op
  <1>5. op'.seen \in [Jobs -> Row]
    BY <1>1, <1>3, <1>4 DEF Row
  <1>6. \A k \in Jobs : /\ op'.seen[k].task = op.seen[k].task
                        /\ op'.seen[k].status \in {op.seen[k].status} \cup Done
    BY <1>1, <1>0, <1>3, <1>4 DEF Row
  <1> QED
    BY <1>1, <1>4, <1>5, <1>6 DEF Op

LEMMA TypeStep == IInv /\ [Next]_vars => TypeOK'
  <1>1. SUFFICES ASSUME IInv, [Next]_vars PROVE TypeOK'
    OBVIOUS
  <1>2. /\ job \in [Jobs -> Row] /\ task \in [Tasks -> TaskRow]
        /\ held \in [Runners -> 0..MaxTasks] /\ emitter \in EmitterState /\ op \in Op
        /\ Results \subseteq Done /\ MaxTasks \in Nat /\ Tasks \subseteq 0..MaxTasks /\ 0 \in 0..MaxTasks
    BY <1>1, ResultsAssumption, BoundAssumption DEF IInv, TypeOK, Tasks
  <1> USE NeedsAssumption, CanRunAssumption, ResultsAssumption, BoundAssumption DEF rows, versions, runner, history
  <1>3. ASSUME NEW r \in Runners, FetchTask(r) PROVE TypeOK'
    BY <1>1, <1>3 DEF IInv, TypeOK, Tasks, FetchTask
  <1>4. ASSUME NEW r \in Runners, PickJob(r) PROVE TypeOK'
    BY <1>1, <1>4 DEF IInv, TypeOK, Tasks, PickJob, Candidates
  <1>5. ASSUME NEW r \in Runners, NothingWaits(r) PROVE TypeOK'
    BY <1>1, <1>5 DEF IInv, TypeOK, Tasks, NothingWaits
  <1>6. ASSUME NEW r \in Runners, AnswerNothing(r) PROVE TypeOK'
    BY <1>1, <1>6 DEF IInv, TypeOK, Tasks, AnswerNothing, NothingToDo
  <1>7. ASSUME NEW r \in Runners, ClaimJob(r) PROVE TypeOK'
    <2>1. picked[r] \in Jobs
      BY <1>1, <1>7 DEF IInv, TypeOK, Tasks, ClaimJob, HandlersHold
    <2>2. job' \in [Jobs -> Row]
      BY <1>7, <1>2, <2>1 DEF ClaimJob, Row, Status, Done
    <2>3. task' \in [Tasks -> TaskRow]
      BY <1>7, <1>2, <2>1 DEF ClaimJob, TaskRow
    <2>4. held' \in [Runners -> 0..MaxTasks]
      BY <1>7, <1>2 DEF ClaimJob
    <2> QED
      BY <1>1, <1>7, <2>2, <2>3, <2>4 DEF IInv, TypeOK, Tasks, ClaimJob
  <1>8. ASSUME NEW r \in Runners, LoseJob(r) PROVE TypeOK'
    BY <1>1, <1>8 DEF IInv, TypeOK, Tasks, LoseJob, NothingToDo
  <1>9. ASSUME NEW r \in Runners, ClaimFails(r) PROVE TypeOK'
    BY <1>1, <1>9 DEF IInv, TypeOK, Tasks, ClaimFails
  <1>10. ASSUME NEW r \in Runners, Report(r) PROVE TypeOK'
    <2>1. result' \in [Runners -> Results \cup {"none"}]
      BY <1>1, <1>10 DEF IInv, TypeOK, Tasks, Report
    <2> QED
      BY <1>1, <1>10, <2>1 DEF IInv, TypeOK, Tasks, Report
  <1>11. ASSUME NEW r \in Runners, WriteResult(r) PROVE TypeOK'
    <2>1. held[r] \in Tasks /\ task[held[r]] # Unused /\ result[r] \in Results
      BY <1>1, <1>11 DEF IInv, TypeOK, Tasks, WriteResult, EndTask, HandlersHold
    <2>2. job' \in [Jobs -> Row]
      BY <1>11, <1>2, <2>1 DEF WriteResult, EndTask, Row, TaskRow, Status
    <2>3. task' \in [Tasks -> TaskRow]
      BY <1>11, <1>2, <2>1 DEF WriteResult, EndTask, TaskRow, Unused
    <2> QED
      BY <1>1, <1>11, <2>2, <2>3 DEF IInv, TypeOK, Tasks, WriteResult, EndTask
  <1>12. ASSUME NEW r \in Runners, ReportFails(r) PROVE TypeOK'
    BY <1>1, <1>12 DEF IInv, TypeOK, Tasks, ReportFails
  <1>13. ASSUME NEW r \in Runners, Emit(r) PROVE TypeOK'
    BY <1>1, <1>13 DEF IInv, TypeOK, Tasks, Emit, Answered
  <1>14. ASSUME NEW r \in Runners, EmitFails(r) PROVE TypeOK'
    BY <1>1, <1>14 DEF IInv, TypeOK, Tasks, EmitFails, Answered, Ready
  <1>15. ASSUME NEW r \in Runners, RunnerDies(r) PROVE TypeOK'
    BY <1>1, <1>15 DEF IInv, TypeOK, Tasks, RunnerDies, Answered, Ready
  <1>16. ASSUME EmitterPop PROVE TypeOK'
    <2>1. emitter' \in EmitterState
      BY <1>16, <1>2 DEF EmitterDone, EmitterState, Status, EmitterPop
    <2> QED
      BY <1>1, <1>16, <2>1 DEF IInv, TypeOK, Tasks, EmitterPop
  <1>17. ASSUME EmitterRead PROVE TypeOK'
    <2>1. emitter' \in EmitterState
      BY <1>17, <1>2 DEF EmitterRead, EmitterState, Statuses, Row
    <2> QED
      BY <1>1, <1>17, <2>1 DEF IInv, TypeOK, Tasks, EmitterRead, Statuses, Row, EmitterState
  <1>18. ASSUME EmitterWrite PROVE TypeOK'
    <2>1. Resolve(emitter.seen) \in [Jobs -> Status]
      BY <1>18, <1>2, ResolveType DEF EmitterState
    <2>2. job' \in [Jobs -> Row]
      <3>1. PICK u : SetStatuses([j \in Jobs |-> IF j \in u THEN Resolve(emitter.seen)[j]
                                               ELSE job[j].status])
        BY <1>18 DEF EmitterWrite
      <3> QED
        BY <1>2, <2>1, <3>1 DEF SetStatuses, SetJobs, Row
    <2>3. emitter' \in EmitterState
      BY <1>18, <1>2 DEF EmitterWrite, EmitterDone, EmitterState, Status
    <2>4. current' \subseteq current /\ fresh' \subseteq fresh
      BY <1>18 DEF EmitterWrite, SetStatuses, SetJobs
    <2>5. silent' \subseteq Jobs
      BY <1>1, <1>18 DEF IInv, TypeOK, EmitterWrite, Missed
    <2> QED
      BY <1>1, <1>18, <2>2, <2>3, <2>4, <2>5 DEF IInv, TypeOK, Tasks, EmitterWrite, EmitterDone, SetStatuses, SetJobs
  <1>19. ASSUME EmitterFails PROVE TypeOK'
    <2>1. emitter' \in EmitterState
      BY <1>19, <1>2 DEF EmitterDone, EmitterState, Status, EmitterFails
    <2> QED
      BY <1>1, <1>19, <2>1 DEF IInv, TypeOK, Tasks, EmitterFails, EmitterDone
  <1>20. ASSUME NEW t \in Tasks, StopRead(t) PROVE TypeOK'
    <2>1. op' \in Op
      BY <1>20, <1>2 DEF NoOp, Op, StopRead
    <2> QED
      BY <1>1, <1>20, <2>1 DEF IInv, TypeOK, Tasks, StopRead, NoOp
  <1>21. ASSUME StopWrite PROVE TypeOK'
    <2>1. op.task \in Tasks /\ task[op.task] # Unused
      BY <1>1, <1>21 DEF IInv, TypeOK, Tasks, StopWrite, EndTask, NoOp, Quietly, Ready, OpHolds
    <2>2. job' \in [Jobs -> Row]
      BY <1>21, <1>2, <2>1 DEF StopWrite, EndTask, Row, TaskRow, Status, Done
    <2>3. task' \in [Tasks -> TaskRow]
      BY <1>21, <1>2, <2>1 DEF StopWrite, EndTask, TaskRow, Done
    <2>4. op' \in Op
      BY <1>21, <1>2 DEF StopWrite, NoOp, Op
    <2>5. silent' \subseteq Jobs
      BY <1>1, <1>21 DEF IInv, TypeOK, Tasks, StopWrite, EndTask, NoOp, Quietly, Ready
    <2> QED
      BY <1>1, <1>21, <2>2, <2>3, <2>4, <2>5 DEF IInv, TypeOK, Tasks, StopWrite, EndTask, NoOp, Quietly, Ready
  <1>22. ASSUME AbandonRead PROVE TypeOK'
    <2>1. op' \in Op
      BY <1>22, <1>2 DEF NoOp, Op, AbandonRead
    <2> QED
      BY <1>1, <1>22, <2>1 DEF IInv, TypeOK, Tasks, AbandonRead, NoOp
  <1>23. ASSUME AbandonWrite PROVE TypeOK'
    <2>1. PICK j \in op.todo : SetStatuses([Statuses EXCEPT ![j] = "cancelled"])
      BY <1>23 DEF AbandonWrite
    <2>2. [Statuses EXCEPT ![j] = "cancelled"] \in [Jobs -> Status]
      BY <1>23, <1>2 DEF Statuses, Row, Status, Done
    <2>3. job' \in [Jobs -> Row]
      BY <1>23, <1>2, <2>1, <2>2 DEF SetStatuses, SetJobs, Row
    <2>4. current' \subseteq current /\ fresh' \subseteq fresh
      BY <1>23 DEF AbandonWrite, SetStatuses, SetJobs
    <2>5. op' = NoOp \/ \E k \in op.todo : op' = [op EXCEPT !.todo = @ \ {k}]
      BY <1>23 DEF AbandonWrite
    <2>6. op' \in Op
      BY <1>23, <1>2, <2>5 DEF NoOp, Op
    <2>7. silent' \subseteq Jobs
      BY <1>1, <1>23 DEF IInv, TypeOK, Tasks, AbandonWrite, SetStatuses, SetJobs, NoOp, Statuses, Quietly, Ready
    <2> QED
      BY <1>1, <1>23, <2>3, <2>4, <2>6, <2>7 DEF IInv, TypeOK, Tasks, AbandonWrite, SetStatuses, SetJobs, NoOp, Statuses, Quietly, Ready
  <1>24. ASSUME CancelRead PROVE TypeOK'
    <2>1. op' \in Op
      BY <1>24, <1>2 DEF NoOp, Op, CancelRead
    <2> QED
      BY <1>1, <1>24, <2>1 DEF IInv, TypeOK, Tasks, CancelRead, NoOp
  <1>31. ASSUME CancelLook PROVE TypeOK'
    <2>1. op' \in Op
      BY <1>1, <1>31, CancelLookSeen DEF IInv, TypeOK, Op
    <2> QED
      BY <1>1, <1>31, <2>1 DEF IInv, TypeOK, Tasks, CancelLook
  <1>25. ASSUME CancelWrite PROVE TypeOK'
    <2>1. job' \in [Jobs -> Row]
      BY <1>25, <1>2 DEF CancelWrite, Row, Status, Done
    <2>0. \A t \in Claimed : t \in Tasks /\ task[t] # Unused
      BY <1>1, <1>25 DEF CancelWrite, Claimed, IInv, CancelHolds, Tasks
    <2>2. task' \in [Tasks -> TaskRow]
      BY <1>25, <1>2, <2>0 DEF CancelWrite, TaskRow, Done
    <2>3. op' \in Op
      BY <1>25, <1>2 DEF CancelWrite, NoOp, Op
    <2>4. silent' \subseteq Jobs
      BY <1>1, <1>25 DEF IInv, TypeOK, Tasks, CancelWrite, NoOp, Quietly, Ready
    <2> QED
      BY <1>1, <1>25, <2>1, <2>2, <2>3, <2>4 DEF IInv, TypeOK, Tasks, CancelWrite, NoOp, Quietly, Ready
  <1>26. ASSUME RerunRead PROVE TypeOK'
    <2>1. \A j : Dependents(j) \subseteq Jobs
      BY <1>26 DEF Dependents
    <2>2. PICK j \in Jobs \cup {0} : op' = [kind |-> "rerun", seen |-> job, first |-> j, task |-> 0, todo |-> IF j = 0 THEN Jobs ELSE Dependents(j)]
      BY <1>26 DEF RerunRead, NoOp
    <2>3. op' \in Op
      BY <1>26, <1>2, <2>1, <2>2 DEF Op
    <2> QED
      BY <1>1, <1>26, <2>3 DEF IInv, TypeOK, Tasks, RerunRead, NoOp
  <1>27. ASSUME RerunWrite PROVE TypeOK'
    <2>1. PICK j \in op.todo : RerunJob(j)
      BY <1>27 DEF RerunWrite
    <2>2. j \in Jobs
      BY <1>27, <1>2, <2>1 DEF Op
    <2>3. job' = job \/ \E s \in {"blocked", "waiting"} : job' = [job EXCEPT ![j] = [task |-> 0, status |-> s]]
      BY <1>27, <2>1 DEF RerunJob, SetJobs
    <2>4. \A s \in {"blocked", "waiting"} : [task |-> 0, status |-> s] \in Row
      BY <1>27, <1>2 DEF Row, Status
    <2>5. job' \in [Jobs -> Row]
      BY <1>27, <1>2, <2>2, <2>3, <2>4
    <2>6. current' \subseteq current /\ fresh' \subseteq fresh
      BY <1>27, <2>1 DEF RerunJob, SetJobs
    <2>7. op' = NoOp \/ op' = [op EXCEPT !.todo = @ \ {j}]
      BY <1>27, <2>1 DEF RerunJob
    <2>8. op' \in Op
      BY <1>27, <1>2, <2>7 DEF NoOp, Op
    <2>9. silent' \subseteq Jobs
      BY <1>1, <1>27, <2>1 DEF IInv, TypeOK, Tasks, RerunWrite, RerunJob, SetJobs, NoOp, Quietly, Ready, RerunJob, Quietly, Ready
    <2> QED
      BY <1>1, <1>27, <2>1, <2>5, <2>6, <2>8, <2>9 DEF IInv, TypeOK, Tasks, RerunWrite, RerunJob, SetJobs, NoOp, Quietly, Ready
  <1>28. ASSUME OpFails PROVE TypeOK'
    <2>1. op' \in Op
      BY <1>28, <1>2 DEF NoOp, Op, OpFails
    <2> QED
      BY <1>1, <1>28, <2>1 DEF IInv, TypeOK, Tasks, OpFails, NoOp
  <1>29. ASSUME Approve PROVE TypeOK'
    <2>1. job' \in [Jobs -> Row]
      BY <1>29, <1>2 DEF Approve, SetStatuses, SetJobs, Row, Status
    <2>2. current' \subseteq current /\ fresh' \subseteq fresh
      BY <1>29 DEF Approve, SetStatuses, SetJobs
    <2> QED
      BY <1>1, <1>29, <2>1, <2>2 DEF IInv, TypeOK, Tasks, Approve, SetStatuses, SetJobs
  <1>30. CASE UNCHANGED vars
    BY <1>1, <1>30 DEF IInv, TypeOK, Tasks, vars, Statuses
  <1> QED
    BY <1>1, <1>3, <1>4, <1>5, <1>6, <1>7, <1>8, <1>9, <1>10, <1>11, <1>12, <1>13, <1>14, <1>15, <1>16, <1>17, <1>18, <1>19, <1>20, <1>21, <1>22, <1>23, <1>24, <1>25, <1>26, <1>27, <1>28, <1>29, <1>30, <1>31 DEF Next, RunnerStep, EmitterStep, OpStep

LEMMA EndTaskKeeps ==
  ASSUME TypeOK, UnclaimedHasNoTask, RunningHasLiveTask,
         NEW t \in Tasks, task[t] # Unused, NEW s \in Done, EndTask(t, s)
  PROVE  UnclaimedHasNoTask' /\ RunningHasLiveTask'
  <1> DEFINE k == task[t].job
  <1>1. k \in Jobs /\ job \in [Jobs -> Row] /\ task \in [Tasks -> TaskRow] /\ Tasks = 1..MaxTasks
    BY DEF TypeOK, TaskRow, Tasks
  <1>2. job'[k].status = s /\ \A j \in Jobs \ {k} : job'[j] = job[j]
    BY <1>1 DEF EndTask, Row
  <1>3. \A u \in Tasks \ {t} : task'[u] = task[u]
    BY <1>1 DEF EndTask
  <1>4. s \notin {"waiting", "blocked", "running"}
    BY DEF Done
  <1>5. ASSUME NEW j \in Jobs, job'[j].status = "running"
        PROVE  job'[j].task # 0 /\ task'[job'[j].task] = [job |-> j, status |-> "running"]
    <2>1. j # k /\ job'[j] = job[j]
      BY <1>2, <1>4, <1>5
    <2>2. job[j].task # 0 /\ task[job[j].task] = [job |-> j, status |-> "running"]
      BY <2>1, <1>5 DEF RunningHasLiveTask
    <2>3. job[j].task \in Tasks \ {t}
      BY <2>1, <2>2, <1>1, BoundAssumption DEF Row
    <2> QED
      BY <1>3, <2>1, <2>2, <2>3
  <1>6. UnclaimedHasNoTask'
    BY <1>2, <1>4 DEF UnclaimedHasNoTask
  <1> QED
    BY <1>5, <1>6 DEF RunningHasLiveTask

LEMMA JobsMoveKeeps ==
  ASSUME UnclaimedHasNoTask, RunningHasLiveTask, UNCHANGED task,
         \A j \in Jobs : \/ job'[j] = job[j]
                         \/ /\ job'[j].status # "running"
                            /\ job'[j].status \in {"waiting", "blocked"} => job'[j].task = 0
  PROVE  UnclaimedHasNoTask' /\ RunningHasLiveTask'
  BY DEF UnclaimedHasNoTask, RunningHasLiveTask

LEMMA HoldStep == IInv /\ [Next]_vars => (HandlersHold /\ OpHolds)'
  <1>1. SUFFICES ASSUME IInv, [Next]_vars PROVE (HandlersHold /\ OpHolds)'
    OBVIOUS
  <1>2. /\ job \in [Jobs -> Row] /\ task \in [Tasks -> TaskRow]
        /\ held \in [Runners -> 0..MaxTasks] /\ emitter \in EmitterState /\ op \in Op
        /\ Results \subseteq Done /\ MaxTasks \in Nat /\ Tasks \subseteq 0..MaxTasks /\ 0 \in 0..MaxTasks
    BY <1>1, ResultsAssumption, BoundAssumption DEF IInv, TypeOK, Tasks
  <1> USE NeedsAssumption, CanRunAssumption, ResultsAssumption, BoundAssumption DEF rows, versions, runner, history
  <1>3. ASSUME NEW r \in Runners, FetchTask(r) PROVE (HandlersHold /\ OpHolds)'
    BY <1>1, <1>3 DEF IInv, TypeOK, HandlersHold, OpHolds, NoOp, Unused, FetchTask
  <1>4. ASSUME NEW r \in Runners, PickJob(r) PROVE (HandlersHold /\ OpHolds)'
    BY <1>1, <1>4 DEF IInv, TypeOK, HandlersHold, OpHolds, NoOp, Unused, PickJob, Candidates
  <1>5. ASSUME NEW r \in Runners, NothingWaits(r) PROVE (HandlersHold /\ OpHolds)'
    BY <1>1, <1>5 DEF IInv, TypeOK, HandlersHold, OpHolds, NoOp, Unused, NothingWaits
  <1>6. ASSUME NEW r \in Runners, AnswerNothing(r) PROVE (HandlersHold /\ OpHolds)'
    BY <1>1, <1>6 DEF IInv, TypeOK, HandlersHold, OpHolds, NoOp, Unused, AnswerNothing, NothingToDo
  <1>7. ASSUME NEW r \in Runners, ClaimJob(r) PROVE (HandlersHold /\ OpHolds)'
    BY <1>1, <1>7 DEF IInv, TypeOK, HandlersHold, OpHolds, NoOp, Unused, ClaimJob
  <1>8. ASSUME NEW r \in Runners, LoseJob(r) PROVE (HandlersHold /\ OpHolds)'
    BY <1>1, <1>8 DEF IInv, TypeOK, HandlersHold, OpHolds, NoOp, Unused, LoseJob, NothingToDo
  <1>9. ASSUME NEW r \in Runners, ClaimFails(r) PROVE (HandlersHold /\ OpHolds)'
    BY <1>1, <1>9 DEF IInv, TypeOK, HandlersHold, OpHolds, NoOp, Unused, ClaimFails
  <1>10. ASSUME NEW r \in Runners, Report(r) PROVE (HandlersHold /\ OpHolds)'
    BY <1>1, <1>10 DEF IInv, TypeOK, HandlersHold, OpHolds, NoOp, Unused, Report
  <1>11. ASSUME NEW r \in Runners, WriteResult(r) PROVE (HandlersHold /\ OpHolds)'
    <2>1. \A t \in Tasks : task[t] # Unused => task'[t] # Unused
      BY <1>11, <1>2, JobsAssumption DEF WriteResult, EndTask, TaskRow, Unused
    <2> QED
      BY <1>1, <1>11, <2>1 DEF IInv, TypeOK, HandlersHold, OpHolds, NoOp, Unused, WriteResult, EndTask, HandlersHold, OpHolds, WriteResult
  <1>12. ASSUME NEW r \in Runners, ReportFails(r) PROVE (HandlersHold /\ OpHolds)'
    BY <1>1, <1>12 DEF IInv, TypeOK, HandlersHold, OpHolds, NoOp, Unused, ReportFails
  <1>13. ASSUME NEW r \in Runners, Emit(r) PROVE (HandlersHold /\ OpHolds)'
    BY <1>1, <1>13 DEF IInv, TypeOK, HandlersHold, OpHolds, NoOp, Unused, Emit, Answered
  <1>14. ASSUME NEW r \in Runners, EmitFails(r) PROVE (HandlersHold /\ OpHolds)'
    BY <1>1, <1>14 DEF IInv, TypeOK, HandlersHold, OpHolds, NoOp, Unused, EmitFails, Answered, Ready
  <1>15. ASSUME NEW r \in Runners, RunnerDies(r) PROVE (HandlersHold /\ OpHolds)'
    BY <1>1, <1>15 DEF IInv, TypeOK, HandlersHold, OpHolds, NoOp, Unused, RunnerDies, Answered, Ready
  <1>16. ASSUME EmitterPop PROVE (HandlersHold /\ OpHolds)'
    BY <1>1, <1>16 DEF IInv, TypeOK, HandlersHold, OpHolds, NoOp, Unused, EmitterPop
  <1>17. ASSUME EmitterRead PROVE (HandlersHold /\ OpHolds)'
    BY <1>1, <1>17 DEF IInv, TypeOK, HandlersHold, OpHolds, NoOp, Unused, EmitterRead, Statuses, Row, EmitterState
  <1>18. ASSUME EmitterWrite PROVE (HandlersHold /\ OpHolds)'
    BY <1>1, <1>18 DEF IInv, TypeOK, HandlersHold, OpHolds, NoOp, Unused, EmitterWrite, EmitterDone, SetStatuses, SetJobs
  <1>19. ASSUME EmitterFails PROVE (HandlersHold /\ OpHolds)'
    BY <1>1, <1>19 DEF IInv, TypeOK, HandlersHold, OpHolds, NoOp, Unused, EmitterFails, EmitterDone
  <1>20. ASSUME NEW t \in Tasks, StopRead(t) PROVE (HandlersHold /\ OpHolds)'
    BY <1>1, <1>20 DEF IInv, TypeOK, HandlersHold, OpHolds, NoOp, Unused, StopRead, NoOp
  <1>21. ASSUME StopWrite PROVE (HandlersHold /\ OpHolds)'
    BY <1>1, <1>21 DEF IInv, TypeOK, HandlersHold, OpHolds, NoOp, Unused, StopWrite, EndTask, NoOp, Quietly, Ready
  <1>22. ASSUME AbandonRead PROVE (HandlersHold /\ OpHolds)'
    BY <1>1, <1>22 DEF IInv, TypeOK, HandlersHold, OpHolds, NoOp, Unused, AbandonRead, NoOp
  <1>23. ASSUME AbandonWrite PROVE (HandlersHold /\ OpHolds)'
    BY <1>1, <1>23 DEF IInv, TypeOK, HandlersHold, OpHolds, NoOp, Unused, AbandonWrite, SetStatuses, SetJobs, NoOp, Statuses, Quietly, Ready
  <1>24. ASSUME CancelRead PROVE (HandlersHold /\ OpHolds)'
    BY <1>1, <1>24 DEF IInv, TypeOK, HandlersHold, OpHolds, NoOp, Unused, CancelRead, NoOp
  <1>31. ASSUME CancelLook PROVE (HandlersHold /\ OpHolds)'
    <2>1. HandlersHold'
      BY <1>1, <1>31 DEF IInv, HandlersHold, CancelLook
    <2>2. OpHolds'
      BY <1>1, <1>31, CancelLookSeen DEF OpHolds
    <2> QED
      BY <2>1, <2>2
  <1>25. ASSUME CancelWrite PROVE (HandlersHold /\ OpHolds)'
    BY <1>1, <1>25 DEF IInv, TypeOK, HandlersHold, OpHolds, NoOp, Unused, CancelWrite, NoOp, Quietly, Ready
  <1>26. ASSUME RerunRead PROVE (HandlersHold /\ OpHolds)'
    BY <1>1, <1>26 DEF IInv, TypeOK, HandlersHold, OpHolds, NoOp, Unused, RerunRead, NoOp
  <1>27. ASSUME RerunWrite PROVE (HandlersHold /\ OpHolds)'
    BY <1>1, <1>27 DEF IInv, TypeOK, HandlersHold, OpHolds, NoOp, Unused, RerunWrite, RerunJob, SetJobs, NoOp, Quietly, Ready
  <1>28. ASSUME OpFails PROVE (HandlersHold /\ OpHolds)'
    BY <1>1, <1>28 DEF IInv, TypeOK, HandlersHold, OpHolds, NoOp, Unused, OpFails, NoOp
  <1>29. ASSUME Approve PROVE (HandlersHold /\ OpHolds)'
    BY <1>1, <1>29 DEF IInv, TypeOK, HandlersHold, OpHolds, NoOp, Unused, Approve, SetStatuses, SetJobs
  <1>30. CASE UNCHANGED vars
    BY <1>1, <1>30 DEF IInv, TypeOK, HandlersHold, OpHolds, NoOp, Unused, vars, Statuses
  <1> QED
    BY <1>1, <1>3, <1>4, <1>5, <1>6, <1>7, <1>8, <1>9, <1>10, <1>11, <1>12, <1>13, <1>14, <1>15, <1>16, <1>17, <1>18, <1>19, <1>20, <1>21, <1>22, <1>23, <1>24, <1>25, <1>26, <1>27, <1>28, <1>29, <1>30, <1>31 DEF Next, RunnerStep, EmitterStep, OpStep

LEMMA TaskStep == IInv /\ [Next]_vars => (UnclaimedHasNoTask /\ RunningHasLiveTask)'
  <1>1. SUFFICES ASSUME IInv, [Next]_vars PROVE (UnclaimedHasNoTask /\ RunningHasLiveTask)'
    OBVIOUS
  <1>2. /\ job \in [Jobs -> Row] /\ task \in [Tasks -> TaskRow]
        /\ held \in [Runners -> 0..MaxTasks] /\ emitter \in EmitterState /\ op \in Op
        /\ Results \subseteq Done /\ MaxTasks \in Nat /\ Tasks \subseteq 0..MaxTasks /\ 0 \in 0..MaxTasks
    BY <1>1, ResultsAssumption, BoundAssumption DEF IInv, TypeOK, Tasks
  <1> USE NeedsAssumption, CanRunAssumption, ResultsAssumption, BoundAssumption DEF rows, versions, runner, history
  <1>3. ASSUME NEW r \in Runners, FetchTask(r) PROVE (UnclaimedHasNoTask /\ RunningHasLiveTask)'
    BY <1>1, <1>3 DEF IInv, UnclaimedHasNoTask, RunningHasLiveTask, FetchTask
  <1>4. ASSUME NEW r \in Runners, PickJob(r) PROVE (UnclaimedHasNoTask /\ RunningHasLiveTask)'
    BY <1>1, <1>4 DEF IInv, UnclaimedHasNoTask, RunningHasLiveTask, PickJob, Candidates
  <1>5. ASSUME NEW r \in Runners, NothingWaits(r) PROVE (UnclaimedHasNoTask /\ RunningHasLiveTask)'
    BY <1>1, <1>5 DEF IInv, UnclaimedHasNoTask, RunningHasLiveTask, NothingWaits
  <1>6. ASSUME NEW r \in Runners, AnswerNothing(r) PROVE (UnclaimedHasNoTask /\ RunningHasLiveTask)'
    BY <1>1, <1>6 DEF IInv, UnclaimedHasNoTask, RunningHasLiveTask, AnswerNothing, NothingToDo
  <1>7. ASSUME NEW r \in Runners, ClaimJob(r) PROVE (UnclaimedHasNoTask /\ RunningHasLiveTask)'
    <2>1. picked[r] \in Jobs
      BY <1>7, <1>1 DEF IInv, HandlersHold, ClaimJob
    <2>2. PICK t \in Tasks : /\ task[t] = Unused
                          /\ task' = [task EXCEPT ![t] = [job |-> picked[r], status |-> "running"]]
                          /\ job' = [job EXCEPT ![picked[r]] = [status |-> "running", task |-> t]]
      BY <1>7 DEF ClaimJob
    <2>3. UnclaimedHasNoTask'
      BY <1>7, <1>1, <1>2, <2>1, <2>2 DEF IInv, UnclaimedHasNoTask
    <2>4. ASSUME NEW j \in Jobs, job'[j].status = "running"
         PROVE  job'[j].task # 0 /\ task'[job'[j].task] = [job |-> j, status |-> "running"]
      <3>1. CASE j = picked[r]
        BY <1>2, <2>1, <2>2, <3>1 DEF Tasks
      <3>2. CASE j # picked[r]
        <4>1. job'[j] = job[j]
          BY <1>2, <2>1, <2>2, <3>2
        <4>2. job[j].task # 0 /\ task[job[j].task] = [job |-> j, status |-> "running"]
          BY <1>1, <2>4, <4>1 DEF IInv, RunningHasLiveTask
        <4>3. job[j].task # t
          BY <2>2, <4>2, JobsAssumption DEF Unused
        <4> QED
          BY <1>2, <2>2, <4>1, <4>2, <4>3
      <3> QED
        BY <3>1, <3>2
    <2> QED
      BY <1>7, <2>3, <2>4 DEF RunningHasLiveTask
  <1>8. ASSUME NEW r \in Runners, LoseJob(r) PROVE (UnclaimedHasNoTask /\ RunningHasLiveTask)'
    BY <1>1, <1>8 DEF IInv, UnclaimedHasNoTask, RunningHasLiveTask, LoseJob, NothingToDo
  <1>9. ASSUME NEW r \in Runners, ClaimFails(r) PROVE (UnclaimedHasNoTask /\ RunningHasLiveTask)'
    BY <1>1, <1>9 DEF IInv, UnclaimedHasNoTask, RunningHasLiveTask, ClaimFails
  <1>10. ASSUME NEW r \in Runners, Report(r) PROVE (UnclaimedHasNoTask /\ RunningHasLiveTask)'
    BY <1>1, <1>10 DEF IInv, UnclaimedHasNoTask, RunningHasLiveTask, Report
  <1>11. ASSUME NEW r \in Runners, WriteResult(r) PROVE (UnclaimedHasNoTask /\ RunningHasLiveTask)'
    <2>1. held[r] \in Tasks /\ task[held[r]] # Unused /\ result[r] \in Done
      BY <1>1, <1>11 DEF IInv, UnclaimedHasNoTask, RunningHasLiveTask, WriteResult, EndTask, HandlersHold
    <2> QED
      BY <1>11, <1>1, EndTaskKeeps, <2>1 DEF IInv, WriteResult
  <1>12. ASSUME NEW r \in Runners, ReportFails(r) PROVE (UnclaimedHasNoTask /\ RunningHasLiveTask)'
    BY <1>1, <1>12 DEF IInv, UnclaimedHasNoTask, RunningHasLiveTask, ReportFails
  <1>13. ASSUME NEW r \in Runners, Emit(r) PROVE (UnclaimedHasNoTask /\ RunningHasLiveTask)'
    BY <1>1, <1>13 DEF IInv, UnclaimedHasNoTask, RunningHasLiveTask, Emit, Answered
  <1>14. ASSUME NEW r \in Runners, EmitFails(r) PROVE (UnclaimedHasNoTask /\ RunningHasLiveTask)'
    BY <1>1, <1>14 DEF IInv, UnclaimedHasNoTask, RunningHasLiveTask, EmitFails, Answered, Ready
  <1>15. ASSUME NEW r \in Runners, RunnerDies(r) PROVE (UnclaimedHasNoTask /\ RunningHasLiveTask)'
    BY <1>1, <1>15 DEF IInv, UnclaimedHasNoTask, RunningHasLiveTask, RunnerDies, Answered, Ready
  <1>16. ASSUME EmitterPop PROVE (UnclaimedHasNoTask /\ RunningHasLiveTask)'
    BY <1>1, <1>16 DEF IInv, UnclaimedHasNoTask, RunningHasLiveTask, EmitterPop
  <1>17. ASSUME EmitterRead PROVE (UnclaimedHasNoTask /\ RunningHasLiveTask)'
    BY <1>1, <1>17 DEF IInv, UnclaimedHasNoTask, RunningHasLiveTask, EmitterRead, Statuses, Row, EmitterState
  <1>18. ASSUME EmitterWrite PROVE (UnclaimedHasNoTask /\ RunningHasLiveTask)'
    <2>1. \A j \in Jobs : /\ Resolve(emitter.seen)[j] \in {emitter.seen[j], "waiting", "skipped"}
                          /\ Resolve(emitter.seen)[j] # emitter.seen[j] => emitter.seen[j] = "blocked"
      BY <1>18, <1>2, ResolveReleases DEF EmitterState
    <2>2. ASSUME NEW j \in Jobs
         PROVE  job'[j] = job[j] \/ (job'[j].status # "running" /\ (job'[j].status \in {"waiting", "blocked"} => job'[j].task = 0))
      <3>1. CASE Resolve(emitter.seen)[j] # emitter.seen[j]
        <4>1. job[j].status = "blocked" /\ job[j] \in Row
          BY <1>18, <1>2, <3>1 DEF EmitterWrite
        <4>2. job'[j] = [job[j] EXCEPT !.status = Resolve(emitter.seen)[j]]
          BY <1>18, <3>1 DEF EmitterWrite, SetStatuses, SetJobs
        <4>3. job[j].task = 0
          BY <1>1, <4>1 DEF IInv, UnclaimedHasNoTask
        <4>4. Resolve(emitter.seen)[j] \in {"waiting", "skipped"}
          BY <2>1, <2>2, <3>1
        <4> QED
          BY <4>1, <4>2, <4>3, <4>4 DEF Row
      <3>2. CASE Resolve(emitter.seen)[j] = emitter.seen[j]
        <4>1. job'[j] = [job[j] EXCEPT !.status = job[j].status]
          BY <1>18, <3>2 DEF EmitterWrite, SetStatuses, SetJobs
        <4> QED
          BY <1>2, <4>1 DEF Row
      <3> QED
        BY <3>1, <3>2
    <2> QED
      BY <1>18, <1>1, JobsMoveKeeps, <2>2 DEF IInv, EmitterWrite
  <1>19. ASSUME EmitterFails PROVE (UnclaimedHasNoTask /\ RunningHasLiveTask)'
    BY <1>1, <1>19 DEF IInv, UnclaimedHasNoTask, RunningHasLiveTask, EmitterFails, EmitterDone
  <1>20. ASSUME NEW t \in Tasks, StopRead(t) PROVE (UnclaimedHasNoTask /\ RunningHasLiveTask)'
    BY <1>1, <1>20 DEF IInv, UnclaimedHasNoTask, RunningHasLiveTask, StopRead, NoOp
  <1>21. ASSUME StopWrite PROVE (UnclaimedHasNoTask /\ RunningHasLiveTask)'
    <2>1. op.task \in Tasks /\ task[op.task] # Unused
      BY <1>1, <1>21 DEF IInv, UnclaimedHasNoTask, RunningHasLiveTask, StopWrite, EndTask, NoOp, Quietly, Ready, OpHolds
    <2> QED
      BY <1>21, <1>1, EndTaskKeeps, <2>1 DEF IInv, StopWrite, Done
  <1>22. ASSUME AbandonRead PROVE (UnclaimedHasNoTask /\ RunningHasLiveTask)'
    BY <1>1, <1>22 DEF IInv, UnclaimedHasNoTask, RunningHasLiveTask, AbandonRead, NoOp
  <1>23. ASSUME AbandonWrite PROVE (UnclaimedHasNoTask /\ RunningHasLiveTask)'
    <2>1. \A j \in Jobs : job'[j] = job[j] \/ (job'[j].status # "running" /\ (job'[j].status \in {"waiting", "blocked"} => job'[j].task = 0))
      BY <1>23, <1>1, <1>2 DEF AbandonWrite, SetStatuses, SetJobs, Row, Statuses, Op
    <2> QED
      BY <1>23, <1>1, JobsMoveKeeps, <2>1 DEF IInv, AbandonWrite
  <1>24. ASSUME CancelRead PROVE (UnclaimedHasNoTask /\ RunningHasLiveTask)'
    BY <1>1, <1>24 DEF IInv, UnclaimedHasNoTask, RunningHasLiveTask, CancelRead, NoOp
  <1>31. ASSUME CancelLook PROVE (UnclaimedHasNoTask /\ RunningHasLiveTask)'
    BY <1>1, <1>31 DEF IInv, UnclaimedHasNoTask, RunningHasLiveTask, CancelLook
  <1>25. ASSUME CancelWrite PROVE (UnclaimedHasNoTask /\ RunningHasLiveTask)'
    <2>1. UnclaimedHasNoTask'
      BY <1>25, <1>1 DEF IInv, UnclaimedHasNoTask, CancelWrite
    <2>2. ASSUME NEW j \in Jobs, job'[j].status = "running"
         PROVE  job'[j].task # 0 /\ task'[job'[j].task] = [job |-> j, status |-> "running"]
      <3>1. job'[j] = job[j] /\ job[j].status = "running"
        BY <1>25, <1>2, <2>2 DEF CancelWrite, Row
      <3>2. job[j].task \in Tasks /\ task[job[j].task] = [job |-> j, status |-> "running"]
        BY <1>1, <1>2, <3>1, BoundAssumption DEF IInv, RunningHasLiveTask, Row, Tasks
      <3>3. job[j].task \notin Claimed
        BY <1>25, <1>2, <2>2, <3>1, <3>2 DEF CancelWrite, Row
      <3> QED
        BY <1>1, <1>25, <3>1, <3>2, <3>3 DEF CancelWrite, IInv, RunningHasLiveTask
    <2> QED
      BY <1>25, <2>1, <2>2 DEF RunningHasLiveTask
  <1>26. ASSUME RerunRead PROVE (UnclaimedHasNoTask /\ RunningHasLiveTask)'
    BY <1>1, <1>26 DEF IInv, UnclaimedHasNoTask, RunningHasLiveTask, RerunRead, NoOp
  <1>27. ASSUME RerunWrite PROVE (UnclaimedHasNoTask /\ RunningHasLiveTask)'
    <2>1. PICK j \in op.todo : RerunJob(j)
      BY <1>27 DEF RerunWrite
    <2>2. j \in Jobs
      BY <1>27, <1>2, <2>1 DEF Op
    <2>3. job' = job \/ \E s \in {"blocked", "waiting"} : job' = [job EXCEPT ![j] = [task |-> 0, status |-> s]]
      BY <1>27, <2>1 DEF RerunJob, SetJobs
    <2>4. \A k \in Jobs : job'[k] = job[k] \/ (job'[k].status # "running" /\ (job'[k].status \in {"waiting", "blocked"} => job'[k].task = 0))
      BY <1>27, <1>2, <2>2, <2>3
    <2> QED
      BY <1>27, <1>1, JobsMoveKeeps, <2>1, <2>4 DEF IInv, RerunJob
  <1>28. ASSUME OpFails PROVE (UnclaimedHasNoTask /\ RunningHasLiveTask)'
    BY <1>1, <1>28 DEF IInv, UnclaimedHasNoTask, RunningHasLiveTask, OpFails, NoOp
  <1>29. ASSUME Approve PROVE (UnclaimedHasNoTask /\ RunningHasLiveTask)'
    <2>1. \A j \in Jobs : job'[j] = job[j] \/ (job'[j].status # "running" /\ (job'[j].status \in {"waiting", "blocked"} => job'[j].task = 0))
      BY <1>29, <1>1, <1>2 DEF Approve, SetStatuses, SetJobs, Row, IInv, UnclaimedHasNoTask
    <2> QED
      BY <1>29, <1>1, JobsMoveKeeps, <2>1 DEF IInv, Approve
  <1>30. CASE UNCHANGED vars
    BY <1>1, <1>30 DEF IInv, UnclaimedHasNoTask, RunningHasLiveTask, vars
  <1> QED
    BY <1>1, <1>3, <1>4, <1>5, <1>6, <1>7, <1>8, <1>9, <1>10, <1>11, <1>12, <1>13, <1>14, <1>15, <1>16, <1>17, <1>18, <1>19, <1>20, <1>21, <1>22, <1>23, <1>24, <1>25, <1>26, <1>27, <1>28, <1>29, <1>30, <1>31 DEF Next, RunnerStep, EmitterStep, OpStep

LEMMA CancelStep == IInv /\ [Next]_vars => CancelHolds'
  <1>1. SUFFICES ASSUME IInv, [Next]_vars PROVE CancelHolds'
    OBVIOUS
  <1>2. /\ job \in [Jobs -> Row] /\ task \in [Tasks -> TaskRow] /\ MaxTasks \in Nat
        /\ op.kind = "cancel" => op.seen \in [Jobs -> Row]
    BY <1>1, BoundAssumption DEF IInv, TypeOK, OpHolds
\* A task that exists goes on to exist.
  <1>3. ASSUME NEW t \in Tasks, task[t] # Unused PROVE task'[t] # Unused
    <2> USE <1>2, <1>3 DEF rows
    <2>1. CASE task' = task
      BY <2>1
    <2>2. ASSUME NEW u, NEW s, EndTask(u, s) PROVE task'[t] # Unused
      <3>1. task' = [task EXCEPT ![u].status = s] /\ task[t] \in TaskRow
        BY <2>2 DEF EndTask
      <3>2. task'[t].job \in Jobs
        BY <3>1 DEF TaskRow, Unused
      <3> QED
        BY <3>2, JobsAssumption DEF Unused
    <2>3. ASSUME NEW r \in Runners, ClaimJob(r) PROVE task'[t] # Unused
      BY <2>3 DEF ClaimJob, Unused
    <2>4. CASE CancelWrite
      <3>1. task[t] \in TaskRow /\ task'[t] \in {task[t], [task[t] EXCEPT !.status = "cancelled"]}
        BY <2>4 DEF CancelWrite
      <3>2. task'[t].job \in Jobs
        BY <3>1 DEF TaskRow, Unused
      <3> QED
        BY <3>2, JobsAssumption DEF Unused
    <2>5. \/ task' = task \/ CancelWrite \/ (\E u, s : EndTask(u, s))
          \/ \E r \in Runners : ClaimJob(r)
      BY <1>1 DEF Next, RunnerStep, EmitterStep, OpStep, vars, FetchTask, PickJob, NothingWaits,
         AnswerNothing, NothingToDo, LoseJob, ClaimFails, Report, WriteResult, ReportFails,
         Emit, EmitFails, RunnerDies, Answered, EmitterPop, EmitterRead, EmitterWrite,
         EmitterFails, StopRead, StopWrite, AbandonRead, AbandonWrite, CancelRead, CancelLook,
         RerunRead, RerunWrite, RerunJob, OpFails, Approve
    <2> QED
      BY <2>1, <2>2, <2>3, <2>4, <2>5
  <1>4. CASE op' = op
    <2>1. ASSUME op.kind = "cancel", NEW j \in Jobs, op.seen[j].status \notin Done,
                 op.seen[j].task # 0
          PROVE  task'[op.seen[j].task] # Unused
      <3>1. op.seen[j].task \in Tasks /\ task[op.seen[j].task] # Unused
        BY <1>1, <1>2, <2>1 DEF IInv, CancelHolds, Row, Tasks
      <3> QED
        BY <1>3, <3>1
    <2> QED
      BY <1>4, <2>1 DEF CancelHolds
  <1>5. CASE op'.kind # "cancel"
    BY <1>5 DEF CancelHolds
  <1>6. CASE CancelRead
    <2>1. op'.seen = job /\ task' = task
      BY <1>6 DEF CancelRead, NoOp, rows
    <2>2. ASSUME NEW j \in Jobs, job[j].status \notin Done, job[j].task # 0
          PROVE  task[job[j].task] # Unused
      <3>1. job[j].status = "running"
        BY <1>1, <1>2, <2>2 DEF IInv, UnclaimedHasNoTask, Row, Status
      <3>2. task[job[j].task] = [job |-> j, status |-> "running"]
        BY <1>1, <3>1 DEF IInv, RunningHasLiveTask
      <3> QED
        BY <3>2, JobsAssumption DEF Unused
    <2> QED
      BY <2>1, <2>2 DEF CancelHolds
  <1>7. CASE CancelLook
    <2>1. /\ \A j \in Jobs : /\ op'.seen[j].task = op.seen[j].task
                             /\ op'.seen[j].status \in {op.seen[j].status} \cup Done
          /\ op.kind = "cancel" /\ task' = task
      BY <1>1, <1>7, CancelLookSeen DEF CancelLook, rows
    <2> QED
      BY <1>1, <2>1 DEF IInv, CancelHolds
  <1>8. op' = op \/ op'.kind # "cancel" \/ CancelRead \/ CancelLook
    <2>1. ASSUME NEW r \in Runners, RunnerStep(r) PROVE op' = op
      BY <2>1 DEF RunnerStep, FetchTask, PickJob, NothingWaits, AnswerNothing, NothingToDo,
         ClaimJob, LoseJob, ClaimFails, Report, WriteResult, ReportFails, Emit, EmitFails,
         RunnerDies, Answered
    <2>2. CASE EmitterStep
      BY <2>2 DEF EmitterStep, EmitterPop, EmitterRead, EmitterWrite, EmitterFails
    <2>3. CASE OpStep
      <3>1. op \in Op
        BY <1>1 DEF IInv, TypeOK
      <3>2. CASE StopWrite \/ CancelWrite \/ OpFails \/ Approve
        BY <3>2 DEF StopWrite, CancelWrite, OpFails, Approve, NoOp
      <3>3. CASE AbandonRead \/ RerunRead \/ \E t \in Tasks : StopRead(t)
        BY <3>3 DEF AbandonRead, RerunRead, StopRead, NoOp
      <3>4. CASE AbandonWrite \/ RerunWrite
        <4>1. op.kind # "cancel"
          BY <3>4 DEF AbandonWrite, RerunWrite
        <4>2. op' = NoOp \/ \E j \in op.todo : op' = [op EXCEPT !.todo = @ \ {j}]
          BY <3>4 DEF AbandonWrite, RerunWrite, RerunJob
        <4> QED
          BY <3>1, <4>1, <4>2 DEF NoOp, Op
      <3> QED
        BY <2>3, <3>2, <3>3, <3>4 DEF OpStep
    <2> QED
      BY <1>1, <2>1, <2>2, <2>3 DEF Next, vars
  <1> QED
    BY <1>4, <1>5, <1>6, <1>7, <1>8

LEMMA InvStep == IInv /\ [Next]_vars => IInv'
  BY TypeStep, HoldStep, CancelStep, TaskStep DEF IInv

LEMMA InvAlways == Spec => []IInv
  BY InvInit, InvStep, PTL DEF Spec

\* Rows, requests and tasks have the types of TypeOK for every instance; in
\* particular a task that ends is the task of a job of the run.
THEOREM TypeCorrect == Spec => []TypeOK
  <1>1. IInv => TypeOK
    BY DEF IInv
  <1> QED
    BY <1>1, InvAlways, PTL

\* However many runners, cleaners and buttons interleave, a job that waits or is
\* blocked has no task, so a runner can claim it.
THEOREM UnclaimedFree == Spec => []UnclaimedHasNoTask
  <1>1. IInv => UnclaimedHasNoTask
    BY DEF IInv
  <1> QED
    BY <1>1, InvAlways, PTL

\* A running job is always backed by a running task that names it.
THEOREM RunningBacked == Spec => []RunningHasLiveTask
  <1>1. IInv => RunningHasLiveTask
    BY DEF IInv
  <1> QED
    BY <1>1, InvAlways, PTL

LEMMA ClaimStep == IInv /\ [Next]_vars => [OneClaim]_job
  <1>1. SUFFICES ASSUME IInv, [Next]_vars PROVE [OneClaim]_job
    OBVIOUS
  <1>2. /\ job \in [Jobs -> Row] /\ task \in [Tasks -> TaskRow]
        /\ held \in [Runners -> 0..MaxTasks] /\ emitter \in EmitterState /\ op \in Op
        /\ Results \subseteq Done /\ MaxTasks \in Nat /\ Tasks \subseteq 0..MaxTasks /\ 0 \in 0..MaxTasks
    BY <1>1, ResultsAssumption, BoundAssumption DEF IInv, TypeOK, Tasks
  <1> USE NeedsAssumption, CanRunAssumption, ResultsAssumption, BoundAssumption DEF rows, versions, runner, history
  <1>3. ASSUME NEW r \in Runners, FetchTask(r) PROVE [OneClaim]_job
    BY <1>1, <1>3 DEF OneClaim, Row, FetchTask
  <1>4. ASSUME NEW r \in Runners, PickJob(r) PROVE [OneClaim]_job
    BY <1>1, <1>4 DEF OneClaim, Row, PickJob, Candidates
  <1>5. ASSUME NEW r \in Runners, NothingWaits(r) PROVE [OneClaim]_job
    BY <1>1, <1>5 DEF OneClaim, Row, NothingWaits
  <1>6. ASSUME NEW r \in Runners, AnswerNothing(r) PROVE [OneClaim]_job
    BY <1>1, <1>6 DEF OneClaim, Row, AnswerNothing, NothingToDo
  <1>7. ASSUME NEW r \in Runners, ClaimJob(r) PROVE [OneClaim]_job
    BY <1>1, <1>7 DEF OneClaim, Row, ClaimJob
  <1>8. ASSUME NEW r \in Runners, LoseJob(r) PROVE [OneClaim]_job
    BY <1>1, <1>8 DEF OneClaim, Row, LoseJob, NothingToDo
  <1>9. ASSUME NEW r \in Runners, ClaimFails(r) PROVE [OneClaim]_job
    BY <1>1, <1>9 DEF OneClaim, Row, ClaimFails
  <1>10. ASSUME NEW r \in Runners, Report(r) PROVE [OneClaim]_job
    BY <1>1, <1>10 DEF OneClaim, Row, Report
  <1>11. ASSUME NEW r \in Runners, WriteResult(r) PROVE [OneClaim]_job
    BY <1>1, <1>11 DEF OneClaim, Row, WriteResult, EndTask
  <1>12. ASSUME NEW r \in Runners, ReportFails(r) PROVE [OneClaim]_job
    BY <1>1, <1>12 DEF OneClaim, Row, ReportFails
  <1>13. ASSUME NEW r \in Runners, Emit(r) PROVE [OneClaim]_job
    BY <1>1, <1>13 DEF OneClaim, Row, Emit, Answered
  <1>14. ASSUME NEW r \in Runners, EmitFails(r) PROVE [OneClaim]_job
    BY <1>1, <1>14 DEF OneClaim, Row, EmitFails, Answered, Ready
  <1>15. ASSUME NEW r \in Runners, RunnerDies(r) PROVE [OneClaim]_job
    BY <1>1, <1>15 DEF OneClaim, Row, RunnerDies, Answered, Ready
  <1>16. ASSUME EmitterPop PROVE [OneClaim]_job
    BY <1>1, <1>16 DEF OneClaim, Row, EmitterPop
  <1>17. ASSUME EmitterRead PROVE [OneClaim]_job
    BY <1>1, <1>17 DEF OneClaim, Row, EmitterRead, Statuses, Row, EmitterState
  <1>18. ASSUME EmitterWrite PROVE [OneClaim]_job
    <2>1. \A j \in Jobs : job'[j].task = job[j].task
      BY <1>18, <1>2 DEF Row, EmitterWrite, SetStatuses, SetJobs
    <2> QED
      BY <1>18, <2>1 DEF OneClaim
  <1>19. ASSUME EmitterFails PROVE [OneClaim]_job
    BY <1>1, <1>19 DEF OneClaim, Row, EmitterFails, EmitterDone
  <1>20. ASSUME NEW t \in Tasks, StopRead(t) PROVE [OneClaim]_job
    BY <1>1, <1>20 DEF OneClaim, Row, StopRead, NoOp
  <1>21. ASSUME StopWrite PROVE [OneClaim]_job
    BY <1>1, <1>21 DEF OneClaim, Row, StopWrite, EndTask, NoOp, Quietly, Ready
  <1>22. ASSUME AbandonRead PROVE [OneClaim]_job
    BY <1>1, <1>22 DEF OneClaim, Row, AbandonRead, NoOp
  <1>23. ASSUME AbandonWrite PROVE [OneClaim]_job
    <2>1. \A j \in Jobs : job'[j].task = job[j].task
      BY <1>23, <1>2 DEF Row, AbandonWrite, SetStatuses, SetJobs
    <2> QED
      BY <1>23, <2>1 DEF OneClaim
  <1>24. ASSUME CancelRead PROVE [OneClaim]_job
    BY <1>1, <1>24 DEF OneClaim, Row, CancelRead, NoOp
  <1>31. ASSUME CancelLook PROVE [OneClaim]_job
    BY <1>31 DEF CancelLook
  <1>25. ASSUME CancelWrite PROVE [OneClaim]_job
    BY <1>1, <1>25 DEF OneClaim, Row, CancelWrite, NoOp, Quietly, Ready
  <1>26. ASSUME RerunRead PROVE [OneClaim]_job
    BY <1>1, <1>26 DEF OneClaim, Row, RerunRead, NoOp
  <1>27. ASSUME RerunWrite PROVE [OneClaim]_job
    <2>1. PICK j \in op.todo : RerunJob(j)
      BY <1>27 DEF RerunWrite
    <2>2. j \in Jobs
      BY <1>27, <1>2, <2>1 DEF Op
    <2>3. job' = job \/ \E s \in {"blocked", "waiting"} : job' = [job EXCEPT ![j] = [task |-> 0, status |-> s]]
      BY <1>27, <2>1 DEF RerunJob, SetJobs
    <2>4. \A k \in Jobs : job'[k].task = job[k].task \/ job'[k].task = 0
      BY <1>2, <2>2, <2>3
    <2> QED
      BY <2>4 DEF OneClaim
  <1>28. ASSUME OpFails PROVE [OneClaim]_job
    BY <1>1, <1>28 DEF OneClaim, Row, OpFails, NoOp
  <1>29. ASSUME Approve PROVE [OneClaim]_job
    <2>1. \A j \in Jobs : job'[j].task = job[j].task
      BY <1>29, <1>2 DEF Row, Approve, SetStatuses, SetJobs
    <2> QED
      BY <1>29, <2>1 DEF OneClaim
  <1>30. CASE UNCHANGED vars
    BY <1>1, <1>30 DEF OneClaim, Row, vars
  <1> QED
    BY <1>1, <1>3, <1>4, <1>5, <1>6, <1>7, <1>8, <1>9, <1>10, <1>11, <1>12, <1>13, <1>14, <1>15, <1>16, <1>17, <1>18, <1>19, <1>20, <1>21, <1>22, <1>23, <1>24, <1>25, <1>26, <1>27, <1>28, <1>29, <1>30, <1>31 DEF Next, RunnerStep, EmitterStep, OpStep

\* No claim is overwritten by another: a job changes its task only from none or to none,
\* though many runners pick the same job and only the update decides (task.go:317).
THEOREM ClaimedOnceAlways == Spec => ClaimedOnce
  BY InvAlways, ClaimStep, PTL DEF Spec, ClaimedOnce, OneClaim

-----------------------------------------------------------------------------
(* What a runner is told.                                                  *)

\* ToldWhatWaits, wherever the runner is by now, and of the handler that is about to answer.
Told ==
  \A r \in Runners :
    /\ r \in current \ raced => Candidates(r) = {}
    /\ pc[r] = "empty" /\ r \in fresh => Candidates(r) = {}

\* No job waits that did not wait before, or everybody has an old version.
LEMMA ToldFrame ==
  ASSUME Told, raced' = raced, \A q \in Runners : pc'[q] = "empty" => pc[q] = "empty",
         current' \subseteq current, fresh' \subseteq fresh,
         \/ current' = {} /\ fresh' = {}
         \/ \A j \in Jobs : job'[j].status = "waiting" /\ job'[j].task = 0 =>
                              job[j].status = "waiting" /\ job[j].task = 0
  PROVE  Told'
  <1>1. ASSUME current' # {} \/ fresh' # {}, NEW r \in Runners
        PROVE  Candidates(r)' \subseteq Candidates(r)
    BY <1>1, CanRunAssumption DEF Candidates
  <1> QED
    BY <1>1 DEF Told

LEMMA ToldStep == IInv /\ Told /\ [Next]_vars => Told'
  <1>1. SUFFICES ASSUME IInv, Told, [Next]_vars PROVE Told'
    OBVIOUS
  <1>2. /\ job \in [Jobs -> Row] /\ task \in [Tasks -> TaskRow] /\ picked \in [Runners -> Jobs \cup {0}]
        /\ held \in [Runners -> 0..MaxTasks] /\ emitter \in EmitterState /\ op \in Op
        /\ pc \in [Runners -> {"idle", "fetching", "empty", "claiming", "working", "writing", "reported"}]
        /\ Results \subseteq Done /\ MaxTasks \in Nat /\ Tasks \subseteq 0..MaxTasks /\ 0 \notin Tasks
    BY <1>1, ResultsAssumption, BoundAssumption DEF IInv, TypeOK, Tasks
  <1> USE NeedsAssumption, CanRunAssumption, ResultsAssumption, BoundAssumption
       DEF rows, versions, runner, history
  <1>3. ASSUME NEW r \in Runners, FetchTask(r) PROVE Told'
    <2>1. \A q \in Runners : Candidates(q)' = Candidates(q)
      BY <1>3 DEF FetchTask, Candidates
    <2> QED
      BY <1>1, <1>2, <1>3, <2>1 DEF Told, FetchTask
  <1>4. ASSUME NEW r \in Runners, PickJob(r) PROVE Told'
    <2>1. \A q \in Runners : Candidates(q)' = Candidates(q)
      BY <1>4 DEF PickJob, Candidates
    <2> QED
      BY <1>1, <1>2, <1>4, <2>1 DEF Told, PickJob
  <1>5. ASSUME NEW r \in Runners, NothingWaits(r) PROVE Told'
    <2>1. \A q \in Runners : Candidates(q)' = Candidates(q)
      BY <1>5 DEF NothingWaits, Candidates
    <2> QED
      BY <1>1, <1>2, <1>5, <2>1 DEF Told, NothingWaits
  <1>6. ASSUME NEW r \in Runners, AnswerNothing(r) PROVE Told'
    <2>1. \A q \in Runners : Candidates(q)' = Candidates(q)
      BY <1>6 DEF AnswerNothing, NothingToDo, Candidates
    <2> QED
      BY <1>1, <1>2, <1>6, <2>1 DEF Told, AnswerNothing, NothingToDo
  <1>7. ASSUME NEW r \in Runners, ClaimJob(r) PROVE Told'
    <2>1. \A q \in Runners : Candidates(q)' \subseteq Candidates(q)
      BY <1>1, <1>2, <1>7 DEF ClaimJob, Candidates, IInv, HandlersHold
    <2>2. /\ current' = current /\ raced' = raced /\ fresh' \subseteq fresh
          /\ \A q \in Runners : pc'[q] = "empty" => pc[q] = "empty"
      BY <1>2, <1>7 DEF ClaimJob
    <2> QED
      BY <1>1, <2>1, <2>2 DEF Told
  <1>8. ASSUME NEW r \in Runners, LoseJob(r) PROVE Told'
    <2>1. \A q \in Runners : Candidates(q)' = Candidates(q)
      BY <1>8 DEF LoseJob, NothingToDo, Candidates
    <2> QED
      BY <1>1, <1>2, <1>8, <2>1 DEF Told, LoseJob, NothingToDo
  <1>9. ASSUME NEW r \in Runners, ClaimFails(r) PROVE Told'
    <2>1. \A q \in Runners : Candidates(q)' = Candidates(q)
      BY <1>9 DEF ClaimFails, Candidates
    <2> QED
      BY <1>1, <1>2, <1>9, <2>1 DEF Told, ClaimFails
  <1>10. ASSUME NEW r \in Runners, Report(r) PROVE Told'
    <2>1. \A q \in Runners : Candidates(q)' = Candidates(q)
      BY <1>10 DEF Report, Candidates
    <2> QED
      BY <1>1, <1>2, <1>10, <2>1 DEF Told, Report
  <1>11. ASSUME NEW r \in Runners, WriteResult(r) PROVE Told'
    <2>1. /\ job' = [job EXCEPT ![task[held[r]].job].status = result[r]]
          /\ UNCHANGED <<raced, current, fresh>> /\ \A q \in Runners : pc'[q] = "empty" => pc[q] = "empty"
      BY <1>2, <1>11 DEF WriteResult, EndTask
    <2>2. result[r] # "waiting"
      BY <1>1, <1>2, <1>11 DEF WriteResult, IInv, HandlersHold, Done
    <2>3. \A j \in Jobs : job'[j].status = "waiting" => job'[j] = job[j]
      BY <1>2, <2>1, <2>2 DEF Row
    <2> QED
      BY <1>1, <2>1, <2>3, ToldFrame
  <1>12. ASSUME NEW r \in Runners, ReportFails(r) PROVE Told'
    <2>1. \A q \in Runners : Candidates(q)' = Candidates(q)
      BY <1>12 DEF ReportFails, Candidates
    <2> QED
      BY <1>1, <1>2, <1>12, <2>1 DEF Told, ReportFails
  <1>13. ASSUME NEW r \in Runners, Emit(r) PROVE Told'
    <2>1. \A q \in Runners : Candidates(q)' = Candidates(q)
      BY <1>13 DEF Emit, Answered, Candidates
    <2> QED
      BY <1>1, <1>2, <1>13, <2>1 DEF Told, Emit, Answered
  <1>14. ASSUME NEW r \in Runners, EmitFails(r) PROVE Told'
    <2>1. \A q \in Runners : Candidates(q)' = Candidates(q)
      BY <1>14 DEF EmitFails, Answered, Candidates
    <2> QED
      BY <1>1, <1>2, <1>14, <2>1 DEF Told, EmitFails, Answered
  <1>15. ASSUME NEW r \in Runners, RunnerDies(r) PROVE Told'
    <2>1. \A q \in Runners : Candidates(q)' = Candidates(q)
      BY <1>15 DEF RunnerDies, Answered, Candidates
    <2> QED
      BY <1>1, <1>2, <1>15, <2>1 DEF Told, RunnerDies, Answered
  <1>16. ASSUME EmitterPop PROVE Told'
    <2>1. \A q \in Runners : Candidates(q)' = Candidates(q)
      BY <1>16 DEF EmitterPop, Candidates
    <2> QED
      BY <1>1, <1>2, <1>16, <2>1 DEF Told, EmitterPop
  <1>17. ASSUME EmitterRead PROVE Told'
    <2>1. \A q \in Runners : Candidates(q)' = Candidates(q)
      BY <1>17 DEF EmitterRead, Candidates
    <2> QED
      BY <1>1, <1>2, <1>17, <2>1 DEF Told, EmitterRead
  <1>18. ASSUME EmitterWrite PROVE Told'
    <2>1. PICK s : SetStatuses(s)
      BY <1>18 DEF EmitterWrite
    <2>2. UNCHANGED <<pc, raced>>
      BY <1>18 DEF EmitterWrite
    <2>3. /\ \A j \in Jobs : job'[j].task = job[j].task
          /\ \/ current' = {} /\ fresh' = {}
             \/ /\ UNCHANGED <<current, fresh>>
                /\ \A j \in Jobs : job'[j].status = "waiting" => job[j].status = "waiting"
      BY <1>2, <2>1 DEF SetStatuses, SetJobs, Row
    <2> QED
      BY <1>1, <2>2, <2>3, ToldFrame
  <1>19. ASSUME EmitterFails PROVE Told'
    <2>1. \A q \in Runners : Candidates(q)' = Candidates(q)
      BY <1>19 DEF EmitterFails, EmitterDone, Candidates
    <2> QED
      BY <1>1, <1>2, <1>19, <2>1 DEF Told, EmitterFails, EmitterDone
  <1>20. ASSUME NEW t \in Tasks, StopRead(t) PROVE Told'
    <2>1. \A q \in Runners : Candidates(q)' = Candidates(q)
      BY <1>20 DEF StopRead, Candidates
    <2> QED
      BY <1>1, <1>2, <1>20, <2>1 DEF Told, StopRead
  <1>21. ASSUME StopWrite PROVE Told'
    <2>1. /\ job' = [job EXCEPT ![task[op.task].job].status = "failure"]
          /\ UNCHANGED <<raced, current, fresh>> /\ \A q \in Runners : pc'[q] = "empty" => pc[q] = "empty"
      BY <1>2, <1>21 DEF StopWrite, EndTask
    <2>2. "failure" # "waiting"
      OBVIOUS
    <2>3. \A j \in Jobs : job'[j].status = "waiting" => job'[j] = job[j]
      BY <1>2, <2>1, <2>2 DEF Row
    <2> QED
      BY <1>1, <2>1, <2>3, ToldFrame
  <1>22. ASSUME AbandonRead PROVE Told'
    <2>1. \A q \in Runners : Candidates(q)' = Candidates(q)
      BY <1>22 DEF AbandonRead, Candidates
    <2> QED
      BY <1>1, <1>2, <1>22, <2>1 DEF Told, AbandonRead
  <1>23. ASSUME AbandonWrite PROVE Told'
    <2>1. PICK s : SetStatuses(s)
      BY <1>23 DEF AbandonWrite
    <2>2. UNCHANGED <<pc, raced>>
      BY <1>23 DEF AbandonWrite
    <2>3. /\ \A j \in Jobs : job'[j].task = job[j].task
          /\ \/ current' = {} /\ fresh' = {}
             \/ /\ UNCHANGED <<current, fresh>>
                /\ \A j \in Jobs : job'[j].status = "waiting" => job[j].status = "waiting"
      BY <1>2, <2>1 DEF SetStatuses, SetJobs, Row
    <2> QED
      BY <1>1, <2>2, <2>3, ToldFrame
  <1>24. ASSUME CancelRead PROVE Told'
    <2>1. \A q \in Runners : Candidates(q)' = Candidates(q)
      BY <1>24 DEF CancelRead, Candidates
    <2> QED
      BY <1>1, <1>2, <1>24, <2>1 DEF Told, CancelRead
  <1>31. ASSUME CancelLook PROVE Told'
    <2>1. \A q \in Runners : Candidates(q)' = Candidates(q)
      BY <1>31 DEF CancelLook, Candidates
    <2> QED
      BY <1>1, <1>2, <1>31, <2>1 DEF Told, CancelLook
  <1>25. ASSUME CancelWrite PROVE Told'
    <2>1. \A j \in Jobs : job'[j].status = "waiting" => job'[j] = job[j]
      BY <1>2, <1>25 DEF CancelWrite, Row
    <2>2. UNCHANGED <<pc, raced, current, fresh>>
      BY <1>25 DEF CancelWrite
    <2> QED
      BY <1>1, <2>1, <2>2, ToldFrame
  <1>26. ASSUME RerunRead PROVE Told'
    <2>1. \A q \in Runners : Candidates(q)' = Candidates(q)
      BY <1>26 DEF RerunRead, Candidates
    <2> QED
      BY <1>1, <1>2, <1>26, <2>1 DEF Told, RerunRead
  <1>27. ASSUME RerunWrite PROVE Told'
    <2>1. PICK j \in op.todo : RerunJob(j)
      BY <1>27 DEF RerunWrite
    <2>2. j \in Jobs /\ UNCHANGED <<pc, raced>>
      BY <1>2, <2>1 DEF Op, RerunJob
    <2>3. CASE UNCHANGED <<job, current, fresh>>
      BY <1>1, <2>2, <2>3, ToldFrame
    <2>4. CASE ~ UNCHANGED <<job, current, fresh>>
      <3>1. PICK s \in {"blocked", "waiting"} :
              /\ SetJobs([job EXCEPT ![j] = [task |-> 0, status |-> s]])
              /\ job[j].status \in Done
        BY <2>1, <2>4 DEF RerunJob
      <3>2. \/ current' = {} /\ fresh' = {}
            \/ /\ UNCHANGED <<current, fresh>>
               /\ \A k \in Jobs : job'[k].status = "waiting" => job[k].status = "waiting"
        BY <3>1 DEF SetJobs
      <3>3. job'[j].status = "waiting" => job[j].status # "waiting"
        BY <3>1 DEF Done
      <3>4. \A k \in Jobs \ {j} : job'[k] = job[k]
        BY <1>2, <2>2, <3>1 DEF SetJobs
      <3> QED
        BY <1>1, <2>2, <3>2, <3>3, <3>4, ToldFrame
    <2> QED
      BY <2>3, <2>4
  <1>28. ASSUME OpFails PROVE Told'
    <2>1. \A q \in Runners : Candidates(q)' = Candidates(q)
      BY <1>28 DEF OpFails, Candidates
    <2> QED
      BY <1>1, <1>2, <1>28, <2>1 DEF Told, OpFails
  <1>29. ASSUME Approve PROVE Told'
    <2>1. PICK s : SetStatuses(s)
      BY <1>29 DEF Approve
    <2>2. UNCHANGED <<pc, raced>>
      BY <1>29 DEF Approve
    <2>3. /\ \A j \in Jobs : job'[j].task = job[j].task
          /\ \/ current' = {} /\ fresh' = {}
             \/ /\ UNCHANGED <<current, fresh>>
                /\ \A j \in Jobs : job'[j].status = "waiting" => job[j].status = "waiting"
      BY <1>2, <2>1 DEF SetStatuses, SetJobs, Row
    <2> QED
      BY <1>1, <2>2, <2>3, ToldFrame
  <1>30. CASE UNCHANGED vars
    BY <1>1, <1>30 DEF Told, vars, Candidates
  <1> QED
    BY <1>1, <1>3, <1>4, <1>5, <1>6, <1>7, <1>8, <1>9, <1>10, <1>11, <1>12, <1>13, <1>14,
       <1>15, <1>16, <1>17, <1>18, <1>19, <1>20, <1>21, <1>22, <1>23, <1>24, <1>25, <1>26,
       <1>27, <1>28, <1>29, <1>30, <1>31 DEF Next, RunnerStep, EmitterStep, OpStep

LEMMA ToldAlways == Spec => []Told
  <1>1. Init => Told
    BY DEF Init, Told
  <1> QED
    BY <1>1, ToldStep, InvAlways, PTL DEF Spec

\* No runner is told the current version while a job it could run waits, unless its last
\* request lost a job to another: the version is read before the jobs, and every
\* transaction that makes a job wait makes a new version (runner.go:136-172).
THEOREM ToldOfWaitingJobs == Spec => []ToldWhatWaits
  <1>1. Told => ToldWhatWaits
    BY DEF Told, ToldWhatWaits
  <1> QED
    BY <1>1, ToldAlways, PTL

-----------------------------------------------------------------------------
(* The order of the needs.                                                 *)

\* While nothing was cancelled, abandoned or rerun, jobs only go forward: a job without a
\* task was never claimed, a picked job is not blocked, what the emitter saw done is done,
\* and a run that needs approval has not begun.
Orderly ==
  /\ \A j \in Jobs : job[j].task = 0 => job[j].status \in {"blocked", "waiting", "skipped"}
  /\ \A t \in Tasks : task[t] # Unused => job[task[t].job].task # 0
  /\ \A r \in Runners : pc[r] = "claiming" =>
       /\ job[picked[r]].status # "blocked"
       /\ job[picked[r]].task = 0 => job[picked[r]].status = "waiting"
  /\ emitter.pc = "checking" =>
       \A j \in Jobs : emitter.seen[j] \in Done => job[j].status \in Done
  /\ approved = FALSE => queued = FALSE /\ emitter.pc = "idle" /\ \A j \in Jobs : job[j].status = "blocked"
  /\ approved = TRUE =>
       \A j \in Jobs : job[j].status # "blocked" => \A n \in Needs[j] : job[n].status \in Done

Undisturbed == disturbed = TRUE \/ Orderly

\* What Resolve releases has needs that were done or that it skips as well.
LEMMA ResolveNeeds ==
  ASSUME NEW s \in [Jobs -> Status], NEW j \in Jobs, Resolve(s)[j] # s[j], NEW n \in Needs[j]
  PROVE  n \in Jobs /\ (s[n] \in Done \/ (s[n] = "blocked" /\ Resolve(s)[n] = "skipped"))
  <1> DEFINE X == SkippedByResolve(s)
  <1>1. X = SkippedAfter(s, X)
    BY PassesEnd, JobsAssumption
  <1>2. n \in Jobs
    BY NeedsAssumption
  <1>3. s[n] \in Done \/ n \in X
    BY DEF Resolve
  <1>4. ASSUME n \in X PROVE s[n] = "blocked" /\ Resolve(s)[n] = "skipped"
    <2>1. /\ s[n] = "blocked" /\ Release(s, n) = "skipped"
          /\ \A k \in Needs[n] : s[k] \in Done \/ k \in X
      <3> HIDE DEF X
      <3> QED
        BY <1>1, <1>4 DEF SkippedAfter
    <2> QED
      BY <1>2, <2>1 DEF Resolve
  <1> HIDE DEF X
  <1> QED
    BY <1>2, <1>3, <1>4

LEMMA OrderlyFrame ==
  ASSUME Orderly, UNCHANGED <<job, task, emitter, approved>>, queued' = queued \/ approved = TRUE,
         \A r \in Runners : pc'[r] = "claiming" => pc[r] = "claiming" /\ picked'[r] = picked[r]
  PROVE  Orderly'
  BY DEF Orderly

LEMMA EndTaskOrderly ==
  ASSUME IInv, Orderly, NEW t \in Tasks, task[t] # Unused, NEW s \in Done, EndTask(t, s),
         UNCHANGED <<approved, queued, emitter, picked>>,
         \A r \in Runners : pc'[r] = "claiming" => pc[r] = "claiming"
  PROVE  Orderly'
  <1> DEFINE k == task[t].job
  <1>1. /\ k \in Jobs /\ job \in [Jobs -> Row] /\ task \in [Tasks -> TaskRow]
        /\ picked \in [Runners -> Jobs \cup {0}] /\ approved \in BOOLEAN
    BY DEF IInv, TypeOK, TaskRow
  <1>2. job[k].task # 0 /\ job[k].status # "blocked" /\ approved = TRUE
    BY <1>1 DEF IInv, Orderly, UnclaimedHasNoTask
  <1>3. /\ job'[k].status = s /\ job'[k].task = job[k].task
        /\ \A j \in Jobs \ {k} : job'[j] = job[j]
    BY <1>1 DEF EndTask, Row
  <1>4. \A u \in Tasks : task'[u] # Unused => task[u] # Unused /\ task'[u].job = task[u].job
    BY <1>1 DEF EndTask, TaskRow, Unused
  <1>5. \A j \in Jobs : /\ job[j].status \in Done => job'[j].status \in Done
                        /\ job'[j].status = "blocked" <=> job[j].status = "blocked"
                        /\ job'[j].task = job[j].task
    BY <1>2, <1>3 DEF Done
  <1>6. \A j \in Jobs : job'[j].task = 0 => job'[j].status \in {"blocked", "waiting", "skipped"}
    BY <1>2, <1>3 DEF Orderly
  <1>7. \A u \in Tasks : task'[u] # Unused => job'[task'[u].job].task # 0
    BY <1>1, <1>4, <1>5 DEF Orderly, TaskRow
  <1>8. \A r \in Runners : pc'[r] = "claiming" =>
          /\ job'[picked'[r]].status # "blocked"
          /\ job'[picked'[r]].task = 0 => job'[picked'[r]].status = "waiting"
    BY <1>2, <1>3, <1>5 DEF Orderly, IInv, HandlersHold
  <1>9. \A j \in Jobs : job'[j].status # "blocked" => \A n \in Needs[j] : job'[n].status \in Done
    BY <1>2, <1>5, NeedsAssumption DEF Orderly
  <1> QED
    BY <1>2, <1>5, <1>6, <1>7, <1>8, <1>9 DEF Orderly

LEMMA UndisturbedStep == IInv /\ Undisturbed /\ [Next]_vars => Undisturbed'
  <1>1. SUFFICES ASSUME IInv, Undisturbed, [Next]_vars PROVE Undisturbed'
    OBVIOUS
  <1>2. /\ job \in [Jobs -> Row] /\ task \in [Tasks -> TaskRow] /\ picked \in [Runners -> Jobs \cup {0}]
        /\ held \in [Runners -> 0..MaxTasks] /\ emitter \in EmitterState /\ op \in Op
        /\ pc \in [Runners -> {"idle", "fetching", "empty", "claiming", "working", "writing", "reported"}]
        /\ Results \subseteq Done /\ MaxTasks \in Nat /\ Tasks \subseteq 0..MaxTasks /\ 0 \notin Tasks
    BY <1>1, ResultsAssumption, BoundAssumption DEF IInv, TypeOK, Tasks
  <1> USE NeedsAssumption, CanRunAssumption, ResultsAssumption, BoundAssumption
       DEF rows, versions, runner, history
  <1>3. ASSUME NEW r \in Runners, FetchTask(r) PROVE Undisturbed'
    <2>1. /\ UNCHANGED <<job, task, emitter, approved, queued, disturbed>>
          /\ \A q \in Runners : pc'[q] = "claiming" => pc[q] = "claiming" /\ picked'[q] = picked[q]
      BY <1>2, <1>3 DEF FetchTask
    <2> QED
      BY <1>1, <2>1, OrderlyFrame DEF Undisturbed
  <1>4. ASSUME NEW r \in Runners, PickJob(r) PROVE Undisturbed'
    <2>0. SUFFICES ASSUME disturbed # TRUE, Orderly PROVE Orderly'
      BY <1>1, <1>4 DEF Undisturbed, PickJob

    <2>1. PICK j \in Candidates(r) : picked' = [picked EXCEPT ![r] = j]
      BY <1>4 DEF PickJob
    <2>2. picked'[r] = j /\ \A q \in Runners \ {r} : picked'[q] = picked[q] /\ pc'[q] = pc[q]
      BY <1>2, <2>1, <1>4 DEF PickJob
    <2>3. job[j].status = "waiting" /\ UNCHANGED <<job, task, emitter, approved, queued>>
      BY <2>1, <1>4 DEF PickJob, Candidates
    <2> QED
      BY <2>0, <2>2, <2>3 DEF Orderly
  <1>5. ASSUME NEW r \in Runners, NothingWaits(r) PROVE Undisturbed'
    <2>1. /\ UNCHANGED <<job, task, emitter, approved, queued, disturbed>>
          /\ \A q \in Runners : pc'[q] = "claiming" => pc[q] = "claiming" /\ picked'[q] = picked[q]
      BY <1>2, <1>5 DEF NothingWaits
    <2> QED
      BY <1>1, <2>1, OrderlyFrame DEF Undisturbed
  <1>6. ASSUME NEW r \in Runners, AnswerNothing(r) PROVE Undisturbed'
    <2>1. /\ UNCHANGED <<job, task, emitter, approved, queued, disturbed>>
          /\ \A q \in Runners : pc'[q] = "claiming" => pc[q] = "claiming" /\ picked'[q] = picked[q]
      BY <1>2, <1>6 DEF AnswerNothing, NothingToDo
    <2> QED
      BY <1>1, <2>1, OrderlyFrame DEF Undisturbed
  <1>7. ASSUME NEW r \in Runners, ClaimJob(r) PROVE Undisturbed'
    <2>0. SUFFICES ASSUME disturbed # TRUE, Orderly PROVE Orderly'
      BY <1>1, <1>7 DEF Undisturbed, ClaimJob

    <2> DEFINE k == picked[r]
    <2>1. k \in Jobs /\ job[k].task = 0 /\ job[k].status = "waiting" /\ approved = TRUE
      BY <1>1, <2>0, <1>7 DEF ClaimJob, IInv, TypeOK, HandlersHold, Orderly
    <2>2. PICK t \in Tasks : /\ task' = [task EXCEPT ![t] = [job |-> k, status |-> "running"]]
                             /\ job' = [job EXCEPT ![k] = [status |-> "running", task |-> t]]
      BY <1>7 DEF ClaimJob
    <2> HIDE DEF k
    <2>3. /\ job'[k] = [status |-> "running", task |-> t] /\ t # 0
          /\ \A j \in Jobs \ {k} : job'[j] = job[j]
      BY <1>2, <2>1, <2>2
    <2>4. /\ task'[t].job = k /\ \A u \in Tasks \ {t} : task'[u] = task[u]
      BY <1>2, <2>2
    <2>5. /\ UNCHANGED <<emitter, queued, approved>>
          /\ \A q \in Runners : pc'[q] = "claiming" => pc[q] = "claiming" /\ picked'[q] = picked[q]
      BY <1>2, <1>7 DEF ClaimJob
    <2>6. \A u \in Tasks : task'[u] # Unused => job'[task'[u].job].task # 0
      <3>1. ASSUME NEW u \in Tasks \ {t}, task[u] # Unused
            PROVE  task[u].job \in Jobs \ {k} /\ job[task[u].job].task # 0
        BY <1>2, <2>0, <2>1, <3>1 DEF Orderly, TaskRow
      <3> QED
        BY <2>3, <2>4, <3>1
    <2>7. \A q \in Runners : pc'[q] = "claiming" =>
            /\ job'[picked'[q]].status # "blocked"
            /\ job'[picked'[q]].task = 0 => job'[picked'[q]].status = "waiting"
      BY <1>1, <2>0, <2>3, <2>5 DEF Orderly, IInv, HandlersHold
    <2>8. \A j \in Jobs : job[j].status \in Done => job'[j].status \in Done
      BY <2>1, <2>3 DEF Done
    <2>9. \A j \in Jobs : job'[j].status # "blocked" => \A n \in Needs[j] : job'[n].status \in Done
      BY <2>0, <2>1, <2>3, <2>8 DEF Orderly
    <2> QED
      BY <2>0, <2>1, <2>3, <2>5, <2>6, <2>7, <2>8, <2>9 DEF Orderly
  <1>8. ASSUME NEW r \in Runners, LoseJob(r) PROVE Undisturbed'
    <2>1. /\ UNCHANGED <<job, task, emitter, approved, queued, disturbed>>
          /\ \A q \in Runners : pc'[q] = "claiming" => pc[q] = "claiming" /\ picked'[q] = picked[q]
      BY <1>2, <1>8 DEF LoseJob, NothingToDo
    <2> QED
      BY <1>1, <2>1, OrderlyFrame DEF Undisturbed
  <1>9. ASSUME NEW r \in Runners, ClaimFails(r) PROVE Undisturbed'
    <2>1. /\ UNCHANGED <<job, task, emitter, approved, queued, disturbed>>
          /\ \A q \in Runners : pc'[q] = "claiming" => pc[q] = "claiming" /\ picked'[q] = picked[q]
      BY <1>2, <1>9 DEF ClaimFails
    <2> QED
      BY <1>1, <2>1, OrderlyFrame DEF Undisturbed
  <1>10. ASSUME NEW r \in Runners, Report(r) PROVE Undisturbed'
    <2>1. /\ UNCHANGED <<job, task, emitter, approved, queued, disturbed>>
          /\ \A q \in Runners : pc'[q] = "claiming" => pc[q] = "claiming" /\ picked'[q] = picked[q]
      BY <1>2, <1>10 DEF Report
    <2> QED
      BY <1>1, <2>1, OrderlyFrame DEF Undisturbed
  <1>11. ASSUME NEW r \in Runners, WriteResult(r) PROVE Undisturbed'
    <2>0. SUFFICES ASSUME disturbed # TRUE, Orderly PROVE Orderly'
      BY <1>1, <1>11 DEF Undisturbed, WriteResult

    <2>1. held[r] \in Tasks /\ task[held[r]] # Unused /\ result[r] \in Done
      BY <1>1, <1>2, <1>11 DEF WriteResult, IInv, HandlersHold
    <2>2. /\ EndTask(held[r], result[r]) /\ UNCHANGED <<approved, queued, emitter, picked>>
          /\ \A q \in Runners : pc'[q] = "claiming" => pc[q] = "claiming"
      BY <1>2, <1>11 DEF WriteResult
    <2> QED
      BY <1>1, <2>0, <2>1, <2>2, EndTaskOrderly
  <1>12. ASSUME NEW r \in Runners, ReportFails(r) PROVE Undisturbed'
    <2>1. /\ UNCHANGED <<job, task, emitter, approved, queued, disturbed>>
          /\ \A q \in Runners : pc'[q] = "claiming" => pc[q] = "claiming" /\ picked'[q] = picked[q]
      BY <1>2, <1>12 DEF ReportFails
    <2> QED
      BY <1>1, <2>1, OrderlyFrame DEF Undisturbed
  <1>13. ASSUME NEW r \in Runners, Emit(r) PROVE Undisturbed'
    <2>0. SUFFICES ASSUME disturbed # TRUE, Orderly PROVE Orderly'
      BY <1>1, <1>13 DEF Undisturbed, Emit, Answered

    <2>1. held[r] \in Tasks /\ task[held[r]] # Unused
      BY <1>1, <1>13 DEF Emit, IInv, HandlersHold
    <2>2. task[held[r]].job \in Jobs
      BY <1>2, <2>1 DEF TaskRow
    <2>3. approved = TRUE
      BY <1>1, <2>0, <2>1, <2>2 DEF Orderly, IInv, TypeOK, UnclaimedHasNoTask
    <2>4. /\ UNCHANGED <<job, task, emitter, approved>>
          /\ \A q \in Runners : pc'[q] = "claiming" => pc[q] = "claiming" /\ picked'[q] = picked[q]
      BY <1>2, <1>13 DEF Emit, Answered
    <2> QED
      BY <2>0, <2>3, <2>4, OrderlyFrame
  <1>14. ASSUME NEW r \in Runners, EmitFails(r) PROVE Undisturbed'
    <2>1. /\ UNCHANGED <<job, task, emitter, approved, queued, disturbed>>
          /\ \A q \in Runners : pc'[q] = "claiming" => pc[q] = "claiming" /\ picked'[q] = picked[q]
      BY <1>2, <1>14 DEF EmitFails, Answered
    <2> QED
      BY <1>1, <2>1, OrderlyFrame DEF Undisturbed
  <1>15. ASSUME NEW r \in Runners, RunnerDies(r) PROVE Undisturbed'
    <2>1. /\ UNCHANGED <<job, task, emitter, approved, queued, disturbed>>
          /\ \A q \in Runners : pc'[q] = "claiming" => pc[q] = "claiming" /\ picked'[q] = picked[q]
      BY <1>2, <1>15 DEF RunnerDies, Answered
    <2> QED
      BY <1>1, <2>1, OrderlyFrame DEF Undisturbed
  <1>16. ASSUME EmitterPop PROVE Undisturbed'
    <2>0. SUFFICES ASSUME disturbed # TRUE, Orderly PROVE Orderly'
      BY <1>1, <1>16 DEF Undisturbed, EmitterPop

    <2>1. UNCHANGED <<job, task, approved, pc, picked>> /\ emitter'.pc = "popped"
      BY <1>2, <1>16 DEF EmitterPop, EmitterState
    <2>2. approved = TRUE
      BY <1>1, <2>0, <1>16 DEF EmitterPop, Orderly, IInv, TypeOK
    <2> QED
      BY <2>0, <2>1, <2>2 DEF Orderly
  <1>17. ASSUME EmitterRead PROVE Undisturbed'
    <2>0. SUFFICES ASSUME disturbed # TRUE, Orderly PROVE Orderly'
      BY <1>1, <1>17 DEF Undisturbed, EmitterRead

    <2>1. UNCHANGED <<job, task, approved, pc, picked>> /\ emitter'.seen = [j \in Jobs |-> job[j].status]
      BY <1>17 DEF EmitterRead, Statuses
    <2>2. approved = TRUE
      BY <1>1, <2>0, <1>17 DEF EmitterRead, Orderly, IInv, TypeOK
    <2> QED
      BY <2>0, <2>1, <2>2 DEF Orderly
  <1>18. ASSUME EmitterWrite PROVE Undisturbed'
    <2>0. SUFFICES ASSUME disturbed # TRUE, Orderly PROVE Orderly'
      BY <1>1, <1>18 DEF Undisturbed, EmitterWrite

    <2> DEFINE s == emitter.seen  t == Resolve(s)
               u == {j \in Jobs : t[j] # s[j]}
    <2>1. /\ \A j \in u : job[j].status = "blocked"
          /\ SetStatuses([j \in Jobs |-> IF j \in u THEN t[j] ELSE job[j].status])
          /\ UNCHANGED <<task, approved, pc, picked>> /\ emitter'.pc = "idle"
      BY <1>18 DEF EmitterWrite, EmitterDone
    <2>2. s \in [Jobs -> Status] /\ emitter.pc = "checking"
      BY <1>2, <1>18 DEF EmitterWrite, EmitterState
    <2>3. \A j \in u : s[j] = "blocked" /\ t[j] \in {"waiting", "skipped"}
      BY <2>2, ResolveReleases
    <2>4. \A j \in u : \A n \in Needs[j] : n \in Jobs /\ (s[n] \in Done \/ (n \in u /\ t[n] = "skipped"))
      BY <2>2, ResolveNeeds
    <2> HIDE DEF u, t, s
    <2>5. \A j \in Jobs : /\ job'[j].task = job[j].task
                          /\ job'[j].status = IF j \in u THEN t[j] ELSE job[j].status
      BY <1>2, <2>1 DEF SetStatuses, SetJobs, Row
    <2>6. /\ approved = TRUE /\ \A j \in Jobs : s[j] \in Done => job[j].status \in Done
      BY <1>1, <2>0, <2>2 DEF Orderly, IInv, TypeOK, s
    <2>7. \A j \in Jobs : job[j].status \in Done => job'[j].status \in Done
      BY <2>1, <2>5 DEF Done
    <2>8. ASSUME NEW j \in Jobs, job'[j].status # "blocked", NEW n \in Needs[j]
          PROVE  job'[n].status \in Done
      <3>1. CASE j \in u
        BY <2>4, <2>5, <2>6, <2>7, <3>1 DEF Done
      <3>2. CASE j \notin u
        BY <2>0, <2>5, <2>6, <2>7, <2>8, <3>2, NeedsAssumption DEF Orderly
      <3> QED
        BY <3>1, <3>2
    <2>9. \A q \in Runners : pc[q] = "claiming" => picked[q] \in Jobs /\ picked[q] \notin u
      BY <1>1, <2>0, <2>1 DEF Orderly, IInv, HandlersHold
    <2>10. \A v \in Tasks : task[v] # Unused => task[v].job \in Jobs
      BY <1>2 DEF TaskRow
    <2>11. \A j \in Jobs : job'[j].task = 0 => job'[j].status \in {"blocked", "waiting", "skipped"}
      BY <2>0, <2>3, <2>5 DEF Orderly
    <2> QED
      BY <2>0, <2>1, <2>5, <2>6, <2>8, <2>9, <2>10, <2>11 DEF Orderly
  <1>19. ASSUME EmitterFails PROVE Undisturbed'
    <2>0. SUFFICES ASSUME disturbed # TRUE, Orderly PROVE Orderly'
      BY <1>1, <1>19 DEF Undisturbed, EmitterFails

    <2>1. UNCHANGED <<job, task, approved, pc, picked>> /\ emitter'.pc = "idle"
      BY <1>19 DEF EmitterFails, EmitterDone
    <2>2. approved = TRUE
      BY <1>1, <2>0, <1>19 DEF EmitterFails, Orderly, IInv, TypeOK
    <2> QED
      BY <2>0, <2>1, <2>2 DEF Orderly
  <1>20. ASSUME NEW t \in Tasks, StopRead(t) PROVE Undisturbed'
    <2>1. /\ UNCHANGED <<job, task, emitter, approved, queued, disturbed>>
          /\ \A q \in Runners : pc'[q] = "claiming" => pc[q] = "claiming" /\ picked'[q] = picked[q]
      BY <1>2, <1>20 DEF StopRead
    <2> QED
      BY <1>1, <2>1, OrderlyFrame DEF Undisturbed
  <1>21. ASSUME StopWrite PROVE Undisturbed'
    <2>0. SUFFICES ASSUME disturbed # TRUE, Orderly PROVE Orderly'
      BY <1>1, <1>21 DEF Undisturbed, StopWrite

    <2>1. op.task \in Tasks /\ task[op.task] # Unused /\ "failure" \in Done
      BY <1>1, <1>21 DEF StopWrite, IInv, OpHolds, Done
    <2>2. EndTask(op.task, "failure") /\ UNCHANGED <<approved, queued, emitter, picked, pc>>
      BY <1>21 DEF StopWrite
    <2> QED
      BY <1>1, <2>0, <2>1, <2>2, EndTaskOrderly
  <1>22. ASSUME AbandonRead PROVE Undisturbed'
    <2>1. /\ UNCHANGED <<job, task, emitter, approved, queued, disturbed>>
          /\ \A q \in Runners : pc'[q] = "claiming" => pc[q] = "claiming" /\ picked'[q] = picked[q]
      BY <1>2, <1>22 DEF AbandonRead
    <2> QED
      BY <1>1, <2>1, OrderlyFrame DEF Undisturbed
  <1>23. ASSUME AbandonWrite PROVE Undisturbed'
    BY <1>23 DEF Undisturbed, AbandonWrite
  <1>24. ASSUME CancelRead PROVE Undisturbed'
    <2>1. /\ UNCHANGED <<job, task, emitter, approved, queued, disturbed>>
          /\ \A q \in Runners : pc'[q] = "claiming" => pc[q] = "claiming" /\ picked'[q] = picked[q]
      BY <1>2, <1>24 DEF CancelRead
    <2> QED
      BY <1>1, <2>1, OrderlyFrame DEF Undisturbed
  <1>31. ASSUME CancelLook PROVE Undisturbed'
    <2>1. /\ UNCHANGED <<job, task, emitter, approved, queued, disturbed>>
          /\ \A q \in Runners : pc'[q] = "claiming" => pc[q] = "claiming" /\ picked'[q] = picked[q]
      BY <1>2, <1>31 DEF CancelLook
    <2> QED
      BY <1>1, <2>1, OrderlyFrame DEF Undisturbed
  <1>25. ASSUME CancelWrite PROVE Undisturbed'
    BY <1>25 DEF Undisturbed, CancelWrite
  <1>26. ASSUME RerunRead PROVE Undisturbed'
    <2>1. /\ UNCHANGED <<job, task, emitter, approved, queued, disturbed>>
          /\ \A q \in Runners : pc'[q] = "claiming" => pc[q] = "claiming" /\ picked'[q] = picked[q]
      BY <1>2, <1>26 DEF RerunRead
    <2> QED
      BY <1>1, <2>1, OrderlyFrame DEF Undisturbed
  <1>27. ASSUME RerunWrite PROVE Undisturbed'
    <2>1. PICK j \in op.todo : RerunJob(j)
      BY <1>27 DEF RerunWrite
    <2>2. disturbed' = TRUE \/ UNCHANGED <<job, disturbed>>
      BY <2>1 DEF RerunJob
    <2>3. UNCHANGED <<task, emitter, approved, queued, pc, picked>>
      BY <2>1 DEF RerunJob
    <2> QED
      BY <1>1, <2>2, <2>3, OrderlyFrame DEF Undisturbed
  <1>28. ASSUME OpFails PROVE Undisturbed'
    <2>1. /\ UNCHANGED <<job, task, emitter, approved, queued, disturbed>>
          /\ \A q \in Runners : pc'[q] = "claiming" => pc[q] = "claiming" /\ picked'[q] = picked[q]
      BY <1>2, <1>28 DEF OpFails
    <2> QED
      BY <1>1, <2>1, OrderlyFrame DEF Undisturbed
  <1>29. ASSUME Approve PROVE Undisturbed'
    <2>0. SUFFICES ASSUME disturbed # TRUE, Orderly PROVE Orderly'
      BY <1>1, <1>29 DEF Undisturbed, Approve

    <2>1. /\ SetStatuses([j \in Jobs |-> IF Needs[j] = {} /\ job[j].status = "blocked"
                                         THEN "waiting" ELSE job[j].status])
          /\ approved' = TRUE /\ UNCHANGED <<task, emitter, pc, picked>>
      BY <1>29 DEF Approve
    <2>2. \A j \in Jobs : /\ job'[j].task = job[j].task
                          /\ job'[j].status = IF Needs[j] = {} /\ job[j].status = "blocked"
                                              THEN "waiting" ELSE job[j].status
      BY <1>2, <2>1 DEF SetStatuses, SetJobs, Row
    <2>3. /\ emitter.pc = "idle" /\ \A j \in Jobs : job[j].status = "blocked"
          /\ \A q \in Runners : pc[q] # "claiming"
      BY <1>1, <2>0, <1>29 DEF Approve, Orderly, IInv, TypeOK, HandlersHold
    <2>4. \A t \in Tasks : task[t] # Unused => task[t].job \in Jobs
      BY <1>2 DEF TaskRow
    <2> QED
      BY <2>0, <2>1, <2>2, <2>3, <2>4 DEF Orderly
  <1>30. CASE UNCHANGED vars
    BY <1>1, <1>30 DEF Undisturbed, Orderly, vars, Unused
  <1> QED
    BY <1>1, <1>3, <1>4, <1>5, <1>6, <1>7, <1>8, <1>9, <1>10, <1>11, <1>12, <1>13, <1>14,
       <1>15, <1>16, <1>17, <1>18, <1>19, <1>20, <1>21, <1>22, <1>23, <1>24, <1>25, <1>26,
       <1>27, <1>28, <1>29, <1>30, <1>31 DEF Next, RunnerStep, EmitterStep, OpStep

LEMMA UndisturbedAlways == Spec => []Undisturbed
  <1>1. Init => Undisturbed
    <2>1. SUFFICES ASSUME Init PROVE Orderly
      BY DEF Undisturbed
    <2> QED
      BY <2>1 DEF Init, Orderly, Statuses
  <1> QED
    BY <1>1, UndisturbedStep, InvAlways, PTL DEF Spec

\* For any graph of needs: unless something was cancelled, abandoned or rerun, a job of an
\* approved run is not released before its needs are done, though the emitter decides on
\* statuses it read in an earlier transaction (job_emitter.go:47-69).
THEOREM NeedsAreRespected == Spec => []NeedsRespected
  <1>1. ASSUME IInv, Undisturbed PROVE NeedsRespected
    <2>1. CASE disturbed = TRUE
      BY <2>1, Zenon DEF NeedsRespected
    <2>2. CASE Orderly
      <3>1. CASE approved = TRUE
        BY <2>2, <3>1 DEF Orderly, NeedsRespected
      <3>2. CASE approved = FALSE
        BY <3>2, Zenon DEF NeedsRespected
      <3> QED
        BY <1>1, <3>1, <3>2 DEF IInv, TypeOK
    <2> QED
      BY <1>1, <2>1, <2>2 DEF Undisturbed
  <1> QED
    BY <1>1, InvAlways, UndisturbedAlways, PTL

-----------------------------------------------------------------------------
(* What releases a blocked job.                                            *)

\* Only a runner at work holds a task.
HeldAtWork ==
  \A r \in Runners : pc[r] \in {"idle", "fetching", "empty", "claiming"} => held[r] = 0

\* Job j is on its way: ReadyIsCovered, and the emitter read j as a blocked job.
OnItsWay(j) ==
  \/ queued = TRUE
  \/ emitter.pc = "popped"
  \/ emitter.pc = "checking" /\ emitter.seen[j] = "blocked" /\ NeedsDone(emitter.seen, j)
  \/ Owed

Covered == HeldAtWork /\ \A j \in Ready(Statuses) \ silent : OnItsWay(j)

LEMMA ReadyIs ==
  ASSUME NEW j
  PROVE  /\ j \in Ready(Statuses) <=>
              j \in Jobs /\ job[j].status = "blocked" /\ \A n \in Needs[j] : job[n].status \in Done
         /\ j \in Ready(Statuses') <=>
              j \in Jobs /\ job'[j].status = "blocked" /\ \A n \in Needs[j] : job'[n].status \in Done
         /\ Ready(Statuses)' = Ready(Statuses')
  BY NeedsAssumption DEF Ready, NeedsDone, Statuses

\* A report that is due stays due as long as the runners keep their tasks.
LEMMA OwedStays ==
  ASSUME TypeOK, Owed, held' = held,
         \A t \in Tasks : task[t].status \in Done => task'[t].status \in Done
  PROVE  Owed'
  <1>1. PICK r \in Runners : held[r] # 0 /\ task[held[r]].status \in Done
    BY DEF Owed
  <1>2. held[r] \in Tasks
    BY <1>1, BoundAssumption DEF TypeOK, Tasks
  <1> QED
    BY <1>1, <1>2 DEF Owed

\* A step that makes no job ready and takes no cover away.
LEMMA CoveredFrame ==
  ASSUME Covered, emitter' = emitter, queued = TRUE => queued' = TRUE, Owed => Owed', HeldAtWork',
         Ready(Statuses)' \ silent' \subseteq Ready(Statuses) \ silent
  PROVE  Covered'
  BY DEF Covered, OnItsWay

\* Cleaners and buttons: what they make ready is named in silent.
LEMMA QuietStep ==
  ASSUME TypeOK, Covered, Quietly, UNCHANGED <<pc, held, queued, emitter>>,
         \A t \in Tasks : task[t].status \in Done => task'[t].status \in Done
  PROVE  Covered'
  <1>1. Owed => Owed'
    BY OwedStays
  <1>2. HeldAtWork'
    BY DEF Covered, HeldAtWork
  <1>3. CASE Owed'
    BY <1>2, <1>3 DEF Covered, OnItsWay
  <1>4. CASE ~Owed'
    <2>1. silent' = silent \cup (Ready(Statuses') \ Ready(Statuses))
      BY <1>4 DEF Quietly
    <2>2. Ready(Statuses)' \ silent' \subseteq Ready(Statuses) \ silent
      BY <2>1, ReadyIs
    <2> QED
      BY <1>1, <1>2, <2>2, CoveredFrame
  <1> QED
    BY <1>3, <1>4

LEMMA CoveredStep == IInv /\ Covered /\ [Next]_vars => Covered'
  <1>1. SUFFICES ASSUME IInv, Covered, [Next]_vars PROVE Covered'
    OBVIOUS
  <1>2. /\ job \in [Jobs -> Row] /\ task \in [Tasks -> TaskRow] /\ picked \in [Runners -> Jobs \cup {0}]
        /\ held \in [Runners -> 0..MaxTasks] /\ emitter \in EmitterState /\ op \in Op
        /\ pc \in [Runners -> {"idle", "fetching", "empty", "claiming", "working", "writing", "reported"}]
        /\ Results \subseteq Done /\ MaxTasks \in Nat /\ Tasks \subseteq 0..MaxTasks /\ 0 \notin Tasks
    BY <1>1, ResultsAssumption, BoundAssumption DEF IInv, TypeOK, Tasks
  <1> USE NeedsAssumption, CanRunAssumption, ResultsAssumption, BoundAssumption
       DEF rows, versions, runner, history
  <1>3. ASSUME NEW r \in Runners, FetchTask(r) PROVE Covered'
    <2>1. /\ UNCHANGED <<job, task, held, silent, emitter, queued>>
          /\ \A q \in Runners : pc'[q] \in {"idle", "fetching", "empty", "claiming"} =>
                                  pc[q] \in {"idle", "fetching", "empty", "claiming"}
      BY <1>2, <1>3 DEF FetchTask
    <2> QED
      BY <1>1, <2>1 DEF Covered, HeldAtWork, OnItsWay, Owed, Ready, NeedsDone, Statuses
  <1>4. ASSUME NEW r \in Runners, PickJob(r) PROVE Covered'
    <2>1. /\ UNCHANGED <<job, task, held, silent, emitter, queued>>
          /\ \A q \in Runners : pc'[q] \in {"idle", "fetching", "empty", "claiming"} =>
                                  pc[q] \in {"idle", "fetching", "empty", "claiming"}
      BY <1>2, <1>4 DEF PickJob
    <2> QED
      BY <1>1, <2>1 DEF Covered, HeldAtWork, OnItsWay, Owed, Ready, NeedsDone, Statuses
  <1>5. ASSUME NEW r \in Runners, NothingWaits(r) PROVE Covered'
    <2>1. /\ UNCHANGED <<job, task, held, silent, emitter, queued>>
          /\ \A q \in Runners : pc'[q] \in {"idle", "fetching", "empty", "claiming"} =>
                                  pc[q] \in {"idle", "fetching", "empty", "claiming"}
      BY <1>2, <1>5 DEF NothingWaits
    <2> QED
      BY <1>1, <2>1 DEF Covered, HeldAtWork, OnItsWay, Owed, Ready, NeedsDone, Statuses
  <1>6. ASSUME NEW r \in Runners, AnswerNothing(r) PROVE Covered'
    <2>1. /\ UNCHANGED <<job, task, held, silent, emitter, queued>>
          /\ \A q \in Runners : pc'[q] \in {"idle", "fetching", "empty", "claiming"} =>
                                  pc[q] \in {"idle", "fetching", "empty", "claiming"}
      BY <1>2, <1>6 DEF AnswerNothing, NothingToDo
    <2> QED
      BY <1>1, <2>1 DEF Covered, HeldAtWork, OnItsWay, Owed, Ready, NeedsDone, Statuses
  <1>7. ASSUME NEW r \in Runners, ClaimJob(r) PROVE Covered'
    <2> DEFINE k == picked[r]
    <2>1. k \in Jobs /\ held[r] = 0
      BY <1>1, <1>7 DEF ClaimJob, IInv, HandlersHold, Covered, HeldAtWork
    <2>2. PICK t \in Tasks : /\ task[t] = Unused
                             /\ task' = [task EXCEPT ![t] = [job |-> k, status |-> "running"]]
                             /\ job' = [job EXCEPT ![k] = [status |-> "running", task |-> t]]
      BY <1>7 DEF ClaimJob
    <2> HIDE DEF k
    <2>3. /\ job'[k].status = "running" /\ \A j \in Jobs \ {k} : job'[j] = job[j]
          /\ \A u \in Tasks \ {t} : task'[u] = task[u]
      BY <1>2, <2>1, <2>2
    <2>4. UNCHANGED <<emitter, queued, silent>> /\ \A q \in Runners \ {r} : held'[q] = held[q] /\ pc'[q] = pc[q]
      BY <1>2, <1>7 DEF ClaimJob
    <2>5. (pc'[r] = "working" \/ held'[r] = held[r])
      BY <1>2, <1>7 DEF ClaimJob
    <2>6. HeldAtWork'
      BY <1>1, <2>1, <2>4, <2>5 DEF Covered, HeldAtWork
    <2>7. ASSUME Owed PROVE Owed'
      <3>1. PICK q \in Runners : held[q] # 0 /\ task[held[q]].status \in Done
        BY <2>7 DEF Owed
      <3>2. q # r /\ held[q] \in Tasks \ {t}
        BY <1>2, <2>1, <2>2, <3>1 DEF Unused, Done, Tasks
      <3> QED
        BY <2>3, <2>4, <3>1, <3>2 DEF Owed
    <2>8. ASSUME NEW j \in Ready(Statuses') PROVE j \in Ready(Statuses)
      BY <2>3, ReadyIs, NeedsAssumption DEF Done
    <2>9. Ready(Statuses)' \ silent' \subseteq Ready(Statuses) \ silent
      BY <2>4, <2>8, ReadyIs
    <2> QED
      BY <1>1, <2>4, <2>6, <2>7, <2>9, CoveredFrame
  <1>8. ASSUME NEW r \in Runners, LoseJob(r) PROVE Covered'
    <2>1. /\ UNCHANGED <<job, task, held, silent, emitter, queued>>
          /\ \A q \in Runners : pc'[q] \in {"idle", "fetching", "empty", "claiming"} =>
                                  pc[q] \in {"idle", "fetching", "empty", "claiming"}
      BY <1>2, <1>8 DEF LoseJob, NothingToDo
    <2> QED
      BY <1>1, <2>1 DEF Covered, HeldAtWork, OnItsWay, Owed, Ready, NeedsDone, Statuses
  <1>9. ASSUME NEW r \in Runners, ClaimFails(r) PROVE Covered'
    <2>1. /\ UNCHANGED <<job, task, held, silent, emitter, queued>>
          /\ \A q \in Runners : pc'[q] \in {"idle", "fetching", "empty", "claiming"} =>
                                  pc[q] \in {"idle", "fetching", "empty", "claiming"}
      BY <1>2, <1>9 DEF ClaimFails
    <2> QED
      BY <1>1, <2>1 DEF Covered, HeldAtWork, OnItsWay, Owed, Ready, NeedsDone, Statuses
  <1>10. ASSUME NEW r \in Runners, Report(r) PROVE Covered'
    <2>1. /\ UNCHANGED <<job, task, held, silent, emitter, queued>>
          /\ \A q \in Runners : pc'[q] \in {"idle", "fetching", "empty", "claiming"} =>
                                  pc[q] \in {"idle", "fetching", "empty", "claiming"}
      BY <1>2, <1>10 DEF Report
    <2> QED
      BY <1>1, <2>1 DEF Covered, HeldAtWork, OnItsWay, Owed, Ready, NeedsDone, Statuses
  <1>11. ASSUME NEW r \in Runners, WriteResult(r) PROVE Covered'
    <2>1. held[r] \in Tasks /\ result[r] \in Done
      BY <1>1, <1>2, <1>11 DEF WriteResult, IInv, HandlersHold
    <2>2. /\ task' = [task EXCEPT ![held[r]].status = result[r]] /\ held' = held
          /\ pc' = [pc EXCEPT ![r] = "reported"]
      BY <1>11 DEF WriteResult, EndTask
    <2>3. task'[held[r]].status = result[r]
      BY <1>2, <2>1, <2>2 DEF TaskRow, Unused
    <2>4. Owed'
      BY <1>2, <2>1, <2>2, <2>3 DEF Owed
    <2> QED
      BY <1>1, <1>2, <2>2, <2>4 DEF Covered, HeldAtWork, OnItsWay
  <1>12. ASSUME NEW r \in Runners, ReportFails(r) PROVE Covered'
    <2>1. /\ UNCHANGED <<job, task, held, silent, emitter, queued>>
          /\ \A q \in Runners : pc'[q] \in {"idle", "fetching", "empty", "claiming"} =>
                                  pc[q] \in {"idle", "fetching", "empty", "claiming"}
      BY <1>2, <1>12 DEF ReportFails
    <2> QED
      BY <1>1, <2>1 DEF Covered, HeldAtWork, OnItsWay, Owed, Ready, NeedsDone, Statuses
  <1>13. ASSUME NEW r \in Runners, Emit(r) PROVE Covered'
    <2>1. queued' = TRUE
      BY <1>13 DEF Emit
    <2>2. HeldAtWork'
      BY <1>1, <1>2, <1>13 DEF Emit, Answered, Covered, HeldAtWork
    <2> QED
      BY <2>1, <2>2 DEF Covered, OnItsWay
  <1>14. ASSUME NEW r \in Runners, EmitFails(r) PROVE Covered'
    <2>1. silent' = silent \cup Ready(Statuses) /\ Ready(Statuses') = Ready(Statuses)
      BY <1>14 DEF EmitFails, Answered, Statuses
    <2>2. HeldAtWork'
      BY <1>1, <1>2, <1>14 DEF EmitFails, Answered, Covered, HeldAtWork
    <2> QED
      BY <2>1, <2>2, ReadyIs DEF Covered
  <1>15. ASSUME NEW r \in Runners, RunnerDies(r) PROVE Covered'
    <2>1. /\ silent' = silent \cup (IF Owed THEN Ready(Statuses) ELSE {})
          /\ UNCHANGED <<emitter, queued>> /\ Ready(Statuses') = Ready(Statuses)
      BY <1>15 DEF RunnerDies, Answered, Statuses
    <2>2. HeldAtWork'
      BY <1>1, <1>2, <1>15 DEF RunnerDies, Answered, Covered, HeldAtWork
    <2>3. CASE Owed
      BY <2>1, <2>2, <2>3, ReadyIs DEF Covered
    <2>4. CASE ~Owed
      <3>1. Ready(Statuses)' \ silent' \subseteq Ready(Statuses) \ silent
        BY <2>1, <2>4, ReadyIs
      <3> QED
        BY <1>1, <2>1, <2>2, <2>4, <3>1, CoveredFrame
    <2> QED
      BY <2>3, <2>4
  <1>16. ASSUME EmitterPop PROVE Covered'
    <2>1. emitter'.pc = "popped"
      BY <1>2, <1>16 DEF EmitterPop, EmitterState
    <2>2. HeldAtWork'
      BY <1>1, <1>16 DEF EmitterPop, Covered, HeldAtWork
    <2> QED
      BY <2>1, <2>2 DEF Covered, OnItsWay
  <1>17. ASSUME EmitterRead PROVE Covered'
    <2>1. emitter'.pc = "checking" /\ emitter'.seen = Statuses'
      BY <1>17 DEF EmitterRead, Statuses
    <2>2. HeldAtWork'
      BY <1>1, <1>17 DEF EmitterRead, Covered, HeldAtWork
    <2> QED
      BY <2>1, <2>2 DEF Covered, OnItsWay, Ready, NeedsDone
  <1>18. ASSUME EmitterWrite PROVE Covered'
    <2> DEFINE s == emitter.seen  t == Resolve(s)
               u == {j \in Jobs : t[j] # s[j]}
    <2>1. /\ \A j \in u : job[j].status = "blocked"
          /\ SetStatuses([j \in Jobs |-> IF j \in u THEN t[j] ELSE job[j].status])
          /\ UNCHANGED <<task, queued, held, pc>> /\ emitter'.pc = "idle" /\ emitter.pc = "checking"
      BY <1>18 DEF EmitterWrite, EmitterDone
    <2>2. silent' = IF queued \/ Owed THEN silent
                    ELSE silent \cup ((Ready(Statuses') \ Ready(Statuses)) \cap Missed)
      BY <1>18 DEF EmitterWrite
    <2>3. s \in [Jobs -> Status] /\ Ready(t) = {}
      BY <1>2, ResolveComplete DEF EmitterState
    <2>4. \A j \in Jobs : t[j] \in {s[j], "waiting", "skipped"} /\ (t[j] # s[j] => s[j] = "blocked")
      BY <2>3, ResolveReleases
    <2>5. HeldAtWork' /\ (Owed => Owed')
      BY <1>1, <2>1 DEF Covered, HeldAtWork, Owed
    <2>6. CASE queued \/ Owed
      <3>1. queued' = TRUE \/ Owed'
        BY <1>1, <2>1, <2>5, <2>6, Zenon DEF IInv, TypeOK
      <3> QED
        BY <2>5, <3>1 DEF Covered, OnItsWay
    <2>7. CASE ~(queued \/ Owed)
      <3>1. silent' = silent \cup ((Ready(Statuses') \ Ready(Statuses)) \cap Missed) /\ queued # TRUE /\ ~Owed
        BY <2>2, <2>7
      <3> HIDE DEF u, t
      <3>2. \A j \in Jobs : job'[j].status = IF j \in u THEN t[j] ELSE job[j].status
        BY <1>2, <2>1 DEF SetStatuses, SetJobs, Row
      <3>3. ASSUME NEW j \in Ready(Statuses'), j \notin silent' PROVE FALSE
        <4>1. /\ j \in Jobs /\ job'[j].status = "blocked" /\ j \notin silent
              /\ \A n \in Needs[j] : n \in Jobs /\ job'[n].status \in Done
          BY <3>1, <3>3, ReadyIs, NeedsAssumption
        <4>2. j \notin u /\ job[j].status = "blocked"
          BY <2>4, <3>2, <4>1 DEF u
        <4>3. CASE j \in Ready(Statuses)
          <5>1. s[j] = "blocked" /\ NeedsDone(s, j)
            BY <1>1, <2>1, <3>1, <4>1, <4>3 DEF Covered, OnItsWay
          <5>2. t[j] = "blocked"
            BY <4>1, <4>2, <5>1 DEF u
          <5>3. NeedsDone(t, j)
            BY <2>4, <4>1, <5>1 DEF NeedsDone, Done
          <5> QED
            BY <2>3, <4>1, <5>2, <5>3 DEF Ready
        <4>4. CASE j \notin Ready(Statuses)
          <5>1. j \notin Missed
            BY <3>1, <3>3, <4>4
          <5>2. s[j] = "blocked" /\ \A n \in Needs[j] : job[n].status \in Done => s[n] \in Done
            BY <4>1, <5>1 DEF Missed
          <5>3. t[j] = "blocked"
            BY <4>1, <4>2, <5>2 DEF u
          <5>4. ASSUME NEW n \in Needs[j] PROVE t[n] \in Done
            <6>1. CASE n \in u
              BY <3>2, <4>1, <6>1
            <6>2. CASE n \notin u
              BY <3>2, <4>1, <5>2, <6>2 DEF u
            <6> QED
              BY <6>1, <6>2
          <5> QED
            BY <2>3, <4>1, <5>3, <5>4 DEF Ready, NeedsDone
        <4> QED
          BY <4>3, <4>4
      <3> QED
        BY <2>5, <3>3, ReadyIs DEF Covered
    <2> QED
      BY <2>6, <2>7
  <1>19. ASSUME EmitterFails PROVE Covered'
    <2>1. queued' = TRUE
      BY <1>2, <1>19 DEF EmitterFails, EmitterState
    <2>2. HeldAtWork'
      BY <1>1, <1>19 DEF EmitterFails, Covered, HeldAtWork
    <2> QED
      BY <2>1, <2>2 DEF Covered, OnItsWay
  <1>20. ASSUME NEW t \in Tasks, StopRead(t) PROVE Covered'
    <2>1. /\ UNCHANGED <<job, task, held, silent, emitter, queued>>
          /\ \A q \in Runners : pc'[q] \in {"idle", "fetching", "empty", "claiming"} =>
                                  pc[q] \in {"idle", "fetching", "empty", "claiming"}
      BY <1>2, <1>20 DEF StopRead
    <2> QED
      BY <1>1, <2>1 DEF Covered, HeldAtWork, OnItsWay, Owed, Ready, NeedsDone, Statuses
  <1>21. ASSUME StopWrite PROVE Covered'
    <2>1. Quietly /\ UNCHANGED <<pc, held, queued, emitter>>
      BY <1>21 DEF StopWrite
    <2>2. \A t \in Tasks : task[t].status \in Done => task'[t].status \in Done
      BY <1>2, <1>21 DEF StopWrite, EndTask, Done, TaskRow, Unused
    <2> QED
      BY <1>1, <2>1, <2>2, QuietStep DEF IInv
  <1>22. ASSUME AbandonRead PROVE Covered'
    <2>1. /\ UNCHANGED <<job, task, held, silent, emitter, queued>>
          /\ \A q \in Runners : pc'[q] \in {"idle", "fetching", "empty", "claiming"} =>
                                  pc[q] \in {"idle", "fetching", "empty", "claiming"}
      BY <1>2, <1>22 DEF AbandonRead
    <2> QED
      BY <1>1, <2>1 DEF Covered, HeldAtWork, OnItsWay, Owed, Ready, NeedsDone, Statuses
  <1>23. ASSUME AbandonWrite PROVE Covered'
    <2>1. Quietly /\ UNCHANGED <<pc, held, queued, emitter>>
      BY <1>23 DEF AbandonWrite
    <2>2. \A t \in Tasks : task[t].status \in Done => task'[t].status \in Done
      BY <1>23 DEF AbandonWrite
    <2> QED
      BY <1>1, <2>1, <2>2, QuietStep DEF IInv
  <1>24. ASSUME CancelRead PROVE Covered'
    <2>1. /\ UNCHANGED <<job, task, held, silent, emitter, queued>>
          /\ \A q \in Runners : pc'[q] \in {"idle", "fetching", "empty", "claiming"} =>
                                  pc[q] \in {"idle", "fetching", "empty", "claiming"}
      BY <1>2, <1>24 DEF CancelRead
    <2> QED
      BY <1>1, <2>1 DEF Covered, HeldAtWork, OnItsWay, Owed, Ready, NeedsDone, Statuses
  <1>31. ASSUME CancelLook PROVE Covered'
    <2>1. /\ UNCHANGED <<job, task, held, silent, emitter, queued>>
          /\ \A q \in Runners : pc'[q] \in {"idle", "fetching", "empty", "claiming"} =>
                                  pc[q] \in {"idle", "fetching", "empty", "claiming"}
      BY <1>2, <1>31 DEF CancelLook
    <2> QED
      BY <1>1, <2>1 DEF Covered, HeldAtWork, OnItsWay, Owed, Ready, NeedsDone, Statuses
  <1>25. ASSUME CancelWrite PROVE Covered'
    <2>1. Quietly /\ UNCHANGED <<pc, held, queued, emitter>>
      BY <1>25 DEF CancelWrite
    <2>2. \A t \in Tasks : task[t].status \in Done => task'[t].status \in Done
      BY <1>2, <1>25 DEF CancelWrite, Done, TaskRow, Unused
    <2> QED
      BY <1>1, <2>1, <2>2, QuietStep DEF IInv
  <1>26. ASSUME RerunRead PROVE Covered'
    <2>1. /\ UNCHANGED <<job, task, held, silent, emitter, queued>>
          /\ \A q \in Runners : pc'[q] \in {"idle", "fetching", "empty", "claiming"} =>
                                  pc[q] \in {"idle", "fetching", "empty", "claiming"}
      BY <1>2, <1>26 DEF RerunRead
    <2> QED
      BY <1>1, <2>1 DEF Covered, HeldAtWork, OnItsWay, Owed, Ready, NeedsDone, Statuses
  <1>27. ASSUME RerunWrite PROVE Covered'
    <2>1. Quietly /\ UNCHANGED <<pc, held, queued, emitter>>
      BY <1>27 DEF RerunWrite, RerunJob
    <2>2. \A t \in Tasks : task[t].status \in Done => task'[t].status \in Done
      BY <1>27 DEF RerunWrite, RerunJob
    <2> QED
      BY <1>1, <2>1, <2>2, QuietStep DEF IInv
  <1>28. ASSUME OpFails PROVE Covered'
    <2>1. /\ UNCHANGED <<job, task, held, silent, emitter, queued>>
          /\ \A q \in Runners : pc'[q] \in {"idle", "fetching", "empty", "claiming"} =>
                                  pc[q] \in {"idle", "fetching", "empty", "claiming"}
      BY <1>2, <1>28 DEF OpFails
    <2> QED
      BY <1>1, <2>1 DEF Covered, HeldAtWork, OnItsWay, Owed, Ready, NeedsDone, Statuses
  <1>29. ASSUME Approve PROVE Covered'
    <2>1. /\ SetStatuses([j \in Jobs |-> IF Needs[j] = {} /\ job[j].status = "blocked"
                                         THEN "waiting" ELSE job[j].status])
          /\ silent' = silent \ {j \in Jobs : Needs[j] = {}}
          /\ UNCHANGED <<task, emitter, pc, held, queued>>
      BY <1>29 DEF Approve
    <2>2. \A j \in Jobs : job'[j].status = IF Needs[j] = {} /\ job[j].status = "blocked"
                                           THEN "waiting" ELSE job[j].status
      BY <1>2, <2>1 DEF SetStatuses, SetJobs, Row
    <2>3. ASSUME NEW j \in Ready(Statuses'), j \notin silent' PROVE j \in Ready(Statuses) \ silent
      BY <2>1, <2>2, <2>3, ReadyIs, NeedsAssumption DEF Done
    <2>4. Ready(Statuses)' \ silent' \subseteq Ready(Statuses) \ silent
      BY <2>3, ReadyIs
    <2>5. HeldAtWork' /\ (Owed => Owed')
      BY <1>1, <2>1 DEF Covered, HeldAtWork, Owed
    <2> QED
      BY <1>1, <2>1, <2>4, <2>5, CoveredFrame
  <1>30. CASE UNCHANGED vars
    BY <1>1, <1>30 DEF Covered, HeldAtWork, OnItsWay, Owed, Ready, NeedsDone, vars, Statuses
  <1> QED
    BY <1>1, <1>3, <1>4, <1>5, <1>6, <1>7, <1>8, <1>9, <1>10, <1>11, <1>12, <1>13, <1>14,
       <1>15, <1>16, <1>17, <1>18, <1>19, <1>20, <1>21, <1>22, <1>23, <1>24, <1>25, <1>26,
       <1>27, <1>28, <1>29, <1>30, <1>31 DEF Next, RunnerStep, EmitterStep, OpStep

LEMMA CoveredAlways == Spec => []Covered
  <1>1. Init => Covered
    BY DEF Init, Covered, HeldAtWork
  <1> QED
    BY <1>1, CoveredStep, InvAlways, PTL DEF Spec

\* No order of reports, requeues, restarts and stale reads strands a job whose needs are
\* done, but for those the code never emits: the passes of Resolve are enough for any graph
\* of needs, and what the emitter missed is released by the item that is queued by then.
THEOREM ReadyOnItsWay == Spec => []ReadyIsCovered
  <1>1. ASSUME Covered PROVE ReadyIsCovered
    <2>1. ASSUME NEW j \in Ready(Statuses) \ silent, queued = TRUE PROVE queued
      BY <2>1, Zenon
    <2>2. ASSUME NEW j \in Ready(Statuses) \ silent
          PROVE  \/ queued
                 \/ emitter.pc = "popped"
                 \/ emitter.pc = "checking" /\ NeedsDone(emitter.seen, j)
                 \/ Owed
      <3>1. OnItsWay(j)
        BY <1>1 DEF Covered
      <3> QED
        BY <2>1, <3>1, Zenon DEF OnItsWay
    <2> QED
      BY <2>2, Zenon DEF ReadyIsCovered
  <1> QED
    BY <1>1, CoveredAlways, PTL
=============================================================================
