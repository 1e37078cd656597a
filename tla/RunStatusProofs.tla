-------------------------- MODULE RunStatusProofs --------------------------
(***************************************************************************)
(* What holds of the status of a run for every number of jobs, callers and *)
(* versions.                                                               *)
(***************************************************************************)
EXTENDS RunStatus, TLAPS
-----------------------------------------------------------------------------
LEMMA AggregateType == ASSUME NEW s PROVE Aggregate(s) \in Status
BY DEF Aggregate, Status

LEMMA ViewType == TypeOK => \A c \in Caller : JobsSeenBy(c) \in [Jobs -> Status]
BY DEF TypeOK, JobsSeenBy

LEMMA TypeInit == Init => TypeOK
<1> SUFFICES ASSUME Init PROVE TypeOK
  OBVIOUS
<1>1. {"waiting", "blocked"} \subseteq Status /\ job \in [Jobs -> Status]
  BY DEF Init, Status
<1>2. run \in Row /\ NoRow \in Row
  BY DEF Init, Row, NoRow, Status
<1>3. \A c \in Caller : written[c] = NoWrites /\ DOMAIN NoWrites = {}
  BY DEF Init, NoWrites
<1> QED BY <1>1, <1>2, <1>3 DEF Init, TypeOK

LEMMA TypeStep == TypeOK /\ [Next]_vars => TypeOK'
<1> SUFFICES ASSUME TypeOK, [Next]_vars PROVE TypeOK'
OBVIOUS
<1> USE CallerAssumption, WrittenAssumption, VersionAssumption
<1>1. CASE UNCHANGED vars
  BY <1>1 DEF vars, TypeOK
<1>2. ASSUME NEW c \in Caller, NEW j \in Jobs, NEW s \in Written, UpdateJob(c, j, s)
      PROVE TypeOK'
  <2>1. /\ job' \in [Jobs -> Status]
        /\ pc' \in [Caller -> {"idle", "updated", "loaded", "counted", "aggregated"}]
    BY <1>2 DEF UpdateJob, TypeOK
  <2>2. \A d \in Caller : /\ DOMAIN written'[d] \subseteq Jobs
                          /\ \A k \in DOMAIN written'[d] : written'[d][k] \in Status
    BY <1>2 DEF UpdateJob, TypeOK
  <2>3. written' = [d \in Caller |-> written'[d]]
    BY <1>2 DEF UpdateJob, TypeOK
  <2> QED BY <1>2, <2>1, <2>2, <2>3 DEF UpdateJob, TypeOK
<1>3. ASSUME NEW c \in Caller, LoadRun(c) PROVE TypeOK'
  BY <1>3 DEF LoadRun, TypeOK, RunSeenBy, Row
<1>4. ASSUME NEW c \in Caller, LoadJobs(c) PROVE TypeOK'
  BY <1>4, AggregateType DEF LoadJobs, TypeOK, Row
<1>5. ASSUME NEW c \in Caller, UpdateRun(c) PROVE TypeOK'
  <2>1. NextRow(c) \in Row /\ NoRow \in Row
    BY DEF NextRow, NoRow, Row, Status, TypeOK
  <2> QED BY <1>5, <2>1 DEF UpdateRun, TypeOK
<1>6. ASSUME NEW c \in Caller, Forget(c), UNCHANGED <<job, run>> \/ Commit(c),
             lost' \in BOOLEAN
      PROVE TypeOK'
  <2>1. job' \in [Jobs -> Status] /\ run' \in Row
    BY <1>6, ViewType DEF Commit, TypeOK, RunSeenBy
  <2>2. NoRow \in Row
    BY DEF NoRow, Row, Status
  <2>3. \A d \in Caller : /\ DOMAIN written'[d] \subseteq Jobs
                          /\ \A k \in DOMAIN written'[d] : written'[d][k] \in Status
    BY <1>6 DEF Forget, TypeOK, NoWrites
  <2>4. written' = [d \in Caller |-> written'[d]]
    BY <1>6 DEF Forget, TypeOK
  <2> QED BY <1>6, <2>1, <2>2, <2>3, <2>4 DEF Forget, TypeOK
<1>7. ASSUME NEW c \in Caller, Commit(c) PROVE TypeOK'
  BY <1>6, <1>7 DEF Commit, TypeOK
<1>8. ASSUME NEW c \in Caller, Abandon(c) PROVE TypeOK'
  BY <1>6, <1>8 DEF Abandon, TypeOK
<1>9. CASE TouchRun
  BY <1>9 DEF TouchRun, TypeOK, Row
<1> QED BY <1>1, <1>2, <1>3, <1>4, <1>5, <1>7, <1>8, <1>9 DEF Next

\* Every statement keeps the types, the status of a run stays one of the statuses.
THEOREM TypeCorrect == Spec => []TypeOK
<1> QED BY TypeInit, TypeStep, PTL DEF Spec
-----------------------------------------------------------------------------
\* No job row has two writers, and one transaction at most holds the run.
RowsHaveOneWriter ==
  \A c, d \in Caller : c # d =>
    /\ ~(c \in locked /\ d \in locked)
    /\ DOMAIN written[c] \cap DOMAIN written[d] = {}

\* What a caller holds at each of its statements.
Held ==
  \A c \in Caller :
    /\ pc[c] = "idle" => written[c] = NoWrites /\ c \notin locked
    /\ pc[c] = "aggregated" => c \in locked
    /\ c \in Unwrapped => written[c] = NoWrites /\ c \notin locked
    /\ c \in locked => row[c].version > run.version
    /\ pc[c] \in {"loaded", "counted"} => seen[c].version <= RunSeenBy(c).version

HalfwayBeside(c) == \E u \in Unwrapped \ {c} : pc[u] # "idle"

\* A count whose version is still current is the aggregate of what its caller sees.
Counts ==
  \A c \in Caller :
    /\ pc[c] = "counted" /\ seen[c].version = RunSeenBy(c).version =>
         lost \/ HalfwayBeside(c) \/ seen[c].status = Aggregate(JobsSeenBy(c))
    /\ pc[c] = "aggregated" =>
         lost \/ HalfwayBeside(c) \/ row[c].status = Aggregate(JobsSeenBy(c))

Inv == TypeOK /\ RowsHaveOneWriter /\ Held /\ Counts /\ RunIsAggregate

LEMMA InvInit == Init => Inv
<1> SUFFICES ASSUME Init PROVE Inv
  OBVIOUS
<1>1. RowsHaveOneWriter
  BY DEF Init, RowsHaveOneWriter, NoWrites
<1>2. Held /\ Counts
  BY CallerAssumption DEF Init, Held, Counts
<1>3. RunIsAggregate
  BY DEF Init, RunIsAggregate, Inserted
<1> QED BY TypeInit, <1>1, <1>2, <1>3 DEF Inv

LEMMA InvStep == Inv /\ [Next]_vars => Inv'
<1> SUFFICES ASSUME Inv, [Next]_vars PROVE Inv'
OBVIOUS
<1> USE CallerAssumption
<1>t. TypeOK'
  BY TypeStep DEF Inv
<1>1. CASE UNCHANGED vars
  BY <1>1, <1>t DEF vars, Inv, RowsHaveOneWriter, Held, Counts, HalfwayBeside, RunSeenBy,
       JobsSeenBy, RunIsAggregate, Halfway, Inserted, Aggregate
<1>2. ASSUME NEW c \in Caller, NEW j \in Jobs, NEW s \in Written, UpdateJob(c, j, s)
      PROVE Inv'
  <2>1. RowsHaveOneWriter'
    BY <1>2 DEF UpdateJob, Inv, TypeOK, RowsHaveOneWriter
  <2>2. Held'
    BY <1>2 DEF UpdateJob, Inv, TypeOK, Held, RunSeenBy, NoWrites
  <2>3. Counts'
    <3> SUFFICES ASSUME NEW d \in Caller, pc'[d] \in {"counted", "aggregated"}
        PROVE /\ pc'[d] = "counted" /\ seen'[d].version = RunSeenBy(d)'.version =>
                   (lost \/ HalfwayBeside(d) \/ seen[d].status = Aggregate(JobsSeenBy(d)))'
              /\ pc'[d] = "aggregated" =>
                   (lost \/ HalfwayBeside(d) \/ row[d].status = Aggregate(JobsSeenBy(d)))'
      BY DEF Counts
    <3>1. d # c /\ pc'[d] = pc[d]
      BY <1>2 DEF UpdateJob, Inv, TypeOK
    <3>2. CASE c \in Unwrapped
      BY <1>2, <3>1, <3>2 DEF UpdateJob, Inv, TypeOK, HalfwayBeside
    <3>3. CASE c \notin Unwrapped
      <4>1. JobsSeenBy(d)' = JobsSeenBy(d) /\ RunSeenBy(d)' = RunSeenBy(d)
        BY <1>2, <3>1, <3>3 DEF UpdateJob, Inv, TypeOK, JobsSeenBy, RunSeenBy
      <4>2. Aggregate(JobsSeenBy(d))' = Aggregate(JobsSeenBy(d))
        BY <4>1 DEF Aggregate
      <4>3. HalfwayBeside(d)' = HalfwayBeside(d)
        BY <1>2, <3>3 DEF UpdateJob, Inv, TypeOK, HalfwayBeside
      <4> QED BY <1>2, <3>1, <4>1, <4>2, <4>3 DEF UpdateJob, Inv, Counts
    <3> QED BY <3>2, <3>3
  <2>4. RunIsAggregate'
    <3>1. CASE c \in Unwrapped
      BY <1>2, <3>1 DEF UpdateJob, Inv, TypeOK, RunIsAggregate, Halfway
    <3>2. CASE c \notin Unwrapped
      BY <1>2, <3>2 DEF UpdateJob, Inv, TypeOK, RunIsAggregate, Halfway, Inserted, Aggregate
    <3> QED BY <3>1, <3>2
  <2> QED BY <1>t, <2>1, <2>2, <2>3, <2>4 DEF Inv
<1>3. ASSUME NEW c \in Caller, LoadRun(c) \/ LoadJobs(c) PROVE Inv'
  <2>1. RowsHaveOneWriter'
    BY <1>3 DEF LoadRun, LoadJobs, Inv, TypeOK, RowsHaveOneWriter
  <2>2. Held'
    BY <1>3 DEF LoadRun, LoadJobs, Inv, TypeOK, Held, RunSeenBy, Row
  <2>3. Counts'
    <3> SUFFICES ASSUME NEW d \in Caller
        PROVE /\ pc'[d] = "counted" /\ seen'[d].version = RunSeenBy(d)'.version =>
                   (lost \/ HalfwayBeside(d) \/ seen[d].status = Aggregate(JobsSeenBy(d)))'
              /\ pc'[d] = "aggregated" =>
                   (lost \/ HalfwayBeside(d) \/ row[d].status = Aggregate(JobsSeenBy(d)))'
      BY DEF Counts
    <3>1. JobsSeenBy(d)' = JobsSeenBy(d) /\ RunSeenBy(d)' = RunSeenBy(d)
      BY <1>3 DEF LoadRun, LoadJobs, JobsSeenBy, RunSeenBy
    <3>2. Aggregate(JobsSeenBy(d))' = Aggregate(JobsSeenBy(d))
      BY <3>1 DEF Aggregate
    <3>3. HalfwayBeside(d)' = HalfwayBeside(d)
      BY <1>3 DEF LoadRun, LoadJobs, Inv, TypeOK, HalfwayBeside
    <3>4. CASE d = c
      BY <1>3, <3>1, <3>2, <3>4 DEF LoadRun, LoadJobs, Inv, TypeOK, Row
    <3>5. CASE d # c
      BY <1>3, <3>1, <3>2, <3>3, <3>5 DEF LoadRun, LoadJobs, Inv, TypeOK, Counts
    <3> QED BY <3>4, <3>5
  <2>4. RunIsAggregate'
    BY <1>3 DEF LoadRun, LoadJobs, Inv, TypeOK, RunIsAggregate, Halfway, Inserted, Aggregate
  <2> QED BY <1>t, <2>1, <2>2, <2>3, <2>4 DEF Inv
<1>5. ASSUME NEW c \in Caller, UpdateRun(c) PROVE Inv'
  <2>0. /\ pc[c] = "counted" /\ locked \subseteq {c}
        /\ seen[c].version = RunSeenBy(c).version /\ seen[c].version \in Nat
        /\ run.version \in Nat /\ RunSeenBy(c).version >= run.version
        /\ \A d \in Caller : seen[d].version \in Nat
    BY <1>5 DEF UpdateRun, Inv, TypeOK, Row, RunSeenBy, Held
  <2>s. lost \/ HalfwayBeside(c) \/ seen[c].status = Aggregate(JobsSeenBy(c))
    BY <2>0 DEF Inv, Counts
  <2>1. RowsHaveOneWriter'
    BY <1>5 DEF UpdateRun, Inv, TypeOK, RowsHaveOneWriter
  <2>5. CASE c \in Unwrapped
    <3>1. /\ locked = {} /\ locked' = {} /\ row' = row /\ job' = job /\ written' = written
          /\ lost' = lost
          /\ run' = NextRow(c) /\ JobsSeenBy(c) = job
          /\ pc' = [pc EXCEPT ![c] = "idle"]
          /\ seen' = [seen EXCEPT ![c] = NoRow]
      BY <1>5, <2>0, <2>5 DEF UpdateRun, Inv, Held, JobsSeenBy, NoWrites, TypeOK
    <3>2. run'.version = run.version + 1 /\ run'.status = seen[c].status
      BY <2>0, <3>1 DEF NextRow, RunSeenBy
    <3>3. Held'
      <4>1. \A d \in Caller : d \notin locked /\ RunSeenBy(d) = run /\ RunSeenBy(d)' = run'
        BY <3>1 DEF RunSeenBy
      <4>2. \A d \in Caller : pc[d] \in {"loaded", "counted"} => seen[d].version <= run.version
        BY <4>1 DEF Inv, Held
      <4> QED BY <2>0, <2>5, <3>1, <3>2, <4>1, <4>2 DEF Inv, TypeOK, Held
    <3>4. Counts'
      BY <2>0, <3>1, <3>2 DEF Inv, TypeOK, Held, Counts, RunSeenBy
    <3>5. HalfwayBeside(c) => Halfway'
      BY <3>1 DEF HalfwayBeside, Halfway, Inv, TypeOK
    <3>6. RunIsAggregate'
      <4>1. Aggregate(job)' = Aggregate(JobsSeenBy(c))
        BY <3>1 DEF Aggregate
      <4> QED BY <2>s, <3>1, <3>2, <3>5, <4>1 DEF RunIsAggregate
    <3> QED BY <1>t, <2>1, <3>3, <3>4, <3>6 DEF Inv
  <2>6. CASE c \notin Unwrapped
    <3>1. /\ locked' = {c} /\ row' = [row EXCEPT ![c] = NextRow(c)] /\ run' = run
          /\ job' = job /\ written' = written /\ lost' = lost
          /\ pc' = [pc EXCEPT ![c] = "aggregated"]
          /\ seen' = [seen EXCEPT ![c] = NoRow]
      BY <1>5, <2>0, <2>6 DEF UpdateRun
    <3>2. row'[c].version = seen[c].version + 1 /\ row'[c].status = seen[c].status
      BY <3>1 DEF NextRow, Inv, TypeOK
    <3>3. Held'
      BY <2>0, <2>6, <3>1, <3>2 DEF Inv, TypeOK, Held, RunSeenBy
    <3>4. \A d \in Caller : HalfwayBeside(d)' = HalfwayBeside(d)
      BY <2>6, <3>1 DEF HalfwayBeside, Inv, TypeOK
    <3>5. \A d \in Caller : /\ JobsSeenBy(d)' = JobsSeenBy(d)
                            /\ Aggregate(JobsSeenBy(d))' = Aggregate(JobsSeenBy(d))
      BY <3>1 DEF JobsSeenBy, Aggregate
    <3>6. Counts'
      <4> SUFFICES ASSUME NEW d \in Caller
          PROVE /\ pc'[d] = "counted" /\ seen'[d].version = RunSeenBy(d)'.version =>
                     (lost \/ HalfwayBeside(d) \/ seen[d].status = Aggregate(JobsSeenBy(d)))'
                /\ pc'[d] = "aggregated" =>
                     (lost \/ HalfwayBeside(d) \/ row[d].status = Aggregate(JobsSeenBy(d)))'
        BY DEF Counts
      <4>1. CASE d = c
        BY <2>s, <3>1, <3>2, <3>4, <3>5, <4>1 DEF Inv, TypeOK
      <4>2. CASE d # c
        <5>1. /\ d \notin locked' /\ d \notin locked /\ pc'[d] = pc[d] /\ seen'[d] = seen[d]
              /\ row'[d] = row[d]
          BY <2>0, <3>1, <4>2 DEF Inv, TypeOK
        <5>2. RunSeenBy(d)' = RunSeenBy(d)
          BY <3>1, <5>1 DEF RunSeenBy
        <5> QED BY <3>1, <3>4, <3>5, <5>1, <5>2 DEF Inv, Counts
      <4> QED BY <4>1, <4>2
    <3>7. RunIsAggregate'
      BY <2>6, <3>1 DEF RunIsAggregate, Halfway, Inserted, Aggregate, Inv, TypeOK
    <3> QED BY <1>t, <2>1, <3>3, <3>6, <3>7 DEF Inv
  <2> QED BY <2>5, <2>6
<1>7. ASSUME NEW c \in Caller, Commit(c) PROVE Inv'
  <2>0. /\ c \in locked /\ c \notin Unwrapped /\ run' = row[c] /\ locked' = locked \ {c}
        /\ row[c].version > run.version /\ job' = JobsSeenBy(c) /\ lost' = lost
        /\ pc' = [pc EXCEPT ![c] = "idle"] /\ written' = [written EXCEPT ![c] = NoWrites]
        /\ row' = [row EXCEPT ![c] = NoRow] /\ seen' = [seen EXCEPT ![c] = NoRow]
    BY <1>7 DEF Commit, Forget, Inv, Held, RunSeenBy
  <2>1. locked' = {} /\ locked = {c}
    BY <2>0 DEF Inv, TypeOK, RowsHaveOneWriter
  <2>2. RowsHaveOneWriter'
    BY <2>0, <2>1 DEF Inv, TypeOK, RowsHaveOneWriter, NoWrites
  <2>3. run.version \in Nat /\ run'.version \in Nat /\ \A d \in Caller : seen[d].version \in Nat
    BY <2>0 DEF Inv, TypeOK, Row
  <2>4. Held'
    BY <2>0, <2>1, <2>3 DEF Inv, TypeOK, Held, RunSeenBy
  <2>5. Counts'
    BY <2>0, <2>1, <2>3 DEF Inv, TypeOK, Held, Counts, RunSeenBy
  <2>6. HalfwayBeside(c) => Halfway'
    BY <2>0 DEF HalfwayBeside, Halfway, Inv, TypeOK
  <2>7. Aggregate(job)' = Aggregate(JobsSeenBy(c))
    BY <2>0 DEF Aggregate
  <2>8. RunIsAggregate'
    BY <1>7, <2>0, <2>6, <2>7 DEF Commit, Inv, Counts, RunIsAggregate
  <2> QED BY <1>t, <2>2, <2>4, <2>5, <2>8 DEF Inv
<1>8. ASSUME NEW c \in Caller, Abandon(c) PROVE Inv'
  <2>0. /\ run' = run /\ job' = job /\ locked' = locked \ {c}
        /\ pc' = [pc EXCEPT ![c] = "idle"] /\ written' = [written EXCEPT ![c] = NoWrites]
        /\ row' = [row EXCEPT ![c] = NoRow] /\ seen' = [seen EXCEPT ![c] = NoRow]
        /\ lost' = (lost \/ c \in Unwrapped)
    BY <1>8 DEF Abandon, Forget
  <2>1. RowsHaveOneWriter'
    BY <2>0 DEF Inv, TypeOK, RowsHaveOneWriter, NoWrites
  <2>2. Held'
    BY <2>0 DEF Inv, TypeOK, Held, RunSeenBy
  <2>3. CASE c \in Unwrapped
    BY <1>t, <2>0, <2>1, <2>2, <2>3 DEF Inv, Counts, RunIsAggregate
  <2>4. CASE c \notin Unwrapped
    <3>1. Halfway' = Halfway /\ \A d \in Caller : HalfwayBeside(d)' = HalfwayBeside(d)
      BY <2>0, <2>4 DEF Halfway, HalfwayBeside, Inv, TypeOK
    <3>2. ASSUME NEW d \in Caller, d # c
          PROVE /\ RunSeenBy(d)' = RunSeenBy(d) /\ JobsSeenBy(d)' = JobsSeenBy(d)
                /\ pc'[d] = pc[d] /\ seen'[d] = seen[d] /\ row'[d] = row[d]
                /\ Aggregate(JobsSeenBy(d))' = Aggregate(JobsSeenBy(d))
      BY <2>0, <3>2 DEF RunSeenBy, JobsSeenBy, Aggregate, Inv, TypeOK
    <3>3. Counts'
      <4> SUFFICES ASSUME NEW d \in Caller
          PROVE /\ pc'[d] = "counted" /\ seen'[d].version = RunSeenBy(d)'.version =>
                     (lost \/ HalfwayBeside(d) \/ seen[d].status = Aggregate(JobsSeenBy(d)))'
                /\ pc'[d] = "aggregated" =>
                     (lost \/ HalfwayBeside(d) \/ row[d].status = Aggregate(JobsSeenBy(d)))'
        BY DEF Counts
      <4>1. CASE d = c
        BY <2>0, <4>1 DEF Inv, TypeOK
      <4>2. CASE d # c
        BY <2>0, <2>4, <3>1, <3>2, <4>2 DEF Inv, Counts
      <4> QED BY <4>1, <4>2
    <3>4. RunIsAggregate'
      BY <2>0, <2>4, <3>1 DEF Inv, RunIsAggregate, Inserted, Aggregate
    <3> QED BY <1>t, <2>1, <2>2, <3>3, <3>4 DEF Inv
  <2> QED BY <2>3, <2>4
<1>9. CASE TouchRun
  <2>0. /\ locked = {} /\ locked' = {} /\ run' = [run EXCEPT !.version = @ + 1]
        /\ UNCHANGED <<job, pc, written, row, seen, lost>>
    BY <1>9 DEF TouchRun
  <2>1. /\ run.version \in Nat /\ run'.version = run.version + 1 /\ run'.status = run.status
        /\ \A d \in Caller : seen[d].version \in Nat
    BY <2>0 DEF Inv, TypeOK, Row
  <2>2. RowsHaveOneWriter' /\ Held'
    BY <2>0, <2>1 DEF Inv, RowsHaveOneWriter, Held, RunSeenBy
  <2>3. Counts'
    BY <2>0, <2>1 DEF Inv, Held, Counts, RunSeenBy
  <2>4. RunIsAggregate'
    BY <2>0, <2>1 DEF Inv, RunIsAggregate, Halfway, Inserted, Aggregate
  <2> QED BY <1>t, <2>2, <2>3, <2>4 DEF Inv
<1> QED BY <1>1, <1>2, <1>3, <1>5, <1>7, <1>8, <1>9 DEF Next

\* The status of a run is the aggregate of its jobs, whatever the interleaving of
\* any number of callers, unless a caller without a transaction is between its
\* statements or gave up there.
THEOREM AggregateCorrect == Spec => []RunIsAggregate
<1>1. Inv => RunIsAggregate
  BY DEF Inv
<1> QED BY <1>1, InvInit, InvStep, PTL DEF Spec
=============================================================================
