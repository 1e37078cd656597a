-------------------------- MODULE WorkerPoolProofs --------------------------
(***************************************************************************)
(* What holds of the worker pool for all numbers of items, workers and     *)
(* flushers, all lengths and limits.                                       *)
(***************************************************************************)
EXTENDS WorkerPool, FiniteSetTheorems, TLAPS

Live == {w \in Worker : Alive(w)}

LEMMA LiveFinite == IsFiniteSet(Live) /\ Cardinality(Live) \in Nat
BY FiniteAssumption, FS_Subset, FS_CardinalityType, Live \subseteq Worker DEF Live

\* A step leaves the live workers and workerNum alone, or a worker ends and is counted off,
\* or one that is needed starts and is counted.
LEMMA LiveStep ==
    ASSUME TypeOK, [Next]_vars
    PROVE  \/ Live' = Live /\ workerNum' = workerNum
           \/ \E w \in Live : Live' = Live \ {w} /\ workerNum' = workerNum - 1
           \/ /\ NeedsWorker
              /\ \E w \in Worker \ Live : Live' = Live \cup {w} /\ workerNum' = workerNum + 1
<1> DEFINE Same == Live' = Live /\ workerNum' = workerNum
<1> USE DEF TypeOK, Live, Alive, poolVars, threadVars
<1>1. CASE UNCHANGED vars
  BY <1>1 DEF vars
<1>2. ASSUME Caller PROVE Same
  BY <1>2 DEF Caller, Push, PushStored, PushFailed, SetWorkerMaxNumber, ShutdownWait,
              FlushRequest, FlushGiveUp, RemoveAllItems, Cancel
<1>3. ASSUME Popper \/ PopError PROVE Same
  BY <1>3 DEF Popper, PopCheck, PopTake, PopRetry, PopError
<1>4. ASSUME NEW t \in Thread, HandlerReturn(t) \/ Requeue(t) PROVE Same
  BY <1>4 DEF Requeue, HandlerReturn, RequeueStored, RequeueMerged, RequeueLost
<1>5. ASSUME NEW w \in Worker, WorkerPark(w) PROVE Same
  BY <1>5 DEF WorkerPark
<1>6. ASSUME NEW w \in Worker, WorkerCancelled(w) \/ WorkerIdle(w)
      PROVE  w \in Live /\ Live' = Live \ {w} /\ workerNum' = workerNum - 1
  BY <1>6 DEF WorkerCancelled, WorkerIdle, StopWorking
<1>7. ASSUME RunSelect PROVE Same
  BY <1>7 DEF RunSelect, RunReceive, RunTimer, RunReturn, RunFlush, TakeFlush
<1>8. ASSUME NEW w \in Worker, DispatchSend(w) \/ BlockedSend(w) PROVE Same
  BY <1>8 DEF DispatchSend, BlockedSend, HandTo
<1>9. ASSUME DispatchEmpty \/ DispatchFull \/ BlockedCancelled \/ \E f \in Flusher : BlockedFlush(f)
      PROVE  Same
  BY <1>9 DEF DispatchEmpty, DispatchFull, BlockedCancelled, BlockedFlush, TakeFlush
<1>10. CASE DispatchStartWorker
  <2>1. CASE NeedsWorker
    <3>1. PICK w \in Worker : /\ ~Alive(w)
                              /\ workerPc' = [workerPc EXCEPT ![w] = "top"]
                              /\ workerNum' = workerNum + 1
      BY <1>10, <2>1 DEF DispatchStartWorker, StartNewWorker
    <3>2. w \in Worker \ Live /\ Live' = Live \cup {w}
      BY <3>1
    <3> QED BY <2>1, <3>1, <3>2
  <2>2. CASE ~NeedsWorker
    BY <1>10, <2>2 DEF DispatchStartWorker
  <2> QED BY <2>1, <2>2
<1>11. ASSUME Flush PROVE Same
  BY <1>11 DEF Flush, FlushCancelWorkers, FlushJoined, FlushHandle, FlushTick, FlushEnd
<1>12. ASSUME Shutdown \/ HandleRest PROVE Same
  BY <1>12 DEF Shutdown, CollectPopped, Collected, PutBackBegin, PutBackStored, PutBackMerged,
               PutBackExpired, PutBackFailed, PutBackLost, PutBackEnd, HandleRest, Join
<1> HIDE DEF Live
<1> QED BY <1>1, <1>2, <1>3, <1>4, <1>5, <1>6, <1>7, <1>8, <1>9, <1>10, <1>11, <1>12
        DEF Next, RunLoop, Dispatch, WorkerLoop

\* workerNum is changed by the run loop and by every worker, yet it always is the number of
\* workers that are alive.
LEMMA CountStep ==
    ASSUME TypeOK, WorkerCount, [Next]_vars
    PROVE  WorkerCount' /\ workerNum' \in Nat
<1>1. workerNum = Cardinality(Live) /\ workerNum \in Nat
  BY LiveFinite DEF WorkerCount, Live
<1>2. CASE Live' = Live /\ workerNum' = workerNum
  BY <1>1, <1>2 DEF WorkerCount, Live
<1>3. ASSUME NEW w \in Live, Live' = Live \ {w}, workerNum' = workerNum - 1
      PROVE  workerNum' = Cardinality(Live') /\ workerNum' \in Nat
  <2>1. Cardinality(Live \ {w}) = Cardinality(Live) - 1 /\ Cardinality(Live \ {w}) \in Nat
    BY LiveFinite, FS_RemoveElement, FS_CardinalityType
  <2> QED BY <1>1, <1>3, <2>1
<1>4. ASSUME NEW w \in Worker \ Live, Live' = Live \cup {w}, workerNum' = workerNum + 1
      PROVE  workerNum' = Cardinality(Live') /\ workerNum' \in Nat
  <2>1. Cardinality(Live \cup {w}) = Cardinality(Live) + 1
    BY LiveFinite, FS_AddElement
  <2> QED BY <1>1, <1>4, <2>1
<1> QED BY <1>2, <1>3, <1>4, LiveStep DEF WorkerCount, Live

\* The base queue never exceeds its length: whoever stores an item, a caller, a worker that
\* requeues or the run loop at shutdown, does so in the step that found room.
LEMMA BaseStep ==
    ASSUME TypeOK, [Next]_vars
    PROVE  base' \subseteq Item /\ Cardinality(base') <= Length
<1>1. IsFiniteSet(base) /\ Cardinality(base) \in Nat /\ Length \in Nat
  BY FiniteAssumption, NumberAssumption, FS_Subset, FS_CardinalityType DEF TypeOK
<1>2. CASE base' = base
  BY <1>2 DEF TypeOK
<1>3. ASSUME NEW x \in Item, Room, base' = base \cup {x}
      PROVE  base' \subseteq Item /\ Cardinality(base') <= Length
  <2>1. Cardinality(base') <= Cardinality(base) + 1
    BY <1>1, <1>3, FS_AddElement
  <2>2. Cardinality(base') \in Nat
    BY <1>1, <1>3, FS_AddElement, FS_CardinalityType
  <2> QED BY <1>1, <1>3, <2>1, <2>2 DEF Room, TypeOK
<1>4. ASSUME base' \subseteq base
      PROVE  base' \subseteq Item /\ Cardinality(base') <= Length
  <2>1. Cardinality(base') <= Cardinality(base) /\ Cardinality(base') \in Nat
    BY <1>1, <1>4, FS_Subset, FS_CardinalityType
  <2> QED BY <1>1, <1>4, <2>1 DEF TypeOK
<1>5. base' = base \/ base' \subseteq base \/ \E x \in Item : Room /\ base' = base \cup {x}
  <2> USE DEF worldVars, baseVars
  <2>1. CASE UNCHANGED vars
    BY <2>1 DEF vars
  <2>2. CASE Caller
    BY <2>2 DEF Caller, Push, PushStored, PushFailed, SetWorkerMaxNumber, ShutdownWait,
                FlushRequest, FlushGiveUp, RemoveAllItems, Cancel
  <2>3. CASE Popper \/ PopError
    BY <2>3 DEF Popper, PopCheck, PopTake, PopRetry, PopError
  <2>4. ASSUME NEW t \in Thread, HandlerReturn(t) PROVE base' = base
    BY <2>4 DEF HandlerReturn
  <2>5. ASSUME NEW t \in Thread, Requeue(t)
        PROVE  base' = base \/ \E x \in Item : Room /\ base' = base \cup {x}
    BY <2>5 DEF Requeue, RequeueStored, RequeueMerged, RequeueLost
  <2>6. ASSUME NEW w \in Worker, WorkerLoop(w) \/ WorkerIdle(w) PROVE base' = base
    BY <2>6 DEF WorkerLoop, WorkerPark, WorkerCancelled, WorkerIdle, StopWorking
  <2>7. CASE RunSelect
    BY <2>7 DEF RunSelect, RunReceive, RunTimer, RunReturn, RunFlush
  <2>8. CASE Dispatch
    BY <2>8 DEF Dispatch, DispatchEmpty, DispatchFull, DispatchStartWorker, BlockedCancelled,
                DispatchSend, BlockedSend, BlockedFlush
  <2>9. CASE Flush
    BY <2>9 DEF Flush, FlushCancelWorkers, FlushJoined, FlushHandle, FlushTick, FlushEnd
  <2>10. CASE Shutdown \/ HandleRest
    BY <2>10 DEF Shutdown, CollectPopped, Collected, PutBackBegin, PutBackStored,
                 PutBackMerged, PutBackExpired, PutBackFailed, PutBackLost, PutBackEnd,
                 HandleRest, Join
  <2> QED BY <2>1, <2>2, <2>3, <2>4, <2>5, <2>6, <2>7, <2>8, <2>9, <2>10 DEF Next, RunLoop
<1> QED BY <1>2, <1>3, <1>4, <1>5

LEMMA TypeStep == TypeOK /\ WorkerCount /\ [Next]_vars => TypeOK'
<1> SUFFICES ASSUME TypeOK, WorkerCount, [Next]_vars PROVE TypeOK'
  OBVIOUS
<1>0. /\ base' \subseteq Item /\ Cardinality(base') <= Length
      /\ workerNum' \in Nat
  BY BaseStep, CountStep
<1>a. Run \in Thread /\ Worker \subseteq Thread
  BY DEF Thread
<1> USE <1>0, <1>a DEF TypeOK, worldVars, threadVars, runVars, baseVars, popVars, ctxVars,
        fateVars, poolVars, handlerVars, dispatchVars
<1>1. CASE UNCHANGED vars
  BY <1>1 DEF vars
<1>2. CASE Caller
  <2>1. ASSUME NEW x \in Item, Push(x) \/ PushStored(x) \/ PushFailed(x) PROVE TypeOK'
    BY <2>1 DEF Push, PushStored, PushFailed
  <2>2. ASSUME NEW n \in AdminMax, SetWorkerMaxNumber(n) PROVE TypeOK'
    BY <2>2, NumberAssumption DEF SetWorkerMaxNumber
  <2>3. ASSUME NEW d \in ShutdownTimeouts, ShutdownWait(d) PROVE TypeOK'
    BY <2>3, NumberAssumption DEF ShutdownWait
  <2>4. ASSUME NEW f \in Flusher, FlushRequest(f) \/ FlushGiveUp(f) PROVE TypeOK'
    BY <2>4 DEF FlushRequest, FlushGiveUp
  <2>5. CASE RemoveAllItems
    BY <2>5 DEF RemoveAllItems
  <2>6. CASE Cancel
    BY <2>6 DEF Cancel
  <2> QED BY <1>2, <2>1, <2>2, <2>3, <2>4, <2>5, <2>6 DEF Caller
<1>3. CASE Popper \/ PopError
  BY <1>3 DEF Popper, PopCheck, PopTake, PopRetry, PopError
<1>4. ASSUME NEW t \in Thread, HandlerReturn(t) PROVE TypeOK'
  <2>1. PICK failed \in SUBSET inHandler[t] :
          /\ Cardinality(failed) <= failsLeft
          /\ unhandled' = [unhandled EXCEPT ![t] = failed]
          /\ handled' = handled \cup (inHandler[t] \ failed)
          /\ failsLeft' = failsLeft - Cardinality(failed)
    BY <1>4 DEF HandlerReturn
  <2>2. failed \subseteq Item /\ Cardinality(failed) \in Nat
    BY FiniteAssumption, FS_Subset, FS_CardinalityType
  <2>3. failsLeft' \in 0..FailBudget
    BY <2>1, <2>2, NumberAssumption
  <2> QED BY <1>4, <2>1, <2>2, <2>3 DEF HandlerReturn
<1>5. ASSUME NEW t \in Thread, Requeue(t) PROVE TypeOK'
  BY <1>5 DEF Requeue, RequeueStored, RequeueMerged, RequeueLost
<1>6. ASSUME NEW w \in Worker, WorkerLoop(w) \/ WorkerIdle(w) PROVE TypeOK'
  BY <1>6 DEF WorkerLoop, WorkerPark, WorkerCancelled, WorkerIdle, StopWorking
<1>7. CASE RunSelect
  BY <1>7 DEF RunSelect, RunReceive, RunTimer, RunReturn, RunFlush, TakeFlush, TakePopped
<1>8. CASE Dispatch
  <2>1. CASE DispatchEmpty \/ DispatchFull \/ BlockedCancelled
    BY <2>1 DEF DispatchEmpty, DispatchFull, BlockedCancelled, Dispatched
  <2>2. CASE DispatchStartWorker
    BY <2>2 DEF DispatchStartWorker, StartNewWorker, Dispatched
  <2>3. ASSUME NEW w \in Worker, DispatchSend(w) \/ BlockedSend(w) PROVE TypeOK'
    BY <2>3 DEF DispatchSend, BlockedSend, HandTo, Dispatched
  <2>4. ASSUME NEW f \in Flusher, BlockedFlush(f) PROVE TypeOK'
    BY <2>4 DEF BlockedFlush, TakeFlush
  <2> QED BY <1>8, <2>1, <2>2, <2>3, <2>4 DEF Dispatch
<1>9. CASE Flush
  <2>1. CASE FlushCancelWorkers
    BY <2>1 DEF FlushCancelWorkers
  <2>5. CASE FlushJoined
    BY <2>5 DEF FlushJoined
  <2>2. CASE FlushHandle
    BY <2>2 DEF FlushHandle, TakePopped
  <2>3. CASE FlushTick
    <3>1. emptyCounter' \in 0..2
      BY <2>3 DEF FlushTick
    <3> QED BY <2>3, <3>1 DEF FlushTick
  <2>4. CASE FlushEnd
    <3>1. flushPc' \in [Flusher -> {"idle", "sending", "waiting", "done", "failed"}]
      BY <2>4 DEF FlushEnd, CloseFlush
    <3>2. emptyCounter' \in 0..2
      BY <2>4 DEF FlushEnd
    <3> QED BY <2>4, <3>1, <3>2 DEF FlushEnd
  <2> QED BY <1>9, <2>1, <2>2, <2>3, <2>4, <2>5 DEF Flush
<1>10. CASE Shutdown \/ HandleRest
  BY <1>10 DEF Shutdown, CollectPopped, Collected, PutBackBegin, PutBackStored, PutBackMerged,
               PutBackExpired, PutBackFailed, PutBackLost, PutBackEnd, HandleRest, Join,
               TakePopped
<1> QED BY <1>1, <1>2, <1>3, <1>4, <1>5, <1>6, <1>7, <1>8, <1>9, <1>10 DEF Next, RunLoop

LEMMA TypeInit == Init => TypeOK /\ WorkerCount
<1> SUFFICES ASSUME Init PROVE TypeOK /\ WorkerCount
  OBVIOUS
<1>1. {w \in Worker : Alive(w)} = {}
  BY DEF Init, Alive
<1>2. WorkerCount
  BY <1>1, FS_EmptySet DEF WorkerCount, Init
<1>3. TypeOK
  <2>1. base \subseteq Item /\ Cardinality(base) <= Length
    BY FS_EmptySet, NumberAssumption DEF Init
  <2>2. /\ workerNum \in Nat /\ workerMaxNum \in Int /\ failsLeft \in 0..FailBudget
        /\ shutdownTimeout \in Nat /\ emptyCounter \in 0..2
    BY NumberAssumption DEF Init, DefaultTimeout
  <2>3. /\ workerPc \in [Worker -> {"none", "top", "parked"}]
        /\ inHandler \in [Thread -> SUBSET Item] /\ unhandled \in [Thread -> SUBSET Item]
        /\ flushPc \in [Flusher -> {"idle", "sending", "waiting", "done", "failed"}]
    BY DEF Init
  <2> QED BY <2>1, <2>2, <2>3 DEF Init, TypeOK
<1> QED BY <1>2, <1>3

LEMMA TypeAndCount == Spec => [](TypeOK /\ WorkerCount)
BY TypeInit, TypeStep, CountStep, PTL DEF Spec

\* Every step keeps the types; in particular the base queue never exceeds its length.
THEOREM TypeCorrect == Spec => []TypeOK
BY TypeAndCount, PTL

\* However the run loop and the workers interleave, workerNum counts the live workers.
THEOREM WorkersCounted == Spec => []WorkerCount
BY TypeAndCount, PTL

\* SetWorkerMaxNumber may be called at any moment, but a worker is started only below the
\* limit of that moment, or as the first one.
THEOREM WorkersLimited == Spec => []WorkerLimit
<1> DEFINE Inv == WorkerLimit /\ workerMaxNum \in AdminMax \cup {MaxWorkers}
<1>1. Init => Inv
  BY DEF Init, WorkerLimit
<1>2. TypeOK /\ Inv /\ [Next]_vars => Inv'
  <2> SUFFICES ASSUME TypeOK, Inv, [Next]_vars PROVE Inv'
    OBVIOUS
  <2>1. workerMaxNum' \in AdminMax \cup {MaxWorkers}
    <3> USE DEF threadVars, poolVars
    <3>1. CASE UNCHANGED vars
      BY <3>1 DEF vars
    <3>2. CASE Caller
      BY <3>2 DEF Caller, Push, PushStored, PushFailed, SetWorkerMaxNumber, ShutdownWait,
                  FlushRequest, FlushGiveUp, RemoveAllItems, Cancel
    <3>3. CASE Popper \/ PopError
      BY <3>3 DEF Popper, PopCheck, PopTake, PopRetry, PopError
    <3>4. ASSUME NEW t \in Thread, HandlerReturn(t) \/ Requeue(t)
          PROVE  workerMaxNum' = workerMaxNum
      BY <3>4 DEF Requeue, HandlerReturn, RequeueStored, RequeueMerged, RequeueLost
    <3>5. ASSUME NEW w \in Worker, WorkerLoop(w) \/ WorkerIdle(w)
          PROVE  workerMaxNum' = workerMaxNum
      BY <3>5 DEF WorkerLoop, WorkerPark, WorkerCancelled, WorkerIdle, StopWorking
    <3>6. CASE RunSelect
      BY <3>6 DEF RunSelect, RunReceive, RunTimer, RunReturn, RunFlush
    <3>7. CASE Dispatch
      BY <3>7 DEF Dispatch, DispatchEmpty, DispatchFull, DispatchStartWorker,
                  BlockedCancelled, DispatchSend, BlockedSend, BlockedFlush
    <3>8. CASE Flush
      BY <3>8 DEF Flush, FlushCancelWorkers, FlushJoined, FlushHandle, FlushTick, FlushEnd
    <3>9. CASE Shutdown \/ HandleRest
      BY <3>9 DEF Shutdown, CollectPopped, Collected, PutBackBegin, PutBackStored,
                  PutBackMerged, PutBackExpired, PutBackFailed, PutBackLost, PutBackEnd,
                  HandleRest, Join
    <3> QED BY <3>1, <3>2, <3>3, <3>4, <3>5, <3>6, <3>7, <3>8, <3>9 DEF Next, RunLoop
  <2>2. \/ workerNum' = workerNum \/ workerNum' = workerNum - 1
        \/ NeedsWorker /\ workerNum' = workerNum + 1
    BY LiveStep
  <2>3. CASE workerNum' = workerNum \/ workerNum' = workerNum - 1
    BY <2>1, <2>3, NumberAssumption DEF WorkerLimit, TypeOK
  <2>4. CASE NeedsWorker /\ workerNum' = workerNum + 1
    <3>1. workerNum' <= workerMaxNum \/ workerNum' <= 1
      BY <2>4 DEF NeedsWorker, TypeOK
    <3> QED BY <2>1, <3>1 DEF WorkerLimit
  <2> QED BY <2>2, <2>3, <2>4
<1>3. Inv => WorkerLimit
  OBVIOUS
<1> QED BY <1>1, <1>2, <1>3, TypeCorrect, PTL DEF Spec
-----------------------------------------------------------------------------
\* Where the run loop, the pop goroutine and the workers can hold something.
ControlInv ==
    /\ ctxWorkerDone => runPc \in {"flushWait", "flushDrain"}
    /\ runPc \in {"startWorker", "blocked"} => buffer = {}
    /\ runPc \in {"flush", "flushWait", "flushDrain"} => buffer = {} \/ ctxDone
    /\ runPc \in {"startWorker", "blocked"} \/ batch = {}
    /\ runPc \in {"join", "stopped"} => buffer = {}
    /\ popPc = "send" \/ popItem = {}
    /\ runPc \in {"putBack", "putBackNext", "putBackExpired", "handleRest", "join", "stopped"}
         => popPc = "closed"
    /\ runPc \in {"flush", "flushDrain"} \/ Free(Run)
    /\ \A w \in Worker : workerPc[w] = "top" \/ Free(w)
    /\ \A t \in Thread : inHandler[t] = {} \/ unhandled[t] = {}
    /\ runPc = "flushDrain" => \A w \in Worker : ~Alive(w)
    /\ runPc \in {"collect", "putBack", "putBackNext", "putBackExpired", "handleRest", "join",
                  "stopped"} => ctxDone
    /\ BlockedHasWorker
    /\ BufferHasTimer

LEMMA SomeAlive == TypeOK /\ WorkerCount /\ workerNum # 0 => \E w \in Worker : Alive(w)
<1> SUFFICES ASSUME WorkerCount, workerNum # 0, Live = {} PROVE FALSE
  BY DEF Live
<1> QED BY FS_EmptySet DEF WorkerCount, Live

\* A worker that stops because workerNum > 1 is not the last one.
LEMMA OneLeft ==
    ASSUME TypeOK, WorkerCount, workerNum > 1, NEW w \in Worker
    PROVE  \E v \in Worker : v # w /\ Alive(v)
<1>1. Cardinality(Live) > 1
  BY DEF WorkerCount, Live
<1>2. Cardinality({w}) = 1 /\ IsFiniteSet({w})
  BY FS_Singleton
<1>3. ~(Live \subseteq {w})
  BY <1>1, <1>2, LiveFinite, FS_Subset
<1> QED BY <1>3 DEF Live

LEMMA ControlInit == Init => ControlInv
BY DEF Init, ControlInv, BlockedHasWorker, BufferHasTimer, Free, Alive, Thread

LEMMA ControlStep == TypeOK /\ WorkerCount /\ ControlInv /\ [Next]_vars => ControlInv'
<1> SUFFICES ASSUME TypeOK, WorkerCount, ControlInv, [Next]_vars PROVE ControlInv'
  OBVIOUS
<1>a. /\ Run \in Thread /\ Worker \subseteq Thread /\ Run \notin Worker
      /\ \A t \in Thread : t \in Worker \/ t = Run
  BY RunAssumption DEF Thread
<1> USE <1>a DEF TypeOK, ControlInv, BlockedHasWorker, BufferHasTimer, Free, Alive, worldVars,
        threadVars, runVars, baseVars, popVars, ctxVars, fateVars, poolVars, handlerVars,
        dispatchVars
<1>1. CASE UNCHANGED vars
  BY <1>1 DEF vars
<1>2. CASE Caller
  BY <1>2 DEF Caller, Push, PushStored, PushFailed, SetWorkerMaxNumber, ShutdownWait,
              FlushRequest, FlushGiveUp, RemoveAllItems, Cancel
<1>3. CASE Popper \/ PopError
  BY <1>3 DEF Popper, PopCheck, PopTake, PopRetry, PopError
<1>4. ASSUME NEW t \in Thread, HandlerReturn(t) PROVE ControlInv'
  BY <1>4 DEF HandlerReturn
<1>5. ASSUME NEW t \in Thread, Requeue(t) PROVE ControlInv'
  BY <1>5 DEF Requeue, RequeueStored, RequeueMerged, RequeueLost
<1>6. ASSUME NEW w \in Worker, WorkerLoop(w) PROVE ControlInv'
  BY <1>6 DEF WorkerLoop, WorkerPark, WorkerCancelled, StopWorking, WorkerCtxDone
<1>11. ASSUME NEW w \in Worker, WorkerIdle(w) PROVE ControlInv'
  <2>1. PICK v \in Worker : v # w /\ Alive(v)
    BY <1>11, OneLeft DEF WorkerIdle
  <2>2. Alive(v)'
    BY <1>11, <2>1 DEF WorkerIdle, StopWorking
  <2> QED BY <1>11, <2>2 DEF WorkerIdle, StopWorking
<1>7. CASE RunSelect
  BY <1>7 DEF RunSelect, RunReceive, RunTimer, RunReturn, RunFlush, TakeFlush, TakePopped
<1>8. CASE Dispatch
  <2>1. CASE DispatchEmpty \/ DispatchFull \/ BlockedCancelled
    BY <2>1 DEF DispatchEmpty, DispatchFull, BlockedCancelled, Dispatched
  <2>2. CASE DispatchStartWorker
    <3>1. batch # {} => \E w \in Worker : Alive(w)'
      <4>1. CASE NeedsWorker
        BY <2>2, <4>1 DEF DispatchStartWorker, StartNewWorker
      <4>2. CASE ~NeedsWorker /\ batch # {}
        <5>1. workerNum # 0
          BY <4>2 DEF NeedsWorker
        <5>2. PICK w \in Worker : Alive(w)
          BY <5>1, SomeAlive
        <5> QED BY <2>2, <4>2, <5>2 DEF DispatchStartWorker
      <4> QED BY <4>1, <4>2
    <3>2. CASE NeedsWorker
      <4>1. PICK w \in Worker : /\ ~Alive(w)
                                /\ workerPc' = [workerPc EXCEPT ![w] = "top"]
        BY <2>2, <3>2 DEF DispatchStartWorker, StartNewWorker
      <4> QED BY <2>2, <3>1, <4>1 DEF DispatchStartWorker, Dispatched
    <3>3. CASE ~NeedsWorker
      BY <2>2, <3>1, <3>3 DEF DispatchStartWorker, Dispatched
    <3> QED BY <3>2, <3>3
  <2>3. ASSUME NEW w \in Worker, DispatchSend(w) \/ BlockedSend(w) PROVE ControlInv'
    BY <2>3 DEF DispatchSend, BlockedSend, HandTo, Dispatched
  <2>4. ASSUME NEW f \in Flusher, BlockedFlush(f) PROVE ControlInv'
    BY <2>4 DEF BlockedFlush, TakeFlush
  <2> QED BY <1>8, <2>1, <2>2, <2>3, <2>4 DEF Dispatch
<1>9. CASE Flush
  BY <1>9 DEF Flush, FlushCancelWorkers, FlushJoined, FlushHandle, FlushTick, FlushEnd,
              TakePopped
<1>10. CASE Shutdown \/ HandleRest
  BY <1>10 DEF Shutdown, CollectPopped, Collected, PutBackBegin, PutBackStored, PutBackMerged,
               PutBackExpired, PutBackFailed, PutBackLost, PutBackEnd, HandleRest, Join,
               TakePopped
<1> QED BY <1>1, <1>2, <1>3, <1>4, <1>5, <1>6, <1>7, <1>8, <1>9, <1>10, <1>11 DEF Next, RunLoop

LEMMA Control == Spec => [](TypeOK /\ WorkerCount /\ ControlInv)
<1>1. Init => TypeOK /\ WorkerCount /\ ControlInv
  BY TypeInit, ControlInit
<1>2. TypeOK /\ WorkerCount /\ ControlInv /\ [Next]_vars
        => TypeOK' /\ WorkerCount' /\ ControlInv'
  BY TypeStep, CountStep, ControlStep
<1> QED BY <1>1, <1>2, PTL DEF Spec

\* A batch the run loop could not send at once is never left without a worker: the test for
\* a free worker and the decision to start one are separate steps, but the last worker does
\* not stop and a flush cannot begin in between.
THEOREM NoBatchStranded == Spec => []BlockedHasWorker
<1>1. ControlInv => BlockedHasWorker
  BY DEF ControlInv
<1> QED BY <1>1, Control, PTL

\* Items that wait for a full batch are dispatched without another push.
THEOREM NoBufferStranded == Spec => []BufferHasTimer
<1>1. ControlInv => BufferHasTimer
  BY DEF ControlInv
<1> QED BY <1>1, Control, PTL

\* A shutdown never ends while the run loop or the pop goroutine holds an item.
THEOREM ShutdownLeavesNothing == Spec => []StoppedHoldsNothing
<1>1. ControlInv => StoppedHoldsNothing
  BY DEF ControlInv, StoppedHoldsNothing
<1> QED BY <1>1, Control, PTL

\* FlushWithContext returns nil only when no worker is alive, no handler runs, and the run
\* loop holds nothing: only doFlush answers a request, after it has joined the workers.
THEOREM FlushSynchronous == Spec => FlushIsSynchronous
<1> DEFINE Answered == \E f \in Flusher : flushPc[f] = "waiting" /\ flushPc'[f] = "done"
<1>1. ASSUME TypeOK, [Next]_vars, Answered PROVE FlushEnd
  <2>1. PICK f \in Flusher : flushPc[f] = "waiting" /\ flushPc'[f] = "done"
    BY <1>1
  <2>a. flushPc \in [Flusher -> {"idle", "sending", "waiting", "done", "failed"}]
    BY <1>1 DEF TypeOK
  <2>b. flushPc' # flushPc
    BY <2>1
  <2>c. ASSUME NEW g \in Flusher, NEW pc, pc # "done", flushPc' = [flushPc EXCEPT ![g] = pc]
        PROVE  FALSE
    BY <2>1, <2>a, <2>c
  <2> USE <2>b DEF threadVars
  <2>2. CASE UNCHANGED vars
    BY <2>2 DEF vars
  <2>3. CASE Caller
    <3>1. ASSUME NEW g \in Flusher, FlushRequest(g) \/ FlushGiveUp(g) PROVE FALSE
      BY <2>c, <3>1 DEF FlushRequest, FlushGiveUp
    <3> QED BY <2>3, <3>1 DEF Caller, Push, PushStored, PushFailed, SetWorkerMaxNumber,
                              ShutdownWait, RemoveAllItems, Cancel
  <2>4. CASE Popper \/ PopError
    BY <2>4 DEF Popper, PopCheck, PopTake, PopRetry, PopError
  <2>5. ASSUME NEW t \in Thread, HandlerReturn(t) \/ Requeue(t) PROVE FlushEnd
    BY <2>5 DEF Requeue, HandlerReturn, RequeueStored, RequeueMerged, RequeueLost
  <2>6. ASSUME NEW w \in Worker, WorkerLoop(w) \/ WorkerIdle(w) PROVE FlushEnd
    BY <2>6 DEF WorkerLoop, WorkerPark, WorkerCancelled, WorkerIdle, StopWorking
  <2>11. ASSUME NEW g \in Flusher, RunFlush(g) \/ BlockedFlush(g) PROVE FALSE
    BY <2>c, <2>11 DEF RunFlush, BlockedFlush, TakeFlush
  <2>7. CASE RunSelect
    BY <2>7, <2>11 DEF RunSelect, RunReceive, RunTimer, RunReturn
  <2>8. CASE Dispatch
    BY <2>8, <2>11 DEF Dispatch, DispatchEmpty, DispatchFull, DispatchStartWorker,
                       BlockedCancelled, DispatchSend, BlockedSend
  <2>9. CASE Flush
    BY <2>9 DEF Flush, FlushCancelWorkers, FlushJoined, FlushHandle, FlushTick
  <2>10. CASE Shutdown \/ HandleRest
    BY <2>10 DEF Shutdown, CollectPopped, Collected, PutBackBegin, PutBackStored,
                 PutBackMerged, PutBackExpired, PutBackFailed, PutBackLost, PutBackEnd,
                 HandleRest, Join
  <2> QED BY <1>1, <2>2, <2>3, <2>4, <2>5, <2>6, <2>7, <2>8, <2>9, <2>10 DEF Next, RunLoop
<1>2. ASSUME ControlInv, FlushEnd
      PROVE  /\ \A w \in Worker : ~Alive(w)
             /\ \A t \in Thread : Free(t)
             /\ (buffer \cup batch = {}) \/ ctxDone
  BY <1>2 DEF ControlInv, FlushEnd, Thread, Alive
<1>3. TypeOK /\ ControlInv /\ [Next]_vars =>
        [\A f \in Flusher : flushPc[f] = "waiting" /\ flushPc'[f] = "done"
            => /\ \A w \in Worker : ~Alive(w)
               /\ \A t \in Thread : Free(t)
               /\ (buffer \cup batch = {}) \/ ctxDone]_vars
  BY <1>1, <1>2
<1> QED BY <1>3, Control, PTL DEF Spec, FlushIsSynchronous
-----------------------------------------------------------------------------
(* No accepted item vanishes or is in two places, and every step of the pool   *)
(* is one that its contract allows.                                            *)

\* Exclusive, with the items of all threads taken together.
PlacesApart ==
    /\ base \cap (popItem \cup buffer \cup batch \cup Settled) = {}
    /\ popItem \cap (buffer \cup batch \cup Settled) = {}
    /\ buffer \cap (batch \cup Settled) = {}
    /\ batch \cap Settled = {}
    /\ handled \cap (lost \cup removed \cup merged) = {}
    /\ lost \cap (removed \cup merged) = {} /\ removed \cap merged = {}
    /\ Carried \cap (base \cup popItem \cup buffer \cup batch \cup Settled) = {}
ThreadsApart ==
    /\ \A t \in Thread : inHandler[t] \cap unhandled[t] = {}
    /\ \A t, u \in Thread : t # u => Owned(t) \cap Owned(u) = {}

\* The inductive invariant: an item that is being pushed is not accepted yet.
ItemInv == Accounted /\ PlacesApart /\ ThreadsApart /\ pushing \cap accepted = {}

LEMMA ItemInvExclusive == ItemInv => Accounted /\ Exclusive
<1> SUFFICES ASSUME ItemInv PROVE Exclusive
  BY DEF ItemInv
<1>1. \A t \in Thread : Owned(t) \subseteq Carried
  BY DEF Carried
<1> HIDE DEF Carried, Owned, Settled
<1> QED BY <1>1 DEF ItemInv, PlacesApart, ThreadsApart, Exclusive

\* Only one thread's items change in a step: it takes items nobody carries, or keeps some of
\* its own.
LEMMA CarriedTaken ==
    ASSUME NEW t \in Thread, NEW b,
           Owned(t) = {}, Owned(t)' = b, b \cap Carried = {}, ThreadsApart,
           inHandler'[t] \cap unhandled'[t] = {},
           \A u \in Thread : u # t => inHandler'[u] = inHandler[u] /\ unhandled'[u] = unhandled[u]
    PROVE  Carried' = Carried \cup b /\ ThreadsApart'
<1>1. \A u \in Thread : u # t => Owned(u)' = Owned(u)
  BY DEF Owned
<1>2. \A u \in Thread : Owned(u) \subseteq Carried
  BY DEF Carried
<1>3. \A x : x \in Carried' <=> x \in Carried \cup b
  <2>1. \A x : x \in Carried <=> \E u \in Thread : x \in Owned(u)
    BY DEF Carried
  <2>2. \A x : x \in Carried' <=> \E u \in Thread : x \in Owned(u)'
    BY DEF Carried
  <2> HIDE DEF Carried, Owned
  <2> QED BY <1>1, <2>1, <2>2
<1>4. \A u, v \in Thread : u # v => Owned(u)' \cap Owned(v)' = {}
  <2> HIDE DEF Carried, Owned
  <2> QED BY <1>1, <1>2 DEF ThreadsApart
<1>5. \A u \in Thread : inHandler'[u] \cap unhandled'[u] = {}
  BY DEF ThreadsApart
<1> QED BY <1>3, <1>4, <1>5 DEF ThreadsApart

LEMMA CarriedLeft ==
    ASSUME NEW t \in Thread, Owned(t)' \subseteq Owned(t), ThreadsApart,
           inHandler'[t] \cap unhandled'[t] = {},
           \A u \in Thread : u # t => inHandler'[u] = inHandler[u] /\ unhandled'[u] = unhandled[u]
    PROVE  /\ Carried' = Carried \ (Owned(t) \ Owned(t)')
           /\ Owned(t) \subseteq Carried
           /\ ThreadsApart'
<1>1. \A u \in Thread : u # t => Owned(u)' = Owned(u)
  BY DEF Owned
<1>2. \A u \in Thread : Owned(u) \subseteq Carried
  BY DEF Carried
<1>3. \A x : x \in Carried' <=> x \in Carried \ (Owned(t) \ Owned(t)')
  <2>1. \A x : x \in Carried <=> \E u \in Thread : x \in Owned(u)
    BY DEF Carried
  <2>2. \A x : x \in Carried' <=> \E u \in Thread : x \in Owned(u)'
    BY DEF Carried
  <2> HIDE DEF Carried, Owned
  <2> QED BY <1>1, <2>1, <2>2 DEF ThreadsApart
<1>4. \A u, v \in Thread : u # v => Owned(u)' \cap Owned(v)' = {}
  <2> HIDE DEF Carried, Owned
  <2> QED BY <1>1, <1>2 DEF ThreadsApart
<1>5. \A u \in Thread : inHandler'[u] \cap unhandled'[u] = {}
  BY DEF ThreadsApart
<1> QED BY <1>2, <1>3, <1>4, <1>5 DEF ThreadsApart

LEMMA CarriedKept ==
    ASSUME UNCHANGED <<inHandler, unhandled>>, ThreadsApart
    PROVE  Carried' = Carried /\ ThreadsApart'
BY DEF Carried, ThreadsApart, Owned

LEMMA ItemInit == Init => ItemInv
BY DEF Init, ItemInv, Accounted, PlacesApart, ThreadsApart, Pending, Settled, Carried, Owned

\* The steps that leave the items of the threads alone.
LEMMA ItemKept ==
    ASSUME TypeOK, ControlInv, ItemInv,
           \/ Caller \/ Popper \/ PopError \/ RunSelect \/ Shutdown \/ HandleRest
           \/ UNCHANGED vars
           \/ \E w \in Worker : WorkerLoop(w) \/ WorkerIdle(w)
           \/ DispatchEmpty \/ DispatchFull \/ DispatchStartWorker \/ BlockedCancelled
           \/ FlushCancelWorkers \/ FlushJoined \/ FlushTick \/ FlushEnd
    PROVE  ItemInv'
<1> USE DEF worldVars, threadVars, runVars, baseVars, popVars, ctxVars, fateVars, poolVars,
        handlerVars, dispatchVars
<1>1. UNCHANGED <<inHandler, unhandled>>
  BY DEF vars, Caller, Push, PushStored, PushFailed, SetWorkerMaxNumber, ShutdownWait,
         FlushRequest, FlushGiveUp, RemoveAllItems, Cancel, Popper, PopCheck, PopTake, PopRetry,
         PopError, RunSelect, RunReceive, RunTimer, RunReturn, RunFlush,
         Shutdown, CollectPopped, Collected, PutBackBegin, PutBackStored,
         PutBackMerged, PutBackExpired, PutBackFailed, PutBackLost, PutBackEnd, HandleRest, Join,
         WorkerLoop, WorkerPark, WorkerCancelled, WorkerIdle, StopWorking,
         DispatchEmpty, DispatchFull, DispatchStartWorker, BlockedCancelled,
         FlushCancelWorkers, FlushJoined, FlushTick, FlushEnd
<1>2. Carried' = Carried /\ ThreadsApart'
  BY <1>1, CarriedKept DEF ItemInv
<1> DEFINE Rest == Accounted' /\ PlacesApart' /\ (pushing \cap accepted = {})'
<1> SUFFICES Rest
  BY <1>2 DEF ItemInv
<1> HIDE DEF Carried
<1> USE <1>2 DEF ItemInv, Accounted, PlacesApart, Pending, Settled
<1>3. CASE UNCHANGED vars
  BY <1>3 DEF vars
<1>4. ASSUME NEW x \in Item, Push(x) PROVE Rest
  BY <1>4 DEF Push
<1>5. ASSUME NEW x \in Item, PushStored(x) PROVE Rest
  BY <1>5 DEF PushStored
<1>6. ASSUME NEW x \in Item, PushFailed(x) PROVE Rest
  BY <1>6 DEF PushFailed
<1>7. CASE RemoveAllItems
  BY <1>7 DEF RemoveAllItems
<1>8. CASE \/ \E n \in AdminMax : SetWorkerMaxNumber(n)
           \/ \E d \in ShutdownTimeouts : ShutdownWait(d)
           \/ \E f \in Flusher : FlushRequest(f) \/ FlushGiveUp(f)
           \/ Cancel
  BY <1>8 DEF SetWorkerMaxNumber, ShutdownWait, FlushRequest, FlushGiveUp, Cancel
<1>9. CASE PopCheck \/ PopRetry \/ PopError
  BY <1>9 DEF PopCheck, PopRetry, PopError
<1>10. CASE PopTake
  BY <1>10 DEF PopTake, ControlInv
<1>11. CASE RunReceive \/ CollectPopped
  BY <1>11 DEF RunReceive, CollectPopped, TakePopped
<1>12. CASE RunTimer \/ RunReturn \/ \E f \in Flusher : RunFlush(f)
  BY <1>12 DEF RunTimer, RunReturn, RunFlush
<1>13. CASE Collected \/ PutBackBegin \/ PutBackExpired \/ PutBackEnd \/ Join
  BY <1>13 DEF Collected, PutBackBegin, PutBackExpired, PutBackEnd, Join
<1>14. ASSUME NEW x \in Item, PutBackStored(x) PROVE Rest
  BY <1>14 DEF PutBackStored
<1>15. ASSUME NEW x \in Item, PutBackMerged(x) PROVE Rest
  BY <1>15 DEF PutBackMerged
<1>16. ASSUME NEW x \in Item, PutBackFailed(x) PROVE Rest
  BY <1>16 DEF PutBackFailed
<1>17. CASE PutBackLost
  BY <1>17 DEF PutBackLost
<1>18. CASE HandleRest
  BY <1>18 DEF HandleRest
<1>19. ASSUME NEW w \in Worker, WorkerLoop(w) \/ WorkerIdle(w) PROVE Rest
  BY <1>19 DEF WorkerLoop, WorkerPark, WorkerCancelled, WorkerIdle, StopWorking
<1>20. CASE DispatchEmpty \/ DispatchStartWorker
  BY <1>20 DEF DispatchEmpty, DispatchStartWorker
<1>21. CASE DispatchFull
  BY <1>21 DEF DispatchFull, ControlInv
<1>23. CASE BlockedCancelled
  BY <1>23 DEF BlockedCancelled, ControlInv
<1>22. CASE FlushCancelWorkers \/ FlushJoined \/ FlushTick \/ FlushEnd
  BY <1>22 DEF FlushCancelWorkers, FlushJoined, FlushTick, FlushEnd
<1> QED
  BY <1>3, <1>4, <1>5, <1>6, <1>7, <1>8, <1>9, <1>10, <1>11, <1>12, <1>13, <1>14, <1>15,
     <1>16, <1>17, <1>18, <1>19, <1>20, <1>21, <1>22, <1>23
     DEF Caller, Popper, RunSelect, Shutdown

\* The steps that give items to a thread, or take some from it.
LEMMA ItemMoved ==
    ASSUME TypeOK, ControlInv, ItemInv,
           \/ \E w \in Worker : DispatchSend(w) \/ BlockedSend(w)
           \/ \E f \in Flusher : BlockedFlush(f)
           \/ FlushHandle
           \/ \E t \in Thread : HandlerReturn(t) \/ Requeue(t)
    PROVE  ItemInv'
<1> USE DEF worldVars, threadVars, runVars, baseVars, popVars, ctxVars, fateVars, poolVars,
        handlerVars, dispatchVars
<1> DEFINE Rest == Accounted' /\ PlacesApart' /\ (pushing \cap accepted = {})'
           Others(t) == \A u \in Thread : u # t => /\ inHandler'[u] = inHandler[u]
                                                   /\ unhandled'[u] = unhandled[u]
<1>a. Run \in Thread /\ Worker \subseteq Thread /\ Run \notin Worker
  BY RunAssumption DEF Thread
<1>b. inHandler \in [Thread -> SUBSET Item] /\ unhandled \in [Thread -> SUBSET Item]
  BY DEF TypeOK
\* Thread t, free so far, takes the items in b.
<1>1. ASSUME NEW t \in Thread, NEW b, Free(t), b \cap Carried = {},
             inHandler' = [inHandler EXCEPT ![t] = b], unhandled' = unhandled
      PROVE  Carried' = Carried \cup b /\ ThreadsApart'
  <2>1. Owned(t) = {} /\ Owned(t)' = b /\ inHandler'[t] \cap unhandled'[t] = {}
    BY <1>1, <1>b DEF Free, Owned
  <2>2. Others(t)
    BY <1>1, <1>b
  <2> QED BY <1>1, <2>1, <2>2, CarriedTaken DEF ItemInv
\* Thread t has requeued item x or given it up.
<1>2. ASSUME NEW t \in Thread, NEW x \in Item, x \in unhandled[t], inHandler' = inHandler,
             unhandled' = [unhandled EXCEPT ![t] = @ \ {x}]
      PROVE  Carried' = Carried \ {x} /\ x \in Carried /\ ThreadsApart'
  <2>1. inHandler[t] = {}
    BY <1>2 DEF ControlInv
  <2>2. Owned(t) = unhandled[t] /\ Owned(t)' = unhandled[t] \ {x}
    BY <1>2, <1>b, <2>1 DEF Owned
  <2>3. Others(t) /\ inHandler'[t] \cap unhandled'[t] = {}
    BY <1>2, <1>b, <2>1
  <2>4. /\ Carried' = Carried \ (Owned(t) \ Owned(t)')
        /\ Owned(t) \subseteq Carried
        /\ ThreadsApart'
    BY <2>2, <2>3, CarriedLeft DEF ItemInv
  <2> QED BY <1>2, <2>2, <2>4
<1> USE DEF ItemInv, Accounted, PlacesApart, Pending, Settled
<1> HIDE DEF Carried, ThreadsApart
<1>3. ASSUME NEW w \in Worker, DispatchSend(w) PROVE ItemInv'
  <2>1. Free(w) /\ batch = {}
    BY <1>3 DEF DispatchSend, HandTo, ControlInv
  <2>2. /\ w \in Thread /\ buffer \cap Carried = {}
        /\ inHandler' = [inHandler EXCEPT ![w] = buffer] /\ unhandled' = unhandled
    BY <1>3, <1>a DEF DispatchSend, HandTo
  <2>3. Carried' = Carried \cup buffer /\ ThreadsApart'
    BY <1>1, <2>1, <2>2
  <2> QED BY <1>3, <2>1, <2>3 DEF DispatchSend
<1>4. ASSUME NEW w \in Worker, BlockedSend(w) PROVE ItemInv'
  <2>1. Free(w)
    BY <1>4 DEF BlockedSend, HandTo, ControlInv
  <2>2. /\ w \in Thread /\ batch \cap Carried = {}
        /\ inHandler' = [inHandler EXCEPT ![w] = batch] /\ unhandled' = unhandled
    BY <1>4, <1>a DEF BlockedSend, HandTo
  <2>3. Carried' = Carried \cup batch /\ ThreadsApart'
    BY <1>1, <2>1, <2>2
  <2> QED BY <1>4, <2>1, <2>3 DEF BlockedSend
<1>5. ASSUME NEW f \in Flusher, BlockedFlush(f) PROVE ItemInv'
  <2>1. Free(Run)
    BY <1>5 DEF BlockedFlush, ControlInv
  <2>2. Carried' = Carried \cup batch /\ ThreadsApart'
    BY <1>5, <1>1, <1>a, <2>1 DEF BlockedFlush
  <2> QED BY <1>5, <2>1, <2>2 DEF BlockedFlush
<1>6. CASE FlushHandle
  <2>1. Carried' = Carried \cup popItem /\ ThreadsApart'
    BY <1>6, <1>1, <1>a DEF FlushHandle
  <2> QED BY <1>6, <2>1 DEF FlushHandle, TakePopped
<1>7. ASSUME NEW t \in Thread, HandlerReturn(t) PROVE ItemInv'
  <2>1. PICK failed \in SUBSET inHandler[t] :
          /\ unhandled' = [unhandled EXCEPT ![t] = failed]
          /\ handled' = handled \cup (inHandler[t] \ failed)
    BY <1>7 DEF HandlerReturn
  <2>2. unhandled[t] = {} /\ inHandler' = [inHandler EXCEPT ![t] = {}]
    BY <1>7 DEF HandlerReturn, ControlInv
  <2>3. Owned(t) = inHandler[t] /\ Owned(t)' = failed
    BY <1>b, <2>1, <2>2 DEF Owned
  <2>4. Others(t) /\ inHandler'[t] \cap unhandled'[t] = {}
    BY <1>b, <2>1, <2>2
  <2>5. /\ Carried' = Carried \ (Owned(t) \ Owned(t)')
        /\ Owned(t) \subseteq Carried
        /\ ThreadsApart'
    BY <2>1, <2>3, <2>4, CarriedLeft
  <2>6. /\ Carried' = Carried \ (inHandler[t] \ failed)
        /\ inHandler[t] \subseteq Carried
    BY <2>3, <2>5
  <2> QED BY <1>7, <2>1, <2>5, <2>6 DEF HandlerReturn
<1>8. ASSUME NEW t \in Thread, NEW x \in Item, RequeueStored(t, x) PROVE ItemInv'
  <2>1. Carried' = Carried \ {x} /\ x \in Carried /\ ThreadsApart'
    BY <1>8, <1>2 DEF RequeueStored
  <2> QED BY <1>8, <2>1 DEF RequeueStored
<1>9. ASSUME NEW t \in Thread, NEW x \in Item, RequeueMerged(t, x) PROVE ItemInv'
  <2>1. Carried' = Carried \ {x} /\ x \in Carried /\ ThreadsApart'
    BY <1>9, <1>2 DEF RequeueMerged
  <2> QED BY <1>9, <2>1 DEF RequeueMerged
<1>10. ASSUME NEW t \in Thread, NEW x \in Item, RequeueLost(t, x) PROVE ItemInv'
  <2>1. Carried' = Carried \ {x} /\ x \in Carried /\ ThreadsApart'
    BY <1>10, <1>2 DEF RequeueLost
  <2> QED BY <1>10, <2>1 DEF RequeueLost
<1> QED BY <1>3, <1>4, <1>5, <1>6, <1>7, <1>8, <1>9, <1>10 DEF Requeue

LEMMA ItemStep == TypeOK /\ ControlInv /\ ItemInv /\ [Next]_vars => ItemInv'
BY ItemKept, ItemMoved DEF Next, RunLoop, Dispatch, Flush

LEMMA Items == Spec => []ItemInv
BY ItemInit, ItemStep, Control, PTL DEF Spec

\* No accepted item vanishes: whatever the callers, the run loop, the workers and a shutdown
\* do, it is in the base queue, on its way through the pool, or its fate is recorded.
THEOREM NoItemVanishes == Spec => []Accounted
BY Items, ItemInvExclusive, PTL

\* No accepted item is in two places: none is handled twice, or requeued while it is handled.
THEOREM NoItemTwice == Spec => []Exclusive
BY Items, ItemInvExclusive, PTL
-----------------------------------------------------------------------------
LEMMA PendingAccepted == ItemInv => Pending = accepted \ Settled
BY DEF ItemInv, Accounted, PlacesApart, Pending

LEMMA Finite ==
    ASSUME NEW T \in SUBSET Item, NEW S \in SUBSET T
    PROVE  /\ IsFiniteSet(T) /\ IsFiniteSet(S)
           /\ Cardinality(T) \in Nat /\ Cardinality(S) \in Nat
           /\ Cardinality(S) <= Cardinality(T)
BY FiniteAssumption, FS_Subset, FS_CardinalityType

\* With a full base queue, an item elsewhere is one more than there is room for.
LEMMA Crowded ==
    ASSUME TypeOK, ~Room, NEW T \in SUBSET Item, base \subseteq T, NEW x \in T, x \notin base
    PROVE  Cardinality(T) > Length
<1>1. base \cup {x} \in SUBSET T
  OBVIOUS
<1>2. IsFiniteSet(base) /\ Cardinality(base) \in Nat
  BY Finite
<1>3. Cardinality(base \cup {x}) = Cardinality(base) + 1
  BY <1>2, FS_AddElement
<1>4. Cardinality(base \cup {x}) <= Cardinality(T) /\ Cardinality(T) \in Nat
  BY <1>1, Finite
<1> QED BY <1>2, <1>3, <1>4, NumberAssumption DEF Room

\* What a thread cannot requeue before the queue closes was one too many, or nothing could
\* be stored.
LEMMA RequeueLostCrowded ==
    ASSUME TypeOK, ItemInv, NEW t \in Thread, NEW x \in Item, RequeueLost(t, x)
    PROVE  /\ x \in Pending
           /\ BaseErrors \/ Cardinality(Pending) > Length \/ ctxDone
<1>1. x \in Carried
  BY DEF RequeueLost, Carried, Owned
<1>2. x \in Pending /\ x \notin base /\ base \subseteq Pending
  BY <1>1 DEF ItemInv, PlacesApart, Pending
<1>3. Pending \in SUBSET Item
  BY PendingAccepted DEF TypeOK
<1>4. ~Room => Cardinality(Pending) > Length
  BY <1>2, <1>3, Crowded
<1> QED BY <1>2, <1>4 DEF RequeueLost, StoreFails
-----------------------------------------------------------------------------
LEMMA ContractStep ==
    ASSUME TypeOK, WorkerCount, ControlInv, ItemInv, [Next]_vars
    PROVE  [Contract!Next]_Contract!vars
<1> DEFINE Kept == UNCHANGED <<accepted, handled, lost, removed, merged>>
           Mapped == Contract!Next \/ UNCHANGED Contract!vars
<1> USE DEF worldVars, threadVars, runVars, baseVars, popVars, ctxVars, fateVars, poolVars,
        handlerVars, dispatchVars
<1>a. TypeOK' /\ ItemInv'
  BY TypeStep, ItemStep
<1>b. Pending = accepted \ Settled /\ Pending' = accepted' \ Settled'
  <2> HIDE DEF Carried
  <2> QED BY <1>a DEF ItemInv, Accounted, PlacesApart, Pending
<1>e. \A S : Contract!Cardinality(S) = Cardinality(S)
  BY DEF Contract!Cardinality, Cardinality
<1>c. Pending \in SUBSET Item /\ accepted = Pending \cup Settled
  BY <1>b DEF ItemInv, Accounted, TypeOK
<1>d. /\ base \subseteq Pending /\ buffer \subseteq Pending /\ Carried \subseteq Pending
      /\ base \cap (buffer \cup Carried) = {} /\ Pending \cap Settled = {}
  <2> HIDE DEF Carried
  <2> QED BY DEF ItemInv, PlacesApart, Pending
<1> HIDE DEF Pending, Carried
\* Steps inside the pool, and the ones that stop it.
<1>1. ASSUME Kept, ctxDone' = ctxDone PROVE Mapped
  BY <1>1, <1>b DEF Contract!vars, Settled
<1>2. ASSUME Kept, ctxDone' = TRUE PROVE Mapped
  BY <1>2, <1>b DEF Contract!Next, Contract!Close, Settled
<1>3. CASE UNCHANGED vars
  BY <1>1, <1>3 DEF vars
<1>4. CASE Caller
  <2>1. ASSUME NEW x \in Item, PushStored(x) PROVE Mapped
    <3>1. Contract!Accept(x)
      BY <1>b, <1>c, <2>1 DEF PushStored, Contract!Accept, Settled, ItemInv
    <3> QED BY <3>1 DEF Contract!Next
  <2>2. CASE RemoveAllItems
    <3>1. Contract!Remove(base)
      BY <1>b, <1>d, <2>2 DEF RemoveAllItems, Contract!Remove, Settled
    <3> QED BY <1>d, <3>1 DEF Contract!Next
  <2>3. CASE Cancel
    BY <1>2, <2>3 DEF Cancel
  <2>4. ASSUME NEW x \in Item, Push(x) \/ PushFailed(x) PROVE Mapped
    BY <1>1, <2>4 DEF Push, PushFailed
  <2>5. CASE \/ \E n \in AdminMax : SetWorkerMaxNumber(n)
             \/ \E f \in Flusher : FlushRequest(f) \/ FlushGiveUp(f)
    BY <1>1, <2>5 DEF SetWorkerMaxNumber, FlushRequest, FlushGiveUp
  <2>6. ASSUME NEW d \in ShutdownTimeouts, ShutdownWait(d) PROVE Mapped
    BY <1>2, <2>6 DEF ShutdownWait
  <2> QED BY <1>4, <2>1, <2>2, <2>3, <2>4, <2>5, <2>6 DEF Caller
<1>5. CASE Popper \/ PopError
  BY <1>1, <1>5 DEF Popper, PopCheck, PopTake, PopRetry, PopError
<1>6. ASSUME NEW t \in Thread, HandlerReturn(t) PROVE Mapped
  <2>1. PICK failed \in SUBSET inHandler[t] : handled' = handled \cup (inHandler[t] \ failed)
    BY <1>6 DEF HandlerReturn
  <2>2. inHandler[t] \ failed \in SUBSET Pending
    BY <1>d DEF Carried, Owned
  <2>3. Contract!Handle(inHandler[t] \ failed)
    BY <1>6, <1>b, <2>1, <2>2 DEF HandlerReturn, Contract!Handle, Settled
  <2> QED BY <2>2, <2>3 DEF Contract!Next
<1>7. ASSUME NEW t \in Thread, NEW x \in Item, RequeueStored(t, x) PROVE Mapped
  BY <1>1, <1>7 DEF RequeueStored
<1>8. ASSUME NEW t \in Thread, NEW x \in Item, RequeueMerged(t, x) PROVE Mapped
  <2>1. x \in Carried
    BY <1>8 DEF RequeueMerged, Carried, Owned
  <2>2. PICK y \in base : Payload[y] = Payload[x]
    BY <1>8 DEF RequeueMerged, Queued
  <2>3. x \in Pending /\ y \in Pending /\ Contract!Merge(x, y)
    BY <1>8, <1>b, <1>d, <2>1, <2>2 DEF RequeueMerged, Contract!Merge, Settled
  <2> QED BY <2>3 DEF Contract!Next
<1>9. ASSUME NEW t \in Thread, NEW x \in Item, RequeueLost(t, x) PROVE Mapped
  <2>1. /\ x \in Pending
        /\ BaseErrors \/ Cardinality(Pending) > Length \/ ctxDone
    BY <1>9, RequeueLostCrowded
  <2>2. Contract!Lose(x)
    BY <1>9, <1>b, <1>e, <2>1 DEF RequeueLost, Contract!Lose, Settled
  <2> QED BY <2>1, <2>2 DEF Contract!Next
<1>10. ASSUME NEW w \in Worker, WorkerLoop(w) \/ WorkerIdle(w) PROVE Mapped
  BY <1>1, <1>10 DEF WorkerLoop, WorkerPark, WorkerCancelled, WorkerIdle, StopWorking
<1>11. CASE RunReceive \/ RunTimer \/ \E f \in Flusher : RunFlush(f)
  BY <1>1, <1>11 DEF RunReceive, RunTimer, RunFlush
<1>12. CASE RunReturn
  BY <1>2, <1>12 DEF RunReturn
<1>13. CASE Dispatch
  BY <1>1, <1>13 DEF Dispatch, DispatchEmpty, DispatchFull, DispatchStartWorker,
                     BlockedCancelled, DispatchSend, BlockedSend, BlockedFlush
<1>14. CASE Flush
  BY <1>1, <1>14 DEF Flush, FlushCancelWorkers, FlushJoined, FlushHandle, FlushTick, FlushEnd
<1>15. CASE CollectPopped \/ Collected \/ PutBackBegin \/ PutBackExpired \/ PutBackEnd \/ Join
  BY <1>1, <1>15 DEF CollectPopped, Collected, PutBackBegin, PutBackExpired, PutBackEnd, Join
<1>16. ASSUME NEW x \in Item, PutBackStored(x) PROVE Mapped
  BY <1>1, <1>16 DEF PutBackStored
<1>17. ASSUME NEW x \in Item, PutBackMerged(x) PROVE Mapped
  <2>1. PICK y \in base : Payload[y] = Payload[x]
    BY <1>17 DEF PutBackMerged, Queued
  <2>2. x \in Pending /\ y \in Pending /\ Contract!Merge(x, y)
    BY <1>17, <1>b, <1>d, <2>1 DEF PutBackMerged, Contract!Merge, Settled
  <2> QED BY <2>2 DEF Contract!Next
\* The run loop gives up what it holds.
<1>18. ASSUME NEW x \in Item, PutBackFailed(x) PROVE Mapped
  <2>1. x \in Pending /\ ctxDone
    BY <1>18, <1>d DEF PutBackFailed, ControlInv
  <2>2. Contract!Lose(x)
    BY <1>18, <1>b, <2>1 DEF PutBackFailed, Contract!Lose, Settled
  <2> QED BY <2>1, <2>2 DEF Contract!Next
<1>19. CASE PutBackLost
  <2>1. ctxDone /\ buffer \in SUBSET (Pending \ {})
    BY <1>19, <1>d DEF PutBackLost, ControlInv
  <2>2. Contract!Settle({}, buffer)
    BY <1>19, <1>b, <2>1 DEF PutBackLost, Contract!Settle, Settled
  <2> QED BY <2>1, <2>2 DEF Contract!Next
<1>20. CASE HandleRest
  <2>1. PICK failed \in SUBSET buffer : /\ handled' = handled \cup (buffer \ failed)
                                       /\ lost' = lost \cup failed
    BY <1>20 DEF HandleRest
  <2>2. ctxDone
    BY <1>20 DEF HandleRest, ControlInv
  <2>3. /\ buffer \ failed \in SUBSET Pending
        /\ failed \in SUBSET (Pending \ (buffer \ failed))
    BY <1>d
  <2>4. Contract!Settle(buffer \ failed, failed)
    BY <1>20, <1>b, <2>1, <2>2 DEF HandleRest, Contract!Settle, Settled
  <2> QED BY <2>3, <2>4 DEF Contract!Next
<1> QED
  BY <1>3, <1>4, <1>5, <1>6, <1>7, <1>8, <1>9, <1>10, <1>11, <1>12, <1>13, <1>14, <1>15, <1>16,
     <1>17, <1>18, <1>19, <1>20 DEF Next, RunLoop, RunSelect, Requeue, Shutdown

LEMMA Invs == Spec => [](TypeOK /\ WorkerCount /\ ControlInv /\ ItemInv)
BY Items, Control, PTL

\* The pool implements its contract: an item leaves it unhandled only by RemoveAllItems, in
\* favour of an equal one, or when it could not be put back.
THEOREM PoolImplementsContract == Spec => ImplementsContract
<1>1. Init => Contract!Init
  BY DEF Init, Contract!Init, Pending, Carried, Owned
<1> QED BY <1>1, Invs, ContractStep, PTL DEF Spec, ImplementsContract, Contract!Spec

\* Before it shuts down, a queue whose storage works loses an item only while more accepted
\* items are unsettled, those in the workers' hands included, than the base queue has room
\* for.  At shutdown the deadlines may lose any item the pool holds, with room or without.
THEOREM LossNeedsCrowdOrShutdown ==
    ASSUME ~BaseErrors
    PROVE  Spec => [][lost' = lost \/ Cardinality(Pending) > Length \/ ctxDone]_vars
<1>1. ASSUME TypeOK, WorkerCount, ControlInv, ItemInv, [Next]_vars
      PROVE  lost' = lost \/ Cardinality(Pending) > Length \/ ctxDone
  <2>1. [Contract!Next]_Contract!vars
    BY <1>1, ContractStep
  <2>2. Contract!Cardinality(Pending) = Cardinality(Pending)
    BY DEF Contract!Cardinality, Cardinality
  <2> HIDE DEF Pending
  <2>3. CASE UNCHANGED Contract!vars
    BY <2>3 DEF Contract!vars
  <2>4. CASE \E x \in Pending : Contract!Lose(x)
    BY <2>2, <2>4 DEF Contract!Lose
  <2>5. CASE \E S \in SUBSET Pending : \E U \in SUBSET (Pending \ S) : Contract!Settle(S, U)
    BY <2>5 DEF Contract!Settle
  <2> QED BY <2>1, <2>3, <2>4, <2>5
          DEF Contract!Next, Contract!Close, Contract!Accept, Contract!Merge, Contract!Handle,
              Contract!Remove
<1> QED BY <1>1, Invs, PTL DEF Spec
=============================================================================
