----------------------------- MODULE WorkerPool -----------------------------
(***************************************************************************)
(* WorkerPoolQueue of modules/queue (workerqueue.go, workergroup.go): one  *)
(* goroutine pops items from the base queue (base.go), the run loop        *)
(* collects them into batches and hands the batches to a pool of workers,  *)
(* workers call the handler and requeue what it did not handle; callers    *)
(* push, flush, remove all items, resize the pool and shut the queue down. *)
(*                                                                         *)
(* An Item is one push: pushing an equal payload again is another Item.    *)
(* The base queue is the mutex-protected unique level queue, so an attempt *)
(* of PushItem or PopItem is one step after its check of the context, and  *)
(* a payload that is in the queue is refused; with an injective Payload    *)
(* nothing is refused, as in a simple queue.  Its order is abstracted to a *)
(* set.  Times are abstracted: a timer may fire at any moment after it was *)
(* set.  Only a PushItem that nobody shuts down makes its first attempt:   *)
(* the seconds it has begin with the call.                                 *)
(***************************************************************************)
EXTENDS Integers, FiniteSets

CONSTANTS Item,              \* pushes
          Payload,           \* what each of them pushes
          Worker,            \* goroutines doStartNewWorker may start
          Flusher,           \* calls of FlushWithContext
          Length,            \* capacity of the base queue
          BatchLength,       \* batchLength
          MaxWorkers,        \* workerMaxNum at the start
          AdminMax,          \* what SetWorkerMaxNumber may be called with
          ShutdownTimeouts,  \* what ShutdownWait may be called with, 0 is no timeout
          FailBudget,        \* bound on the items handlers return as unhandled
          BaseErrors,        \* whether the storage of the base queue may fail
          Run                \* the run loop, as a thread that calls the handler

ASSUME FiniteAssumption == IsFiniteSet(Item) /\ IsFiniteSet(Worker)
ASSUME NumberAssumption == /\ Length \in Nat \ {0}
                           /\ BatchLength \in Nat \ {0}
                           /\ MaxWorkers \in Int
                           /\ AdminMax \subseteq Int
                           /\ ShutdownTimeouts \subseteq Nat
                           /\ FailBudget \in Nat
ASSUME BooleanAssumption == BaseErrors \in BOOLEAN
ASSUME RunAssumption == Run \notin Worker
\* Goroutines are not scarce: there is one for every worker the limits allow.
ASSUME WorkerAssumption == /\ Worker # {}
                           /\ \A n \in AdminMax \cup {MaxWorkers} : n <= Cardinality(Worker)

Thread == Worker \cup {Run}
DefaultTimeout == 2    \* shutdownDefaultTimeout, in seconds

VARIABLES
    base,             \* items in the base queue
    pushing,          \* items whose Push passed the check of ctxRun
    accepted,         \* items whose Push returned nil
    popPc, popItem,   \* the goroutine of popItemByChan and the item it holds
    ctxDone,          \* ctxRun is cancelled
    ctxWorkerDone,    \* wg.ctxWorker is cancelled by doFlush
    runPc,            \* where doRun is
    buffer,           \* wg.batchBuffer; while shutting down, unhandled
    batch,            \* the batch that doDispatchBatchToWorker could not send at once
    skipFlush,        \* that call was given skipFlushChan, and doFlush comes next
    timer,            \* batchDispatchC is a debounce timer
    emptyCounter,     \* of doFlush
    workerPc,         \* per worker: "none", "top" of its loop or "parked" in its select
    workerNum, workerMaxNum,
    inHandler,        \* per thread, the items its call of safeHandler works on
    unhandled,        \* per thread, the items its doWorkerHandle has still to requeue
    flushPc,          \* per flusher
    shutdownTimeout,
    handled, lost, removed, merged,   \* what became of the items
    failsLeft         \* of FailBudget

baseVars == <<base, pushing, accepted>>
popVars == <<popPc, popItem>>
ctxVars == <<ctxDone, ctxWorkerDone, shutdownTimeout>>
fateVars == <<handled, lost, removed, merged>>
poolVars == <<workerPc, workerNum, workerMaxNum>>
handlerVars == <<inHandler, unhandled, failsLeft>>
dispatchVars == <<buffer, batch, skipFlush, timer>>
worldVars == <<baseVars, popVars, ctxVars, fateVars>>      \* outside the pool
threadVars == <<poolVars, handlerVars, flushPc>>           \* beside the run loop
runVars == <<runPc, emptyCounter, dispatchVars>>
vars == <<worldVars, threadVars, runVars>>

Init == /\ base = {} /\ pushing = {} /\ accepted = {}
        /\ popPc = "check" /\ popItem = {}
        /\ ctxDone = FALSE /\ ctxWorkerDone = FALSE
        /\ shutdownTimeout = DefaultTimeout
        /\ runPc = "select" /\ emptyCounter = 0
        /\ buffer = {} /\ batch = {} /\ skipFlush = FALSE /\ timer = FALSE
        /\ workerPc = [w \in Worker |-> "none"]
        /\ workerNum = 0 /\ workerMaxNum = MaxWorkers
        /\ inHandler = [t \in Thread |-> {}] /\ unhandled = [t \in Thread |-> {}]
        /\ failsLeft = FailBudget
        /\ flushPc = [f \in Flusher |-> "idle"]
        /\ handled = {} /\ lost = {} /\ removed = {} /\ merged = {}

Room == Cardinality(base) < Length
StoreFails == ~Room \/ BaseErrors                     \* what makes RPush fail in the end
Queued(x) == \E y \in base : Payload[y] = Payload[x]  \* RPush returns ErrAlreadyInQueue
Free(t) == inHandler[t] = {} /\ unhandled[t] = {}     \* t is not in doWorkerHandle
WorkerCtxDone == ctxDone \/ ctxWorkerDone             \* ctxWorker is a child of ctxRun
Alive(w) == workerPc[w] # "none"
-----------------------------------------------------------------------------
(* Callers of Push, RemoveAllItems, SetWorkerMaxNumber, Cancel, ShutdownWait *)

\* PushItem finds its context alive; an earlier call for the item may have failed.
Push(x) == /\ ~ctxDone
           /\ x \notin pushing \cup accepted
           /\ pushing' = pushing \cup {x}
           /\ UNCHANGED <<threadVars, runVars, popVars, ctxVars, fateVars, base, accepted>>

PushStored(x) == /\ x \in pushing
                 /\ Room /\ ~Queued(x)
                 /\ base' = base \cup {x}
                 /\ pushing' = pushing \ {x}
                 /\ accepted' = accepted \cup {x}
                 /\ UNCHANGED <<threadVars, runVars, popVars, ctxVars, fateVars>>

\* The queue stayed full for pushBlockTime, the storage failed, ctxRun was cancelled, or
\* an equal payload is in the queue.
PushFailed(x) == /\ x \in pushing
                 /\ ctxDone \/ StoreFails \/ Queued(x)
                 /\ pushing' = pushing \ {x}
                 /\ UNCHANGED <<threadVars, runVars, popVars, ctxVars, fateVars, base,
                                accepted>>

RemoveAllItems == /\ removed' = removed \cup base
                  /\ base' = {}
                  /\ UNCHANGED <<threadVars, runVars, popVars, ctxVars, pushing, accepted,
                                 handled, lost, merged>>

SetWorkerMaxNumber(n) == /\ workerMaxNum' = n
                         /\ UNCHANGED <<worldVars, runVars, handlerVars, workerPc, workerNum,
                                        flushPc>>

\* It stores the timeout and cancels ctxRun.  That is one step: as long as ctxRun is alive
\* only a requeue reads the timeout, and that may fail with any.  It then waits for
\* shutdownDone, that is for runPc = "stopped".
ShutdownWait(d) == /\ shutdownTimeout' = d
                   /\ ctxDone' = TRUE
                   /\ UNCHANGED <<threadVars, runVars, baseVars, popVars, fateVars,
                                  ctxWorkerDone>>

\* ctxRunCancel
Cancel == /\ ctxDone' = TRUE
          /\ UNCHANGED <<threadVars, runVars, baseVars, popVars, fateVars, ctxWorkerDone,
                         shutdownTimeout>>
-----------------------------------------------------------------------------
(* FlushWithContext *)

FlushRequest(f) == /\ flushPc[f] = "idle"
                   /\ flushPc' = [flushPc EXCEPT ![f] = "sending"]
                   /\ UNCHANGED <<worldVars, runVars, poolVars, handlerVars>>

\* Its timeout, its context or ctxRun ends either select.
FlushGiveUp(f) == /\ flushPc[f] \in {"sending", "waiting"}
                  /\ flushPc' = [flushPc EXCEPT ![f] = "failed"]
                  /\ UNCHANGED <<worldVars, runVars, poolVars, handlerVars>>

\* The run loop receives the request: its channel c is the one that doFlush will close.
TakeFlush(f) == /\ flushPc[f] = "sending"
                /\ flushPc' = [flushPc EXCEPT ![f] = "waiting"]

CloseFlush == flushPc' = [f \in Flusher |->
                            IF flushPc[f] = "waiting" THEN "done" ELSE flushPc[f]]
-----------------------------------------------------------------------------
(* The goroutine of popItemByChan: PopItem in backoffRetErr, then chanItem <- it.  *)
(* After an error it closes chanItem; the error it sends then has the same effect. *)

PopCheck == /\ popPc = "check"
            /\ popPc' = IF ctxDone THEN "closed" ELSE "pop"
            /\ UNCHANGED <<threadVars, runVars, baseVars, ctxVars, fateVars, popItem>>

PopTake == /\ popPc = "pop"
           /\ \E x \in base : popItem' = {x} /\ base' = base \ {x}
           /\ popPc' = "send"
           /\ UNCHANGED <<threadVars, runVars, ctxVars, fateVars, pushing, accepted>>

PopRetry == /\ popPc = "pop"
            /\ base = {}
            /\ popPc' = "check"
            /\ UNCHANGED <<threadVars, runVars, baseVars, ctxVars, fateVars, popItem>>

PopError == /\ BaseErrors
            /\ popPc = "pop"
            /\ popPc' = "closed"
            /\ UNCHANGED <<threadVars, runVars, baseVars, ctxVars, fateVars, popItem>>

\* data := <-wg.popItemChan, by whichever part of doRun receives.
TakePopped == /\ popPc = "send"
              /\ popPc' = "check"
              /\ popItem' = {}
-----------------------------------------------------------------------------
(* doWorkerHandle, called by a worker or by the run loop *)

\* Mutant: the whole batch is counted as handled, and its unhandled items are requeued.
HandlerReturnAll(t) ==
    /\ inHandler[t] # {}
    /\ \E failed \in SUBSET inHandler[t] :
        /\ Cardinality(failed) <= failsLeft
        /\ unhandled' = [unhandled EXCEPT ![t] = failed]
        /\ failsLeft' = failsLeft - Cardinality(failed)
    /\ handled' = handled \cup inHandler[t]
    /\ inHandler' = [inHandler EXCEPT ![t] = {}]
    /\ UNCHANGED <<runVars, baseVars, popVars, ctxVars, poolVars, flushPc, lost, removed,
                   merged>>

\* safeHandler returns.  A handler that panicked counts as one that handled all.
\* Backing off before the requeue is a delay.
HandlerReturn(t) ==
    /\ inHandler[t] # {}
    /\ \E failed \in SUBSET inHandler[t] :
        /\ Cardinality(failed) <= failsLeft
        /\ unhandled' = [unhandled EXCEPT ![t] = failed]
        /\ handled' = handled \cup (inHandler[t] \ failed)
        /\ failsLeft' = failsLeft - Cardinality(failed)
    /\ inHandler' = [inHandler EXCEPT ![t] = {}]
    /\ UNCHANGED <<runVars, baseVars, popVars, ctxVars, poolVars, flushPc, lost, removed,
                   merged>>

\* Push stores the item, or fails and then basePushForShutdown stores it.
RequeueStored(t, x) ==
    /\ x \in unhandled[t]
    /\ Room /\ ~Queued(x)
    /\ base' = base \cup {x}
    /\ unhandled' = [unhandled EXCEPT ![t] = @ \ {x}]
    /\ UNCHANGED <<runVars, popVars, ctxVars, fateVars, poolVars, pushing, accepted, inHandler,
                   failsLeft, flushPc>>

\* An equal payload was pushed meanwhile: both attempts return ErrAlreadyInQueue, or the
\* second one is not made, and the item is given up.
RequeueMerged(t, x) ==
    /\ x \in unhandled[t]
    /\ Room /\ Queued(x)
    /\ merged' = merged \cup {x}
    /\ unhandled' = [unhandled EXCEPT ![t] = @ \ {x}]
    /\ UNCHANGED <<runVars, baseVars, popVars, ctxVars, poolVars, inHandler, failsLeft, flushPc,
                   handled, lost, removed>>

\* Mutant: Push is not tried first.
RequeueLostAtOnce(t, x) ==
    /\ x \in unhandled[t]
    /\ lost' = lost \cup {x}
    /\ unhandled' = [unhandled EXCEPT ![t] = @ \ {x}]
    /\ UNCHANGED <<runVars, baseVars, popVars, ctxVars, poolVars, inHandler, failsLeft, flushPc,
                   handled, removed, merged>>

\* Push fails, and basePushForShutdown has no timeout to try within or fails as well: its
\* deadline may pass before the first attempt, though the base queue has room.  The item
\* counts as lost from the failure of Push on.
RequeueLost(t, x) ==
    /\ x \in unhandled[t]
    /\ ctxDone \/ StoreFails
    /\ lost' = lost \cup {x}
    /\ unhandled' = [unhandled EXCEPT ![t] = @ \ {x}]
    /\ UNCHANGED <<runVars, baseVars, popVars, ctxVars, poolVars, inHandler, failsLeft, flushPc,
                   handled, removed, merged>>
-----------------------------------------------------------------------------
(* Workers: the select in doStartNewWorker *)

WorkerPark(w) == /\ workerPc[w] = "top" /\ Free(w)
                 /\ workerPc' = [workerPc EXCEPT ![w] = "parked"]
                 /\ UNCHANGED <<worldVars, runVars, handlerVars, workerNum, workerMaxNum,
                                flushPc>>

StopWorking(w) == /\ workerPc' = [workerPc EXCEPT ![w] = "none"]
                  /\ workerNum' = workerNum - 1
                  /\ UNCHANGED <<worldVars, runVars, handlerVars, workerMaxNum, flushPc>>

\* ctxWorker.Done; batchChan is closed only when ctxRun is done, and has the same effect.
WorkerCancelled(w) == /\ Alive(w) /\ Free(w)
                      /\ WorkerCtxDone
                      /\ StopWorking(w)

\* Mutant: the last worker stops as well.
WorkerIdleLast(w) == workerPc[w] = "parked" /\ StopWorking(w)

\* Mutant: an idle worker ends without decreasing workerNum.
WorkerIdleUncounted(w) == /\ workerPc[w] = "parked"
                          /\ workerNum > 1
                          /\ workerPc' = [workerPc EXCEPT ![w] = "none"]
                          /\ UNCHANGED <<worldVars, runVars, handlerVars, workerNum,
                                         workerMaxNum, flushPc>>

\* An idle tick: every worker but the last one stops.
WorkerIdle(w) == /\ workerPc[w] = "parked"
                 /\ workerNum > 1
                 /\ StopWorking(w)

\* A rendezvous on the unbuffered batchChan: w leaves its select with the batch b.
HandTo(w, b) == /\ workerPc[w] = "parked"
                /\ workerPc' = [workerPc EXCEPT ![w] = "top"]
                /\ inHandler' = [inHandler EXCEPT ![w] = b]
-----------------------------------------------------------------------------
(* doDispatchBatchToWorker *)

\* Where doRun goes on when the call is over.
Dispatched == runPc' = IF skipFlush THEN "flush" ELSE "select"

DispatchEmpty == /\ runPc = "dispatch"
                 /\ buffer = {}
                 /\ Dispatched
                 /\ UNCHANGED <<worldVars, threadVars, dispatchVars, emptyCounter>>

DispatchSend(w) == /\ runPc = "dispatch"
                   /\ buffer # {}
                   /\ HandTo(w, buffer)
                   /\ buffer' = {}
                   /\ runPc' = "startWorker"
                   /\ UNCHANGED <<worldVars, batch, skipFlush, timer, emptyCounter, workerNum,
                                  workerMaxNum, unhandled, failsLeft, flushPc>>

\* No worker waits in its select (cancelling its context takes it out): full = true.
DispatchFull == /\ runPc = "dispatch"
                /\ buffer # {}
                /\ WorkerCtxDone \/ \A w \in Worker : workerPc[w] # "parked"
                /\ batch' = buffer
                /\ buffer' = {}
                /\ runPc' = "startWorker"
                /\ UNCHANGED <<worldVars, threadVars, skipFlush, timer, emptyCounter>>

\* Mutant: off by one in the comparison with the limit.
NeedsWorkerLate == /\ batch # {} \/ workerNum = 0
                   /\ workerNum <= workerMaxNum \/ (workerNum = 0 /\ workerMaxNum <= 0)

\* Under workerNumMu; full is batch # {}.
NeedsWorker == /\ batch # {} \/ workerNum = 0
               /\ workerNum < workerMaxNum \/ (workerNum = 0 /\ workerMaxNum <= 0)

StartNewWorker == \E w \in Worker :
    /\ ~Alive(w)
    /\ workerPc' = [workerPc EXCEPT ![w] = "top"]
    /\ workerNum' = workerNum + 1

DispatchStartWorker ==
    /\ runPc = "startWorker"
    /\ IF NeedsWorker THEN StartNewWorker ELSE UNCHANGED <<workerPc, workerNum>>
    /\ IF batch # {} THEN runPc' = "blocked" ELSE Dispatched
    /\ UNCHANGED <<worldVars, handlerVars, dispatchVars, emptyCounter, workerMaxNum, flushPc>>

BlockedSend(w) == /\ runPc = "blocked"
                  /\ HandTo(w, batch)
                  /\ batch' = {}
                  /\ Dispatched
                  /\ UNCHANGED <<worldVars, buffer, skipFlush, timer, emptyCounter, workerNum,
                                 workerMaxNum, unhandled, failsLeft, flushPc>>

\* The run loop handles the batch itself and then flushes.
BlockedFlush(f) == /\ runPc = "blocked"
                   /\ ~skipFlush
                   /\ TakeFlush(f)
                   /\ inHandler' = [inHandler EXCEPT ![Run] = batch]
                   /\ batch' = {}
                   /\ runPc' = "flush"
                   /\ UNCHANGED <<worldVars, poolVars, buffer, skipFlush, timer, emptyCounter,
                                  unhandled, failsLeft>>

\* Mutant: the batch is not returned to the buffer.
BlockedCancelledDrops == /\ runPc = "blocked"
                         /\ ctxDone
                         /\ batch' = {}
                         /\ Dispatched
                         /\ UNCHANGED <<worldVars, threadVars, buffer, skipFlush, timer,
                                        emptyCounter>>

BlockedCancelled == /\ runPc = "blocked"
                    /\ ctxDone
                    /\ buffer' = batch
                    /\ batch' = {}
                    /\ Dispatched
                    /\ UNCHANGED <<worldVars, threadVars, skipFlush, timer, emptyCounter>>
-----------------------------------------------------------------------------
(* doFlush; every step waits until the handler the run loop called has returned *)

FlushCancelWorkers == /\ runPc = "flush" /\ Free(Run)
                      /\ ctxWorkerDone' = TRUE
                      /\ runPc' = "flushWait"
                      /\ UNCHANGED <<threadVars, baseVars, popVars, fateVars, dispatchVars,
                                     ctxDone, shutdownTimeout, emptyCounter>>

\* Mutant: the flush does not wait for the workers.
FlushJoinedEarly == /\ runPc = "flushWait"
                    /\ emptyCounter' = 0
                    /\ runPc' = "flushDrain"
                    /\ UNCHANGED <<worldVars, threadVars, dispatchVars>>

\* wg.Wait returns; nobody sends on batchChan, so draining it finds nothing.
FlushJoined == /\ runPc = "flushWait"
               /\ \A w \in Worker : ~Alive(w)
               /\ emptyCounter' = 0
               /\ runPc' = "flushDrain"
               /\ UNCHANGED <<worldVars, threadVars, dispatchVars>>

FlushHandle == /\ runPc = "flushDrain" /\ Free(Run)
               /\ emptyCounter < 2
               /\ TakePopped
               /\ inHandler' = [inHandler EXCEPT ![Run] = popItem]
               /\ emptyCounter' = 0
               /\ UNCHANGED <<baseVars, ctxVars, fateVars, poolVars, dispatchVars, runPc,
                              unhandled, failsLeft, flushPc>>

\* 20 milliseconds without an item.
FlushTick == /\ runPc = "flushDrain" /\ Free(Run)
             /\ emptyCounter < 2
             /\ base = {}
             /\ emptyCounter' = emptyCounter + 1
             /\ UNCHANGED <<worldVars, threadVars, dispatchVars, runPc>>

\* Mutant: the channel of the flush request is not closed.
FlushEndSilent == /\ runPc = "flushDrain" /\ Free(Run)
                  /\ emptyCounter >= 2 \/ popPc = "closed" \/ ctxDone
                  /\ ctxWorkerDone' = FALSE
                  /\ skipFlush' = FALSE
                  /\ runPc' = "select"
                  /\ UNCHANGED <<threadVars, baseVars, popVars, fateVars, ctxDone,
                                 shutdownTimeout, buffer, batch, timer, emptyCounter>>

\* The deferred part of doFlush: close(flush), and a new context for the workers.  What
\* the loop counted ends with it.
FlushEnd == /\ runPc = "flushDrain" /\ Free(Run)
            /\ emptyCounter >= 2 \/ popPc = "closed" \/ ctxDone
            /\ CloseFlush
            /\ ctxWorkerDone' = FALSE
            /\ skipFlush' = FALSE
            /\ runPc' = "select"
            /\ emptyCounter' = 0
            /\ UNCHANGED <<baseVars, popVars, fateVars, poolVars, handlerVars, ctxDone,
                           shutdownTimeout, buffer, batch, timer>>
-----------------------------------------------------------------------------
(* doRun: the select of the main loop *)

\* Mutant: the debounce timer is not started.
RunReceiveUntimed == /\ runPc = "select"
                     /\ TakePopped
                     /\ buffer' = buffer \cup popItem
                     /\ runPc' = IF Cardinality(buffer') >= BatchLength
                                    THEN "dispatch" ELSE "select"
                     /\ UNCHANGED <<threadVars, baseVars, ctxVars, fateVars, batch, skipFlush,
                                    timer, emptyCounter>>

RunReceive == /\ runPc = "select"
              /\ TakePopped
              /\ buffer' = buffer \cup popItem
              /\ \/ /\ Cardinality(buffer') >= BatchLength
                    /\ runPc' = "dispatch"
                    /\ UNCHANGED timer
                 \/ /\ Cardinality(buffer') < BatchLength
                    /\ timer' = TRUE
                    /\ UNCHANGED runPc
              /\ UNCHANGED <<threadVars, baseVars, ctxVars, fateVars, batch, skipFlush,
                             emptyCounter>>

RunTimer == /\ runPc = "select"
            /\ timer
            /\ timer' = FALSE
            /\ runPc' = "dispatch"
            /\ UNCHANGED <<worldVars, threadVars, buffer, batch, skipFlush, emptyCounter>>

RunFlush(f) == /\ runPc = "select"
               /\ TakeFlush(f)
               /\ skipFlush' = TRUE
               /\ runPc' = "dispatch"
               /\ UNCHANGED <<worldVars, poolVars, handlerVars, buffer, batch, timer,
                              emptyCounter>>

\* popItemChan is closed or ctxRun is done; the deferred function cancels ctxRun.  Nobody
\* reads the timer any more.
RunReturn == /\ runPc = "select"
             /\ ctxDone \/ popPc = "closed"
             /\ ctxDone' = TRUE
             /\ runPc' = "collect"
             /\ timer' = FALSE
             /\ UNCHANGED <<threadVars, baseVars, popVars, fateVars, buffer, batch, skipFlush,
                            ctxWorkerDone, shutdownTimeout, emptyCounter>>
-----------------------------------------------------------------------------
(* doRun: its deferred function, with unhandled in buffer *)

CollectPopped == /\ runPc = "collect"
                 /\ TakePopped
                 /\ buffer' = buffer \cup popItem
                 /\ UNCHANGED <<threadVars, baseVars, ctxVars, fateVars, batch, skipFlush,
                                timer, runPc, emptyCounter>>

\* Mutant: popItemChan is not read to its end.
CollectedEarly == /\ runPc = "collect"
                  /\ runPc' = IF shutdownTimeout # 0 THEN "putBack" ELSE "handleRest"
                  /\ UNCHANGED <<worldVars, threadVars, dispatchVars, emptyCounter>>

Collected == /\ runPc = "collect"
             /\ popPc = "closed"
             /\ runPc' = IF shutdownTimeout # 0 THEN "putBack" ELSE "handleRest"
             /\ UNCHANGED <<worldVars, threadVars, dispatchVars, emptyCounter>>

\* basePushForShutdown loads shutdownTimeout again.
PutBackBegin == /\ runPc = "putBack"
                /\ runPc' = IF shutdownTimeout # 0 THEN "putBackNext" ELSE "putBackExpired"
                /\ UNCHANGED <<worldVars, threadVars, dispatchVars, emptyCounter>>

PutBackStored(x) == /\ runPc = "putBackNext"
                    /\ x \in buffer
                    /\ Room /\ ~Queued(x)
                    /\ base' = base \cup {x}
                    /\ buffer' = buffer \ {x}
                    /\ UNCHANGED <<threadVars, popVars, ctxVars, fateVars, pushing, accepted,
                                   batch, skipFlush, timer, runPc, emptyCounter>>

PutBackMerged(x) == /\ runPc = "putBackNext"
                    /\ x \in buffer
                    /\ Room /\ Queued(x)
                    /\ merged' = merged \cup {x}
                    /\ buffer' = buffer \ {x}
                    /\ UNCHANGED <<threadVars, baseVars, popVars, ctxVars, batch, skipFlush,
                                   timer, runPc, emptyCounter, handled, lost, removed>>

\* The deadline of ctxShutdown, which all the items share, passes: every PushItem fails then
\* before its first attempt.
PutBackExpired == /\ runPc = "putBackNext"
                  /\ buffer # {}
                  /\ runPc' = "putBackExpired"
                  /\ UNCHANGED <<worldVars, threadVars, dispatchVars, emptyCounter>>

\* The queue stays full for pushBlockTime, or the storage fails; the next item is tried.
PutBackFailed(x) == /\ runPc = "putBackNext"
                    /\ x \in buffer
                    /\ StoreFails
                    /\ lost' = lost \cup {x}
                    /\ buffer' = buffer \ {x}
                    /\ UNCHANGED <<threadVars, baseVars, popVars, ctxVars, batch, skipFlush,
                                   timer, runPc, emptyCounter, handled, removed, merged>>

PutBackLost == /\ runPc = "putBackExpired"
               /\ lost' = lost \cup buffer
               /\ buffer' = {}
               /\ runPc' = "join"
               /\ UNCHANGED <<threadVars, baseVars, popVars, ctxVars, batch, skipFlush, timer,
                              emptyCounter, handled, removed, merged>>

PutBackEnd == /\ runPc = "putBackNext"
              /\ buffer = {}
              /\ runPc' = "join"
              /\ UNCHANGED <<worldVars, threadVars, dispatchVars, emptyCounter>>

\* Without a timeout the run loop calls safeHandler and waits for it in "handleRest": it
\* returns here, if ever.  Nobody waits for the workers.
HandleRest == /\ runPc = "handleRest"
              /\ \E failed \in SUBSET buffer :
                  /\ handled' = handled \cup (buffer \ failed)
                  /\ lost' = lost \cup failed
              /\ buffer' = {}
              /\ runPc' = "stopped"
              /\ UNCHANGED <<threadVars, baseVars, popVars, ctxVars, batch, skipFlush, timer,
                             emptyCounter, removed, merged>>

\* Mutant: waiting for the workers without a timeout.
JoinUntimed == /\ runPc = "join"
               /\ \A w \in Worker : ~Alive(w)
               /\ runPc' = "stopped"
               /\ UNCHANGED <<worldVars, threadVars, dispatchVars, emptyCounter>>

\* All workers are done, or shutdownTimeout has elapsed; close(shutdownDone).
Join == /\ runPc = "join"
        /\ runPc' = "stopped"
        /\ UNCHANGED <<worldVars, threadVars, dispatchVars, emptyCounter>>
-----------------------------------------------------------------------------
Caller == \/ \E x \in Item : Push(x) \/ PushStored(x) \/ PushFailed(x)
          \/ \E n \in AdminMax : SetWorkerMaxNumber(n)
          \/ \E d \in ShutdownTimeouts : ShutdownWait(d)
          \/ \E f \in Flusher : FlushRequest(f) \/ FlushGiveUp(f)
          \/ RemoveAllItems \/ Cancel

Popper == PopCheck \/ PopTake \/ PopRetry

Requeue(t) == \E x \in Item : RequeueStored(t, x) \/ RequeueMerged(t, x) \/ RequeueLost(t, x)

WorkerLoop(w) == WorkerPark(w) \/ WorkerCancelled(w)

RunSelect == RunReceive \/ RunTimer \/ RunReturn \/ \E f \in Flusher : RunFlush(f)

Dispatch == \/ DispatchEmpty \/ DispatchFull \/ DispatchStartWorker \/ BlockedCancelled
            \/ \E w \in Worker : DispatchSend(w) \/ BlockedSend(w)
            \/ \E f \in Flusher : BlockedFlush(f)

Flush == FlushCancelWorkers \/ FlushJoined \/ FlushHandle \/ FlushTick \/ FlushEnd

Shutdown == \/ CollectPopped \/ Collected \/ PutBackBegin \/ PutBackExpired \/ PutBackLost
            \/ PutBackEnd \/ Join
            \/ \E x \in Item : PutBackStored(x) \/ PutBackMerged(x) \/ PutBackFailed(x)

RunLoop == RunSelect \/ Dispatch \/ Flush \/ Shutdown

Next == \/ Caller \/ Popper \/ PopError \/ RunLoop \/ HandleRest
        \/ \E w \in Worker : WorkerLoop(w) \/ WorkerIdle(w)
        \/ \E t \in Thread : HandlerReturn(t) \/ Requeue(t)

Spec == Init /\ [][Next]_vars

\* The goroutines of the queue are scheduled; handlers need not return.
SchedulerFairness == /\ WF_vars(Popper)
                     /\ WF_vars(RunLoop)
                     /\ \A w \in Worker : WF_vars(WorkerLoop(w))
                     /\ \A t \in Thread : WF_vars(Requeue(t))

FairSpec == Spec /\ SchedulerFairness

\* What a property may assume of the handlers: every call returns some day.
HandlersReturn == WF_vars(HandleRest) /\ \A t \in Thread : WF_vars(HandlerReturn(t))
-----------------------------------------------------------------------------
Owned(t) == inHandler[t] \cup unhandled[t]
Carried == UNION {Owned(t) : t \in Thread}
Settled == handled \cup lost \cup removed \cup merged
\* Accepted and not settled: in the base queue or on its way through the pool.
Pending == base \cup popItem \cup buffer \cup batch \cup Carried

TypeOK == /\ base \subseteq Item /\ Cardinality(base) <= Length
          /\ pushing \subseteq Item /\ accepted \subseteq Item
          /\ popPc \in {"check", "pop", "send", "closed"}
          /\ popItem \subseteq Item
          /\ ctxDone \in BOOLEAN /\ ctxWorkerDone \in BOOLEAN
          /\ shutdownTimeout \in Nat
          /\ runPc \in {"select", "dispatch", "startWorker", "blocked", "flush", "flushWait",
                        "flushDrain", "collect", "putBack", "putBackNext", "putBackExpired",
                        "handleRest", "join", "stopped"}
          /\ emptyCounter \in 0..2
          /\ buffer \subseteq Item /\ batch \subseteq Item
          /\ skipFlush \in BOOLEAN /\ timer \in BOOLEAN
          /\ workerPc \in [Worker -> {"none", "top", "parked"}]
          /\ workerNum \in Nat /\ workerMaxNum \in Int
          /\ inHandler \in [Thread -> SUBSET Item]
          /\ unhandled \in [Thread -> SUBSET Item]
          /\ failsLeft \in 0..FailBudget
          /\ flushPc \in [Flusher -> {"idle", "sending", "waiting", "done", "failed"}]
          /\ handled \subseteq Item /\ lost \subseteq Item /\ removed \subseteq Item
          /\ merged \subseteq Item

\* No accepted item vanishes: it is in the base queue, on its way through the pool, or
\* its fate is recorded.
Accounted == accepted = Pending \cup Settled

\* No accepted item is in two places, so none is handled twice or requeued while handled.
Exclusive ==
    /\ base \cap (popItem \cup buffer \cup batch \cup Settled) = {}
    /\ popItem \cap (buffer \cup batch \cup Settled) = {}
    /\ buffer \cap (batch \cup Settled) = {}
    /\ batch \cap Settled = {}
    /\ handled \cap (lost \cup removed \cup merged) = {}
    /\ lost \cap (removed \cup merged) = {} /\ removed \cap merged = {}
    /\ \A t \in Thread : /\ inHandler[t] \cap unhandled[t] = {}
                         /\ Owned(t) \cap (base \cup popItem \cup buffer \cup batch) = {}
                         /\ Owned(t) \cap Settled = {}
    /\ \A t, u \in Thread : t # u => Owned(t) \cap Owned(u) = {}

\* What waits in the buffer is dispatched without another push: a debounce timer is armed.
BufferHasTimer == (runPc = "select" /\ buffer # {} /\ ~ctxDone) => timer

\* The race that the TODO in doDispatchBatchToWorker is about cannot strand a batch:
\* while the run loop offers one, a worker is alive, or the pool is being cancelled.
BlockedHasWorker == runPc = "blocked" => (\E w \in Worker : Alive(w)) \/ ctxDone

\* workerNum, changed by several goroutines, counts the live workers, and no interleaving
\* exceeds the largest limit ever set (one worker is started even under a limit of 0).
WorkerCount == workerNum = Cardinality({w \in Worker : Alive(w)})
WorkerLimit == workerNum <= 1 \/ \E n \in AdminMax \cup {MaxWorkers} : workerNum <= n

\* A flush is synchronous: when FlushWithContext returns nil no worker is running and the
\* run loop holds no item, unless the queue is being cancelled.
FlushIsSynchronous ==
    [][\A f \in Flusher : flushPc[f] = "waiting" /\ flushPc'[f] = "done"
         => /\ \A w \in Worker : ~Alive(w)
            /\ \A t \in Thread : Free(t)
            /\ (buffer \cup batch = {}) \/ ctxDone]_vars

\* shutdownDone is closed only when the run loop and the pop goroutine hold nothing that
\* could still be put back.
StoppedHoldsNothing == runPc = "stopped" => /\ buffer \cup batch \cup popItem = {}
                                            /\ popPc = "closed"
                                            /\ Free(Run)

\* If handlers return, an accepted item is handled in the end, unless it is removed, lost or
\* merged, or the queue stops.
EventuallyHandled == HandlersReturn =>
    \A x \in Item : x \in accepted ~> (x \in Settled \/ ctxDone)

\* If handlers return, a flush request is answered, or its caller gives up, or the queue stops.
FlushReturns == HandlersReturn =>
    \A f \in Flusher : flushPc[f] = "sending" ~> (flushPc[f] \in {"done", "failed"} \/ ctxDone)

\* The run loop waits for a handler without a timeout: in doFlush, or for its last call.
RunWaits == \/ /\ runPc \in {"flush", "flushWait", "flushDrain"}
               /\ \E t \in Thread : inHandler[t] # {}
            \/ runPc = "handleRest"

\* "shutdown should finish in predictable time" (workerqueue.go:25): even if handlers hang
\* for ever it ends, unless the run loop itself waits for one of them for ever, in a flush
\* or in a shutdown without a timeout.
ShutdownEndsUnlessRunWaits == ([]<>~RunWaits) => (ctxDone ~> runPc = "stopped")

\* What the pool promises its callers, in terms of what becomes of the items.
Contract == INSTANCE QueueContract WITH
    pending <- Pending, closing <- ctxDone, Capacity <- Length, Faulty <- BaseErrors
ImplementsContract == Contract!Spec
=============================================================================
