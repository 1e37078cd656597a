-------------------------- MODULE WebhookDelivery --------------------------
(***************************************************************************)
(* Delivery of webhook tasks (services/webhook, models/webhook/hooktask.go)*)
(*                                                                         *)
(* A task is a row of hook_task; its id goes through the unique queue      *)
(* webhook_sender to a worker, which marks the row as delivered, sends the *)
(* request and records the response.  When the server starts, the ids of   *)
(* the rows that are not marked are queued again, page by page, while the  *)
(* workers of the queue are at work already.                               *)
(*                                                                         *)
(* The queue is persistent (type level) and stands for its base queue: a   *)
(* batch that a worker has popped is not in it.  The worker pool itself is *)
(* module WorkerPool.                                                      *)
(***************************************************************************)
EXTENDS Naturals, FiniteSets

CONSTANTS
  MaxTasks,    \* bound on the tasks, whose ids grow
  Caller,      \* goroutines that create a task
  Worker,      \* workers of the queue
  PageSize,    \* batchSize of FindUndeliveredHookTaskIDs
  MaxFaults    \* bound on the crashes and the failing calls

ASSUME TasksAssumption == MaxTasks \in Nat /\ MaxFaults \in Nat
ASSUME PageAssumption == PageSize \in Nat \ {0}

VARIABLES
  row,         \* every task: its row of hook_task
  sent,        \* the requests sent for every task
  queued,      \* the ids in the queue
  caller,      \* the task a caller has created and not queued yet, 0 if none
  at,          \* where a worker is
  batch,       \* the rest of its batch
  task,        \* its task, 0 if none
  result,      \* the response it got
  boot,        \* where populateWebhookSendingQueue is
  lower,       \* its lower bound of the next page
  page,        \* the rest of the page
  missed,      \* tasks an error was logged of since the start
  faults       \* crashes and failures so far

tables == <<row, sent>>
workers == <<at, batch, task, result>>
populating == <<boot, lower, page>>
vars == <<tables, queued, caller, workers, populating, missed, faults>>

Task == 1..MaxTasks

TypeOK ==
  /\ row \in [Task -> {"none", "undelivered", "marked", "succeeded", "failed", "deleted"}]
  /\ sent \in [Task -> Nat]
  /\ queued \subseteq Task
  /\ caller \in [Caller -> 0..MaxTasks]
  /\ at \in [Worker -> {"idle", "handling", "loaded", "sending", "recording"}]
  /\ batch \in [Worker -> SUBSET Task]
  /\ task \in [Worker -> 0..MaxTasks]
  /\ result \in [Worker -> {"succeeded", "failed"}]
  /\ boot \in {"finding", "pushing", "done"}
  /\ lower \in 0..MaxTasks
  /\ page \subseteq Task
  /\ missed \subseteq Task
  /\ faults \in 0..MaxFaults

\* The server starts; some tasks may be left from before.
Init ==
  /\ \E n \in 0..MaxTasks : row = [t \in Task |-> IF t <= n THEN "undelivered" ELSE "none"]
  /\ sent = [t \in Task |-> 0]
  /\ queued = {}
  /\ caller = [c \in Caller |-> 0]
  /\ at = [w \in Worker |-> "idle"]
  /\ batch = [w \in Worker |-> {}]
  /\ task = [w \in Worker |-> 0]
  /\ result = [w \in Worker |-> "failed"]
  /\ boot = "finding" /\ lower = 0 /\ page = {}
  /\ missed = {}
  /\ faults = 0

Fault == faults < MaxFaults /\ faults' = faults + 1
IsDelivered(t) == row[t] \in {"marked", "succeeded", "failed"}
-----------------------------------------------------------------------------
(* PrepareWebhook and ReplayHookTask.                                      *)

\* CreateHookTask
Create(c) ==
  /\ caller[c] = 0
  /\ \E t \in Task :
       /\ row[t] = "none" /\ \A u \in 1..(t - 1) : row[u] # "none"
       /\ row' = [row EXCEPT ![t] = "undelivered"]
       /\ caller' = [caller EXCEPT ![c] = t]
  /\ UNCHANGED <<sent, queued, workers, populating, missed, faults>>

\* enqueueHookTask; "already in queue" is no error.
Enqueue(c) ==
  /\ caller[c] # 0
  /\ queued' = queued \cup {caller[c]}
  /\ caller' = [caller EXCEPT ![c] = 0]
  /\ UNCHANGED <<tables, workers, populating, missed, faults>>

\* The caller gets the error, the row stays.
EnqueueFails(c) ==
  /\ caller[c] # 0 /\ Fault
  /\ missed' = missed \cup {caller[c]}
  /\ caller' = [caller EXCEPT ![c] = 0]
  /\ UNCHANGED <<tables, queued, workers, populating>>
-----------------------------------------------------------------------------
(* handler and Deliver.                                                    *)

\* The queue calls the handler with a batch.
Pop(w) ==
  /\ at[w] = "idle"
  /\ \E b \in SUBSET queued \ {{}} :
       /\ queued' = queued \ b
       /\ batch' = [batch EXCEPT ![w] = b]
  /\ at' = [at EXCEPT ![w] = "handling"]
  /\ UNCHANGED <<tables, caller, task, result, populating, missed, faults>>

\* The worker is done with its task.
Continue(w) ==
  /\ at' = [at EXCEPT ![w] = "handling"]
  /\ task' = [task EXCEPT ![w] = 0]
  /\ result' = [result EXCEPT ![w] = "failed"]

\* The worker takes t up if its row is to be delivered.
Take(w, t) ==
  /\ batch' = [batch EXCEPT ![w] = @ \ {t}]
  /\ at' = [at EXCEPT ![w] = IF row[t] = "undelivered" THEN "loaded" ELSE @]
  /\ task' = [task EXCEPT ![w] = IF row[t] = "undelivered" THEN t ELSE @]

\* Mutant: an item that needs no delivery is tried again, before the rest of the batch.
LoadRetries(w) ==
  /\ at[w] = "handling"
  /\ \A t \in batch[w] : row[t] = "undelivered"
  /\ \E t \in batch[w] : Take(w, t)
  /\ UNCHANGED <<tables, queued, caller, result, populating, missed, faults>>

\* GetHookTaskByID: a row that is gone or delivered is skipped.
Load(w) ==
  /\ at[w] = "handling"
  /\ \E t \in batch[w] : Take(w, t)
  /\ UNCHANGED <<tables, queued, caller, result, populating, missed, faults>>

\* The row could not be read.
LoadFails(w) ==
  /\ at[w] = "handling" /\ Fault
  /\ \E t \in batch[w] :
       /\ batch' = [batch EXCEPT ![w] = @ \ {t}]
       /\ missed' = missed \cup {t}
  /\ UNCHANGED <<tables, queued, caller, at, task, result, populating>>

\* The webhook is gone, the request cannot be made, or MarkTaskDelivered fails.
DeliverFails(w) ==
  /\ at[w] = "loaded" /\ Fault
  /\ missed' = missed \cup {task[w]}
  /\ Continue(w)
  /\ UNCHANGED <<tables, queued, caller, batch, populating>>

\* Mutant: the update is not conditional on is_delivered.
MarkAnyway(w) ==
  /\ at[w] = "loaded"
  /\ row' = [row EXCEPT ![task[w]] = "marked"]
  /\ at' = [at EXCEPT ![w] = "sending"]
  /\ UNCHANGED <<sent, queued, caller, batch, task, result, populating, missed, faults>>

\* Mutant: the deferred update of the row is there before the row is marked.
MarkDefers(w) ==
  /\ at[w] = "loaded"
  /\ IF row[task[w]] = "undelivered"
     THEN /\ row' = [row EXCEPT ![task[w]] = "marked"]
          /\ at' = [at EXCEPT ![w] = "sending"]
     ELSE /\ at' = [at EXCEPT ![w] = "recording"]
          /\ UNCHANGED row
  /\ UNCHANGED <<sent, queued, caller, batch, task, result, populating, missed, faults>>

\* MarkTaskDelivered
Mark(w) ==
  /\ at[w] = "loaded"
  /\ \/ /\ row[task[w]] = "undelivered"
        /\ row' = [row EXCEPT ![task[w]] = "marked"]
        /\ at' = [at EXCEPT ![w] = "sending"]
        /\ UNCHANGED <<task, result>>
     \/ /\ row[task[w]] # "undelivered"
        /\ Continue(w)
        /\ UNCHANGED row
  /\ UNCHANGED <<sent, queued, caller, batch, populating, missed, faults>>

\* The request, answered or not.
Send(w) ==
  /\ at[w] = "sending"
  /\ sent' = [sent EXCEPT ![task[w]] = @ + 1]
  /\ at' = [at EXCEPT ![w] = "recording"]
  /\ \E r \in {"succeeded", "failed"} : result' = [result EXCEPT ![w] = r]
  /\ UNCHANGED <<row, queued, caller, batch, task, populating, missed, faults>>

\* The webhook is inactive or webhooks are disabled.
SendNothing(w) ==
  /\ at[w] = "sending"
  /\ at' = [at EXCEPT ![w] = "recording"]
  /\ UNCHANGED <<tables, queued, caller, batch, task, result, populating, missed, faults>>

\* UpdateHookTask, all columns of a row that may be gone
Record(w) ==
  /\ at[w] = "recording"
  /\ row' = [row EXCEPT ![task[w]] = IF @ = "deleted" THEN @ ELSE result[w]]
  /\ Continue(w)
  /\ UNCHANGED <<sent, queued, caller, batch, populating, missed, faults>>

RecordFails(w) ==
  /\ at[w] = "recording" /\ Fault
  /\ Continue(w)
  /\ UNCHANGED <<tables, queued, caller, batch, populating, missed>>

\* The handler returns, nothing is put back.
Return(w) ==
  /\ at[w] = "handling" /\ batch[w] = {}
  /\ at' = [at EXCEPT ![w] = "idle"]
  /\ UNCHANGED <<tables, queued, caller, batch, task, result, populating, missed, faults>>

WorkerStep(w) ==
  \/ Pop(w) \/ Load(w) \/ LoadFails(w) \/ DeliverFails(w) \/ Mark(w)
  \/ Send(w) \/ SendNothing(w) \/ Record(w) \/ RecordFails(w) \/ Return(w)
-----------------------------------------------------------------------------
(* populateWebhookSendingQueue, cleanup and crashes.                       *)

Undelivered == {t \in Task : t > lower /\ row[t] = "undelivered"}

\* FindUndeliveredHookTaskIDs: the first of them, in the order of their ids.
Page ==
  {t \in Undelivered : Cardinality({u \in Undelivered : u < t}) < PageSize}

\* Mutant: the next page begins after the id that follows this one.
PopulateFindSkips ==
  /\ boot = "finding"
  /\ \/ Undelivered = {} /\ boot' = "done" /\ UNCHANGED <<lower, page>>
     \/ \E last \in Page : /\ \A t \in Page : t <= last
                           /\ boot' = "pushing" /\ lower' = last + 1 /\ page' = Page
  /\ UNCHANGED <<tables, queued, caller, workers, missed, faults>>

PopulateFind ==
  /\ boot = "finding"
  /\ \/ Undelivered = {} /\ boot' = "done" /\ UNCHANGED <<lower, page>>
     \/ \E last \in Page : /\ \A t \in Page : t <= last
                           /\ boot' = "pushing" /\ lower' = last /\ page' = Page
  /\ UNCHANGED <<tables, queued, caller, workers, missed, faults>>

\* The page is done.
PopulateNext ==
  /\ boot = "pushing" /\ page = {}
  /\ boot' = "finding"
  /\ UNCHANGED <<tables, queued, caller, workers, lower, page, missed, faults>>

First(t) == t \in page /\ \A u \in page : t <= u

PopulatePush ==
  /\ boot = "pushing"
  /\ \E t \in Task : First(t) /\ queued' = queued \cup {t} /\ page' = page \ {t}
  /\ UNCHANGED <<tables, caller, workers, boot, lower, missed, faults>>

\* An error is logged: of the push, or of the find, which ends the loop.
PopulateFails ==
  /\ Fault
  /\ \/ /\ boot = "pushing" /\ UNCHANGED boot
        /\ \E t \in Task : First(t) /\ missed' = missed \cup {t} /\ page' = page \ {t}
     \/ /\ boot = "finding" /\ boot' = "done"
        /\ missed' = missed \cup Undelivered
        /\ UNCHANGED page
  /\ UNCHANGED <<tables, queued, caller, workers, lower>>

\* CleanupHookTaskTable: any row that is marked, the response recorded or not.
Cleanup(t) ==
  /\ IsDelivered(t)
  /\ row' = [row EXCEPT ![t] = "deleted"]
  /\ UNCHANGED <<sent, queued, caller, workers, populating, missed, faults>>

\* DeleteWebhookByID: all rows of a webhook, delivered or not.  Which tasks are of which
\* webhook is left open.
DeleteWebhook ==
  /\ \E S \in SUBSET {t \in Task : row[t] # "none"} :
       row' = [t \in Task |-> IF t \in S THEN "deleted" ELSE row[t]]
  /\ UNCHANGED <<sent, queued, caller, workers, populating, missed, faults>>

\* Rows and queue survive.
Crash ==
  /\ Fault
  /\ caller' = [c \in Caller |-> 0]
  /\ at' = [w \in Worker |-> "idle"]
  /\ batch' = [w \in Worker |-> {}]
  /\ task' = [w \in Worker |-> 0]
  /\ result' = [w \in Worker |-> "failed"]
  /\ boot' = "finding" /\ lower' = 0 /\ page' = {}
  /\ missed' = {}
  /\ UNCHANGED <<tables, queued>>
-----------------------------------------------------------------------------
Next ==
  \/ \E c \in Caller : Create(c) \/ Enqueue(c) \/ EnqueueFails(c)
  \/ \E w \in Worker : WorkerStep(w)
  \/ PopulateFind \/ PopulateNext \/ PopulatePush \/ PopulateFails
  \/ \E t \in Task : Cleanup(t)
  \/ DeleteWebhook
  \/ Crash

Spec == Init /\ [][Next]_vars

\* Goroutines that were started run: requests time out, so Send is a step that ends.
Fairness ==
  /\ \A c \in Caller : WF_vars(Enqueue(c))
  /\ \A w \in Worker : WF_vars(WorkerStep(w))
  /\ WF_vars(PopulateFind) /\ WF_vars(PopulateNext) /\ WF_vars(PopulatePush)

FairSpec == Spec /\ Fairness
-----------------------------------------------------------------------------
\* A task is sent at most once, though its id may be queued again while it is handled,
\* several workers may load its undelivered row, and the server may start again between
\* any two steps; and nothing is sent whose row does not say so before (deliver.go:88-99).
SentOnce ==
  \A t \in Task : sent[t] <= 1 /\ (sent[t] = 1 => row[t] \notin {"none", "undelivered"})

Underway(t) ==
  \/ t \in queued
  \/ \E c \in Caller : caller[c] = t
  \/ \E w \in Worker : t \in batch[w] \/ (task[w] = t /\ at[w] = "loaded")
  \/ t \in page
  \/ boot # "done" /\ lower < t

\* An undelivered task is on its way to a worker, or an error was logged of it since the
\* start: no crash, page boundary or concurrent creation leaves one behind.
UndeliveredIsUnderway ==
  \A t \in Task : row[t] = "undelivered" => (Underway(t) \/ t \in missed)

\* A recorded response is not overwritten, although UpdateHookTask writes all columns of
\* a row that was loaded long before.
RecordIsFinal ==
  [][\A t \in Task : row[t] \in {"succeeded", "failed"} => row'[t] \in {row[t], "deleted"}]_row

\* A task is delivered, or deleted with its webhook, unless an error is logged of it.
EventuallyDelivered ==
  \A t \in Task : row[t] = "undelivered" ~> (row[t] # "undelivered" \/ t \in missed)
=============================================================================
