----------------------- MODULE WebhookDeliveryProofs -----------------------
(***************************************************************************)
(* What holds of the delivery of webhooks for every number of tasks,       *)
(* workers and callers, and every size of the pages.                       *)
(***************************************************************************)
EXTENDS WebhookDelivery, FiniteSetTheorems, TLAPS

Delivering == {"sending", "recording"}

\* A task that is being sent is marked, was not sent before and is one worker's; an idle
\* worker holds no batch.
Held ==
  /\ \A w \in Worker : at[w] \in {"loaded", "sending", "recording"} => task[w] \in Task
  /\ \A w \in Worker : at[w] = "idle" => batch[w] = {}
  /\ \A w \in Worker : at[w] \in Delivering => row[task[w]] \in {"marked", "deleted"}
  /\ \A w \in Worker : at[w] = "sending" => sent[task[w]] = 0
  /\ \A v, w \in Worker :
       (at[v] \in Delivering /\ at[w] \in Delivering /\ task[v] = task[w]) => v = w

\* A page is pushed before the next is read.
Paged == boot # "pushing" => page = {}

Inv == TypeOK /\ SentOnce /\ Held /\ Paged /\ UndeliveredIsUnderway

LEMMA TaskFinite == \A S \in SUBSET Task : IsFiniteSet(S)
<1>1. IsFiniteSet(Task)
  BY TasksAssumption, FS_Interval DEF Task
<1> QED
  BY <1>1, FS_Subset

\* Every undelivered task up to the last of a page is in the page.
LEMMA PageIsDense ==
  ASSUME NEW last \in Page, NEW t \in Undelivered, t <= last
  PROVE  t \in Page
<1> DEFINE Below(x) == {u \in Undelivered : u < x}
<1>1. last \in Task /\ t \in Task /\ \A x : Below(x) \in SUBSET Task
  BY DEF Page, Undelivered
<1>2. Below(t) \subseteq Below(last)
  BY <1>1, TasksAssumption DEF Undelivered, Task
<1>3. /\ Cardinality(Below(t)) <= Cardinality(Below(last))
      /\ Cardinality(Below(t)) \in Nat /\ Cardinality(Below(last)) \in Nat
  BY <1>1, <1>2, TaskFinite, FS_Subset, FS_CardinalityType
<1>4. Cardinality(Below(last)) < PageSize
  BY DEF Page
<1>5. Cardinality(Below(t)) < PageSize
  BY <1>3, <1>4, PageAssumption
<1> QED
  BY <1>5 DEF Page

LEMMA CreateKeeps ==
  ASSUME Inv, NEW c \in Caller, Create(c)
  PROVE  Inv'
<1>1. TypeOK /\ SentOnce /\ Held /\ Paged /\ UndeliveredIsUnderway
  BY DEF Inv
<1>2. TypeOK'
  BY <1>1, TasksAssumption DEF Create, tables, workers, populating, TypeOK, Task
<1>3. SentOnce'
  BY <1>1 DEF Create, tables, workers, populating, TypeOK, SentOnce, Held,
     Delivering
<1>4. Held'
  BY <1>1 DEF Create, tables, workers, populating, TypeOK, SentOnce, Held,
     Delivering
<1>5. Paged'
  BY <1>1 DEF Create, tables, workers, populating, TypeOK, Paged
<1>6. UndeliveredIsUnderway'
  BY <1>1 DEF Create, tables, workers, populating, TypeOK, UndeliveredIsUnderway,
     Underway, Paged, Task
<1> QED
  BY <1>2, <1>3, <1>4, <1>5, <1>6 DEF Inv

LEMMA EnqueueKeeps ==
  ASSUME Inv, NEW c \in Caller, Enqueue(c)
  PROVE  Inv'
<1>1. TypeOK /\ SentOnce /\ Held /\ Paged /\ UndeliveredIsUnderway
  BY DEF Inv
<1>2. caller[c] \in Task /\ 0 \in 0..MaxTasks
  BY <1>1, TasksAssumption DEF TypeOK, Task, Enqueue
<1>3. queued' \subseteq Task
  BY <1>1, <1>2 DEF TypeOK, Enqueue
<1>4. TypeOK'
  BY <1>1, <1>2, <1>3 DEF Enqueue, tables, workers, populating, TypeOK
<1>5. SentOnce'
  BY <1>1, <1>2, <1>3 DEF Enqueue, tables, workers, populating, TypeOK, SentOnce,
     Held, Delivering
<1>6. Held'
  BY <1>1, <1>2, <1>3 DEF Enqueue, tables, workers, populating, TypeOK, SentOnce,
     Held, Delivering
<1>7. Paged'
  BY <1>1, <1>2, <1>3 DEF Enqueue, tables, workers, populating, TypeOK, Paged
<1>8. UndeliveredIsUnderway'
  BY <1>1, <1>2, <1>3 DEF Enqueue, tables, workers, populating, TypeOK,
     UndeliveredIsUnderway, Underway, Paged, Task
<1> QED
  BY <1>4, <1>5, <1>6, <1>7, <1>8 DEF Inv

LEMMA EnqueueFailsKeeps ==
  ASSUME Inv, NEW c \in Caller, EnqueueFails(c)
  PROVE  Inv'
<1>1. TypeOK /\ SentOnce /\ Held /\ Paged /\ UndeliveredIsUnderway
  BY DEF Inv
<1>2. caller[c] \in Task /\ 0 \in 0..MaxTasks
  BY <1>1, TasksAssumption DEF TypeOK, Task, EnqueueFails
<1>3. missed' \subseteq Task /\ faults' \in 0..MaxFaults
  BY <1>1, <1>2, TasksAssumption DEF TypeOK, EnqueueFails, Fault
<1>4. TypeOK'
  BY <1>1, <1>2, <1>3 DEF EnqueueFails, Fault, tables, workers, populating, TypeOK
<1>5. SentOnce'
  BY <1>1, <1>2, <1>3 DEF EnqueueFails, Fault, tables, workers, populating,
     TypeOK, SentOnce, Held, Delivering
<1>6. Held'
  BY <1>1, <1>2, <1>3 DEF EnqueueFails, Fault, tables, workers, populating,
     TypeOK, SentOnce, Held, Delivering
<1>7. Paged'
  BY <1>1, <1>2, <1>3 DEF EnqueueFails, Fault, tables, workers, populating,
     TypeOK, Paged
<1>8. UndeliveredIsUnderway'
  BY <1>1, <1>2, <1>3 DEF EnqueueFails, Fault, tables, workers, populating,
     TypeOK, UndeliveredIsUnderway, Underway, Paged, Task
<1> QED
  BY <1>4, <1>5, <1>6, <1>7, <1>8 DEF Inv

LEMMA PopKeeps ==
  ASSUME Inv, NEW w \in Worker, Pop(w)
  PROVE  Inv'
<1>1. TypeOK /\ SentOnce /\ Held /\ Paged /\ UndeliveredIsUnderway
  BY DEF Inv
<1>2. TypeOK'
  BY <1>1, TasksAssumption DEF Pop, tables, workers, populating, TypeOK, Task
<1>3. SentOnce'
  BY <1>1 DEF Pop, tables, workers, populating, TypeOK, SentOnce, Held, Delivering
<1>4. Held'
  BY <1>1 DEF Pop, tables, workers, populating, TypeOK, SentOnce, Held, Delivering
<1>5. Paged'
  BY <1>1 DEF Pop, tables, workers, populating, TypeOK, Paged
<1>6. UndeliveredIsUnderway'
  <2> SUFFICES ASSUME NEW t \in Task, row[t] = "undelivered"
               PROVE  Underway(t)' \/ t \in missed'
    BY DEF Pop, tables, UndeliveredIsUnderway
  <2>1. PICK b \in SUBSET queued : queued' = queued \ b /\ batch' = [batch EXCEPT ![w] = b]
    BY DEF Pop
  <2>2. \A v \in Worker : v # w => batch'[v] = batch[v] /\ at'[v] = at[v]
    BY <1>1, <2>1 DEF Pop, TypeOK
  <2>3. batch'[w] = b /\ at[w] = "idle" /\ task' = task
    BY <1>1, <2>1 DEF Pop, TypeOK
  <2>4. CASE t \in queued
    BY <2>1, <2>3, <2>4 DEF Underway
  <2>5. CASE \E v \in Worker : t \in batch[v] \/ (task[v] = t /\ at[v] = "loaded")
    <3>1. PICK v \in Worker : t \in batch[v] \/ (task[v] = t /\ at[v] = "loaded")
      BY <2>5
    <3>2. CASE v = w
      BY <1>1, <2>3, <3>1, <3>2 DEF Held
    <3>3. CASE v # w
      BY <2>2, <2>3, <3>1, <3>3 DEF Underway
    <3> QED
      BY <3>2, <3>3
  <2> QED
    BY <1>1, <2>4, <2>5 DEF Pop, populating, UndeliveredIsUnderway, Underway
<1> QED
  BY <1>2, <1>3, <1>4, <1>5, <1>6 DEF Inv

LEMMA LoadKeeps ==
  ASSUME Inv, NEW w \in Worker, Load(w)
  PROVE  Inv'
<1>1. TypeOK /\ SentOnce /\ Held /\ Paged /\ UndeliveredIsUnderway
  BY DEF Inv
<1>2. TypeOK'
  BY <1>1, TasksAssumption DEF Load, Take, tables, workers, populating, TypeOK,
     Task
<1>3. SentOnce'
  BY <1>1 DEF Load, Take, tables, workers, populating, TypeOK, SentOnce, Held,
     Delivering
<1>4. Held'
  BY <1>1 DEF Load, Take, tables, workers, populating, TypeOK, SentOnce, Held,
     Delivering
<1>5. Paged'
  BY <1>1 DEF Load, Take, tables, workers, populating, TypeOK, Paged
<1>6. UndeliveredIsUnderway'
  BY <1>1 DEF Load, Take, tables, workers, populating, TypeOK,
     UndeliveredIsUnderway, Underway, Paged, Task
<1> QED
  BY <1>2, <1>3, <1>4, <1>5, <1>6 DEF Inv

LEMMA LoadFailsKeeps ==
  ASSUME Inv, NEW w \in Worker, LoadFails(w)
  PROVE  Inv'
<1>1. TypeOK /\ SentOnce /\ Held /\ Paged /\ UndeliveredIsUnderway
  BY DEF Inv
<1>2. TypeOK'
  BY <1>1, TasksAssumption DEF LoadFails, Fault, tables, workers, populating,
     TypeOK, Task
<1>3. SentOnce'
  BY <1>1 DEF LoadFails, Fault, tables, workers, populating, TypeOK, SentOnce,
     Held, Delivering
<1>4. Held'
  BY <1>1 DEF LoadFails, Fault, tables, workers, populating, TypeOK, SentOnce,
     Held, Delivering
<1>5. Paged'
  BY <1>1 DEF LoadFails, Fault, tables, workers, populating, TypeOK, Paged
<1>6. UndeliveredIsUnderway'
  BY <1>1 DEF LoadFails, Fault, tables, workers, populating, TypeOK,
     UndeliveredIsUnderway, Underway, Paged, Task
<1> QED
  BY <1>2, <1>3, <1>4, <1>5, <1>6 DEF Inv

LEMMA DeliverFailsKeeps ==
  ASSUME Inv, NEW w \in Worker, DeliverFails(w)
  PROVE  Inv'
<1>1. TypeOK /\ SentOnce /\ Held /\ Paged /\ UndeliveredIsUnderway
  BY DEF Inv
<1>2. task[w] \in Task /\ 0 \in 0..MaxTasks
  BY <1>1, TasksAssumption DEF Held, Delivering, DeliverFails
<1>3. missed' \subseteq Task /\ faults' \in 0..MaxFaults
  BY <1>1, <1>2, TasksAssumption DEF TypeOK, DeliverFails, Fault
<1>4. TypeOK'
  BY <1>1, <1>2, <1>3 DEF DeliverFails, Fault, Continue, tables, workers,
     populating, TypeOK
<1>5. SentOnce'
  BY <1>1, <1>2, <1>3 DEF DeliverFails, Fault, Continue, tables, workers,
     populating, TypeOK, SentOnce, Held, Delivering
<1>6. Held'
  BY <1>1, <1>2, <1>3 DEF DeliverFails, Fault, Continue, tables, workers,
     populating, TypeOK, SentOnce, Held, Delivering
<1>7. Paged'
  BY <1>1, <1>2, <1>3 DEF DeliverFails, Fault, Continue, tables, workers,
     populating, TypeOK, Paged
<1>8. UndeliveredIsUnderway'
  BY <1>1, <1>2, <1>3 DEF DeliverFails, Fault, Continue, tables, workers,
     populating, TypeOK, UndeliveredIsUnderway, Underway, Paged, Task
<1> QED
  BY <1>4, <1>5, <1>6, <1>7, <1>8 DEF Inv

LEMMA MarkKeeps ==
  ASSUME Inv, NEW w \in Worker, Mark(w)
  PROVE  Inv'
<1>1. TypeOK /\ SentOnce /\ Held /\ Paged /\ UndeliveredIsUnderway
  BY DEF Inv
<1>2. task[w] \in Task /\ 0 \in 0..MaxTasks
  BY <1>1, TasksAssumption DEF Held, Delivering, Mark
<1>3. TypeOK'
  BY <1>1, <1>2 DEF Mark, Continue, tables, workers, populating, TypeOK
<1>4. SentOnce'
  BY <1>1, <1>2 DEF Mark, Continue, tables, workers, populating, TypeOK, SentOnce,
     Held, Delivering
<1>5. Held'
  BY <1>1, <1>2 DEF Mark, Continue, tables, workers, populating, TypeOK, SentOnce,
     Held, Delivering
<1>6. Paged'
  BY <1>1, <1>2 DEF Mark, Continue, tables, workers, populating, TypeOK, Paged
<1>7. UndeliveredIsUnderway'
  BY <1>1, <1>2 DEF Mark, Continue, tables, workers, populating, TypeOK,
     UndeliveredIsUnderway, Underway, Paged, Task
<1> QED
  BY <1>3, <1>4, <1>5, <1>6, <1>7 DEF Inv

LEMMA SendKeeps ==
  ASSUME Inv, NEW w \in Worker, Send(w)
  PROVE  Inv'
<1>1. TypeOK /\ SentOnce /\ Held /\ Paged /\ UndeliveredIsUnderway
  BY DEF Inv
<1>2. task[w] \in Task /\ 0 \in 0..MaxTasks
  BY <1>1, TasksAssumption DEF Held, Delivering, Send
<1>3. TypeOK'
  BY <1>1, <1>2 DEF Send, tables, workers, populating, TypeOK
<1>4. SentOnce'
  BY <1>1, <1>2 DEF Send, tables, workers, populating, TypeOK, SentOnce, Held,
     Delivering
<1>5. Held'
  BY <1>1, <1>2 DEF Send, tables, workers, populating, TypeOK, SentOnce, Held,
     Delivering
<1>6. Paged'
  BY <1>1, <1>2 DEF Send, tables, workers, populating, TypeOK, Paged
<1>7. UndeliveredIsUnderway'
  BY <1>1, <1>2 DEF Send, tables, workers, populating, TypeOK,
     UndeliveredIsUnderway, Underway, Paged, Task
<1> QED
  BY <1>3, <1>4, <1>5, <1>6, <1>7 DEF Inv

LEMMA SendNothingKeeps ==
  ASSUME Inv, NEW w \in Worker, SendNothing(w)
  PROVE  Inv'
<1>1. TypeOK /\ SentOnce /\ Held /\ Paged /\ UndeliveredIsUnderway
  BY DEF Inv
<1>2. TypeOK'
  BY <1>1, TasksAssumption DEF SendNothing, tables, workers, populating, TypeOK,
     Task
<1>3. SentOnce'
  BY <1>1 DEF SendNothing, tables, workers, populating, TypeOK, SentOnce, Held,
     Delivering
<1>4. Held'
  BY <1>1 DEF SendNothing, tables, workers, populating, TypeOK, SentOnce, Held,
     Delivering
<1>5. Paged'
  BY <1>1 DEF SendNothing, tables, workers, populating, TypeOK, Paged
<1>6. UndeliveredIsUnderway'
  BY <1>1 DEF SendNothing, tables, workers, populating, TypeOK,
     UndeliveredIsUnderway, Underway, Paged, Task
<1> QED
  BY <1>2, <1>3, <1>4, <1>5, <1>6 DEF Inv

LEMMA RecordKeeps ==
  ASSUME Inv, NEW w \in Worker, Record(w)
  PROVE  Inv'
<1>1. TypeOK /\ SentOnce /\ Held /\ Paged /\ UndeliveredIsUnderway
  BY DEF Inv
<1>2. task[w] \in Task /\ 0 \in 0..MaxTasks
  BY <1>1, TasksAssumption DEF Held, Delivering, Record
<1>3. TypeOK'
  BY <1>1, <1>2 DEF Record, Continue, tables, workers, populating, TypeOK
<1>4. SentOnce'
  BY <1>1, <1>2 DEF Record, Continue, tables, workers, populating, TypeOK,
     SentOnce, Held, Delivering
<1>5. Held'
  BY <1>1, <1>2 DEF Record, Continue, tables, workers, populating, TypeOK,
     SentOnce, Held, Delivering
<1>6. Paged'
  BY <1>1, <1>2 DEF Record, Continue, tables, workers, populating, TypeOK, Paged
<1>7. UndeliveredIsUnderway'
  BY <1>1, <1>2 DEF Record, Continue, tables, workers, populating, TypeOK,
     UndeliveredIsUnderway, Underway, Paged, Task
<1> QED
  BY <1>3, <1>4, <1>5, <1>6, <1>7 DEF Inv

LEMMA RecordFailsKeeps ==
  ASSUME Inv, NEW w \in Worker, RecordFails(w)
  PROVE  Inv'
<1>1. TypeOK /\ SentOnce /\ Held /\ Paged /\ UndeliveredIsUnderway
  BY DEF Inv
<1>2. TypeOK'
  BY <1>1, TasksAssumption DEF RecordFails, Fault, Continue, tables, workers,
     populating, TypeOK, Task
<1>3. SentOnce'
  BY <1>1 DEF RecordFails, Fault, Continue, tables, workers, populating, TypeOK,
     SentOnce, Held, Delivering
<1>4. Held'
  BY <1>1 DEF RecordFails, Fault, Continue, tables, workers, populating, TypeOK,
     SentOnce, Held, Delivering
<1>5. Paged'
  BY <1>1 DEF RecordFails, Fault, Continue, tables, workers, populating, TypeOK,
     Paged
<1>6. UndeliveredIsUnderway'
  BY <1>1 DEF RecordFails, Fault, Continue, tables, workers, populating, TypeOK,
     UndeliveredIsUnderway, Underway, Paged, Task
<1> QED
  BY <1>2, <1>3, <1>4, <1>5, <1>6 DEF Inv

LEMMA ReturnKeeps ==
  ASSUME Inv, NEW w \in Worker, Return(w)
  PROVE  Inv'
<1>1. TypeOK /\ SentOnce /\ Held /\ Paged /\ UndeliveredIsUnderway
  BY DEF Inv
<1>2. TypeOK'
  BY <1>1, TasksAssumption DEF Return, tables, workers, populating, TypeOK, Task
<1>3. SentOnce'
  BY <1>1 DEF Return, tables, workers, populating, TypeOK, SentOnce, Held,
     Delivering
<1>4. Held'
  BY <1>1 DEF Return, tables, workers, populating, TypeOK, SentOnce, Held,
     Delivering
<1>5. Paged'
  BY <1>1 DEF Return, tables, workers, populating, TypeOK, Paged
<1>6. UndeliveredIsUnderway'
  BY <1>1 DEF Return, tables, workers, populating, TypeOK, UndeliveredIsUnderway,
     Underway, Paged, Task
<1> QED
  BY <1>2, <1>3, <1>4, <1>5, <1>6 DEF Inv

LEMMA PopulateFindKeeps ==
  ASSUME Inv, PopulateFind
  PROVE  Inv'
<1>1. TypeOK /\ SentOnce /\ Held /\ Paged /\ UndeliveredIsUnderway
  BY DEF Inv
<1>2. Page \subseteq Task /\ Task \subseteq Nat /\ lower \in Nat
  BY <1>1, TasksAssumption DEF TypeOK, Page, Undelivered, Task
<1>3. ASSUME NEW t \in Task, row[t] = "undelivered", lower < t
      PROVE  boot' = "pushing" /\ (t \in page' \/ lower' < t)
  <2>1. t \in Undelivered
    BY <1>3 DEF Undelivered
  <2>2. PICK last \in Page : boot' = "pushing" /\ lower' = last /\ page' = Page
    BY <2>1 DEF PopulateFind
  <2>3. t <= last => t \in Page
    BY <2>1, PageIsDense
  <2> QED
    BY <1>2, <2>2, <2>3
<1>4. boot' \in {"finding", "pushing", "done"} /\ lower' \in 0..MaxTasks /\ page' \subseteq Task
  <2>1. Page \subseteq 0..MaxTasks
    BY <1>2, TasksAssumption DEF Task
  <2> QED
    BY <1>1, <1>2, <2>1 DEF PopulateFind, TypeOK
<1>5. TypeOK'
  BY <1>1, <1>2, <1>3, <1>4 DEF PopulateFind, tables, workers, populating, TypeOK
<1>6. SentOnce'
  BY <1>1, <1>2, <1>3, <1>4 DEF PopulateFind, tables, workers, populating, TypeOK,
     SentOnce, Held, Delivering
<1>7. Held'
  BY <1>1, <1>2, <1>3, <1>4 DEF PopulateFind, tables, workers, populating, TypeOK,
     SentOnce, Held, Delivering
<1>8. Paged'
  BY <1>1, <1>2, <1>3, <1>4 DEF PopulateFind, tables, workers, populating, TypeOK,
     Paged
<1>9. UndeliveredIsUnderway'
  BY <1>1, <1>2, <1>3, <1>4 DEF PopulateFind, tables, workers, populating, TypeOK,
     UndeliveredIsUnderway, Underway, Paged, Task
<1> QED
  BY <1>5, <1>6, <1>7, <1>8, <1>9 DEF Inv

LEMMA PopulateNextKeeps ==
  ASSUME Inv, PopulateNext
  PROVE  Inv'
<1>1. TypeOK /\ SentOnce /\ Held /\ Paged /\ UndeliveredIsUnderway
  BY DEF Inv
<1>2. TypeOK'
  BY <1>1, TasksAssumption DEF PopulateNext, tables, workers, populating, TypeOK,
     Task
<1>3. SentOnce'
  BY <1>1 DEF PopulateNext, tables, workers, populating, TypeOK, SentOnce, Held,
     Delivering
<1>4. Held'
  BY <1>1 DEF PopulateNext, tables, workers, populating, TypeOK, SentOnce, Held,
     Delivering
<1>5. Paged'
  BY <1>1 DEF PopulateNext, tables, workers, populating, TypeOK, Paged
<1>6. UndeliveredIsUnderway'
  BY <1>1 DEF PopulateNext, tables, workers, populating, TypeOK,
     UndeliveredIsUnderway, Underway, Paged, Task
<1> QED
  BY <1>2, <1>3, <1>4, <1>5, <1>6 DEF Inv

LEMMA PopulatePushKeeps ==
  ASSUME Inv, PopulatePush
  PROVE  Inv'
<1>1. TypeOK /\ SentOnce /\ Held /\ Paged /\ UndeliveredIsUnderway
  BY DEF Inv
<1>2. TypeOK'
  BY <1>1, TasksAssumption DEF PopulatePush, tables, workers, populating, TypeOK,
     Task
<1>3. SentOnce'
  BY <1>1 DEF PopulatePush, tables, workers, populating, TypeOK, SentOnce, Held,
     Delivering
<1>4. Held'
  BY <1>1 DEF PopulatePush, tables, workers, populating, TypeOK, SentOnce, Held,
     Delivering
<1>5. Paged'
  BY <1>1 DEF PopulatePush, tables, workers, populating, TypeOK, Paged
<1>6. UndeliveredIsUnderway'
  BY <1>1 DEF PopulatePush, tables, workers, populating, TypeOK,
     UndeliveredIsUnderway, Underway, Paged, Task
<1> QED
  BY <1>2, <1>3, <1>4, <1>5, <1>6 DEF Inv

LEMMA PopulateFailsKeeps ==
  ASSUME Inv, PopulateFails
  PROVE  Inv'
<1>1. TypeOK /\ SentOnce /\ Held /\ Paged /\ UndeliveredIsUnderway
  BY DEF Inv
<1>2. missed' \subseteq Task /\ page' \subseteq Task /\ faults' \in 0..MaxFaults
  BY <1>1, TasksAssumption DEF TypeOK, PopulateFails, Fault, Undelivered, populating
<1>3. TypeOK'
  BY <1>1, <1>2 DEF PopulateFails, Fault, Undelivered, tables, workers,
     populating, TypeOK
<1>4. SentOnce'
  BY <1>1, <1>2 DEF PopulateFails, Fault, Undelivered, tables, workers,
     populating, TypeOK, SentOnce, Held, Delivering
<1>5. Held'
  BY <1>1, <1>2 DEF PopulateFails, Fault, Undelivered, tables, workers,
     populating, TypeOK, SentOnce, Held, Delivering
<1>6. Paged'
  BY <1>1, <1>2 DEF PopulateFails, Fault, Undelivered, tables, workers,
     populating, TypeOK, Paged
<1>7. UndeliveredIsUnderway'
  BY <1>1, <1>2 DEF PopulateFails, Fault, Undelivered, tables, workers,
     populating, TypeOK, UndeliveredIsUnderway, Underway, Paged, Task
<1> QED
  BY <1>3, <1>4, <1>5, <1>6, <1>7 DEF Inv

LEMMA CleanupKeeps ==
  ASSUME Inv, NEW t \in Task, Cleanup(t)
  PROVE  Inv'
<1>1. TypeOK /\ SentOnce /\ Held /\ Paged /\ UndeliveredIsUnderway
  BY DEF Inv
<1>2. TypeOK'
  BY <1>1, TasksAssumption DEF Cleanup, IsDelivered, tables, workers, populating,
     TypeOK, Task
<1>3. SentOnce'
  BY <1>1 DEF Cleanup, IsDelivered, tables, workers, populating, TypeOK, SentOnce,
     Held, Delivering
<1>4. Held'
  BY <1>1 DEF Cleanup, IsDelivered, tables, workers, populating, TypeOK, SentOnce,
     Held, Delivering
<1>5. Paged'
  BY <1>1 DEF Cleanup, IsDelivered, tables, workers, populating, TypeOK, Paged
<1>6. UndeliveredIsUnderway'
  BY <1>1 DEF Cleanup, IsDelivered, tables, workers, populating, TypeOK,
     UndeliveredIsUnderway, Underway, Paged, Task
<1> QED
  BY <1>2, <1>3, <1>4, <1>5, <1>6 DEF Inv

LEMMA DeleteWebhookKeeps ==
  ASSUME Inv, DeleteWebhook
  PROVE  Inv'
<1>1. TypeOK /\ SentOnce /\ Held /\ Paged /\ UndeliveredIsUnderway
  BY DEF Inv
<1>2. PICK S \in SUBSET {t \in Task : row[t] # "none"} :
        row' = [t \in Task |-> IF t \in S THEN "deleted" ELSE row[t]]
  BY DEF DeleteWebhook
<1>3. TypeOK'
  BY <1>1, <1>2, TasksAssumption DEF DeleteWebhook, tables, workers, populating, TypeOK, Task
<1>4. SentOnce'
  BY <1>1, <1>2 DEF DeleteWebhook, TypeOK, SentOnce
<1>5. Held'
  BY <1>1, <1>2 DEF DeleteWebhook, workers, populating, TypeOK, SentOnce, Held, Delivering
<1>6. Paged'
  BY <1>1, <1>2 DEF DeleteWebhook, workers, populating, TypeOK, Paged
<1>7. UndeliveredIsUnderway'
  BY <1>1, <1>2 DEF DeleteWebhook, workers, populating, TypeOK,
     UndeliveredIsUnderway, Underway, Paged, Task
<1> QED
  BY <1>3, <1>4, <1>5, <1>6, <1>7 DEF Inv

LEMMA CrashKeeps ==
  ASSUME Inv, Crash
  PROVE  Inv'
<1>1. TypeOK /\ SentOnce /\ Held /\ Paged /\ UndeliveredIsUnderway
  BY DEF Inv
<1>2. TypeOK'
  BY <1>1, TasksAssumption DEF Crash, Fault, tables, workers, populating, TypeOK,
     Task
<1>3. SentOnce'
  BY <1>1 DEF Crash, Fault, tables, workers, populating, TypeOK, SentOnce, Held,
     Delivering
<1>4. Held'
  BY <1>1 DEF Crash, Fault, tables, workers, populating, TypeOK, SentOnce, Held,
     Delivering
<1>5. Paged'
  BY <1>1 DEF Crash, Fault, tables, workers, populating, TypeOK, Paged
<1>6. UndeliveredIsUnderway'
  BY <1>1 DEF Crash, Fault, tables, workers, populating, TypeOK,
     UndeliveredIsUnderway, Underway, Paged, Task
<1> QED
  BY <1>2, <1>3, <1>4, <1>5, <1>6 DEF Inv

LEMMA Starts == Init => Inv
<1> SUFFICES ASSUME Init PROVE Inv
  OBVIOUS
<1>1. TypeOK
  BY TasksAssumption DEF Init, TypeOK, Task
<1>2. SentOnce /\ Held /\ Paged
  BY DEF Init, SentOnce, Held, Paged, Delivering
<1>3. UndeliveredIsUnderway
  BY TasksAssumption DEF Init, UndeliveredIsUnderway, Underway, Task
<1> QED
  BY <1>1, <1>2, <1>3 DEF Inv

LEMMA StepKeeps == Inv /\ [Next]_vars => Inv'
<1> SUFFICES ASSUME Inv, [Next]_vars PROVE Inv'
  OBVIOUS
<1>1. CASE \E c \in Caller : Create(c) \/ Enqueue(c) \/ EnqueueFails(c)
  BY <1>1, CreateKeeps, EnqueueKeeps, EnqueueFailsKeeps
<1>2. CASE \E w \in Worker : WorkerStep(w)
  BY <1>2, PopKeeps, LoadKeeps, LoadFailsKeeps, DeliverFailsKeeps, MarkKeeps, SendKeeps,
     SendNothingKeeps, RecordKeeps, RecordFailsKeeps, ReturnKeeps DEF WorkerStep
<1>3. CASE PopulateFind \/ PopulateNext \/ PopulatePush \/ PopulateFails
  BY <1>3, PopulateFindKeeps, PopulateNextKeeps, PopulatePushKeeps, PopulateFailsKeeps
<1>4. CASE \E t \in Task : Cleanup(t)
  BY <1>4, CleanupKeeps
<1>5. CASE Crash
  BY <1>5, CrashKeeps
<1>6. CASE DeleteWebhook
  BY <1>6, DeleteWebhookKeeps
<1>7. CASE UNCHANGED vars
  BY <1>7 DEF vars, tables, workers, populating, Inv, TypeOK, SentOnce, Held, Paged,
     UndeliveredIsUnderway, Underway
<1> QED
  BY <1>1, <1>2, <1>3, <1>4, <1>5, <1>6, <1>7 DEF Next

LEMMA InvHolds == Spec => []Inv
  BY Starts, StepKeeps, PTL DEF Spec

\* Type correctness of the delivery.
THEOREM TypeCorrect == Spec => []TypeOK
<1>1. Inv => TypeOK
  BY DEF Inv
<1> QED
  BY <1>1, InvHolds, PTL

\* No task is sent twice, and none before its row is marked (deliver.go:88-99), however
\* often its id is queued, whoever handles it, and wherever the server stops.
THEOREM NoTaskSentTwice == Spec => []SentOnce
<1>1. Inv => SentOnce
  BY DEF Inv
<1> QED
  BY <1>1, InvHolds, PTL

\* No undelivered task is forgotten, whatever the size of the pages in which the queue is
\* populated while tasks are created and delivered.
THEOREM NoTaskForgotten == Spec => []UndeliveredIsUnderway
<1>1. Inv => UndeliveredIsUnderway
  BY DEF Inv
<1> QED
  BY <1>1, InvHolds, PTL

\* A recorded response stays until the row is cleaned up, for the worker that writes all
\* columns of a row is the one that marked it.
THEOREM RecordsAreFinal == Spec => RecordIsFinal
<1> DEFINE Final == \A t \in Task : row[t] \in {"succeeded", "failed"} => row'[t] \in {row[t], "deleted"}
<1>1. Inv /\ [Next]_vars => [Final]_row
  <2> SUFFICES ASSUME Inv, [Next]_vars, row' # row PROVE Final
    OBVIOUS
  <2>1. ASSUME NEW c \in Caller, Create(c) PROVE Final
    BY <2>1 DEF Create, Inv, TypeOK
  <2>2. ASSUME NEW w \in Worker, Mark(w) PROVE Final
    BY <2>2 DEF Mark, Inv, TypeOK, Held
  <2>3. ASSUME NEW w \in Worker, Record(w) PROVE Final
    BY <2>3 DEF Record, Continue, Inv, TypeOK, Held, Delivering
  <2>4. ASSUME NEW t \in Task, Cleanup(t) PROVE Final
    BY <2>4 DEF Cleanup, Inv, TypeOK
  <2>5. ASSUME DeleteWebhook PROVE Final
    BY <2>5 DEF DeleteWebhook, Inv, TypeOK
  <2> QED
    BY <2>1, <2>2, <2>3, <2>4, <2>5 DEF Next, WorkerStep, Enqueue, EnqueueFails, Pop, Load, LoadFails,
       DeliverFails, Send, SendNothing, RecordFails, Return, PopulateFind, PopulateNext,
       PopulatePush, PopulateFails, Crash, vars, tables
<1> QED
  BY <1>1, InvHolds, PTL DEF Spec, RecordIsFinal
=============================================================================
