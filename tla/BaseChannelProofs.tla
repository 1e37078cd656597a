------------------------- MODULE BaseChannelProofs -------------------------
(***************************************************************************)
(* What holds of the channel base queue for every number of goroutines,    *)
(* every length and every set of payloads.                                 *)
(***************************************************************************)
EXTENDS BaseChannel, Integers, TLAPS

Elements(s) == {s[i] : i \in 1..Len(s)}
Injective(s) == \A i, j \in 1..Len(s) : s[i] = s[j] => i = j

\* Appending adds one element, and keeps a sequence without duplicates so if it is new.
LEMMA AppendElements ==
    ASSUME NEW S, NEW s \in Seq(S), NEW x \in S
    PROVE  /\ Append(s, x) \in Seq(S)
           /\ Len(Append(s, x)) = Len(s) + 1
           /\ Elements(Append(s, x)) = Elements(s) \cup {x}
           /\ (Injective(s) /\ x \notin Elements(s)) => Injective(Append(s, x))
BY DEF Elements, Injective

\* The head was an element, and is none of the tail if there are no duplicates.
LEMMA TailElements ==
    ASSUME NEW S, NEW s \in Seq(S), s # <<>>
    PROVE  /\ Head(s) \in S /\ Tail(s) \in Seq(S)
           /\ Len(Tail(s)) = Len(s) - 1
           /\ Elements(s) = Elements(Tail(s)) \cup {Head(s)}
           /\ Injective(s) => Injective(Tail(s)) /\ Head(s) \notin Elements(Tail(s))
<1>1. \A x \in S : x \in Elements(s) <=> x = Head(s) \/ x \in Elements(Tail(s))
  BY DEF Elements
<1>2. Injective(s) => Injective(Tail(s)) /\ Head(s) \notin Elements(Tail(s))
  BY DEF Elements, Injective
<1>3. Elements(s) \subseteq S /\ Elements(Tail(s)) \subseteq S
  BY DEF Elements
<1> QED BY <1>1, <1>2, <1>3
-----------------------------------------------------------------------------
LEMMA TypeStep == TypeOK /\ [Next]_vars => TypeOK'
<1> SUFFICES ASSUME TypeOK, [Next]_vars PROVE TypeOK'
  OBVIOUS
<1> USE LengthAssumption, UniqueAssumption DEF TypeOK, Threads
<1>1. CASE UNCHANGED vars
  BY <1>1 DEF vars
<1>2. ASSUME NEW p \in Pushers, NEW x \in Item, PushItem(p, x) PROVE TypeOK'
  BY <1>2 DEF PushItem
<1>3. ASSUME NEW p \in Pushers, PushStep(p) PROVE TypeOK'
  <2>1. CASE PushCheck(p)
    BY <2>1 DEF PushCheck
  <2>2. CASE PushSend(p)
    BY <2>2, AppendElements DEF PushSend
  <2>3. CASE PushGiveUp(p)
    BY <2>3 DEF PushGiveUp
  <2>4. CASE PushAdd(p)
    BY <2>4 DEF PushAdd
  <2> QED BY <1>3, <2>1, <2>2, <2>3, <2>4 DEF PushStep
<1>4. ASSUME NEW q \in Poppers, PopReceive(q) PROVE TypeOK'
  BY <1>4, TailElements DEF PopReceive
<1>5. ASSUME NEW q \in Poppers, PopRemove(q) PROVE TypeOK'
  BY <1>5 DEF PopRemove
<1>6. ASSUME NEW r \in Removers, RemoveAllLock(r) PROVE TypeOK'
  BY <1>6 DEF RemoveAllLock
<1>7. ASSUME NEW r \in Removers, RemoveStep(r) PROVE TypeOK'
  <2>1. CASE RemoveAllTest(r)
    BY <2>1 DEF RemoveAllTest
  <2>2. CASE RemoveAllReceive(r)
    BY <2>2, TailElements DEF RemoveAllReceive
  <2>3. CASE RemoveAllReset(r)
    BY <2>3 DEF RemoveAllReset
  <2> QED BY <1>7, <2>1, <2>2, <2>3 DEF RemoveStep
<1> QED BY <1>1, <1>2, <1>3, <1>4, <1>5, <1>6, <1>7 DEF Next

\* Every step keeps the types; in particular the channel never holds more than cfg.Length.
THEOREM TypeCorrect == Spec => []TypeOK
<1>1. Init => TypeOK
  BY LengthAssumption DEF Init, TypeOK, Threads, Free
<1> QED BY <1>1, TypeStep, PTL DEF Spec
-----------------------------------------------------------------------------
\* The payload that goroutine q took from the channel is not unregistered yet.
Taken(q) == pc[q] = "remove"
Busy(p) == pc[p] # "idle"

\* What a unique queue keeps true as long as it is calm: one producer is in PushItem at a
\* time; a payload that moves, in the channel or in the hands of a consumer, is registered
\* or about to be, nobody else has it, and a producer sends only what is not registered.
CalmInv == Unique /\ calm =>
    /\ \A p \in Pushers : pc[p] \in {"idle", "check", "send", "add"}
    /\ \A p, d \in Pushers : Busy(p) /\ Busy(d) => p = d
    /\ \A q \in Poppers : pc[q] \in {"idle", "remove"}
    /\ \A r \in Removers : pc[r] = "idle"
    /\ Injective(c)
    /\ \A x \in Elements(c) : x \in set \/ Adding(x)
    /\ \A q \in Poppers : Taken(q) => /\ data[q] \notin Elements(c)
                                      /\ data[q] \in set \/ Adding(data[q])
    /\ \A q, r \in Poppers : Taken(q) /\ Taken(r) /\ data[q] = data[r] => q = r
    /\ \A p \in Pushers : pc[p] = "send" => data[p] \notin set

LEMMA CalmStep == TypeOK /\ CalmInv /\ [Next]_vars => CalmInv'
<1> SUFFICES ASSUME TypeOK, CalmInv, [Next]_vars, Unique, calm' PROVE CalmInv'
  BY DEF CalmInv
<1> USE DEF TypeOK, Threads, Taken, Busy, Adding
<1>0. /\ Pushers \subseteq Threads /\ Poppers \subseteq Threads /\ Removers \subseteq Threads
      /\ Pushers \cap Poppers = {} /\ Pushers \cap Removers = {} /\ Poppers \cap Removers = {}
      /\ Unique
  BY RolesAssumption
<1>1. CASE UNCHANGED vars
  BY <1>0, <1>1 DEF vars, CalmInv, Elements, Injective
<1>2. ASSUME NEW p \in Pushers, NEW x \in Item, PushItem(p, x) PROVE CalmInv'
  <2>1. calm /\ \A d \in Pushers : pc[d] = "idle"
    BY <1>2 DEF PushItem
  <2> QED BY <1>0, <1>2, <2>1 DEF PushItem, CalmInv, Elements, Injective
<1>3. ASSUME NEW p \in Pushers, PushCheck(p) PROVE CalmInv'
  BY <1>0, <1>3 DEF PushCheck, CalmInv, Elements, Injective
<1>4. ASSUME NEW p \in Pushers, PushSend(p) PROVE CalmInv'
  <2>1. calm /\ pc[p] = "send" /\ data[p] \in Item
    BY <1>0, <1>4 DEF PushSend
  <2>2. data[p] \notin set /\ data[p] \notin Elements(c)
    BY <1>0, <2>1 DEF CalmInv
  <2>3. Elements(c') = Elements(c) \cup {data[p]} /\ Injective(c')
    <3>1. c' = Append(c, data[p]) /\ Injective(c)
      BY <1>0, <1>4, <2>1 DEF PushSend, CalmInv
    <3> QED BY <2>1, <2>2, <3>1, AppendElements
  <2> QED BY <1>0, <1>4, <2>1, <2>2, <2>3 DEF PushSend, CalmInv
<1>5. ASSUME NEW p \in Pushers, PushGiveUp(p) PROVE CalmInv'
  BY <1>0, <1>5 DEF PushGiveUp, CalmInv, Elements, Injective
<1>6. ASSUME NEW p \in Pushers, PushAdd(p) PROVE CalmInv'
  BY <1>0, <1>6 DEF PushAdd, CalmInv, Elements, Injective
<1>7. ASSUME NEW q \in Poppers, PopReceive(q) PROVE CalmInv'
  <2>1. /\ Elements(c) = Elements(c') \cup {Head(c)}
        /\ Injective(c') /\ Head(c) \notin Elements(c')
    <3>1. c # <<>> /\ c' = Tail(c) /\ Injective(c)
      BY <1>0, <1>7 DEF PopReceive, CalmInv
    <3> QED BY <3>1, TailElements
  <2> QED BY <1>0, <1>7, <2>1 DEF PopReceive, CalmInv
<1>8. ASSUME NEW q \in Poppers, PopRemove(q) PROVE CalmInv'
  BY <1>0, <1>8 DEF PopRemove, CalmInv, Elements, Injective
<1>9. ASSUME NEW r \in Removers PROVE ~RemoveAllLock(r) /\ ~RemoveStep(r)
  BY <1>0, <1>9 DEF CalmInv, RemoveAllLock, RemoveStep, RemoveAllTest, RemoveAllReceive,
     RemoveAllReset
<1> QED BY <1>1, <1>2, <1>3, <1>4, <1>5, <1>6, <1>7, <1>8, <1>9 DEF Next, PushStep

LEMMA CalmHolds == Spec => []CalmInv
<1>1. Init => CalmInv
  BY RolesAssumption DEF Init, CalmInv, Threads, Elements, Injective, Taken, Busy
<1> QED BY <1>1, CalmStep, TypeCorrect, PTL DEF Spec

\* Until two calls of PushItem overlap or somebody calls RemoveAll, with any number of
\* goroutines and any length, what is in the channel of a unique queue is registered or about
\* to be, and nobody is about to unregister it: the check of PushItem cannot miss it.
THEOREM CalmQueueRegisters == Spec => []QueuedIsRegistered
<1>1. CalmInv => QueuedIsRegistered
  BY DEF CalmInv, QueuedIsRegistered, Queued, Elements, Removing, Taken
<1> QED BY <1>1, CalmHolds, PTL

\* ... and so the unique queue holds no payload twice, although the channel and the set are
\* updated in separate steps.
THEOREM CalmQueueHoldsOnce == Spec => []NoDuplicates
<1>1. CalmInv => NoDuplicates
  BY DEF CalmInv, NoDuplicates, Injective
<1> QED BY <1>1, CalmHolds, PTL
=============================================================================
