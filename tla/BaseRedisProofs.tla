-------------------------- MODULE BaseRedisProofs --------------------------
(***************************************************************************)
(* What holds of the Redis base queue for every number of processes, every *)
(* length and every set of payloads.                                       *)
(***************************************************************************)
EXTENDS BaseRedis, Integers, FiniteSetTheorems, TLAPS

Elements(s) == {s[i] : i \in 1..Len(s)}
Injective(s) == \A i, j \in 1..Len(s) : s[i] = s[j] => i = j

\* Appending adds one element, and keeps a sequence without duplicates so if it is new.
LEMMA AppendElements ==
    ASSUME NEW S, NEW s \in Seq(S), NEW x \in S
    PROVE  /\ Append(s, x) \in Seq(S)
           /\ Len(Append(s, x)) = Len(s) + 1
           /\ Elements(Append(s, x)) = Elements(s) \cup {x}
           /\ (Injective(s) /\ x \notin Elements(s)) => Injective(Append(s, x))
BY DEF Elements, Injective

\* The head was an element, and is none of the tail if there are no duplicates.
LEMMA TailElements ==
    ASSUME NEW S, NEW s \in Seq(S), s # <<>>
    PROVE  /\ Head(s) \in S /\ Tail(s) \in Seq(S)
           /\ Len(Tail(s)) = Len(s) - 1
           /\ Elements(s) = Elements(Tail(s)) \cup {Head(s)}
           /\ Injective(s) => Injective(Tail(s)) /\ Head(s) \notin Elements(Tail(s))
<1>1. \A x \in S : x \in Elements(s) <=> x = Head(s) \/ x \in Elements(Tail(s))
  BY DEF Elements
<1>2. Injective(s) => Injective(Tail(s)) /\ Head(s) \notin Elements(Tail(s))
  BY DEF Elements, Injective
<1>3. Elements(s) \subseteq S /\ Elements(Tail(s)) \subseteq S
  BY DEF Elements
<1> QED BY <1>1, <1>2, <1>3
-----------------------------------------------------------------------------
LEMMA TypeStep == TypeOK /\ [Next]_vars => TypeOK'
<1> SUFFICES ASSUME TypeOK, [Next]_vars PROVE TypeOK'
OBVIOUS
<1> USE NumberAssumption, BooleanAssumption DEF TypeOK, Goto
<1>1. CASE UNCHANGED vars
  BY <1>1 DEF vars
<1>2. ASSUME NEW p \in Proc, NEW x \in Item, PushLLen(p, x) PROVE TypeOK'
  BY <1>2 DEF PushLLen
<1>3. ASSUME NEW p \in Proc, PushSAdd(p) PROVE TypeOK'
  BY <1>3 DEF PushSAdd
<1>4. ASSUME NEW p \in Proc, PushRPush(p) PROVE TypeOK'
  BY <1>4, AppendElements DEF PushRPush
<1>5. ASSUME NEW p \in Proc, PopLPop(p) PROVE TypeOK'
  BY <1>5, TailElements DEF PopLPop
<1>6. ASSUME NEW p \in Proc, PopSRem(p) PROVE TypeOK'
  BY <1>6 DEF PopSRem
<1>7. ASSUME NEW p \in Proc, RemoveAllDelList(p) PROVE TypeOK'
  BY <1>7 DEF RemoveAllDelList, RemoveAllBegin
<1>8. ASSUME NEW p \in Proc, RemoveAllDelSet(p) PROVE TypeOK'
  BY <1>8 DEF RemoveAllDelSet
<1>9. ASSUME NEW p \in Proc, FailedCommand(p) PROVE TypeOK'
  <2>1. CASE SAddFails(p)
    BY <2>1 DEF SAddFails, Fault
  <2>2. CASE RPushFails(p)
    BY <2>2, AppendElements DEF RPushFails, Fault
  <2>3. CASE LPopFails(p)
    BY <2>3, TailElements DEF LPopFails, Fault
  <2>4. CASE SRemFails(p)
    BY <2>4 DEF SRemFails, Fault
  <2>5. CASE DelListFails(p)
    <3>1. list' \in Seq(Item)
      <4>1. list' = list \/ list' = <<>>
        BY <2>5 DEF DelListFails
      <4>2. <<>> \in Seq(Item)
        OBVIOUS
      <4> QED BY <4>1, <4>2
    <3>2. /\ pc' = [pc EXCEPT ![p] = "delSet"] /\ set' = set /\ data' = data
          /\ removes' \in 0..MaxRemoves /\ faults' \in 0..MaxFaults
      BY <2>5 DEF DelListFails, RemoveAllBegin, Fault
    <3> QED BY <3>1, <3>2
  <2>6. CASE DelSetFails(p)
    BY <2>6 DEF DelSetFails, Fault
  <2> QED BY <1>9, <2>1, <2>2, <2>3, <2>4, <2>5, <2>6 DEF FailedCommand
<1> QED BY <1>1, <1>2, <1>3, <1>4, <1>5, <1>6, <1>7, <1>8, <1>9 DEF Next, Command

\* Every step keeps the types: what is popped was pushed, also by a failing command.
THEOREM TypeCorrect == Spec => []TypeOK
<1>1. Init => TypeOK
  BY NumberAssumption DEF Init, TypeOK
<1> QED BY <1>1, TypeStep, PTL DEF Spec
-----------------------------------------------------------------------------
\* The processes that passed the check of LLEN and have not pushed yet.
Checked == {p \in Proc : pc[p] \in {"sadd", "rpush"}}

\* Each of them may still add one item.
LengthInv == Len(list) + Cardinality(Checked) <= Length - 1 + Cardinality(Proc)

LEMMA CheckedFinite ==
    /\ IsFiniteSet(Checked) /\ Cardinality(Checked) \in Nat
    /\ Cardinality(Checked) <= Cardinality(Proc) /\ Cardinality(Proc) \in Nat
BY ProcAssumption, FS_Subset, FS_CardinalityType, Checked \subseteq Proc DEF Checked

\* What a step does to the length of the list and to Checked.
LEMMA LengthStep ==
    ASSUME TypeOK, [Next]_vars
    PROVE  \/ Len(list') <= Len(list) /\ Checked' \subseteq Checked
           \/ /\ Len(list) < Length /\ list' = list
              /\ \E p \in Proc \ Checked : Checked' = Checked \cup {p}
           \/ /\ Len(list') <= Len(list) + 1
              /\ \E p \in Checked : Checked' = Checked \ {p}
<1> USE DEF TypeOK, Goto, Checked
<1>1. CASE UNCHANGED vars
  BY <1>1 DEF vars
<1>2. ASSUME NEW p \in Proc, NEW x \in Item, PushLLen(p, x)
      PROVE  /\ Len(list) < Length /\ list' = list
             /\ p \in Proc \ Checked /\ Checked' = Checked \cup {p}
  BY <1>2, BooleanAssumption DEF PushLLen
<1>3. ASSUME NEW p \in Proc, PushSAdd(p) \/ PopSRem(p) \/ RemoveAllDelSet(p)
      PROVE  list' = list /\ Checked' \subseteq Checked
  BY <1>3 DEF PushSAdd, PopSRem, RemoveAllDelSet
<1>4. ASSUME NEW p \in Proc, PushRPush(p) \/ RPushFails(p)
      PROVE  /\ Len(list') <= Len(list) + 1
             /\ p \in Checked /\ Checked' = Checked \ {p}
  BY <1>4, AppendElements DEF PushRPush, RPushFails
<1>5. ASSUME NEW p \in Proc, PopLPop(p) \/ LPopFails(p)
      PROVE  Len(list') <= Len(list) /\ Checked' \subseteq Checked
  <2>1. list # <<>> /\ list' = Tail(list)
    BY <1>5 DEF PopLPop, LPopFails
  <2>2. Len(list') <= Len(list)
    BY <2>1, TailElements
  <2>3. Checked' \subseteq Checked
    BY <1>5 DEF PopLPop, LPopFails
  <2> QED BY <2>2, <2>3
<1>6. ASSUME NEW p \in Proc, RemoveAllDelList(p) \/ DelListFails(p)
      PROVE  Len(list') <= Len(list) /\ Checked' \subseteq Checked
  <2>1. list' = list \/ list' = <<>>
    BY <1>6 DEF RemoveAllDelList, DelListFails
  <2>2. Len(list') <= Len(list)
    BY <2>1
  <2>3. Checked' \subseteq Checked
    BY <1>6 DEF RemoveAllDelList, DelListFails
  <2> QED BY <2>2, <2>3
<1>7. ASSUME NEW p \in Proc, SAddFails(p) \/ SRemFails(p) \/ DelSetFails(p)
      PROVE  list' = list /\ Checked' \subseteq Checked
  BY <1>7 DEF SAddFails, SRemFails, DelSetFails
<1> QED BY <1>1, <1>2, <1>3, <1>4, <1>5, <1>6, <1>7 DEF Next, Command, FailedCommand

\* Processes of a cluster exceed the length of the queue by at most one item per further
\* process, whatever they do and whatever fails: the check of LLEN and the RPUSH of PushItem
\* are separate commands.
THEOREM LengthBounded == Spec => []LengthBound
<1>1. Init => LengthInv
  <2> SUFFICES ASSUME Init PROVE LengthInv
    OBVIOUS
  <2>1. Checked = {} /\ Len(list) = 0
    BY DEF Init, Checked
  <2> QED BY <2>1, CheckedFinite, FS_EmptySet, NumberAssumption DEF LengthInv
<1>2. TypeOK /\ LengthInv /\ [Next]_vars => LengthInv'
  <2> SUFFICES ASSUME TypeOK, LengthInv, [Next]_vars PROVE LengthInv'
    OBVIOUS
  <2>1. /\ Len(list) \in Nat /\ Len(list') \in Nat /\ Length \in Nat
        /\ IsFiniteSet(Checked) /\ Cardinality(Checked) \in Nat
        /\ Cardinality(Checked) <= Cardinality(Proc) /\ Cardinality(Proc) \in Nat
    BY TypeStep, CheckedFinite, NumberAssumption DEF TypeOK
  <2>2. CASE Len(list') <= Len(list) /\ Checked' \subseteq Checked
    <3>1. Cardinality(Checked') \in Nat /\ Cardinality(Checked') <= Cardinality(Checked)
      BY <2>1, <2>2, FS_Subset, FS_CardinalityType
    <3> QED BY <2>1, <2>2, <3>1 DEF LengthInv
  <2>3. ASSUME Len(list) < Length, list' = list,
               NEW p \in Proc \ Checked, Checked' = Checked \cup {p}
        PROVE  LengthInv'
    <3>1. Cardinality(Checked') <= Cardinality(Proc) /\ Cardinality(Checked') \in Nat
      <4>1. Checked' \subseteq Proc
        BY <2>3 DEF Checked
      <4> QED BY <4>1, ProcAssumption, FS_Subset, FS_CardinalityType
    <3> QED BY <2>1, <2>3, <3>1 DEF LengthInv
  <2>4. ASSUME Len(list') <= Len(list) + 1, NEW p \in Checked, Checked' = Checked \ {p}
        PROVE  LengthInv'
    <3>1. Cardinality(Checked') = Cardinality(Checked) - 1
      BY <2>1, <2>4, FS_RemoveElement
    <3> QED BY <2>1, <2>4, <3>1 DEF LengthInv
  <2> QED BY <2>2, <2>3, <2>4, LengthStep
<1>3. TypeOK /\ LengthInv => LengthBound
  BY CheckedFinite, NumberAssumption DEF TypeOK, LengthInv, LengthBound
<1> QED BY <1>1, <1>2, <1>3, TypeCorrect, PTL DEF Spec
-----------------------------------------------------------------------------
LEMMA QueuedElements == Queued = Elements(list) /\ Queued' = Elements(list')
BY DEF Queued, Elements

\* A simple queue never touches the set.
SimpleInv == ~Unique => set = {} /\ \A p \in Proc : pc[p] \notin {"sadd", "srem"}

LEMMA SimpleStep == TypeOK /\ SimpleInv /\ [Next]_vars => SimpleInv'
BY BooleanAssumption
   DEF SimpleInv, TypeOK, Next, Command, FailedCommand, vars, Goto, PushLLen, PushSAdd,
       PushRPush, PopLPop, PopSRem, RemoveAllDelList, RemoveAllDelSet, SAddFails, RPushFails,
       LPopFails, SRemFails, DelListFails, DelSetFails

\* With SimpleInv, RegisteredIsQueued is inductive: a payload leaves the list only for the hands of the
\* process that is about to remove it from the set, or before the set is cleared.
THEOREM NothingStaysRegistered == Spec => []RegisteredIsQueued
<1>1. Init => SimpleInv /\ RegisteredIsQueued
  BY DEF Init, SimpleInv, RegisteredIsQueued
<1>2. TypeOK /\ SimpleInv /\ RegisteredIsQueued /\ [Next]_vars => RegisteredIsQueued'
  <2> SUFFICES ASSUME TypeOK, SimpleInv, RegisteredIsQueued, [Next]_vars, faults' = 0,
                      NEW x \in set'
               PROVE  \/ x \in Queued' \/ Pushing(x)' \/ Popping(x)'
                      \/ \E p \in Proc : pc'[p] = "delSet"
    BY DEF RegisteredIsQueued
  <2> DEFINE Goal == \/ x \in Queued' \/ Pushing(x)' \/ Popping(x)'
                     \/ \E p \in Proc : pc'[p] = "delSet"
  <2> USE DEF TypeOK, Goto
  <2>1. x \in set => \/ x \in Queued \/ Pushing(x) \/ Popping(x)
                     \/ \E p \in Proc : pc[p] = "delSet"
    <3>1. faults = 0
      BY BooleanAssumption, NumberAssumption
         DEF Next, Command, FailedCommand, vars, PushLLen, PushSAdd, PushRPush, PopLPop,
             PopSRem, RemoveAllDelList, RemoveAllDelSet, SAddFails, RPushFails, LPopFails,
             SRemFails, DelListFails, DelSetFails, Fault
    <3> QED BY <3>1 DEF RegisteredIsQueued
  <2>2. CASE UNCHANGED vars
    BY <2>1, <2>2 DEF vars, Queued, Pushing, Popping
  <2>3. ASSUME NEW p \in Proc, NEW y \in Item, PushLLen(p, y) PROVE Goal
    BY <2>1, <2>3 DEF PushLLen, Queued, Pushing, Popping
  <2>4. ASSUME NEW p \in Proc, PushSAdd(p) PROVE Goal
    BY <2>1, <2>4 DEF PushSAdd, Queued, Pushing, Popping
  <2>5. ASSUME NEW p \in Proc, PushRPush(p) PROVE Goal
    <3>1. Queued' = Queued \cup {data[p]}
      <4>1. list' = Append(list, data[p]) /\ data[p] \in Item
        BY <2>5 DEF PushRPush
      <4> QED BY <4>1, AppendElements, QueuedElements
    <3> QED BY <2>1, <2>5, <3>1 DEF PushRPush, Pushing, Popping
  <2>6. ASSUME NEW p \in Proc, PopLPop(p) PROVE Goal
    <3>1. Queued = Queued' \cup {Head(list)}
      <4>1. list' = Tail(list) /\ list # <<>>
        BY <2>6 DEF PopLPop
      <4> QED BY <4>1, TailElements, QueuedElements
    <3>2. Unique
      BY <2>6 DEF PopLPop, SimpleInv
    <3> QED BY <2>1, <2>6, <3>1, <3>2 DEF PopLPop, Pushing, Popping
  <2>7. ASSUME NEW p \in Proc, PopSRem(p) PROVE Goal
    BY <2>1, <2>7 DEF PopSRem, Queued, Pushing, Popping
  <2>8. ASSUME NEW p \in Proc, RemoveAllDelList(p) PROVE Goal
    BY <2>8 DEF RemoveAllDelList
  <2>9. ASSUME NEW p \in Proc, RemoveAllDelSet(p) PROVE Goal
    BY <2>9 DEF RemoveAllDelSet
  <2>10. ASSUME NEW p \in Proc, FailedCommand(p) PROVE FALSE
    BY <2>10 DEF FailedCommand, SAddFails, RPushFails, LPopFails, SRemFails, DelListFails,
                 DelSetFails, Fault
  <2>11. ASSUME NEW p \in Proc, Command(p) PROVE Goal
    BY <2>3, <2>4, <2>5, <2>6, <2>7, <2>8, <2>9, <2>11 DEF Command
  <2> QED BY <2>2, <2>10, <2>11 DEF Next
<1> QED BY <1>1, <1>2, SimpleStep, TypeCorrect, PTL DEF Spec
-----------------------------------------------------------------------------
\* The processes that hold a payload which is in the set but not in the list.
Holds(p) == pc[p] \in {"rpush", "srem"}

QueuedOnceInv == (Unique /\ removes = 0) =>
    /\ Injective(list)
    /\ Elements(list) \subseteq set
    /\ \A p \in Proc : pc[p] # "delSet"
    /\ \A p \in Proc : Holds(p) => data[p] \in set \ Elements(list)
    /\ \A p, q \in Proc : Holds(p) /\ Holds(q) /\ data[p] = data[q] => p = q

\* A unique queue shared by any number of processes holds a payload at most once until
\* somebody calls RemoveAll: whoever holds a payload between SADD and RPUSH, or between LPOP
\* and SREM, holds it alone.
THEOREM NoPayloadTwice == Spec => []QueuedOnce
<1>1. Init => QueuedOnceInv
  BY DEF Init, QueuedOnceInv, Injective, Elements, Holds
<1>2. TypeOK /\ QueuedOnceInv /\ [Next]_vars => QueuedOnceInv'
  <2> SUFFICES ASSUME TypeOK, QueuedOnceInv, [Next]_vars, Unique, removes' = 0
               PROVE  QueuedOnceInv'
    BY DEF QueuedOnceInv
  <2> USE DEF TypeOK, Goto, Holds
  <2>0. /\ Injective(list) /\ Elements(list) \subseteq set
        /\ \A p \in Proc : pc[p] # "delSet"
        /\ \A p \in Proc : Holds(p) => data[p] \in set \ Elements(list)
        /\ \A p, q \in Proc : Holds(p) /\ Holds(q) /\ data[p] = data[q] => p = q
    <3>1. removes = 0
      BY BooleanAssumption, NumberAssumption
         DEF Next, Command, FailedCommand, vars, PushLLen, PushSAdd, PushRPush, PopLPop,
             PopSRem, RemoveAllDelList, RemoveAllDelSet, SAddFails, RPushFails, LPopFails,
             SRemFails, DelListFails, DelSetFails, RemoveAllBegin
    <3> QED BY <3>1 DEF QueuedOnceInv
  <2>1. CASE UNCHANGED vars
    BY <2>0, <2>1 DEF vars, QueuedOnceInv, Elements, Injective
  <2>2. ASSUME NEW p \in Proc, NEW x \in Item, PushLLen(p, x) PROVE QueuedOnceInv'
    BY <2>0, <2>2 DEF PushLLen, QueuedOnceInv, Elements, Injective
  <2>3. ASSUME NEW p \in Proc, PushSAdd(p) \/ SAddFails(p) PROVE QueuedOnceInv'
    BY <2>0, <2>3 DEF PushSAdd, SAddFails, QueuedOnceInv, Elements, Injective
  <2>4. ASSUME NEW p \in Proc, PushRPush(p) \/ RPushFails(p) PROVE QueuedOnceInv'
    <3>1. CASE list' = list
      BY <2>0, <2>4, <3>1 DEF PushRPush, RPushFails, QueuedOnceInv, Elements, Injective
    <3>2. CASE list' = Append(list, data[p])
      <4>1. Holds(p)
        BY <2>4 DEF PushRPush, RPushFails
      <4>2. Elements(list') = Elements(list) \cup {data[p]} /\ Injective(list')
        BY <2>0, <3>2, <4>1, AppendElements
      <4> QED BY <2>0, <2>4, <4>1, <4>2 DEF PushRPush, RPushFails, QueuedOnceInv
    <3> QED BY <2>4, <3>1, <3>2 DEF PushRPush, RPushFails
  <2>5. ASSUME NEW p \in Proc, PopLPop(p) \/ LPopFails(p) PROVE QueuedOnceInv'
    <3>1. list # <<>> /\ list' = Tail(list) /\ set' = set /\ ~Holds(p)
      BY <2>5 DEF PopLPop, LPopFails
    <3>2. /\ Elements(list) = Elements(list') \cup {Head(list)}
          /\ Injective(list') /\ Head(list) \notin Elements(list')
      BY <2>0, <3>1, TailElements
    <3> QED BY <2>0, <2>5, <3>1, <3>2 DEF PopLPop, LPopFails, QueuedOnceInv
  <2>6. ASSUME NEW p \in Proc, PopSRem(p) \/ SRemFails(p) PROVE QueuedOnceInv'
    BY <2>0, <2>6 DEF PopSRem, SRemFails, QueuedOnceInv, Elements, Injective
  <2>7. ASSUME NEW p \in Proc, RemoveAllDelList(p) \/ DelListFails(p) PROVE FALSE
    BY <2>7 DEF RemoveAllDelList, DelListFails, RemoveAllBegin
  <2>8. ASSUME NEW p \in Proc, RemoveAllDelSet(p) \/ DelSetFails(p) PROVE FALSE
    BY <2>0, <2>8 DEF RemoveAllDelSet, DelSetFails
  <2> QED BY <2>1, <2>2, <2>3, <2>4, <2>5, <2>6, <2>7, <2>8 DEF Next, Command, FailedCommand
<1>3. QueuedOnceInv => QueuedOnce
  BY QueuedElements DEF QueuedOnceInv, QueuedOnce, Injective
<1> QED BY <1>1, <1>2, <1>3, TypeCorrect, PTL DEF Spec
=============================================================================
