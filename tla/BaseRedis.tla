----------------------------- MODULE BaseRedis -----------------------------
(***************************************************************************)
(* The base queue of modules/queue/base_redis.go: a list and, for a unique *)
(* queue, a set, both kept in Redis and shared by every process of a       *)
(* cluster.  The mutex of a baseRedis makes the calls of one process run   *)
(* one at a time, so a process is one thread here; the Redis commands of   *)
(* different processes interleave, and there is no transaction.            *)
(*                                                                         *)
(* A command may fail: go-redis returns an error when the connection or    *)
(* the context breaks, before or after Redis executed the command.  A      *)
(* process that dies between two commands is one whose next command failed *)
(* without being executed.                                                 *)
(***************************************************************************)
EXTENDS Naturals, Sequences, FiniteSets

CONSTANTS Item,        \* payloads
          Proc,        \* processes of the cluster
          Length,      \* cfg.Length
          Unique,      \* isUnique
          MaxRemoves,  \* bound on the calls of RemoveAll
          MaxFaults    \* bound on the failing commands

ASSUME ProcAssumption == IsFiniteSet(Proc)
ASSUME NumberAssumption == /\ Length \in Nat \ {0}
                           /\ MaxRemoves \in Nat /\ MaxFaults \in Nat
ASSUME BooleanAssumption == Unique \in BOOLEAN

VARIABLES list,    \* QueueFullName, the head is popped first
          set,     \* SetFullName
          pc,      \* per process, the next command of its call; "idle" between calls
          data,    \* per process, the payload of the call
          removes, \* calls of RemoveAll so far
          faults   \* commands that failed so far

vars == <<list, set, pc, data, removes, faults>>

Init == /\ list = <<>>
        /\ set = {}
        /\ pc = [p \in Proc |-> "idle"]
        /\ data \in [Proc -> Item]
        /\ \A p, q \in Proc : data[p] = data[q]
        /\ removes = 0 /\ faults = 0

Goto(p, l) == pc' = [pc EXCEPT ![p] = l]
-----------------------------------------------------------------------------
(* PushItem.  LLEN found room; a full queue and a failing LLEN change nothing. *)

\* Mutant: off by one, a full queue takes one more.
PushLLenLate(p, x) == /\ pc[p] = "idle"
                      /\ Len(list) <= Length
                      /\ data' = [data EXCEPT ![p] = x]
                      /\ Goto(p, IF Unique THEN "sadd" ELSE "rpush")
                      /\ UNCHANGED <<list, set, removes, faults>>

PushLLen(p, x) == /\ pc[p] = "idle"
                  /\ Len(list) < Length
                  /\ data' = [data EXCEPT ![p] = x]
                  /\ Goto(p, IF Unique THEN "sadd" ELSE "rpush")
                  /\ UNCHANGED <<list, set, removes, faults>>

\* Mutant: the number of added members is not looked at.
PushSAddAlways(p) == /\ pc[p] = "sadd"
                     /\ set' = set \cup {data[p]}
                     /\ Goto(p, "rpush")
                     /\ UNCHANGED <<list, data, removes, faults>>

\* ErrAlreadyInQueue when SADD added nothing.
PushSAdd(p) == /\ pc[p] = "sadd"
               /\ set' = set \cup {data[p]}
               /\ Goto(p, IF data[p] \in set THEN "idle" ELSE "rpush")
               /\ UNCHANGED <<list, data, removes, faults>>

PushRPush(p) == /\ pc[p] = "rpush"
                /\ list' = Append(list, data[p])
                /\ Goto(p, "idle")
                /\ UNCHANGED <<set, data, removes, faults>>
-----------------------------------------------------------------------------
(* PopItem; an empty list is tried again. *)

\* Mutant: the payload stays in the set.
PopLPopOnly(p) == /\ pc[p] = "idle"
                  /\ list # <<>>
                  /\ data' = [data EXCEPT ![p] = Head(list)]
                  /\ list' = Tail(list)
                  /\ UNCHANGED <<set, pc, removes, faults>>

PopLPop(p) == /\ pc[p] = "idle"
              /\ list # <<>>
              /\ data' = [data EXCEPT ![p] = Head(list)]
              /\ list' = Tail(list)
              /\ Goto(p, IF Unique THEN "srem" ELSE "idle")
              /\ UNCHANGED <<set, removes, faults>>

PopSRem(p) == /\ pc[p] = "srem"
              /\ set' = set \ {data[p]}
              /\ Goto(p, "idle")
              /\ UNCHANGED <<list, data, removes, faults>>
-----------------------------------------------------------------------------
(* RemoveAll: DEL of the list, then DEL of the set, whatever the first one returned. *)

RemoveAllBegin == removes < MaxRemoves /\ removes' = removes + 1

RemoveAllDelList(p) == /\ pc[p] = "idle"
                       /\ RemoveAllBegin
                       /\ list' = <<>>
                       /\ Goto(p, "delSet")
                       /\ UNCHANGED <<set, data, faults>>

RemoveAllDelSet(p) == /\ pc[p] = "delSet"
                      /\ set' = {}
                      /\ Goto(p, "idle")
                      /\ UNCHANGED <<list, data, removes, faults>>
-----------------------------------------------------------------------------
(* Commands that return an error; those Redis did execute changed the state. *)

Fault == faults < MaxFaults /\ faults' = faults + 1

SAddFails(p) == /\ pc[p] = "sadd"
                /\ Fault
                /\ set' \in {set, set \cup {data[p]}}
                /\ Goto(p, "idle")
                /\ UNCHANGED <<list, data, removes>>

RPushFails(p) == /\ pc[p] = "rpush"
                 /\ Fault
                 /\ list' \in {list, Append(list, data[p])}
                 /\ Goto(p, "idle")
                 /\ UNCHANGED <<set, data, removes>>

\* The reply with the payload is lost; PopItem tries again.
LPopFails(p) == /\ pc[p] = "idle"
                /\ list # <<>>
                /\ Fault
                /\ list' = Tail(list)
                /\ UNCHANGED <<set, pc, data, removes>>

\* "the data has been popped, even if there is any error we can't do anything"
SRemFails(p) == /\ pc[p] = "srem"
                /\ Fault
                /\ set' \in {set, set \ {data[p]}}
                /\ Goto(p, "idle")
                /\ UNCHANGED <<list, data, removes>>

DelListFails(p) == /\ pc[p] = "idle"
                   /\ RemoveAllBegin
                   /\ Fault
                   /\ list' \in {list, <<>>}
                   /\ Goto(p, "delSet")
                   /\ UNCHANGED <<set, data>>

DelSetFails(p) == /\ pc[p] = "delSet"
                  /\ Fault
                  /\ set' \in {set, {}}
                  /\ Goto(p, "idle")
                  /\ UNCHANGED <<list, data, removes>>
-----------------------------------------------------------------------------
Command(p) == \/ \E x \in Item : PushLLen(p, x)
              \/ PushSAdd(p) \/ PushRPush(p)
              \/ PopLPop(p) \/ PopSRem(p)
              \/ RemoveAllDelList(p) \/ RemoveAllDelSet(p)

FailedCommand(p) == \/ SAddFails(p) \/ RPushFails(p) \/ LPopFails(p) \/ SRemFails(p)
                    \/ DelListFails(p) \/ DelSetFails(p)

Next == \E p \in Proc : Command(p) \/ FailedCommand(p)

Spec == Init /\ [][Next]_vars
-----------------------------------------------------------------------------
TypeOK == /\ list \in Seq(Item)
          /\ set \subseteq Item
          /\ pc \in [Proc -> {"idle", "sadd", "rpush", "srem", "delSet"}]
          /\ data \in [Proc -> Item]
          /\ removes \in 0..MaxRemoves
          /\ faults \in 0..MaxFaults

Queued == {list[i] : i \in 1..Len(list)}
\* Some process is between the two commands that move x.
Pushing(x) == \E p \in Proc : pc[p] = "rpush" /\ data[p] = x
Popping(x) == \E p \in Proc : pc[p] = "srem" /\ data[p] = x

\* The check of LLEN and the RPUSH are two commands, so processes together may exceed
\* the length, but each by one item only: the limit stays one of the cluster.
LengthBound == Len(list) <= Length + Cardinality(Proc) - 1

\* Until somebody calls RemoveAll, a payload is in the list at most once in the whole
\* cluster, although no transaction joins the two structures and commands may fail.
QueuedOnce == (Unique /\ removes = 0) =>
    /\ \A i, j \in 1..Len(list) : list[i] = list[j] => i = j
    /\ Queued \subseteq set

\* Until a command fails, a payload in the set, which every PushItem of it is refused for,
\* is in the list, or a call that moves or removes it is under way: no interleaving of the
\* processes leaves a payload that is refused for ever.
RegisteredIsQueued == faults = 0 =>
    \A x \in set : x \in Queued \/ Pushing(x) \/ Popping(x) \/ \E p \in Proc : pc[p] = "delSet"
=============================================================================
