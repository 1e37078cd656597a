---------------------------- MODULE BaseChannel ----------------------------
(***************************************************************************)
(* The in-memory base queue of modules/queue/base_channel.go: a buffered   *)
(* Go channel c, and for a unique queue a set of the queued payloads that  *)
(* a mutex mu guards.  The set and the channel are updated in separate     *)
(* steps, so the interleavings of PushItem, PopItem and RemoveAll matter.  *)
(*                                                                         *)
(* A critical section that only touches the set is one step, enabled when  *)
(* mu is free.  RemoveAll keeps mu while it receives from the channel, so  *)
(* it alone owns mu across steps.                                          *)
(***************************************************************************)
EXTENDS Naturals, Sequences

CONSTANTS Item,       \* payloads
          Pushers,    \* goroutines calling PushItem
          Poppers,    \* goroutines calling PopItem
          Removers,   \* goroutines calling RemoveAll
          Length,     \* capacity of the channel, BaseConfig.Length
          Unique      \* isUnique

ASSUME LengthAssumption == Length \in Nat \ {0}
ASSUME UniqueAssumption == Unique \in BOOLEAN
ASSUME RolesAssumption == /\ Pushers \cap Poppers = {}
                          /\ (Pushers \cup Poppers) \cap Removers = {}

Threads == Pushers \cup Poppers \cup Removers
Free == "free"    \* mu is not locked
Held == "held"    \* mu is locked by the RemoveAll that is past its Lock

VARIABLES c,      \* the channel's buffer, oldest first
          set,    \* container.Set[string]; stays empty in a simple queue
          mu,     \* Free or Held
          pc,     \* per goroutine, where it is in its call; "idle" between calls
          data,   \* per goroutine, the payload its call works on
          calm    \* history: no two calls of PushItem overlapped, no RemoveAll began

vars == <<c, set, mu, pc, data, calm>>

Init == /\ c = <<>>
        /\ set = {}
        /\ mu = Free
        /\ pc = [t \in Threads |-> "idle"]
        /\ data \in [Threads -> Item]
        /\ \A t, u \in Threads : data[t] = data[u]
        /\ calm = TRUE
-----------------------------------------------------------------------------
(* PushItem *)

\* A unique queue has to look into the set first, a simple one goes on to the select.
PushItem(p, x) == /\ pc[p] = "idle"
                  /\ data' = [data EXCEPT ![p] = x]
                  /\ pc' = [pc EXCEPT ![p] = IF Unique THEN "check" ELSE "send"]
                  /\ calm' = (calm /\ \A d \in Pushers : pc[d] = "idle")
                  /\ UNCHANGED <<c, set, mu>>

\* Mutant: the set is not looked into.
PushCheckSkipped(p) == /\ pc[p] = "check"
                       /\ pc' = [pc EXCEPT ![p] = "send"]
                       /\ UNCHANGED <<c, set, mu, data, calm>>

\* mu.Lock; has := set.Contains; mu.Unlock.  ErrAlreadyInQueue ends the call.
PushCheck(p) == /\ pc[p] = "check"
                /\ mu = Free
                /\ pc' = [pc EXCEPT ![p] = IF data[p] \in set THEN "idle" ELSE "send"]
                /\ UNCHANGED <<c, set, mu, data, calm>>

PushSend(p) == /\ pc[p] = "send"
               /\ Len(c) < Length
               /\ c' = Append(c, data[p])
               /\ pc' = [pc EXCEPT ![p] = IF Unique THEN "add" ELSE "idle"]
               /\ UNCHANGED <<set, mu, data, calm>>

\* pushBlockTime elapsed, or the caller's context is done.
PushGiveUp(p) == /\ pc[p] = "send"
                 /\ pc' = [pc EXCEPT ![p] = "idle"]
                 /\ UNCHANGED <<c, set, mu, data, calm>>

\* Mutant: the payload is not registered.
PushAddForgotten(p) == /\ pc[p] = "add"
                       /\ mu = Free
                       /\ pc' = [pc EXCEPT ![p] = "idle"]
                       /\ UNCHANGED <<c, set, mu, data, calm>>

PushAdd(p) == /\ pc[p] = "add"
              /\ mu = Free
              /\ set' = set \cup {data[p]}
              /\ pc' = [pc EXCEPT ![p] = "idle"]
              /\ UNCHANGED <<c, mu, data, calm>>
-----------------------------------------------------------------------------
(* PopItem; a call whose context is done returns without changing anything. *)

PopReceive(q) == /\ pc[q] = "idle"
                 /\ c # <<>>
                 /\ data' = [data EXCEPT ![q] = Head(c)]
                 /\ c' = Tail(c)
                 /\ pc' = [pc EXCEPT ![q] = "remove"]
                 /\ UNCHANGED <<set, mu, calm>>

PopRemove(q) == /\ pc[q] = "remove"
                /\ mu = Free
                /\ set' = set \ {data[q]}
                /\ pc' = [pc EXCEPT ![q] = "idle"]
                /\ UNCHANGED <<c, mu, data, calm>>
-----------------------------------------------------------------------------
(* RemoveAll: the loop tests len(c) and receives in two separate steps. *)

RemoveAllLock(r) == /\ pc[r] = "idle"
                    /\ mu = Free
                    /\ mu' = Held
                    /\ pc' = [pc EXCEPT ![r] = "drain"]
                    /\ calm' = FALSE
                    /\ UNCHANGED <<c, set, data>>

RemoveAllTest(r) == /\ pc[r] = "drain"
                    /\ c # <<>>
                    /\ pc' = [pc EXCEPT ![r] = "receive"]
                    /\ UNCHANGED <<c, set, mu, data, calm>>

RemoveAllReceive(r) == /\ pc[r] = "receive"
                       /\ c # <<>>
                       /\ c' = Tail(c)
                       /\ pc' = [pc EXCEPT ![r] = "drain"]
                       /\ UNCHANGED <<set, mu, data, calm>>

\* Mutant: the deferred Unlock is missing.
RemoveAllResetLocked(r) == /\ pc[r] = "drain"
                           /\ c = <<>>
                           /\ set' = {}
                           /\ pc' = [pc EXCEPT ![r] = "idle"]
                           /\ UNCHANGED <<c, mu, data, calm>>

\* len(c) = 0: a fresh set, and the deferred Unlock.
RemoveAllReset(r) == /\ pc[r] = "drain"
                     /\ c = <<>>
                     /\ set' = {}
                     /\ mu' = Free
                     /\ pc' = [pc EXCEPT ![r] = "idle"]
                     /\ UNCHANGED <<c, data, calm>>
-----------------------------------------------------------------------------
PushStep(p) == PushCheck(p) \/ PushSend(p) \/ PushGiveUp(p) \/ PushAdd(p)
RemoveStep(r) == RemoveAllTest(r) \/ RemoveAllReceive(r) \/ RemoveAllReset(r)

Next == \/ \E p \in Pushers : (\E x \in Item : PushItem(p, x)) \/ PushStep(p)
        \/ \E q \in Poppers : PopReceive(q) \/ PopRemove(q)
        \/ \E r \in Removers : RemoveAllLock(r) \/ RemoveStep(r)

\* Every goroutine inside a call keeps running.  Go hands a mutex over to a waiter
\* that has starved, so a goroutine that wants mu gets it if it is free again and
\* again: strong fairness.  Nobody has to start a call.
Fairness == /\ \A p \in Pushers : SF_vars(PushStep(p))
            /\ \A q \in Poppers : SF_vars(PopRemove(q))
            /\ \A r \in Removers : WF_vars(RemoveStep(r))

Spec == Init /\ [][Next]_vars
FairSpec == Spec /\ Fairness
-----------------------------------------------------------------------------
TypeOK == /\ c \in Seq(Item)
          /\ Len(c) <= Length
          /\ set \subseteq Item
          /\ mu \in {Free, Held}
          /\ data \in [Threads -> Item]
          /\ pc \in [Threads -> {"idle", "check", "send", "add", "remove", "drain", "receive"}]
          /\ calm \in BOOLEAN

Queued == {c[i] : i \in 1..Len(c)}
Adding(x) == \E p \in Pushers : pc[p] = "add" /\ data[p] = x
Removing(x) == \E q \in Poppers : pc[q] = "remove" /\ data[q] = x

\* As long as calls of PushItem do not overlap and nobody calls RemoveAll, every payload in
\* the channel is registered in the set, or is the one whose registration the producer has
\* still to do, and no consumer is about to unregister it: this is why pushing it again is
\* refused (base_channel.go:50-60).
QueuedIsRegistered ==
    Unique /\ calm => \A x \in Queued : (x \in set \/ Adding(x)) /\ ~Removing(x)

\* ... and so no payload is in the channel twice.
NoDuplicates == Unique /\ calm => \A i, j \in 1..Len(c) : c[i] = c[j] => i = j

\* A RemoveAll that saw a non-empty channel and now waits for an item that a consumer took.
Stuck == c = <<>> /\ \E r \in Removers : pc[r] = "receive"

\* The only way a call of PushItem can hang is a RemoveAll that is stuck holding mu; "its
\* Push function doesn't block forever" (queue.go) otherwise.
PushReturnsUnlessStuck == \A p \in Pushers : pc[p] # "idle" ~> (pc[p] = "idle" \/ Stuck)
=============================================================================
