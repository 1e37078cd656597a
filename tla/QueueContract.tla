--------------------------- MODULE QueueContract ---------------------------
(***************************************************************************)
(* What a WorkerPoolQueue promises about the items whose Push returned nil *)
(* (modules/queue/queue.go, 1-68): an item is handled at most once per     *)
(* push, stays handled, and leaves the queue unhandled only if an          *)
(* administrator removes it, if an equal payload is pending, if more items *)
(* are pending than the base queue has room for, if its storage fails, or  *)
(* if the queue is closing: the time to put an item back is limited then.  *)
(***************************************************************************)
EXTENDS Naturals, FiniteSets

CONSTANTS Item,       \* pushes
          Payload,    \* what each of them pushes
          Capacity,   \* items the base queue has room for
          Faulty      \* whether its storage may fail

VARIABLES pending,    \* accepted and not settled
          handled, lost, removed, merged,
          closing     \* the queue has been told to stop

vars == <<pending, handled, lost, removed, merged, closing>>

Init == /\ pending = {} /\ handled = {} /\ lost = {} /\ removed = {} /\ merged = {}
        /\ closing = FALSE

Accept(x) == /\ x \notin pending \cup handled \cup lost \cup removed \cup merged
             /\ pending' = pending \cup {x}
             /\ UNCHANGED <<handled, lost, removed, merged, closing>>

\* A handler took the items S.
Handle(S) == /\ pending' = pending \ S
             /\ handled' = handled \cup S
             /\ UNCHANGED <<lost, removed, merged, closing>>

\* An item the handler did not handle cannot be put back.
Lose(x) == /\ Faulty \/ Cardinality(pending) > Capacity \/ closing
           /\ pending' = pending \ {x}
           /\ lost' = lost \cup {x}
           /\ UNCHANGED <<handled, removed, merged, closing>>

Remove(S) == /\ pending' = pending \ S
             /\ removed' = removed \cup S
             /\ UNCHANGED <<handled, lost, merged, closing>>

\* An unhandled item is given up because an equal one waits in the queue.
Merge(x, y) == /\ x # y /\ Payload[x] = Payload[y]
               /\ pending' = pending \ {x}
               /\ merged' = merged \cup {x}
               /\ UNCHANGED <<handled, lost, removed, closing>>

Close == /\ closing' = TRUE
         /\ UNCHANGED <<pending, handled, lost, removed, merged>>

\* While closing, what is left is handed to the handler, given up or both.
Settle(S, U) == /\ closing
                /\ pending' = pending \ (S \cup U)
                /\ handled' = handled \cup S
                /\ lost' = lost \cup U
                /\ UNCHANGED <<removed, merged, closing>>

Next == \/ Close
        \/ \E x \in Item : Accept(x)
        \/ \E x \in pending : Lose(x)
        \/ \E x, y \in pending : Merge(x, y)
        \/ \E S \in SUBSET pending : Handle(S) \/ Remove(S)
        \/ \E S \in SUBSET pending : \E U \in SUBSET (pending \ S) : Settle(S, U)

Spec == Init /\ [][Next]_vars
=============================================================================
