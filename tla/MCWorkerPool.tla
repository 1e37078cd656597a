---------------------------- MODULE MCWorkerPool ----------------------------
(* Instances of WorkerPool for TLC.  The items in Twins push one payload,   *)
(* the others push one each; items with the same role are interchangeable,  *)
(* and so are workers and flushers.                                         *)
EXTENDS WorkerPool, TLC

CONSTANT Twins
Payloads == [x \in Item |-> IF x \in Twins THEN "twin" ELSE x]

Symmetry == Permutations(Twins) \cup Permutations(Item \ Twins)
              \cup Permutations(Worker) \cup Permutations(Flusher)
=============================================================================
