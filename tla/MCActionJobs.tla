---------------------------- MODULE MCActionJobs ----------------------------
(* Instances of ActionJobs for TLC: job 2 needs job 1, job 3 needs none.    *)
EXTENDS ActionJobs, TLC

MCJobID == [j \in Jobs |-> j]
MCNeeds == [j \in Jobs |-> IF j = 2 THEN {1} ELSE {}]
MCHasIf == {}
MCCanRun == [r \in Runners |-> Jobs]

Symmetry == Permutations(Runners)
=============================================================================
