---------------------------- MODULE MCRunStatus ----------------------------
(* Instances of RunStatus for TLC.                                          *)
EXTENDS RunStatus, TLC

Symmetry == Permutations(Jobs) \cup Permutations(Caller \ Unwrapped)
=============================================================================
