---------------------------- MODULE MCBaseRedis ----------------------------
(* Instances of BaseRedis for TLC.  A cluster may exceed Length, so lists   *)
(* are bounded by LengthBound itself and need no constraint.                *)
EXTENDS BaseRedis, TLC

Symmetry == Permutations(Item) \cup Permutations(Proc)
=============================================================================
