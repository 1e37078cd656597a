--------------------------- MODULE MCBaseChannel ---------------------------
(* Instances of BaseChannel for TLC: the payloads and the producers are     *)
(* interchangeable, which the safety runs use.                              *)
EXTENDS BaseChannel, TLC

Symmetry == Permutations(Item) \cup Permutations(Pushers) \cup Permutations(Poppers)
=============================================================================
