--------------------------- MODULE MCPullChecker ---------------------------
(* Instances of PullChecker for TLC.                                        *)
EXTENDS PullChecker

MCUser == Worker \cup Merger
=============================================================================
