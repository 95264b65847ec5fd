---------------------------- MODULE MCPollEngine ----------------------------
(* PollEngine without restrictions, for TLC.                               *)
EXTENDS PollEngine, TLC

Symmetry == Permutations(Callers) \cup Permutations(IDs) \cup Permutations(Intervals)
=============================================================================
