--------------------------- MODULE MCStreamRaces ---------------------------
(* StreamManager for TLC.                                                  *)
EXTENDS StreamManager, TLC

Symmetry == Permutations(Callers) \cup Permutations(IDs)
=============================================================================
