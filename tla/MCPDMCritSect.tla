--------------------------- MODULE MCPDMCritSect ---------------------------
(* Instances of PDMCritSect for TLC. *)
EXTENDS PDMCritSect, TLC

Symmetry == Permutations(Emts) \cup Permutations(IoThreads)
=============================================================================
