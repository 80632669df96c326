----------------------------- MODULE MCPDMQueue -----------------------------
(* Model values for the runs of PDMQueue; threads of a kind are interchangeable. *)
EXTENDS PDMQueue, TLC

CONSTANTS e1, e2, p1, p2

TwoEmts == {e1, e2}
OneEmt == {e1}
TwoProducers == {p1, p2}
Symmetry == Permutations({e1, e2}) \cup Permutations({p1, p2})
=============================================================================
