------------------------- MODULE MCTieredBlockStore -------------------------
(* Instances of TieredBlockStore for TLC: two scopes of one type, tried one  *)
(* after the other by every request, or a single scope.                      *)
EXTENDS TieredBlockStore, TLC

CONSTANTS ip1, ip2

Symmetry == Permutations(Workers)

SameTypes  == [s \in {ip1, ip2} |-> "ip"]
SamePaths  == {<<ip2, ip1>>}

OneType    == [s \in {ip1} |-> "ip"]
OnePath    == {<<ip1>>}
=============================================================================
