------------------------- MODULE MCBlockManagement -------------------------
(* A small instance of BlockManagement: two operators and two scopes. *)
EXTENDS BlockManagement, TLC

CONSTANTS s1, s2, o1, o2

MCBatches == {<<s1>>, <<s1, s2>>}

Symmetry == Permutations(Operators)
=============================================================================
