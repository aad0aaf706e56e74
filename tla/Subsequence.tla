----------------------------- MODULE Subsequence -----------------------------
(* What is left of a sequence when the elements of a set are taken out of it: *)
(* the entries of an ordered dictionary after some keys were popped.          *)
EXTENDS Naturals, Sequences

Without(s, T) ==
  LET kept[i \in 0..Len(s)] ==
        IF i = 0 THEN <<>>
        ELSE IF s[i] \in T THEN kept[i - 1] ELSE Append(kept[i - 1], s[i])
  IN  kept[Len(s)]
=============================================================================
