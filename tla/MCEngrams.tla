----------------------------- MODULE MCEngrams -----------------------------
(* Instances of Engrams for TLC.                                            *)
EXTENDS Engrams, TLC

\* Every two topics overlap, the first and the last alike.
Overlapping == (1 :> {"k"}) @@ (2 :> {"k", "m"}) @@ (3 :> {"k"})

Symmetry == Permutations(Scenes)
=============================================================================
