-------------------------- MODULE MCDreamPipeline --------------------------
(* Instances of DreamPipeline for TLC.                                      *)
EXTENDS DreamPipeline, TLC

CONSTANTS s1, s2, a, b, c, d, e

\* A scene with a group to choose and one with a single group.
TwoScenes == (s1 :> {a, b, c}) @@ (s2 :> {d, e})

\* The turns of a scene are alike.
Symmetry == Permutations({a, b, c}) \cup Permutations({d, e})
=============================================================================
