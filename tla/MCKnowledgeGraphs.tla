------------------------- MODULE MCKnowledgeGraphs -------------------------
(* Instances of KnowledgeGraphs for TLC.                                    *)
EXTENDS KnowledgeGraphs, TLC

CONSTANTS l1, l2, x, y, s1, s2, s3, d1

Item(l, t, R) == [domain |-> l, title |-> t, related |-> R]

\* Two scenes to merge in the default domain, and one in a tenant's.
TwoDomains == (s1 :> Default) @@ (s2 :> Default) @@ (s3 :> d1)

\* A relation to a later item of its batch, one to a node that may not be
\* there, and a batch over two graphs.
SomeBatches == {<<Item(l1, x, {y}), Item(l1, y, {})>>, <<Item(l1, y, {x})>>, <<Item(l2, x, {}), Item(l1, x, {})>>}

Symmetry == Permutations(Callers) \cup Permutations({s1, s2})
=============================================================================
