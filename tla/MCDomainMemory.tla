--------------------------- MODULE MCDomainMemory ---------------------------
(* Instances of DomainMemory for TLC.                                       *)
EXTENDS DomainMemory, TLC

\* An utterance in the stimulus's slot, and a close that rewrites that slot.
SomeAppends == {<<"utterance", 1>>}
SomeEnds == {{"input"}}
=============================================================================
