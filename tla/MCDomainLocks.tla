---------------------------- MODULE MCDomainLocks ----------------------------
(* TLC instance of DomainLocks: callers are interchangeable. *)
EXTENDS DomainLocks, TLC

Symmetry == Permutations(Callers)
=============================================================================
