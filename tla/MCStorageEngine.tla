--------------------------- MODULE MCStorageEngine ---------------------------
(* TLC instance of StorageEngine: ids and types are interchangeable. *)
EXTENDS StorageEngine, TLC

Symmetry == Permutations(Ids) \cup Permutations(Types)
=============================================================================
