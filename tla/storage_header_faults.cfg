SPECIFICATION Spec
CONSTANTS
  Agents = {a1}
  Ids = {i1}
  Types = {t1, t2}
  Data = {d1}
  None = None
  Residue = {"torn"}
  Faults = {"trim", "nullhdr", "nullsync", "ckpthdr", "ckptsync", "ckptremap"}
  MaxBatch = 1
  MaxLog = 5
  MaxCommit = 4
  MaxCrash = 0
  MaxFault = 1
SYMMETRY Symmetry
CHECK_DEADLOCK FALSE
INVARIANTS
  TrimCutsNoRecord
PROPERTY Durable
