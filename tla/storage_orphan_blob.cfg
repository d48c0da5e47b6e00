SPECIFICATION Spec
CONSTANTS
  Agents = {a1}
  Ids = {i1}
  Types = {t1, t2}
  Data = {d1}
  None = None
  Residue = {"torn"}
  Faults = {"ckpthdr"}
  MaxBatch = 1
  MaxLog = 4
  MaxCommit = 3
  MaxCrash = 1
  MaxFault = 1
SYMMETRY Symmetry
CHECK_DEADLOCK FALSE
PROPERTY Durable
