SPECIFICATION Spec
CONSTANTS
  Agents = {a1}
  Ids = {i1, i2}
  Types = {t1, t2}
  Data = {d1}
  None = None
  Residue = {"torn"}
  Faults = {}
  MaxBatch = 1
  MaxLog = 4
  MaxCommit = 3
  MaxCrash = 2
  MaxFault = 0
SYMMETRY Symmetry
CHECK_DEADLOCK FALSE
INVARIANTS
  IndexNamesOwnRecord
  TypeIndexAgrees
  TruncationPointInFile
  ActiveHeaderIsNewest
  SnapshotAgreesWithScan
PROPERTY Durable
