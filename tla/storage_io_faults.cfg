SPECIFICATION Spec
CONSTANTS
  Agents = {a1}
  Ids = {i1, i2}
  Types = {t1, t2}
  Data = {d1}
  None = None
  Residue = {"torn"}
  Faults = {"append", "undo", "sync", "blob", "blobsync", "shutdown", "opentrunc", "openhdr"}
  MaxBatch = 2
  MaxLog = 3
  MaxCommit = 2
  MaxCrash = 1
  MaxFault = 2
SYMMETRY Symmetry
CHECK_DEADLOCK FALSE
INVARIANTS
  ReadsAnswerStore
PROPERTY Durable
