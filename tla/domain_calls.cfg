SPECIFICATION Spec
CONSTANTS
  Callers = {p1, p2}
  Tenants = {t1}
  Default = Default
  Pool = Pool
  Ctx = {1, 2, 3, 4}
  Scenes = {s1}
  LLMs = {m1}
  None = None
  Sessions = {t1}
  Kinds = {"use", "pool", "agent", "subagent", "compact", "stats", "checkpoint", "close"}
  MaxTick = 2
SYMMETRY Symmetry
INVARIANTS
  TypeOK
  OneOperationPerDomain
  RunsOnOpenEngine
  OneDreamPerScene
