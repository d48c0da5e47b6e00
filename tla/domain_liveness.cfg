SPECIFICATION FairSpec
CONSTANTS
  Callers = {p1, p2}
  Tenants = {t1}
  Default = Default
  Pool = Pool
  Ctx = {1, 2, 3, 4}
  Scenes = {s1}
  LLMs = {m1}
  None = None
  Sessions = {t1}
  Kinds = {"use", "close"}
  MaxTick = 2
PROPERTIES
  EveryCallReturns
  EveryDreamEnds
