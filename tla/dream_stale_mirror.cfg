SPECIFICATION Spec
CONSTANTS
    s1 = s1  s2 = s2  a = a  b = b  c = c  d = d  e = e
    Turns <- TwoScenes
    MinTopics = 2
    Fanout = 2
    MaxDepth = 4
    MaxPasses = 2
    MaxTrouble = 1
    RollbackFails = FALSE
SYMMETRY Symmetry
INVARIANTS
    NoSecondClaim
CHECK_DEADLOCK FALSE

