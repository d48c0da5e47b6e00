SPECIFICATION Spec
CONSTANTS
    s1 = s1  s2 = s2  a = a  b = b  c = c  d = d  e = e
    Turns <- TwoScenes
    MinTopics = 2
    Fanout = 2
    MaxDepth = 3
    MaxPasses = 2
    MaxTrouble = 2
    RollbackFails = TRUE
SYMMETRY Symmetry
INVARIANTS
    AllOrNothing
    ServesWhatItWrote
    TurnsKept
    ClaimedOnce
CHECK_DEADLOCK FALSE
