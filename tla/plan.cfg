SPECIFICATION Spec
CONSTANTS
    Texts = {a}
    Window = 0
    MaxSeq = 3
    MaxSlot = 1
    MaxClock = 1
    MaxTrouble = 1
INVARIANTS
    TypeOK
    NoInheritedWork
    HostTextKept
    FoldsAreComplete
PROPERTIES
    InFlightTreeSweptWhole
CHECK_DEADLOCK FALSE
