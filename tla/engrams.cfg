SPECIFICATION Spec
CONSTANTS
    Scenes = {a, b, c}
    Keywords <- Overlapping
    MaxPasses = 3
    MaxTrouble = 1
SYMMETRY Symmetry
INVARIANTS
    SharedEdgesExist
    SettledEdgesJoinNodes
    ListsMatchEdges
CHECK_DEADLOCK FALSE
