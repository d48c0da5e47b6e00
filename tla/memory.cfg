SPECIFICATION Spec
CONSTANTS
    SceneIds = {1, 2}
    Graphs = {g1}
    Names = {n1}
    Nil = Nil
    Appends <- SomeAppends
    Ends <- SomeEnds
    MaxTurnSeq = 2
    MaxSeq = 2
    MaxStamp = 2
    MaxTick = 0
    MaxTrouble = 2
    Failing = {"create", "open", "profile", "append", "topic", "mergeNodes", "mergeWrite", "mergeDelete", "mergeAnchor", "delPlans", "delRecords", "delNode"}
    ClockStepsBack = FALSE
INVARIANTS
    ReadsServeRecords
    ContextIsLive
    TurnIdsNeverReused
    DeletedTopicsOwnNothing
    ResumesLastUsed
CHECK_DEADLOCK FALSE
