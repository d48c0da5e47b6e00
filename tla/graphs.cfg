SPECIFICATION Spec
CONSTANTS
    l1 = l1  l2 = l2  x = x  y = y  s1 = s1  s2 = s2  s3 = s3  d1 = d1
    Callers = {c1, c2}
    Labels = {l1, l2}
    Titles = {x, y}
    Owner <- TwoDomains
    Batches <- SomeBatches
    Default = Default
    None = None
    Absent = Absent
    Failing = {"slot", "node", "edge", "stamp", "delete", "detach", "close", "crash"}
    MaxCalls = 3
    MaxTrouble = 1
SYMMETRY Symmetry
INVARIANTS
    LabelsUnique
    MembersHaveTheirGraph
    SubgraphReadsBack
    ClockFollowsContent
    AnchorsNameGraphs
CHECK_DEADLOCK FALSE
