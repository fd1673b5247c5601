SPECIFICATION BoundedSpec
CONSTANTS
    Sessions = {s1, s2}
    Tasks = {1, 2, 3}
    Pendings = {p1}
    MaxPlanDepth = 2
    Edits <- MCEdits
    WeeklyLimit = 12
    MonthStart <- MCMonthStart
    TaskOrder <- MCTaskOrder
    None = None
SYMMETRY Symmetric
INVARIANTS
    ForestUnlessOverlap
    DepthUnlessMoved
    ChartIsExact
    PendingsAreSound
