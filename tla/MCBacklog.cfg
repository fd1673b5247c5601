SPECIFICATION BacklogSpec
CONSTANTS
    Sessions = {s1, s2}
    Items = {1, 2, 3}
    Threads = {t1}
    Titles = {"a", "b"}
    Changes <- MCChanges
    Priorities = {"p0", None}
    Impacts = {1, None}
    Relations = {"blocks", "requires", "related"}
    Funnel <- MCFunnel
    MaxArtifacts = 2
    None = None
CONSTRAINT Small
SYMMETRY Permuted
INVARIANTS
    ThreadsAreSound
    OneOpenPerTitle
    ReceiptsAreTrue
    RelationsAreSound
    OrderIsTopological
