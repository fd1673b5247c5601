SPECIFICATION Spec
CONSTANTS
    Sessions = {s1, s2}
    Docs = {d1, d2}
    Comps = {k1, k2}
    Names = {"plan", "Plan"}
    Fold <- MCFold
    Types = {"md", "pdf"}
    Contents = {"small", "large"}
    Size <- MCSize
    StorageLimit = 4
    None = None
    MaxVersion = 2
SYMMETRY Symmetric
INVARIANTS
    VersionsAreSound
    StorageWithinLimit
PROPERTIES
    AppendOnly
