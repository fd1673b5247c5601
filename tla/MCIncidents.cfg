SPECIFICATION Spec
CONSTANTS
    Issues = {i1}
    Items = {m1, m2}
    Hooks = {h1}
    Owners = {o1, o2}
    Workers = {w1}
    None = None
    MaxCount = 2
SYMMETRY Symmetry
INVARIANTS
    IncidentsAreSound
    
PROPERTIES
    StatusesAreOwned
