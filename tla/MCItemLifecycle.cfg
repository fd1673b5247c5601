SPECIFICATION Spec
CONSTANTS
    Items = {i1, i2, i3}
    Sessions = {s1}
    MaxArcs = 2
SYMMETRY Symmetry
INVARIANTS
    ItemsAreSound
PROPERTIES
    
    NoMissedUnblock
    NoFalseUnblock
