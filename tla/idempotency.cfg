SPECIFICATION Spec
CONSTANTS
    Requests = {r1, r2}
    Keys = {k1}
    NoKey = NoKey
    Bodies = {x, y}
    TTL = 2
    MaxTime = 3
    Nothing = Nothing
SYMMETRY Symmetry
INVARIANTS
    NoOrphanedClaim
PROPERTIES
    KeyWorksOnce
    ReplayIsOriginal
