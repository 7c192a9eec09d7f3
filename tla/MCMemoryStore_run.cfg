SPECIFICATION Spec
CONSTANTS
    Ids = {i1, i2, i3}
    Scopes = {s1, s2}
    Vectors <- MCVectors
    Misfit = Misfit
    Distance <- MCDistance
    Rows = {w1, w2, w3}
    PoolFactor = 2
    MaxResults = 2
    MaxEntries = 2
SYMMETRY Interchangeable
INVARIANTS TypeOK TablesSound SearchMissesTheCrowdedOut
PROPERTIES KeepsContract
