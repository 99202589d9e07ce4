CONSTANTS
    k1 = k1
    k2 = k2
    k3 = k3
    k4 = k4
    Key <- MCKey
    Hash <- MCHash
    Value = {v1, v2}
    Nothing = Nothing
    InitialCapacity = 4
    MaxCapacity = 8
SPECIFICATION Spec
INVARIANTS
    TypeOK
    CountersExact
    ProbeCanStop
    LookupSound
    GrowKeepsEntries
PROPERTIES
    EveryCallReturns
    ImplementsMap
