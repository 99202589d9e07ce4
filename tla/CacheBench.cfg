CONSTANTS
    k1 = k1
    k2 = k2
    k3 = k3
    k4 = k4
    Key <- MCKey
    Hash <- MCHash
    Nothing = Nothing
    Value = {r1, r2, r3, r4}
    MaxCommands = 6
    InitialCapacity = 4
    MaxCapacity = 8
SPECIFICATION BenchSpec
INVARIANTS
    StoredStringsPoisoned
    TableNeverChangesShape
PROPERTIES
    StoredKeyCallFaults
    OutcomeOfLinesRead
