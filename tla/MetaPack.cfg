CONSTANTS
    a = a
    b = b
    aLong = aLong
    Name <- MCName
    LongName = {aLong}
    Cut <- MCCut
    TooLong = TooLong
    Malformed = Malformed
    ColumnLists <- MCColumnLists
    Text = {x, y}
    Number = {0, 4194304}
    Mapped = {4194304}
    None = None
    MaxCommands = 6
SPECIFICATION Spec
INVARIANT SameRowSamePacket
PROPERTIES
    PrintsWholeRows
    EmitSettled
