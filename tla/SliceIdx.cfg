CONSTANTS
    k1 = k1
    k2 = k2
    k3 = k3
    v1 = v1
    v2 = v2
    Key <- MCKey
    Value <- MCValue
    KeySize <- MCKeySize
    ValueSize <- MCValueSize
    Hash <- MCHash
    FillCounts = {15, 40, 63}
    InitialCap = 8
    SizeBits = 6
    SizeMax = 63
    AllocLimit = 32
    LineInitial = 2
    LineLimit = 8
    Blanks = 1
    MaxCommands = 5
    Nothing = Nothing
SPECIFICATION Spec
INVARIANTS
    BufferSound
    LineBufferSound
PROPERTIES
    ImplementsMap
    MovedKeyNeverAnswers
