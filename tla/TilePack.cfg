CONSTANTS
    Values <- MCValues
    WordSize = 64
    StoreSize = 16
    SlotSize = 3
    PageSize = 8
    OffsetUnit = 2
    JitterPeriod = 3
    JitterUnit = 2
    Mix <- MCMix
    MaxLayers = 4
    MaxCheckpoints = 6
    Samples = 4
    None = None
SPECIFICATION Spec
INVARIANTS
    TypeOK
    OnlyWholeTablesReported
    CheckpointsMet
    SlotsSound
PROPERTIES
    SignatureGoesForward
