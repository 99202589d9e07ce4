CONSTANTS
    Node = Node
    Magic = Magic
    Newline = Newline
    Percent = Percent
    Hex = Hex
    LateHead = LateHead
    Heads <- MCHeads
    Files <- MCFiles
SPECIFICATION Spec
INVARIANTS
    PlainFileExact
    RecordsAccounted
    AnalysisExact
PROPERTIES
    ExitsWithOnlyAKey
