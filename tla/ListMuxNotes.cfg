CONSTANTS
    Id = {t1, t2, t3}
    Priority = {1, 2}
    None = None
    NoteLengths <- OversizeNotes
    MaxCommands = 8
SPECIFICATION Spec
INVARIANTS
    LinksAgree
    CountsExact
    ListChecksStaySilent
    ReportComplete
PROPERTY ProgramEnds
