CONSTANTS
    Id = {t1, t2, t3, t4}
    Priority = {1, 2}
    None = None
    NoteLengths <- FittingNotes
    MaxCommands = 10
SPECIFICATION Spec
PROPERTY ImplementsQueues
