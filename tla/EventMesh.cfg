CONSTANTS
    Name = {edge, core}
    Topic = {telemetry, audit, any}
    Any = any
    Rule = {r1, r2}
    None = None
    MaxSpecs = 3
    MaxMessages = 2
    MaxLines = 5
SPECIFICATION Spec
INVARIANTS
    DeliveredExact
    ContextExact
PROPERTY FilteredMessageFaults
