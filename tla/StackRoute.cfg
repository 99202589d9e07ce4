CONSTANTS
    n1 = n1
    n2 = n2
    n3 = n3
    Base = 4
    NameByte = 3
    Id <- MCId
    Weight <- MCWeight
    Cost = {1, 200}
    Headers <- MCHeaders
    InitialCap = 2
    MaxLines = 4
    None = None
SPECIFICATION Spec
INVARIANTS
    ParsedExactly
    HeapSound
    HeaderKept
    ReportExact
