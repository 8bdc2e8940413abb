CONSTANTS
    Half = 2
    Highs = 4
    Size = 4
    Programs <- MCPrograms
    HostAddr <- MCHostAddr
    ImportAddr = 13
SPECIFICATION Spec
INVARIANTS
    CallsFound
    NewFunctionsAhead
PROPERTIES
    ImplementsLookup
CHECK_DEADLOCK FALSE
