CONSTANTS
    Size = 4
    Objects <- MCObjects
SPECIFICATION Spec
INVARIANTS
    NeverFails
    FunctionsByAddress
    InOwnFunction
    CallsReachTheirCode
    DataRelocated
CHECK_DEADLOCK FALSE
