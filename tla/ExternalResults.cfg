CONSTANTS
    RegSets <- Pairs
    Val <- Vals
    OptionSets <- AllOptions
    MaxDepth = 3
    TailCalls = {TRUE, FALSE}
    UsedByCallers <- SPUsed
SPECIFICATION Spec
PROPERTIES
    ResultKept
CHECK_DEADLOCK FALSE
