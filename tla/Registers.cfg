CONSTANTS
    RegSets <- Pairs
    Val <- Vals
    OptionSets <- GoodOptions
    MaxDepth = 3
    TailCalls = {TRUE, FALSE}
    UsedByCallers <- SPUsed
SPECIFICATION Spec
INVARIANTS
    RegInv
PROPERTIES
    ImplementsGuestRegs
CHECK_DEADLOCK FALSE
