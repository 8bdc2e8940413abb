CONSTANTS
    RegSets <- StackPointer
    Val <- Vals
    OptionSets <- ABIOptions
    MaxDepth = 4
    TailCalls = {FALSE}
    UsedByCallers <- NoneUsed
SPECIFICATION Spec
PROPERTIES
    UnusedRegistersKept
CHECK_DEADLOCK FALSE
