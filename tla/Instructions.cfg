CONSTANTS
    XLen = 4
    LowBits = 2
    ByteBits = 1
    FlagBits = 2
    Infinity = 4
    Quiet = 6
    Programs <- Kinds
    Instrs <- InstrsOf
    None = None
SPECIFICATION Spec
PROPERTIES ImplementsIsa
