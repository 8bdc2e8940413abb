CONSTANTS
    Size = 4
    Codes <- BranchesAhead
    LabelSets <- NoLabels
SPECIFICATION Spec
INVARIANTS
    UnfinishedBlocksTransferred
CHECK_DEADLOCK FALSE
