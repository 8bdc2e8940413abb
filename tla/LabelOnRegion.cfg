CONSTANTS
    Size = 3
    Codes <- CallsAndLabels
    LabelSets <- AnyLabels
SPECIFICATION Spec
INVARIANTS
    OpenBlocksAreBranchedFrom
CHECK_DEADLOCK FALSE
