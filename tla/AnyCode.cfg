CONSTANTS
    Size = 4
    Codes <- AnyCode
    LabelSets <- AnyLabelsIfPadded
SPECIFICATION FairSpec
INVARIANTS
    WalkInv
    BlocksPartitionCode
    InsertBlockOpen
    BackTargetsFound
    DiscoveredFunctionsTranslated
PROPERTIES
    LabelsStayBlockStarts
    StepsApproachTheEnd
    TranslationEnds
CHECK_DEADLOCK FALSE
