CONSTANTS
    Size = 5
    Codes <- Functions
    LabelSets <- LabelsOf
SPECIFICATION RunSpec
INVARIANTS
    EdgesFollowGuest
    BlocksAreLeaders
    BranchesStayHome
    NoUseOfErased
    HostNotStuck
PROPERTIES
    ImplementsGuest
CHECK_DEADLOCK FALSE
