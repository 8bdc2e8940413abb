\* The program ends after the call.
CHECK_DEADLOCK FALSE
CONSTANTS
    Library <- LibC
    Subst <- SoftFloat
    Calls <- AllCalls
    Others <- OtherNames
    MaxConvs = 7
    None = None
SPECIFICATION FairSpec
INVARIANTS BreakNeverFails PiecesPassable CalleeMeant
PROPERTIES ImplementsSource RoundsAdvance CallEnds
