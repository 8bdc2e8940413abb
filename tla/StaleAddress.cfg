CONSTANTS
    Size = 4
    Objects <- LabelCallObjects
SPECIFICATION Spec
INVARIANTS
    FunctionsHaveCode
CHECK_DEADLOCK FALSE
