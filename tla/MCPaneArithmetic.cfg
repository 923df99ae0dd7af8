SPECIFICATION Spec
CONSTANTS
    MaxInt = 7
    PaneWidths = {1, 2, 3, 5, 7}
    Retentions = {0, 5, 7}
    Latenesses = {0, 3}
    StreamStarts <- MCStreamStarts
    None = None
INVARIANT
    CodeIsExact
CHECK_DEADLOCK FALSE
