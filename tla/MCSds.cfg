SPECIFICATION SdsSpec
CONSTANTS
    DagNodes = {1, 2, 3}
    Plans <- MCPlans
    StoringPlans <- SharedIdPlans
    MaxInt = 3
    OverflowChecks = FALSE
    NoForward = TRUE
    None = None
    Ids = {1}
    Labels = {1, 2}
    PaneWidths = {1, 2}
    Ends = {0, 1, 2}
    MinEnd = 0
    States = {"a", "b"}
    Nothing = Nothing
    MaxInstances = 3
INVARIANTS
    DefinitionsAreMerged
    OrderedIffOrderable
    BuiltAfterItsInputs
    StartedWidthsAreTrue
PROPERTIES
    EveryPlanIsAnswered
    ImplementsStoredPanes
CHECK_DEADLOCK FALSE
