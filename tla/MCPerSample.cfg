SPECIFICATION MCSpec
CONSTANTS
    Series = {"a", "b", "u"}
    Selected = {"a", "b"}
    PaneMs = 2
    RetentionMs = 1
    Times <- MCTimes
    MaxTaken = 3
    MaxFailed = 2
    MaxSealed = 2
    UnselectedTimes = {3}
CHECK_DEADLOCK FALSE
INVARIANTS
    TypeOK
    CachedNumberIsItsGroup
    StateFollowsActiveSeries
PROPERTY
    ImplementsSamplePanes
