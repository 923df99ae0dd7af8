SPECIFICATION MCSpec
CONSTANTS
    LabelSets = {"a", "b", "c"}
    Hashes = {"h1", "h2"}
    Hash <- MCHash
    Threads = {t1, t2, t3}
    MaxSeries = 2
    None = None
    MaxCalls = 5
CHECK_DEADLOCK FALSE
INVARIANT
    OneIdPerLabelSet
PROPERTIES
    ImplementsLabelIds
    EveryCallEnds
