SPECIFICATION MCSpec
CONSTANTS
    Definitions = {"ps", "batch", "single"}
    PerSample = {"ps", "single"}
    Series = {"a1", "b1", "q", "u"}
    Metrics = {"a", "b", "q", "u"}
    QueryRunMetrics = {"q"}
    MetricOf <- MCMetricOf
    Reads <- MCReads
    Selects <- MCSelects
    PaneMs <- MCPaneMs
    RetentionMs <- MCRetentionMs
    AllowedLateness = 1
    MaxFuture = 1
    StreamStart = 2
    Times <- MCTimes
    Clocks <- MCClocks
    None = None
    Instances = {"one", "two"}
INVARIANTS
    TypeOK
    OpenIsAhead
    StoreIsRetainedRange
    ServedOnePaneBehind
    PanesCountedOnce
PROPERTIES
    BufferedReachesItsPane
    WatermarkNeverRetreats
    StoredOnceNeverChanges
    DuePanesClosed
