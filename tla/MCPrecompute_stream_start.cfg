SPECIFICATION MCSpec
CONSTANTS
    Definitions = {"single"}
    PerSample = {"single"}
    Series = {"b1"}
    Metrics = {"b"}
    QueryRunMetrics = {}
    MetricOf <- MCMetricOf
    Reads <- MCReads
    Selects <- MCSelects
    PaneMs <- MCPaneMs
    RetentionMs <- MCRetentionMs
    AllowedLateness = 1
    MaxFuture = 1
    StreamStart = 0
    Times <- MCTimes
    Clocks <- MCClocks
    None = None
    Instances = {"one"}
INVARIANT
    FirstPaneAfterStreamStartIsBuilt
