SPECIFICATION MCSpec
CONSTANTS
    Definitions = {"ps"}
    PerSample = {"ps"}
    Series = {"a", "b", "q"}
    Metrics = {"a", "q"}
    QueryRunMetrics = {"q"}
    MetricOf <- MCMetricOf
    Reads <- MCReads
    Selects <- MCSelects
    PaneMs <- MCPaneMs
    RetentionMs <- MCRetentionMs
    AllowedLateness = 1
    MaxFuture = 1
    StreamStart = None
    Times = {2, 4, 6, 8, 10}
    Clocks = {6, 10}
    None = None
    QueryRuns = {"d", "e"}
    QueryRunReads <- MCQueryRunReads
    QueryRunPaneMs <- MCQueryRunPaneMs
    QueryRunRetentionMs <- MCQueryRunRetentionMs
    Queries = {"near", "far", "both", "pair", "mixed"}
    StoredInputs <- MCStoredInputs
    QueryRunInputs <- MCQueryRunInputs
    FetchNode <- MCFetchNode
    KeysAfter <- MCKeysAfter
    Clients = {c1, c2}
    Deliveries = {"prompt", "late", "forwarded"}
    EvaluationTimes = {2, 4, 6}
    Instances = {"evicted"}
SYMMETRY MCSymmetry
INVARIANT
    StoredSummaryIsWhole
