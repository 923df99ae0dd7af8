----------------------------- MODULE Precompute -----------------------------
(***************************************************************************)
(* The precompute engine of the data plane (precompute.rs): it routes raw  *)
(* samples to the open panes of the stored summaries built at ingestion,   *)
(* moves the watermark, builds each pane once when the watermark passes    *)
(* its end, and evicts the panes no evaluation reads any more.             *)
(*                                                                         *)
(* The engine runs on one thread and its two entry points, ingest_at and   *)
(* advance_watermark_at, never interleave.  advance_watermark_at is one    *)
(* action.  ingest_at is its loop: BeginIngest, one TakeSample per sample  *)
(* of the batch, and EndIngest, which closes panes; while a batch is being *)
(* ingested nothing else can happen.  Any sequence of samples is a batch.  *)
(***************************************************************************)
EXTENDS PaneGrid, FiniteSets

CONSTANTS
    Definitions,    \* the stored summaries built in an IngestionRun
    Series,         \* the series a sample may belong to
    Metrics,
    MetricOf,       \* [Series -> Metrics]
    Reads,          \* [Definitions -> Metrics]: the metric of its Scan
    Selects,        \* [Definitions -> SUBSET Series]: its Scan's matchers
    PerSample,      \* the definitions built per sample, not per batch
    QueryRunMetrics,\* the metrics that QueryRun definitions read
    PaneMs,         \* [Definitions -> pane width]
    RetentionMs,    \* [Definitions -> retention]
    AllowedLateness,
    MaxFuture,
    StreamStart,    \* where the producer's stream starts, or None
    Times,          \* the times of samples and barriers
    Clocks,         \* the wall-clock times calls run at
    None

IsTime(t) == t \in Int
TimeOrNone == Int \cup {None}

ASSUME NoneAssumption == None \notin Int

ASSUME PlanAssumption ==
    /\ MetricOf \in [Series -> Metrics]
    /\ Reads \in [Definitions -> Metrics]
    /\ Selects \in [Definitions -> SUBSET Series]
    /\ PerSample \subseteq Definitions
    /\ QueryRunMetrics \subseteq Metrics
    /\ PaneMs \in [Definitions -> Nat \ {0}]
    /\ RetentionMs \in [Definitions -> Nat]

ASSUME OptionsAssumption ==
    /\ AllowedLateness \in Nat
    /\ MaxFuture \in Nat
    /\ StreamStart \in TimeOrNone
    /\ Times \subseteq Int
    /\ Clocks \subseteq Int

\* A stale marker ends a series: it is routed like a sample but is no
\* sample of any summary.
Sample == [series : Series, t : Times, stale : BOOLEAN]

Counters == {"unrouted", "future", "query_run_only", "late", "duplicate",
             "first_pane", "accepted"}

VARIABLES
    newestSample,   \* newest routed sample time, or None
    newestClock,    \* newest wall-clock time a call ran at, or None
    barrier,        \* newest event-time barrier, or None
    queryRunNewest, \* newest routed sample time, by QueryRun metric
    firstPaneEnd,   \* by definition: the end of the pane never built
    builtThrough,   \* by definition: panes ending at or before it are closed
    open,           \* by definition: the samples its open panes hold
    stored,         \* by definition: the ends of its stored panes
    rows,           \* by definition: the samples its stored panes hold
    failed,         \* by definition: history, kept panes whose build failed
    counted,        \* PrecomputeStats: the samples_* counters
    panes,          \* by definition: its share of the panes_* counters
    call            \* now_ms of the ingest_at that is running, or None

clockVars == <<newestSample, newestClock, barrier, queryRunNewest>>
builderVars == <<firstPaneEnd, builtThrough, open>>
storeVars == <<stored, rows, failed, panes>>
vars == <<clockVars, builderVars, storeVars, counted, call>>

----------------------------------------------------------------------------
(* Optional times, ordered as Rust orders Option: None before Some.        *)

\* (mutant) the last time seen instead of the newest one
Latest(a, b) == IF b = None THEN a ELSE b

Newer(a, b) == IF a = None \/ (b # None /\ b > a) THEN b ELSE a
Older(a, b) == IF b < a THEN b ELSE a

\* The watermark: no sample older than this is expected any more.  It is the
\* newest routed sample, capped at the newest clock, less the allowed
\* lateness, or the newest barrier if that is later.
WatermarkOf(newest, clock, bar) ==
    LET capped == IF newest # None /\ clock # None THEN Older(newest, clock)
                  ELSE newest
        fromSamples == IF capped = None THEN None ELSE capped - AllowedLateness
    IN  Newer(fromSamples, bar)

WatermarkMs == WatermarkOf(newestSample, newestClock, barrier)

EndOf(d, s) == PaneEnd(s.t, PaneMs[d])

\* The samples of definition d's pane ending at e.
PaneRows(d, e, samples) == {s \in samples : EndOf(d, s) = e}

----------------------------------------------------------------------------
(* Routing one sample.                                                     *)

Routed(s) == \/ MetricOf[s.series] \in QueryRunMetrics
             \/ \E d \in Definitions : Reads[d] = MetricOf[s.series]

Readers(s) == {d \in Definitions : Reads[d] = MetricOf[s.series]}

\* Where closing starts for a definition whose first sample falls in the
\* pane ending at e: that pane is complete only when it starts at or after
\* the declared stream start, else it is skipped.
Skipped(d, e) ==
    IF StreamStart # None /\ e - PaneMs[d] >= StreamStart
    THEN e - PaneMs[d] ELSE e

FirstFor(d, e) == IF firstPaneEnd[d] = None THEN Skipped(d, e) ELSE firstPaneEnd[d]
BuiltFor(d, e) == IF builtThrough[d] = None THEN Skipped(d, e) ELSE builtThrough[d]

\* The samples a build aggregates: selected by the Scan, no stale marker.
Aggregated(d, s) == s.series \in Selects[d] /\ ~s.stale

\* A per-sample build drops a sample not after its series' previous one.
NotAfterPrevious(d, s) ==
    /\ d \in PerSample
    /\ Aggregated(d, s)
    /\ \E o \in open[d] : /\ o.series = s.series
                          /\ EndOf(d, o) = EndOf(d, s)
                          /\ s.t <= o.t

\* (mutant) the newest closed pane still takes samples
LateOffByOne(d, s) == EndOf(d, s) < BuiltFor(d, EndOf(d, s))

\* The pane of s is closed or skipped.
Late(d, s) == EndOf(d, s) <= BuiltFor(d, EndOf(d, s))

\* What definition d does with sample s.
OutcomeOf(d, s) ==
    IF EndOf(d, s) = FirstFor(d, EndOf(d, s)) THEN "first_pane"
    ELSE IF Late(d, s) THEN "late"
    ELSE IF NotAfterPrevious(d, s) THEN "duplicate"
    ELSE "accepted"

\* The counter a sample is counted under, once: the best of the outcomes
\* its definitions had for it.
CounterOf(s) ==
    LET outcomes == {OutcomeOf(d, s) : d \in Readers(s)}
    IN  IF outcomes = {} THEN "query_run_only"
        ELSE IF "accepted" \in outcomes THEN "accepted"
        ELSE IF "first_pane" \in outcomes THEN "first_pane"
        ELSE IF "duplicate" \in outcomes THEN "duplicate"
        ELSE "late"

Count(c) == counted' = [counted EXCEPT ![c] = @ + 1]

----------------------------------------------------------------------------
(* Closing panes at watermark w.                                           *)

\* (mutant) no extra pane is kept beyond the retention
OldestKeptWithoutExtraPane(d, w) ==
    OldestKeptEnd(GridFloor(w, PaneMs[d]), RetentionMs[d], PaneMs[d])

\* The end of the oldest pane that is read: one extra pane width beyond the
\* retention is kept, measured from the newest closed pane.
OldestKept(d, w) ==
    OldestKeptEnd(GridFloor(w, PaneMs[d]) - PaneMs[d], RetentionMs[d], PaneMs[d])

NextEnd(d) == builtThrough[d] + PaneMs[d]

\* Panes that would be evicted at once are skipped, not built.
Skips(d, w) == NextEnd(d) < OldestKept(d, w)

\* (mutant) the newest closed pane is built again
FirstToBuildAgain(d, w) ==
    IF Skips(d, w) THEN PaneEnd(OldestKept(d, w), PaneMs[d]) ELSE builtThrough[d]

FirstToBuild(d, w) ==
    IF Skips(d, w) THEN PaneEnd(OldestKept(d, w), PaneMs[d]) ELSE NextEnd(d)

\* (mutant) the difference taken the wrong way round
SkippedPanesNegated(d, w) == (NextEnd(d) - FirstToBuild(d, w)) \div PaneMs[d]

\* (mutant) the first kept pane is counted as expired too
SkippedPanesOffByOne(d, w) ==
    IF Skips(d, w) THEN (FirstToBuild(d, w) - NextEnd(d)) \div PaneMs[d] + 1 ELSE 0

\* How many panes are skipped as expired.
SkippedPanes(d, w) == (FirstToBuild(d, w) - NextEnd(d)) \div PaneMs[d]

\* (mutant) a pane that ends at the watermark stays open
ClosingBefore(d, w) ==
    IF builtThrough[d] = None THEN {}
    ELSE EndsThrough(FirstToBuild(d, w), w - 1, PaneMs[d])

\* The ends of the panes of d that close at watermark w.
Closing(d, w) == IF builtThrough[d] = None THEN {}
                 ELSE EndsThrough(FirstToBuild(d, w), w, PaneMs[d])

\* (mutant) the watermark drops samples of panes that are still open
StillOpenAfterWatermark(d, w) == {s \in open[d] : s.t > w}

\* The open samples that stay open.
StillOpen(d, w) == {s \in open[d] :
                      /\ EndOf(d, s) \notin Closing(d, w)
                      /\ Skips(d, w) => EndOf(d, s) >= FirstToBuild(d, w)}

\* (mutant) the oldest kept pane is evicted too
KeptOffByOne(d, w, ends) == {e \in ends : e > OldestKept(d, w)}

Kept(d, w, ends) == {e \in ends : e >= OldestKept(d, w)}

\* The due panes whose build fails, and the others.
Failing(d, w, bad) == {e \in Closing(d, w) : <<d, e>> \in bad}
Building(d, w, bad) == Closing(d, w) \ Failing(d, w, bad)

\* close_panes at watermark w; the builds of the due panes in bad fail, and
\* a failed pane is skipped, not retried.  A pane without samples is stored
\* as empty.
CloseWith(w, bad) ==
    LET started == {d \in Definitions : builtThrough[d] # None}
    IN  /\ builtThrough' = [d \in Definitions |->
              IF Closing(d, w) = {} THEN builtThrough[d]
              ELSE GridFloor(w, PaneMs[d])]
        /\ open' = [d \in Definitions |->
              IF d \in started THEN StillOpen(d, w) ELSE open[d]]
        /\ stored' = [d \in Definitions |->
              IF d \in started THEN Kept(d, w, stored[d] \cup Building(d, w, bad))
              ELSE stored[d]]
        /\ rows' = [d \in Definitions |->
              IF d \in started
              THEN {s \in rows[d] :
                       EndOf(d, s) \in Kept(d, w, stored[d] \ Building(d, w, bad))}
                   \cup {s \in open[d] : EndOf(d, s) \in Kept(d, w, Building(d, w, bad))}
              ELSE rows[d]]
        /\ failed' = [d \in Definitions |->
              IF d \in started THEN Kept(d, w, failed[d] \cup Failing(d, w, bad))
              ELSE failed[d]]
        /\ panes' = [d \in Definitions |->
              [built |-> panes[d].built + Cardinality(Building(d, w, bad)),
               failed |-> panes[d].failed + Cardinality(Failing(d, w, bad)),
               expired |-> panes[d].expired +
                              IF d \in started THEN SkippedPanes(d, w) ELSE 0]]
        /\ UNCHANGED firstPaneEnd

\* The panes that close at watermark w, as <<definition, end>>.
Due(w) == UNION {{d} \X Closing(d, w) : d \in Definitions}

ClosePanes(w) ==
    \/ /\ w = None
       /\ UNCHANGED <<builderVars, storeVars>>
    \/ /\ w # None
       /\ \E bad \in SUBSET Due(w) : CloseWith(w, bad)

----------------------------------------------------------------------------
(* The entry points.                                                       *)

Init ==
    /\ newestSample = None
    /\ newestClock = None
    /\ barrier = None
    /\ queryRunNewest = [m \in QueryRunMetrics |-> None]
    /\ firstPaneEnd = [d \in Definitions |-> None]
    /\ builtThrough = [d \in Definitions |-> None]
    /\ open = [d \in Definitions |-> {}]
    /\ stored = [d \in Definitions |-> {}]
    /\ rows = [d \in Definitions |-> {}]
    /\ failed = [d \in Definitions |-> {}]
    /\ counted = [c \in Counters |-> 0]
    /\ panes = [d \in Definitions |-> [built |-> 0, failed |-> 0, expired |-> 0]]
    /\ call = None

BeginIngest(now) ==
    /\ call = None
    /\ call' = now
    /\ newestClock' = Newer(newestClock, now)
    /\ UNCHANGED <<newestSample, barrier, queryRunNewest, builderVars,
                   storeVars, counted>>

DropUnrouted(s) ==
    /\ ~Routed(s)
    /\ Count("unrouted")
    /\ UNCHANGED <<clockVars, builderVars>>

DropFuture(s) ==
    /\ Routed(s)
    /\ s.t > call + MaxFuture
    /\ Count("future")
    /\ UNCHANGED <<clockVars, builderVars>>

\* Every routed sample moves the watermark, the late ones included.
Route(s) ==
    /\ Routed(s)
    /\ s.t <= call + MaxFuture
    /\ firstPaneEnd' = [d \in Definitions |->
          IF d \in Readers(s) THEN FirstFor(d, EndOf(d, s)) ELSE firstPaneEnd[d]]
    /\ builtThrough' = [d \in Definitions |->
          IF d \in Readers(s) THEN BuiltFor(d, EndOf(d, s)) ELSE builtThrough[d]]
    /\ open' = [d \in Definitions |->
          IF d \in Readers(s) /\ Aggregated(d, s) /\ OutcomeOf(d, s) = "accepted"
          THEN open[d] \cup {s} ELSE open[d]]
    /\ Count(CounterOf(s))
    /\ newestSample' = Newer(newestSample, s.t)
    /\ queryRunNewest' = [m \in QueryRunMetrics |->
          IF m = MetricOf[s.series] THEN Newer(queryRunNewest[m], s.t)
          ELSE queryRunNewest[m]]
    /\ UNCHANGED <<newestClock, barrier>>

TakeSample(s) ==
    /\ call # None
    /\ DropUnrouted(s) \/ DropFuture(s) \/ Route(s)
    /\ UNCHANGED <<storeVars, call>>

EndIngest ==
    /\ call # None
    /\ call' = None
    /\ ClosePanes(WatermarkMs)
    /\ UNCHANGED <<clockVars, counted>>

RepeatedBarrier(b) == barrier # None /\ barrier >= b

AdvanceWatermarkAt(b, now) ==
    /\ call = None
    /\ newestClock' = Newer(newestClock, now)
    /\ IF RepeatedBarrier(Older(b, now))
       THEN UNCHANGED <<barrier, builderVars, storeVars>>
       ELSE /\ barrier' = Older(b, now)
            /\ ClosePanes(WatermarkOf(newestSample, newestClock', barrier'))
    /\ UNCHANGED <<newestSample, queryRunNewest, counted, call>>

Next ==
    \/ \E now \in Clocks : BeginIngest(now)
    \/ \E s \in Sample : TakeSample(s)
    \/ EndIngest
    \/ \E b \in Times, now \in Clocks : AdvanceWatermarkAt(b, now)

Spec == Init /\ [][Next]_vars

----------------------------------------------------------------------------
(* Properties.                                                             *)

PaneCounts == [built : Nat, failed : Nat, expired : Nat]

\* The type invariant.
TypeOK ==
    /\ newestSample \in TimeOrNone
    /\ newestClock \in TimeOrNone
    /\ barrier \in TimeOrNone
    /\ queryRunNewest \in [QueryRunMetrics -> TimeOrNone]
    /\ firstPaneEnd \in [Definitions -> TimeOrNone]
    /\ builtThrough \in [Definitions -> TimeOrNone]
    /\ open \in [Definitions -> SUBSET Sample]
    /\ stored \in [Definitions -> SUBSET Int]
    /\ rows \in [Definitions -> SUBSET Sample]
    /\ failed \in [Definitions -> SUBSET Int]
    /\ counted \in [Counters -> Nat]
    /\ panes \in [Definitions -> PaneCounts]
    /\ call \in TimeOrNone

\* No sample waits in a pane that is already closed: it would never be
\* built, or would be built into a pane a query has already read.
OpenIsAhead ==
    \A d \in Definitions : \A s \in open[d] :
        builtThrough[d] # None /\ EndOf(d, s) > builtThrough[d]

\* The panes of d that a reader may expect: after the first pane, closed,
\* and within the retention of the newest closed one.
Expected(d) ==
    IF builtThrough[d] = None THEN {}
    ELSE {e \in EndsThrough(builtThrough[d] - RetentionMs[d],
                            builtThrough[d], PaneMs[d]) : e > firstPaneEnd[d]}

\* The store is exactly the retained range: every expected pane is stored or
\* failed to build, never both, and nothing else is kept.  No interleaving
\* of late samples, watermark jumps, skipped panes and evictions leaves a
\* hole in it or a pane too many.
StoreIsRetainedRange ==
    \A d \in Definitions : /\ stored[d] \cup failed[d] = Expected(d)
                           /\ stored[d] \cap failed[d] = {}

\* An evaluation at the newest closed pane of d, or one pane behind it,
\* finds every pane its outputs read (offset + pane within the retention),
\* unless that pane is the first or failed.
ServedOnePaneBehind ==
    \A d \in Definitions : builtThrough[d] # None =>
        \A at \in {builtThrough[d], builtThrough[d] - PaneMs[d]} :
            \A offset \in EndsThrough(0, RetentionMs[d] - PaneMs[d], PaneMs[d]) :
                at - offset > firstPaneEnd[d] =>
                    at - offset \in stored[d] \cup failed[d]

\* Each pane of a definition is counted once, as built, failed or expired:
\* the counters add up to the panes from the first to the newest closed.
PanesCountedOnce ==
    \A d \in Definitions :
        LET total == panes[d].built + panes[d].failed + panes[d].expired
        IN  IF builtThrough[d] = None THEN total = 0
            ELSE total * PaneMs[d] = builtThrough[d] - firstPaneEnd[d]

\* The watermark never retreats, whatever order samples, clocks and
\* barriers arrive in.
WatermarkNeverRetreats ==
    [][WatermarkMs # None => WatermarkMs' # None /\ WatermarkMs' >= WatermarkMs]_vars

\* A pane is stored at most once and never changes: a closed pane gains no
\* row, and one that was evicted, skipped or failed never appears later.
StoredOnceNeverChanges ==
    [][\A d \in Definitions : builtThrough[d] # None =>
          /\ builtThrough'[d] >= builtThrough[d]
          /\ \A e \in stored'[d] : e <= builtThrough[d] =>
                /\ e \in stored[d]
                /\ PaneRows(d, e, rows'[d]) = PaneRows(d, e, rows[d])]_vars

\* A buffered sample leaves its open pane only when that pane closes, and
\* then it is in the stored pane, unless the pane failed or expired.
BufferedReachesItsPane ==
    [][\A d \in Definitions : \A s \in open[d] \ open'[d] :
          /\ EndOf(d, s) <= builtThrough'[d]
          /\ EndOf(d, s) \in stored'[d] => s \in rows'[d]]_vars

\* When a call returns having closed panes, no pane the watermark has
\* passed is left open.
DuePanesClosed ==
    [][(call # None /\ call' = None) \/ barrier' # barrier =>
          \A d \in Definitions :
              builtThrough'[d] # None => builtThrough'[d] + PaneMs[d] > WatermarkMs']_vars

(* What makes them inductive.                                              *)

\* Closing starts at the first pane and keeps to the pane grid.
Aligned ==
    \A d \in Definitions :
        /\ firstPaneEnd[d] = None <=> builtThrough[d] = None
        /\ builtThrough[d] # None =>
              /\ OnGrid(builtThrough[d], PaneMs[d])
              /\ OnGrid(firstPaneEnd[d], PaneMs[d])
              /\ firstPaneEnd[d] <= builtThrough[d]

\* A sample is taken only after a clock was read, so the cap that a first
\* clock would bring never lowers the watermark.
ClockRead == call # None \/ newestSample # None => newestClock # None

\* A definition starts with a routed sample, so it has a watermark.
StartedBySample ==
    \A d \in Definitions : builtThrough[d] # None => newestSample # None

\* The inductive invariant.
PaneInvariant ==
    /\ TypeOK
    /\ Aligned
    /\ ClockRead
    /\ StartedBySample
    /\ OpenIsAhead
    /\ StoreIsRetainedRange

(* What the documentation says and the code does not do.                   *)

\* "A pane closes when the watermark reaches its end": between calls no
\* pane is left open behind the watermark.
PaneClosesWhenWatermarkReachesEnd ==
    call = None /\ WatermarkMs # None =>
        \A d \in Definitions :
            builtThrough[d] # None => builtThrough[d] + PaneMs[d] > WatermarkMs

\* "A sample that arrives later for a pane the barrier closed (one ending
\* at or before T) counts as late".
LateBehindBarrier ==
    \A d \in Definitions : \A s \in open[d] :
        barrier # None => EndOf(d, s) > barrier

\* "The first pane of each stored output that starts at or after T is
\* complete and is built": a sample is skipped as one of a first pane only
\* when that pane starts before the stream does.
FirstPaneAfterStreamStartIsBuilt ==
    StreamStart # None /\ counted["first_pane"] > 0 =>
        \E d \in Definitions : /\ firstPaneEnd[d] # None
                               /\ firstPaneEnd[d] - PaneMs[d] < StreamStart

=============================================================================
