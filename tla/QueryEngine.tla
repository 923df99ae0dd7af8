---------------------------- MODULE QueryEngine ----------------------------
(***************************************************************************)
(* The query engine (query.rs) beside the precompute engine it shares the  *)
(* engine thread and the summary store with, and the HTTP handler that     *)
(* evaluates a planned query in three parts (lib.rs, answer): the engine   *)
(* binds the windows to fetch, the handler fetches them from Prometheus,   *)
(* the engine evaluates.  Between the parts anything else may run: other   *)
(* evaluations, ingestion, barriers.                                       *)
(*                                                                         *)
(* A query reads stored panes of IngestionRun definitions (Precompute's    *)
(* stored) and summaries of QueryRun definitions (qstore), which the first *)
(* evaluation that needs one builds from fetched samples.  Queries the     *)
(* plan does not hold or cannot run change no state and are left out, and  *)
(* so are query-time raw windows, which are fetched but never stored.      *)
(***************************************************************************)
EXTENDS Precompute, Sequences

CONSTANTS
    QueryRuns,      \* the definitions built in a QueryRun
    QueryRunReads,  \* [QueryRuns -> QueryRunMetrics]
    QueryRunPaneMs, \* [QueryRuns -> pane width]
    QueryRunRetentionMs,
    Queries,        \* the planned queries
    StoredInputs,   \* [Queries -> SUBSET (Definitions \X offset)]
    QueryRunInputs, \* [Queries -> Seq(QueryRuns \X offset)], in read order
    FetchNode,      \* [Queries -> [QueryRuns -> the node its fetch is keyed by]]
    KeysAfter,      \* [QueryRuns -> how many definition keys sort after its own]
    Clients,        \* concurrent query handlers
    Deliveries,     \* how samples reach Prometheus and the data plane
    EvaluationTimes

ASSUME QueryPlanAssumption ==
    /\ QueryRunReads \in [QueryRuns -> QueryRunMetrics]
    /\ QueryRunPaneMs \in [QueryRuns -> Nat \ {0}]
    /\ QueryRunRetentionMs \in [QueryRuns -> Nat]
    /\ StoredInputs \in [Queries -> SUBSET (Definitions \X Int)]
    /\ QueryRunInputs \in [Queries -> Seq(QueryRuns \X Int)]
    /\ KeysAfter \in [QueryRuns -> Nat]
    /\ \A q, d \in QueryRuns : KeysAfter[q] = KeysAfter[d] => q = d
    /\ EvaluationTimes \subseteq Int
    /\ Deliveries \subseteq {"prompt", "forwarded", "late"}

\* A node is one TimeRange: the definitions of a query that are keyed by the
\* same one read one metric, in panes of one width, and the window it reads.
ASSUME FetchNodeAssumption ==
    \A query \in Queries :
        LET inputs == {QueryRunInputs[query][i] : i \in DOMAIN QueryRunInputs[query]}
        IN  \A i, j \in inputs : FetchNode[query][i[1]] = FetchNode[query][j[1]] =>
                /\ QueryRunReads[i[1]] = QueryRunReads[j[1]]
                /\ QueryRunPaneMs[i[1]] = QueryRunPaneMs[j[1]]
                /\ \E x, y \in inputs : x[1] = i[1] /\ y[1] = j[1] /\ x[2] = y[2]

VARIABLES
    delivery,   \* the one of this behaviour (external)
    qstore,     \* by QueryRun definition: the stored samples, by pane end
    prometheus, \* the samples Prometheus holds (external)
    evaluation, \* by client: the evaluation it runs
    qstats      \* QueryRunStats

queryVars == <<qstore, evaluation, qstats>>
externalVars == <<delivery, prometheus>>
allVars == <<vars, queryVars, externalVars>>

Idle == [phase |-> "idle"]

----------------------------------------------------------------------------
(* Panes and windows.                                                      *)

\* The stored pane of an IngestionRun definition must be on the pane grid.
Available(query, at) ==
    \A input \in StoredInputs[query] :
        LET end == at - input[2]
        IN  OnGrid(end, PaneMs[input[1]]) /\ end \in stored[input[1]]

Inputs(query) == {QueryRunInputs[query][i] : i \in DOMAIN QueryRunInputs[query]}

\* The ends of the summaries of QueryRun definition q the query reads.
ReadEnds(query, at, q) == {at - input[2] : input \in {i \in Inputs(query) : i[1] = q}}

MissingEnds(query, at, q) == ReadEnds(query, at, q) \ DOMAIN qstore[q]

SmallestOf(S) == CHOOSE x \in S : \A y \in S : x <= y
LargestOf(S) == CHOOSE x \in S : \A y \in S : y <= x

\* One fetch per QueryRun definition: the (start, end] that spans all its
\* missing summaries.
Span(query, at, q) ==
    LET ends == MissingEnds(query, at, q)
    IN  [from |-> SmallestOf(ends) - QueryRunPaneMs[q], to |-> LargestOf(ends)]

Between(s, from, to) == from < s.t /\ s.t <= to

\* The samples of q's metric in samples between from and to.
SamplesOf(q, samples, from, to) ==
    {s \in samples : /\ MetricOf[s.series] = QueryRunReads[q]
                     /\ Between(s, from, to)}

\* What q's pane ending at end holds of samples.
Coverage(q, end, samples) == SamplesOf(q, samples, end - QueryRunPaneMs[q], end)

----------------------------------------------------------------------------
(* The three parts of an evaluation.                                       *)

\* bound_raw_sample_windows: chooses the fetches and takes the snapshot of
\* the ingestion progress.  When a stored pane is missing the query is
\* forwarded and nothing changes.
Prepare(c, query, at) ==
    /\ call = None
    /\ evaluation[c] = Idle
    /\ Available(query, at)
    /\ evaluation' = [evaluation EXCEPT ![c] =
          [phase |-> "fetching",
           query |-> query,
           at |-> at,
           watermark |-> WatermarkMs,
           newest |-> queryRunNewest,
           spans |-> [q \in {d \in QueryRuns : MissingEnds(query, at, d) # {}} |->
                        Span(query, at, q)],
           raw |-> <<>>]]
    /\ UNCHANGED <<vars, qstore, externalVars, qstats>>

\* The fetches of one evaluation run concurrently, each at its own time.
Fetch(c, q) ==
    LET e == evaluation[c]
    IN  /\ e.phase = "fetching"
        /\ q \in DOMAIN e.spans \ DOMAIN e.raw
        /\ evaluation' = [evaluation EXCEPT ![c].raw =
              [d \in DOMAIN e.raw \cup {q} |->
                  IF d = q
                  THEN SamplesOf(q, prometheus, e.spans[q].from, e.spans[q].to)
                  ELSE e.raw[d]]]
        /\ UNCHANGED <<vars, qstore, externalVars, qstats>>

\* A fetch that fails, or a caller that goes away, ends the evaluation.
Abandon(c) ==
    /\ evaluation[c].phase = "fetching"
    /\ evaluation' = [evaluation EXCEPT ![c] = Idle]
    /\ UNCHANGED <<vars, qstore, externalVars, qstats>>

Fetched(c) == /\ evaluation[c].phase = "fetching"
              /\ DOMAIN evaluation[c].raw = DOMAIN evaluation[c].spans

\* (mutant) the watermark when the evaluation runs, not when it was prepared
DecidedByNow(c) == WatermarkMs

\* The watermark an evaluation decides by: the one of its snapshot.
DecidedBy(c) == evaluation[c].watermark

\* (mutant) every summary built is stored, the open ones included
AlwaysClosed(c, end) == TRUE

Closed(c, end) == DecidedBy(c) # None /\ end <= DecidedBy(c)

EndAt(c, i) == evaluation[c].at - QueryRunInputs[evaluation[c].query][i][2]
DefinitionAt(c, i) == QueryRunInputs[evaluation[c].query][i][1]

\* (mutant) what was missing when the fetches were chosen is built, even if
\* another evaluation has stored it since
MissedWhenPrepared(c, i) ==
    LET spans == evaluation[c].spans
        q     == DefinitionAt(c, i)
    IN  q \in DOMAIN spans /\ spans[q].from < EndAt(c, i) /\ EndAt(c, i) <= spans[q].to

\* The summary input i reads is neither stored nor built and stored by an
\* earlier input of the same evaluation.
MustBuild(c, i) ==
    /\ EndAt(c, i) \notin DOMAIN qstore[DefinitionAt(c, i)]
    /\ ~\E j \in 1..i - 1 : /\ DefinitionAt(c, j) = DefinitionAt(c, i)
                            /\ EndAt(c, j) = EndAt(c, i)
                            /\ Closed(c, EndAt(c, j))

\* The fetches keyed by the node of definition q.
Sharing(c, q) ==
    LET node == FetchNode[evaluation[c].query]
    IN  {d \in DOMAIN evaluation[c].raw : node[d] = node[q]}

\* Samples are given to an evaluation by node: of the fetches that share one,
\* the last in the order of their definitions' keys stays.
GivenBy(c, q) ==
    CHOOSE d \in Sharing(c, q) : \A o \in Sharing(c, q) : KeysAfter[d] <= KeysAfter[o]

HasSamples(c, i) == Sharing(c, DefinitionAt(c, i)) # {}

\* The panes inputs 1..n of q build and store.
StoresOf(c, n, q) ==
    {EndAt(c, i) : i \in {j \in 1..n : /\ DefinitionAt(c, j) = q
                                       /\ MustBuild(c, j)
                                       /\ Closed(c, EndAt(c, j))}}

WithStored(c, n, q) ==
    [end \in DOMAIN qstore[q] \cup StoresOf(c, n, q) |->
        IF end \in StoresOf(c, n, q) THEN Coverage(q, end, evaluation[c].raw[GivenBy(c, q)])
        ELSE qstore[q][end]]

\* (mutant) no extra pane is kept beyond the retention
QueryRunOldestWithoutExtraPane(c, q) ==
    OldestKeptEnd(GridFloor(DecidedBy(c), QueryRunPaneMs[q]),
                  QueryRunRetentionMs[q], QueryRunPaneMs[q])

QueryRunOldest(c, q) ==
    OldestKeptEnd(GridFloor(DecidedBy(c), QueryRunPaneMs[q]) - QueryRunPaneMs[q],
                  QueryRunRetentionMs[q], QueryRunPaneMs[q])

\* After its inputs are bound an evaluation evicts the summaries of every
\* QueryRun definition, by the watermark of its own snapshot.
Evicted(c, q, store) ==
    [end \in {x \in DOMAIN store : DecidedBy(c) # None => x >= QueryRunOldest(c, q)} |->
        store[end]]

\* (mutant) a metric is behind only before its first sample
NeverIngested(c, i) ==
    evaluation[c].newest[QueryRunReads[DefinitionAt(c, i)]] = None

\* The metric of q had not passed end when input i was stored.
MetricBehind(c, i) ==
    LET newest == evaluation[c].newest[QueryRunReads[DefinitionAt(c, i)]]
    IN  newest = None \/ newest < EndAt(c, i)

BuiltInputs(c, n) == {i \in 1..n : MustBuild(c, i)}

\* (mutant) the difference taken the wrong way round
ReusedNegated(c, n) == Cardinality(BuiltInputs(c, n)) - n

Reused(c, n) == n - Cardinality(BuiltInputs(c, n))

CountReads(c, n) ==
    LET kept == {i \in BuiltInputs(c, n) : Closed(c, EndAt(c, i))}
    IN  qstats' = [built |-> qstats.built + Cardinality(BuiltInputs(c, n)),
                   stored |-> qstats.stored + Cardinality(kept),
                   behind |-> qstats.behind +
                                Cardinality({i \in kept : MetricBehind(c, i)}),
                   reused |-> qstats.reused + Reused(c, n)]

\* What can fail once n inputs are bound: making a source of the last of
\* them, or of a stored pane before any; or building the next, of which
\* no samples were fetched or the build fails.
CanFailAfter(c, n) ==
    LET query == evaluation[c].query
    IN  \/ n > 0
        \/ StoredInputs[query] # {}
        \/ n < Len(QueryRunInputs[query]) /\ MustBuild(c, n + 1)

\* evaluate, when it fails once n inputs are bound.  The summaries built by
\* then stay stored and nothing is evicted; the query is forwarded.
EvaluateFails(c) ==
    /\ call = None
    /\ Fetched(c)
    /\ Available(evaluation[c].query, evaluation[c].at)
    /\ \E n \in 0..Len(QueryRunInputs[evaluation[c].query]) :
          /\ \A i \in 1..n : MustBuild(c, i) => HasSamples(c, i)
          /\ CanFailAfter(c, n)
          /\ qstore' = [q \in QueryRuns |-> WithStored(c, n, q)]
          /\ CountReads(c, n)
    /\ evaluation' = [evaluation EXCEPT ![c] = Idle]
    /\ UNCHANGED <<vars, externalVars>>

\* evaluate, when every input is bound.
Evaluate(c) ==
    /\ call = None
    /\ Fetched(c)
    /\ Available(evaluation[c].query, evaluation[c].at)
    /\ LET n == Len(QueryRunInputs[evaluation[c].query])
       IN  /\ \A i \in 1..n : MustBuild(c, i) => HasSamples(c, i)
           /\ qstore' = [q \in QueryRuns |-> Evicted(c, q, WithStored(c, n, q))]
           /\ CountReads(c, n)
    /\ evaluation' = [evaluation EXCEPT ![c] = Idle]
    /\ UNCHANGED <<vars, externalVars>>

\* evaluate, when a stored pane it read was evicted since it was prepared.
EvaluateMisses(c) ==
    /\ call = None
    /\ Fetched(c)
    /\ ~Available(evaluation[c].query, evaluation[c].at)
    /\ evaluation' = [evaluation EXCEPT ![c] = Idle]
    /\ UNCHANGED <<vars, qstore, externalVars, qstats>>

\* The samples Prometheus may still take (external).  "prompt": no sample
\* older than the watermark is expected any more.  "forwarded": Prometheus
\* takes a metric's samples in time order, those of one time together, and
\* writes to the data plane what it took, so none of what was written or is
\* older is still to come.  "late": any.
MayTake(s) ==
    CASE delivery = "prompt" -> WatermarkMs # None => s.t > WatermarkMs
      [] delivery = "forwarded" ->
            LET newest == queryRunNewest[MetricOf[s.series]]
            IN  newest # None => s.t > newest
      [] OTHER -> TRUE

\* A range selector returns no stale marker, so none is kept.
Scrape(s) ==
    /\ ~s.stale
    /\ MetricOf[s.series] \in QueryRunMetrics
    /\ MayTake(s)
    /\ prometheus' = prometheus \cup {s}
    /\ UNCHANGED <<vars, queryVars, delivery>>

\* Ingestion sees a QueryRun metric's sample after Prometheus took it.
Forwarded ==
    delivery = "forwarded" =>
        \A m \in QueryRunMetrics : queryRunNewest'[m] # None =>
            \E s \in prometheus : MetricOf[s.series] = m /\ s.t = queryRunNewest'[m]

Precomputes == Next /\ Forwarded /\ UNCHANGED <<queryVars, externalVars>>

QInit ==
    /\ Init
    /\ qstore = [q \in QueryRuns |-> <<>>]
    /\ delivery \in Deliveries
    /\ prometheus = {}
    /\ evaluation = [c \in Clients |-> Idle]
    /\ qstats = [built |-> 0, stored |-> 0, behind |-> 0, reused |-> 0]

QNext ==
    \/ Precomputes
    \/ \E s \in Sample : Scrape(s)
    \/ \E c \in Clients :
          \/ \E query \in Queries, at \in EvaluationTimes : Prepare(c, query, at)
          \/ \E q \in QueryRuns : Fetch(c, q)
          \/ Abandon(c)
          \/ Evaluate(c)
          \/ EvaluateMisses(c)
          \/ EvaluateFails(c)

QSpec == QInit /\ [][QNext]_allVars

----------------------------------------------------------------------------
(* Properties.                                                             *)

IsEvaluation(e) ==
    /\ e = [phase |-> "fetching", query |-> e.query, at |-> e.at,
            watermark |-> e.watermark, newest |-> e.newest,
            spans |-> e.spans, raw |-> e.raw]
    /\ e.query \in Queries
    /\ e.at \in EvaluationTimes
    /\ e.watermark \in TimeOrNone
    /\ e.newest \in [QueryRunMetrics -> TimeOrNone]
    /\ DOMAIN e.spans \subseteq QueryRuns
    /\ DOMAIN e.raw \subseteq DOMAIN e.spans
    /\ \A q \in DOMAIN e.raw : e.raw[q] \subseteq Sample

\* The type invariant.
QTypeOK ==
    /\ TypeOK
    /\ \A q \in QueryRuns : /\ DOMAIN qstore[q] \subseteq Int
                            /\ \A e \in DOMAIN qstore[q] : qstore[q][e] \subseteq Sample
    /\ delivery \in Deliveries
    /\ prometheus \subseteq Sample
    /\ evaluation = [c \in Clients |-> evaluation[c]]
    /\ \A c \in Clients : evaluation[c] = Idle \/ IsEvaluation(evaluation[c])
    /\ qstats \in [built : Nat, stored : Nat, behind : Nat, reused : Nat]

\* A summary is stored only once its pane is closed, however long its
\* evaluation waited for its fetches.
QueryRunStoredOnceClosed ==
    \A q \in QueryRuns : \A e \in DOMAIN qstore[q] :
        WatermarkMs # None /\ e <= WatermarkMs

Whole(q, e) == qstore[q][e] = Coverage(q, e, prometheus)

\* A summary that an evaluation at the newest closed pane, or one pane behind
\* it, reads, whatever its offset within the retention.
InUse(q, e) ==
    WatermarkMs # None =>
        e >= GridFloor(WatermarkMs, QueryRunPaneMs[q]) - QueryRunRetentionMs[q]

\* A stored summary holds every sample of its coverage: an evaluation that
\* fetched before the pane closed does not store what it fetched, and a
\* later evaluation that reuses the summary reads what it would have built.
StoredSummaryIsWhole ==
    delivery = "prompt" => \A q \in QueryRuns : \A e \in DOMAIN qstore[q] : Whole(q, e)

\* StoredSummaryIsWhole, of the summaries in use: however many summaries a
\* query reads, whichever of them are stored or evicted while it fetches the
\* others, and when an evaluation fails after it stored some, what it leaves
\* for the next evaluation in use misses no sample.
SummaryInUseIsWhole ==
    delivery = "prompt" =>
        \A q \in QueryRuns : \A e \in DOMAIN qstore[q] : InUse(q, e) => Whole(q, e)

\* The watermark is global, so a metric behind the others has summaries
\* stored before their samples are in.  Those are counted: however ingestion,
\* fetches and evaluations interleave, no summary in use misses samples
\* without stored_while_metric_behind having said so when it was stored.
UnwholeStoredAreCounted ==
    delivery = "forwarded" =>
        Cardinality({k \in UNION {{q} \X DOMAIN qstore[q] : q \in QueryRuns} :
                        InUse(k[1], k[2]) /\ ~Whole(k[1], k[2])}) <= qstats.behind

\* Two evaluations racing to build the same summary never replace each
\* other's: one that is stored changes only by being evicted.
StoredSummaryNeverChanges ==
    [][\A q \in QueryRuns : \A e \in DOMAIN qstore[q] \cap DOMAIN qstore'[q] :
          qstore'[q][e] = qstore[q][e]]_allVars

\* An evaluation evicts no summary that an evaluation at the newest closed
\* pane, or one pane behind it, reads.
NoSummaryInUseEvicted ==
    [][\A q \in QueryRuns : \A e \in DOMAIN qstore[q] \ DOMAIN qstore'[q] :
          ~InUse(q, e)]_allVars

\* A fetch takes time, and panes are evicted meanwhile: an evaluation that
\* found its stored panes when it was prepared still finds them as long as
\* it is at most one pane behind the newest closed pane.
LateEvaluationServed ==
    \A c \in Clients : evaluation[c].phase = "fetching" =>
        \A input \in StoredInputs[evaluation[c].query] :
            LET d == input[1]
            IN  /\ input[2] + PaneMs[d] <= RetentionMs[d]
                /\ evaluation[c].at >= builtThrough[d] - PaneMs[d]
                => evaluation[c].at - input[2] \in stored[d]

(* What makes them inductive.                                              *)

\* The watermark an evaluation was prepared at is not ahead of the engine's.
SnapshotsAreOld ==
    \A c \in Clients :
        evaluation[c].phase = "fetching" /\ evaluation[c].watermark # None
        => WatermarkMs # None /\ evaluation[c].watermark <= WatermarkMs

\* The stored panes an evaluation was prepared with were built: they are
\* after the first pane, closed, and did not fail.
PreparedPanesWereBuilt ==
    \A c \in Clients : evaluation[c].phase = "fetching" =>
        \A input \in StoredInputs[evaluation[c].query] :
            LET d   == input[1]
                end == evaluation[c].at - input[2]
            IN  /\ OnGrid(end, PaneMs[d])
                /\ builtThrough[d] # None
                /\ firstPaneEnd[d] < end
                /\ end <= builtThrough[d]
                /\ end \notin failed[d]

\* The inductive invariant.
QueryInvariant ==
    /\ PaneInvariant
    /\ QTypeOK
    /\ SnapshotsAreOld
    /\ PreparedPanesWereBuilt
    /\ QueryRunStoredOnceClosed

(* When the samples of a summary are in.                                   *)

\* The query reads one summary of q at most.
ReadsOneOf(query, q) ==
    \A i, j \in Inputs(query) : i[1] = q /\ j[1] = q => i = j

\* No query reads two summaries of one definition.
ReadOnce == \A query \in Queries, q \in QueryRuns : ReadsOneOf(query, q)

\* A query reads two summaries of a definition only where no other
\* definition's fetch has its node.
SharedReadOnce ==
    \A query \in Queries : \A i, j \in Inputs(query) :
        i[1] # j[1] /\ FetchNode[query][i[1]] = FetchNode[query][j[1]]
        => ReadsOneOf(query, i[1])

\* A summary whose samples were fetched whole.
Sound(q, e) == SharedReadOnce /\ (InUse(q, e) \/ ReadOnce)

\* The newest sample a snapshot saw is not ahead of the engine's.
NewestIsOld ==
    \A c \in Clients : evaluation[c].phase = "fetching" =>
        \A m \in QueryRunMetrics : evaluation[c].newest[m] # None =>
            queryRunNewest[m] # None /\ evaluation[c].newest[m] <= queryRunNewest[m]

\* Prometheus takes no more samples of q's pane ending at end, as ingestion
\* stands at this watermark and this newest sample of q's metric.
NoMoreTaken(q, end, watermark, newest) ==
    LET m == QueryRunReads[q]
    IN  \/ delivery = "prompt" /\ watermark # None /\ end <= watermark
        \/ delivery = "forwarded" /\ newest[m] # None /\ end <= newest[m]

\* As it stood when c's evaluation was prepared.
SnapshotPast(c, q, end) ==
    NoMoreTaken(q, end, evaluation[c].watermark, evaluation[c].newest)

\* c's fetch for q holds all of q's pane ending at end.
Spanned(c, q, end) ==
    LET e == evaluation[c]
    IN  /\ q \in DOMAIN e.spans
        /\ e.spans[q].from <= end - QueryRunPaneMs[q]
        /\ end <= e.spans[q].to

\* A fetch is of a definition the query reads, between two times.
SpansAreTimes ==
    \A c \in Clients : evaluation[c].phase = "fetching" =>
        LET e == evaluation[c]
        IN  \A q \in DOMAIN e.spans :
                /\ e.spans[q].from \in Int /\ e.spans[q].to \in Int
                /\ ReadEnds(e.query, e.at, q) # {}

\* A summary in use that is missing was missing when the fetches were
\* chosen, and a summary that is the only one of its definition that the
\* query reads is what the definition's fetch was for.
NeededAreSpanned ==
    \A c \in Clients : evaluation[c].phase = "fetching" =>
        LET e == evaluation[c]
        IN  \A q \in QueryRuns : \A end \in ReadEnds(e.query, e.at, q) :
                \/ end \notin DOMAIN qstore[q] /\ InUse(q, end)
                \/ q \in DOMAIN e.spans /\ ReadsOneOf(e.query, q)
                => Spanned(c, q, end)

\* What was fetched of a pane the snapshot is past is all there will be.
FetchedIsFinal ==
    \A c \in Clients : evaluation[c].phase = "fetching" =>
        LET e == evaluation[c]
        IN  \A q \in DOMAIN e.raw : \A end \in ReadEnds(e.query, e.at, q) :
                Spanned(c, q, end) /\ SnapshotPast(c, q, end)
                => Coverage(q, end, e.raw[q]) = Coverage(q, end, prometheus)

SoundAreWhole ==
    delivery = "prompt" =>
        \A q \in QueryRuns : \A e \in DOMAIN qstore[q] : Sound(q, e) => Whole(q, e)

\* The stored summaries that miss samples or may still come to.
Unsettled ==
    {k \in UNION {{q} \X DOMAIN qstore[q] : q \in QueryRuns} :
        /\ Sound(k[1], k[2])
        /\ ~(/\ Whole(k[1], k[2])
             /\ NoMoreTaken(k[1], k[2], WatermarkMs, queryRunNewest))}

UnsettledAreCounted ==
    delivery = "forwarded" => IsFiniteSet(Unsettled) /\ Cardinality(Unsettled) <= qstats.behind

\* The inductive invariant of what is stored.
StoredInvariant ==
    /\ QueryInvariant
    /\ NewestIsOld
    /\ SpansAreTimes
    /\ NeededAreSpanned
    /\ FetchedIsFinal
    /\ SoundAreWhole
    /\ UnsettledAreCounted

=============================================================================
