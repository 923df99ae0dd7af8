# A verification of the ASAPQuery data plane

This directory specifies the run-time part of ASAPQuery-backend (the data
plane) in TLA+, checks it with TLC on small instances, and proves with TLAPS,
for every plan and any number of clients, the safety of nine of its parts: the
precompute engine, the arithmetic of its pane times, the per-sample builds, the
query engine, the engine's queue, the reading of a plan, the series interner,
the summary store and the HTTP front. Every safety property that a run checks is
also a theorem. Line numbers are those of `src/data_plane/src/`; `PROJECT.json`
maps every definition to its lines.

## 1. The system

A plan, made offline by the control plane, names *stored outputs* and
*queries*. A stored output is a summary (a sum, a sketch, ...) of one metric
over tumbling panes. Definitions built in an **IngestionRun** are fed by Remote
Write and built pane by pane; definitions built in a **QueryRun** are built
from samples that a query fetches from Prometheus, and stored for later
queries. Planned PromQL queries are answered from stored summaries; everything
else is forwarded to Prometheus.

One thread, the engine, owns all of this state. HTTP handlers run concurrently
on a task runtime and talk to the thread through a channel.

```text
 Remote Write -> try_ingest (queued_samples) --\                 /-> precompute (panes, watermark)
 barrier      -> advance_watermark ------------- unbounded FIFO -> engine thread
 query        -> ask prepare; fetch; ask eval --/                 \-> query engine (QueryRun store)
                          |
                     Prometheus
```

| Component | State | Operations | What is hard | What makes it correct |
|---|---|---|---|---|
| Precompute engine (`precompute.rs`) | newest sample, clock and barrier; per definition the first pane, the newest closed pane and the open panes; counters | `ingest_at`, `advance_watermark_at`, `close_panes` | late and future samples, clocks that step back, watermark jumps past the retention, builds that fail, barriers in any order | the watermark is monotone; closed panes never change; no sample is lost or built late; the store is exactly the retained range |
| Query engine (`query.rs`) | store of QueryRun summaries, counters | `bound_raw_sample_windows`, `evaluate` | a query is three steps with other work between them | a summary is stored only when whole, never replaced, not evicted while it is read |
| Engine thread and handle (`engine.rs`) | `queued_samples`, channel, `running`, published stats | `try_ingest`, `ask`, `advance_watermark`, `stop`, `serve` | admission races, stop and panic with work queued | the counter never drifts; everybody gets an answer; barriers follow the writes acknowledged before them |
| Summary store (`sds.rs`) | stored instances, by definition id and then by label constraint, pane width and end | insert, get, evict before an end | an eviction removes a range of a map that several definitions share | each definition has panes of its own |
| Plan reading (`sds.rs`, `Engine::new`) | definitions, the outputs bound to them, their build order | `from_plan`: read, link, order; start | what makes two outputs one definition; cycles against diamonds; a width that overflows | a definition does not depend on the order of its outputs; inputs are built first; refusals are justified |
| Pane arithmetic (`precompute.rs`, `sds.rs`) | none of its own | `pane_end`, `oldest_kept_end_ms`, `close_panes` | checked, saturating and unchecked operations on i64 | the same panes as with integers of any size |
| Per-sample builds (`per_sample.rs`) | tables of series and groups, an open pane's states | `update`, pane close | group numbers cached in a series across panes | each series' samples in one group, each once |
| Raw windows (`raw_sample_window.rs`) | a cache of label cells | `batch` | matchers, stale markers | exactly the samples of the interval |
| Prometheus client (`prometheus.rs`) | none | `fetch`, `forward` | half-open intervals on a closed API; time passes | `(start, end]`, no stale markers |
| HTTP front (`lib.rs`) | where each request's handler is | write, barrier, answer, forward, status | each part of an answer can fail, time out, or lose its engine | an answer from every window fetched; forwarded once, with the reason; everybody is answered |
| Remote Write decoding (`remote_write.rs`) | none | decode | sizes | bounded memory |
| Series interner (`series_ids.rs`) | process-wide label sets and ids | intern | read lock, then write lock; hash collisions; the last u32 | one id per label set, for ever |
| Control plane, programs (`control_plane`, `main.rs`) | none | plan a workload, write a file; parse flags | nothing concurrent | - |

The panes of the first two components are on one grid. The thread's queue gives
the engines their order, the store and the definitions give them their data,
and the front is where a query's three steps come from.

## 2. The modules

| Module | Models |
|---|---|
| `PaneGrid` | pane ends, the grid below a time, the oldest pane kept, the ends in an interval |
| `Precompute` | the precompute engine |
| `QueryEngine` | the query engine and the three-part handler, composed with `Precompute` (`EXTENDS`: one engine thread, one state) and with Prometheus as an external actor |
| `EngineQueue` | handlers, admission, the channel, the engine loop, stop and panic |
| `SamplePanes` | what a build promises of the panes of one definition: the abstract specification of `PerSample` |
| `PerSample` | the tables of a per-sample build: series, open panes, groups and their numbers, and the cells it has cached |
| `LabelIds` | what interning promises: an atomic table of ids, the abstract specification of `SeriesIds` |
| `SeriesIds` | the interner, its lock and its two lookups |
| `SummaryDefinitions` | reading a plan into definitions, their build order, and the start of the engine |
| `StoredPanes` | what a store promises: panes by definition, the abstract specification of `SummaryStore` |
| `SummaryStore` | the store's nested maps and its eviction by range |
| `Sds` | composes the last two: definitions that a plan was read into, using one store |
| `PaneArithmetic` | the arithmetic of pane times on integers of a fixed width, beside integers of any size |
| `Front` | a query from its arrival to its response: the engine, the fetches, the forwarding |
| `PaneGridProofs`, `PaneArithmeticProofs`, `PerSampleProofs`, `QueryEngineProofs`, `EngineQueueProofs`, `SeriesIdsProofs`, `SdsProofs`, `FrontProofs` | theorems |
| `MCPrecompute`, `MCQueryEngine`, `MCEngineQueue`, `MCPerSample`, `MCSeriesIds`, `MCSds`, `MCPaneArithmetic`, `MCFront` | instances for TLC |

### Precompute

| Specification | Code |
|---|---|
| `newestSample`, `newestClock`, `barrier` | `newest_sample_ms`, `newest_clock_ms`, `barrier_ms` |
| `queryRunNewest` | the newest sample by QueryRun metric, which the query engine reads |
| `firstPaneEnd`, `builtThrough` | `first_pane_end`, `built_through` of a builder |
| `open` | the samples in the open panes of a builder; a pane is the samples with its end |
| `stored`, `rows` | the instances of the summary store, by definition and end, and what was aggregated into them |
| `counted`, `panes` | `PrecomputeStats` |
| `failed` | no state of the code: a history variable that remembers kept panes whose build failed |
| `call` | the `now_ms` of an `ingest_at` that is in its loop |

`ingest_at` is a loop over a batch: `BeginIngest` reads the clock,
`TakeSample` is one turn (`DropUnrouted`, `DropFuture` or `Route`), and
`EndIngest` ends the batch and closes panes. While `call` is not `None` no other
action is enabled, as the engine thread is busy, so any sequence of samples is
a batch and nothing interleaves that could not. `advance_watermark_at` is one
action, its early return for a repeated barrier included: the clock is raised
before that return. `close_panes` is `CloseWith`, which closes all due panes of
all definitions, lets any set of due builds fail, counts and drops the panes
already past the retention, and evicts.

Abstractions:

- What a build computes is abstracted to the samples it aggregated. Values are
  left out, so a sample is a series, a time and whether it is a stale marker.
- An open pane is a set: a sample that is sent twice into a definition built
  per batch is one member (the executor is told of both).
- A per-sample update can fail too, which marks its pane as failed at once
  (`PerSample` has that). In this module the failure is decided when the pane closes. Until then it
  still tells a duplicate from an accepted sample of such a pane; only the
  counters `duplicate` and `accepted` could differ.
- Integers are unbounded. `PaneArithmetic` is about i64 and its ends.

### QueryEngine

`Prepare` is `bound_raw_sample_windows`: it needs the stored panes, chooses one
fetch per QueryRun definition, spanning what is missing, and snapshots the
progress of ingestion. `Fetch` takes the samples Prometheus holds at that
time, one definition at a time in any order. `Evaluate`, `EvaluateMisses` and
`EvaluateFails` are the ways `evaluate` ends: everything bound; a stored pane
gone; or a failure after some inputs were built and stored (`CanFailAfter`): the
next input has no samples or its build fails, or an input's own source cannot be
made, after it was stored (`query.rs:389`), the last one's included.
`Abandon` is a failed fetch or a caller that left. `qstore[q]` maps the end of
a stored summary to the samples it was built from; `evaluation[c]` is what the
handler carries between the steps.

Each definition is fetched by itself, but what was fetched is handed to `evaluate` by
fetch node (`lib.rs:327`), which two definitions share if the plan reads
their samples through one node (`query.rs:575`). `FetchNode` is that node,
`Sharing` the fetches that have it and `GivenBy` the one that stays when they are
collected into a map: the last in the order of the definitions' keys
(`KeysAfter`). A node is a time range, so two definitions that share one
read one metric in panes of one width, and a common window
(`FetchNodeAssumption`). Whether the planner, which is another repository, makes plans with
shared nodes cannot be seen here; the code takes them. A query-time raw window that
has the node of another fetch is left out, like all raw windows.

Queries outside the plan change no state and are left out, as are raw windows
that are fetched and never stored, the compilation of a root and the rows of an
answer. Instant selectors fetch one latest sample per series instead of an
interval; a summary's input is an interval, so `Fetch` has only that form.
`Scrape` (external) adds a sample to Prometheus; `delivery`, chosen once in the
initial state, says when it may:

- `"prompt"`: only samples newer than the watermark, which is what the watermark
  claims (no older one is expected).
- `"forwarded"`: Prometheus takes the samples of a metric in time order, those of
  one time together (one scrape), and writes to the data plane what it took. So
  ingestion sees a sample of a QueryRun metric only after Prometheus holds it
  (`Forwarded`), and nothing as old is still to come. The samples
  may be behind the watermark, which other metrics and barriers move. This is an
  assumption about the environment: with scrape targets that lag behind
  each other within one metric it does not hold, and the count that is
  checked under it, which the code keeps by metric, would miss the slower ones.
- `"late"`: any sample at any time.

`ReadOnce` says that no query reads two summaries of one definition, and
`SharedReadOnce`, which is weaker, that a query does so only where no other definition's
fetch has the node. Three theorems have one of them as a hypothesis.

### EngineQueue

Each request is a process; `pc` says how far its handler is and `seen` is the
value its compare-and-exchange loop last loaded. Admission takes as many atomic
steps as the code: check `running`, load, exchange, send, and give back when the
send fails. The engine's loop is split where another thread can see the
difference: receive, run, publish the stats, release the samples or reply. It
may stop (a `Stop` command, which only tests send) or panic inside a command; the
receiver is dropped first, with every command in the channel and its reply
sender, and the running flag is cleared after. Commands are opaque here:
what they do is the subject of the two modules above.

`Retry` (external) is the sender that repeats a write refused with 503.

Its requests are the ones `Front` sends on behalf of a query, and the writes and
barriers of other handlers.

### SamplePanes and PerSample

`Precompute` knows the samples of a pane. `PerSample` is how a per-sample build
of one definition holds them (`per_sample.rs`):

| Specification | Code |
|---|---|
| `series` | `OpenPanes::series`; `pane` is the cached pane and group number. Groups are numbered from 1, and `number` 0 is `None` |
| `panes` | `OpenPanes::panes`, by end: `groups` and `numbers` of an `OpenPane` with the samples its states took, or `failed` |
| `cells` | the cache of `RawSampleWindowBatcher`: when a series was last looked up |
| `through` | where the caller has got to (`built_through`) |
| `sealed` | the panes `close` returned |
| `outcome` | the `Taken` of the last `update` |

`Update` has one disjunct per way out of `update`: a stale marker, a series not
selected, a failed pane, a new group, a group that has a number (cached, or
found in the pane), a duplicate, and the two ways to fail. Each remembers the
series as the code does before it returns. `Close` forgets the series and cells
unseen, seals or fails the pane, and drops the open panes before it, which is
`drop_before` when the caller skips them. `update` is called for a pane after
`through` only, and panes close in order: that is what `Precompute` does
(`OpenIsAhead`, `DuePanesClosed`).

`SamplePanes` has no tables: `taken` is a set of samples, `broken` a set of panes.
A sample counts if its series is selected and it is not stale; it is dropped
when it is not after its series' previous one in its pane, and added otherwise;
a pane that closes has one row per series with exactly its samples. `PerSample`
implements it with `taken` as the samples in the states of the open panes
(`TakenSamples`) and `broken` as the failed ones.

Left out: which shapes are built per sample (`PerSampleSpec::new`), the columns
of the batch, the texts of a group. A group's key is its series, because the
group columns include the series' identity.

### LabelIds and SeriesIds

A call of `intern` is a thread's way through `pc`: take the read lock, look the
label set up under its hash, release; if it was not found take the write lock,
look it up again (`LookUpAgain`), append it to `series` and then to the ids of
its hash. What happens under a lock is as many steps as the code has writes.
`readers` and `writers` are who holds the lock. Hashes collide. When the next id
is no u32 (`Full`), `Overflow` panics while it holds the write lock, which
poisons it: every call after that panics too (`PoisonedLock`), those of label
sets that have an id included.

`LabelIds` has neither lock nor hash: a call is answered in one step with the id
its label set has or the next one, or panics once all are given. `SeriesIds`
implements it with `ids` as the label sets that can be found (`IdsGiven`), so a
label set gets its id at the second append.

### SummaryDefinitions, StoredPanes, SummaryStore and Sds

| Specification | Code |
|---|---|
| `definitions`, `outputs` | `Sds::definitions`, `Sds::outputs` |
| `inputs` | the stored inputs by node that `from_plan` collects |
| `stack`, `visited`, `order` | the calls of `visit` that have not returned, those made, and `ingestion_build_order` |
| `phase`, `refusal` | how far the start is, and the error or panic it ended with |
| `instances` | `SummaryStore`: by definition id, by `Selection` |
| `answer` | what the last `get` returned |

`ReadOutput` is one turn of the loop of `from_plan`, with its refusals in the
order of the code; `LinkStoredInputs` is `link_stored_inputs`; `VisitRoot`,
`VisitInput` and `VisitReturns` are the recursive search, one call, input or
return a step; `Start` is what `Engine::new` does with the result, `--no-forward`
included, which refuses a query that could not run. A pane's width is an
unchecked subtraction: a debug build panics when it overflows, a release build
wraps (`Wrap`), and `OverflowChecks` says which build it is.

Definitions with one id, which compute the same under other label constraints
or over panes of another width, share an inner map of the store. `Expired` is
the range of it that `evict_before` removes: it is right only because of the
order of a selection's fields. `StoredPanes` has a map for each definition.
`Sds` lets the definitions of a plan that started use the store.

### PaneArithmetic

One definition takes samples and barriers at every time of the integer range and
is computed twice: `code` with each operation as the code has it (`pane_end`
checked at every step, saturating in `oldest_kept_end_ms` and in the lateness,
checked in `close_panes`, unchecked for the start of a pane), `exact` with
integers of any size. `IngestUnfit` is a sample whose pane has no end in the range, which is
late. With a declared stream start, the start of the first pane is computed
unchecked: `IngestPanics` is the debug build, and `wrapped` remembers that in a release
build the start of the *first* sample's pane wrapped, from which the first pane is
taken. Later starts are compared and dropped, and excuse nothing. The wall clock is
ahead of all times, so it caps nothing.

### Front

| Specification | Code |
|---|---|
| `phase` | how far the handler of a request is: the ask that prepares, the fetches, the ask that evaluates, the forwarded request |
| `planned` | whether the plan holds the query; what kind of query a request has never changes |
| `windows`, `fetched` | the raw windows the query was prepared with, those whose samples are in |
| `reason` | the value of the header that says why a planned query was forwarded |
| `failure`, `received` | no state of the code: why the plan did not answer, and how often Prometheus got the query |

The fetches of a query run concurrently (`try_join_all`): `FetchArrives` in any
order, `FetchFails` for the first that fails or times out. `AskFails` is an ask
that a stopped engine does not answer, before or after it was queued: the first
one is how the handler would learn that a query is not planned, so a stopped engine makes
unplanned queries say why they were forwarded too (section 6). With
`--no-forward` what would be forwarded is refused. `CallerLeaves` drops a handler
at any of its awaits. What the engine does in `Prepare` and `Evaluate` is
`QueryEngine`'s; a window is known by itself here, not by a node it might share; how an
ask waits, and how writes and barriers are answered, is
`EngineQueue`'s.

## 3. What is checked

All passing runs end within five minutes with two workers, most within two.
Bounds are in the `MC` modules and the `.cfg` files; a bound on a counter is a
conjunct of `MCNext`. Where a run has several instances, the initial state
chooses one, and it stays.

| Run | Question | States | Bounds, and why they are enough |
|---|---|---|---|
| `precompute` | Does any order of samples, barriers, failures and jumps lose a sample, move the watermark back or leave a hole in the store? | 278 000 | Instance "two": two definitions on one metric, of widths 2 and 3 and retentions 2 and 4 (one a multiple of its width, one not), one of them built per sample; a metric only a QueryRun reads; an unrouted metric; times 0..6, which hold three panes and so a skip past the retention; three samples: first, late or buffered, and one that moves the watermark. Instance "one": one definition of width 2 and retention 3, times -1..7 (both signs, five panes, so that a pane can be built, kept, evicted and skipped past), clocks that go back from 7 to 2, four samples. A declared stream start inside the range in both. |
| `query` | Do evaluations store only whole, closed summaries, once, evict none in use, and find their stored panes after a fetch? | 955 000 | Barriers and two Prometheus samples at three panes. "racing": two queries a pane apart and two clients, prompt samples. "late": the same with samples of any time, since only then do two fetches of a closed pane differ. "behind": one client, two series of one metric, samples that are ingested after Prometheus took them. "both": two clients whose query reads two summaries of one definition, so that an evaluation fails with one stored and one not. "pair": two clients whose query reads a summary of each of two definitions that share a fetch node and are retained differently, so that one's samples are given to the other. "mixed": one client that also reads two ingested panes, times over five panes, so that the barrier passes and evicts while the fetch is out. |
| `queue` | Is the shared counter exact, the bound kept, the order of barriers and stats right under stop and panic, and does everybody get an answer? | 21 000 | One write of 1 sample and one of 3 with a bound of 2: fits alone and can never fit; an ask; a barrier. |
| `per_sample` | Do cached group numbers, failing panes and forgotten series ever mix up, lose or repeat a sample? | 144 000 | Two selected series, so that a wrong number is another's, and one that is not; panes of width 2 with two times in one of them, so that a sample is a duplicate or the next; three panes open at once after the first; retention 1, so that closing forgets; two failed panes and two closed ones, so that a pane closes, fails and is skipped. At most three samples in open panes. |
| `series_ids` | Has a label set one id, is interning atomic, and does every call end? | 46 000 | Three threads, so that one appends between the two lookups of another while a third reads; three label sets of which two collide; two ids, so that the third label set finds none left; five calls. |
| `sds` | Are outputs merged, ordered and refused as a reference definition says, and do definitions that share an id leave each other's panes alone? | 146 000 | 18 000 plans: three outputs of one to three definitions in every order; every graph of three outputs that read each other, built in either run; one of each refusal before and after a good output; and two plans that share an id over three definitions, two widths and two label constraints. i64 is -4..3, in a release build (overflow wraps) with `--no-forward`. Three instances in the store and three ends: an older one, the bound and a newer one. |
| `arithmetic` | Does the program close and keep the panes that arithmetic without a bound does? | 73 000 | Integers of four bits, which an i64 is 60 bits more of: the operations only compare with the ends of the range. Widths 1, 2, 3, 5, 7 (dividing the range or not, up to the largest), retentions 0, 5, 7, lateness 0 and 3, a stream start two above the smallest or none, samples and barriers at every time, in any number. |
| `front` | Is a request answered from all its windows, forwarded once with its reason, and always answered? | 20 000 | Two requests that read up to two windows; the engine stops at any time, and each fetch arrives, fails or times out. Requests share only the engine, so two show all there is. |

`repeated_barrier`, `late_behind_barrier`, `stream_start` and `query_evicted`
are the runs of section 6, which TLC must find violated.

The properties, and the hazard each is for:

- `OpenIsAhead`, `BufferedReachesItsPane`: a late sample never waits in a
  closed pane, and a buffered one is built into its pane.
- `StoreIsRetainedRange`, `ServedOnePaneBehind`: after any history the store
  holds all closed panes within the retention and no other. `close_panes` has
  three cases (build, skip ahead, evict) with their own arithmetic; this says
  that they agree.
- `PanesCountedOnce`: built, failed and expired add up to the distance from the
  first pane.
- `WatermarkNeverRetreats`: the watermark is a maximum of a barrier and a
  minimum of two independent times. It is monotone only because a clock is always
  read before a sample is taken (`ClockRead`).
- `StoredOnceNeverChanges`, `DuePanesClosed`: closed panes are final; a call
  that closes panes leaves none due.
- `QueryRunStoredOnceClosed`, `SummaryInUseIsWhole`,
  `StoredSummaryNeverChanges`, `NoSummaryInUseEvicted`, `LateEvaluationServed`: what
  survives the time between the three steps of a query. A summary is *in use*
  (`InUse`) if an evaluation at the newest closed pane or one pane behind it reads it.
  `SummaryInUseIsWhole` is the reason why `evaluate` decides by the watermark
  of the snapshot, and holds although evaluations fail after they stored some of
  their inputs, and read several summaries of which others store or evict some
  meanwhile. It cannot be said of all stored summaries: `query_evicted`
  (section 6) is the counterexample, of one that is no longer in use.
- `CachedNumberIsItsGroup`: `update` uses the number a series cached without
  asking the pane. It stays valid while panes fail, close, are skipped, and
  while the series is forgotten and seen again.
- `StateFollowsActiveSeries`: forgetting is by the newest sample, while later
  panes are open; it neither forgets a series with a state nor keeps one
  unseen, and the cells cached go with them.
- `ImplementsSamplePanes`: the refinement above.
- `UnwholeStoredAreCounted`: the watermark is global, so the summary of a metric
  that is behind is stored before its samples are in. The code counts these in
  `stored_while_metric_behind`; for metrics of any number of series that Prometheus
  forwards in order, no summary in use that lacks samples escapes the count.
- `QueuedIsCounted`, `QueueBounded`, `BarrierBehindAckedWrites`,
  `EmptyQueueIsPublished`: the counter, the bound, and the two promises about
  order (a barrier's answer, and what an empty queue means to a reader of the
  stats).
- `NoWriteRefusedForever`, `EveryAskAnswered`, `AckedIsIngested`,
  `StoppedIsReported`: liveness of the queue; a write over the bound is admitted
  in the end, and an engine that stops leaves nobody waiting.
- `OneIdPerLabelSet`, `ImplementsLabelIds`, `EveryCallEnds`: the second lookup;
  collisions, the id after the last, and that an id never changes; no thread
  waits for a lock it holds itself.
- `DefinitionsAreMerged`: builder, window, run and retention are functions of the
  set of outputs read, whatever their order in the plan.
- `OrderedIffOrderable`, `BuiltAfterItsInputs`, `EveryPlanIsAnswered`: the
  search finds an order exactly when there is one, by a definition of "acyclic"
  without a search; a diamond is no cycle, a cycle ends with an error.
- `StartedWidthsAreTrue`: no data plane starts with a pane whose width wrapped,
  except in QueryRun definitions that no query may need. The check is far from
  the subtraction, in `SummaryBuild::new`.
- `ImplementsStoredPanes`: an eviction removes the older panes of its
  definition and nothing of the others.
- `CodeIsExact`: saturation and checks change nothing that can be seen, and the
  unchecked start of a pane that is built is in range; the exception is a
  first sample whose pane's start wrapped, which the property names.
- `PlanAnswersFromEveryWindow`: `evaluate` would read a window that is missing
  from its samples as an empty one; the handler never lets it.
- `ForwardedOnceSayingWhy`: whatever part fails, Prometheus gets a query once at
  most, and the response says why exactly when the query was planned or the engine
  had stopped (the exception, see section 6). `EveryRequestAnswered`: for every
  part that can fail.

Deadlock is checked in `precompute` and `query`. The others say
`CHECK_DEADLOCK FALSE` because they end: the requests of `queue` and `front` are
finite, and the engine may stop; the calls of `series_ids` are bounded; every
plan of `sds` is read or refused; `arithmetic` stops after a panic; in
`per_sample` every pane is closed after the last of the times.

### Fairness

All of it is weak, and in the four runs with liveness properties.

- `EngineQueue!FairSpec`: the engine thread takes its next step when it has one (a thread of
  its own that blocks only on the channel). A handler runs on (tasks of the
  runtime; none of these steps waits for another but for its reply, which is the
  engine's step). A refused sender retries (Remote Write senders retry a 503).
  Nothing is assumed about `Stop` and `Panic`: they may never happen, or at any
  time. The compare-and-exchange loop can fail again and again only while others
  succeed, so it needs no stronger assumption. Nor does a write over the bound:
  with finitely many writes the queue drains; under an endless stream of small
  writes the code does not promise it.
- `SeriesIds!Fairness`: a thread that can go on does. Calls are finitely many
  in the run, so no writer waits behind an endless stream of readers; with one,
  it is up to the lock, of which the code assumes nothing.
- `Sds!SdsSpec`: `from_plan` is a sequential function, so it runs on.
- `Front!Fairness`: the engine runs its queue (`EveryAskAnswered` is the reason it may
  be assumed here), a stopped engine's asks fail, and the timeout of the HTTP
  client ends a fetch or a forwarded query (`forward_client` sets it). Nothing is
  assumed about Prometheus: `FetchArrives` and `ForwardArrives` may never
  happen. Nothing makes a caller leave or the engine stop.

## 4. What is proved

The first part of `QueryEngineProofs` proves of `Precompute`, for all plans, options,
times and clocks:

| Theorem | Statement |
|---|---|
| `PaneInvariantHolds` | the inductive invariant |
| `TypeCorrect` | `TypeOK`; the counters stay natural numbers, so no subtraction in `close_panes` goes below zero |
| `OpenSamplesAreAhead` | `OpenIsAhead` |
| `StoreHasNoHole` | `StoreIsRetainedRange` |
| `OnePaneBehindIsServed` | `ServedOnePaneBehind` |
| `WatermarkIsMonotone` | `WatermarkNeverRetreats` |
| `PanesAreStoredOnce` | `StoredOnceNeverChanges` |
| `BufferedSamplesAreBuilt` | `BufferedReachesItsPane` |
| `PanesAreCountedOnce` | `PanesCountedOnce` |
| `DuePanesAreClosed` | `DuePanesClosed` |

Assumptions: `NoneAssumption` (`None` is no integer), `PlanAssumption` (widths
are positive, retentions natural, the maps of the plan total: the plan reader
refuses a zero width, and both come from unsigned fields) and `OptionsAssumption`
(lateness and the future bound are natural, times integers). Definitions,
series, times and clocks may be infinite sets.

Argument. `OpenIsAhead` and `StoreIsRetainedRange` are not inductive alone.
`PaneInvariant` adds `TypeOK`; `Aligned` (closing starts at the first pane,
and both ends are on the grid: without it the panes closed and the panes
expected are different sets); `ClockRead` (for the watermark); and
`StartedBySample` (a definition that started has a watermark, so that closing
moves forward). Each action keeps it: the work is in `CloseWith`, where
`FirstToBuildFacts` and `ClosingFacts` say which panes close,
`CloseExpected` that the new retained range is the old one less the evicted panes
plus those closed, and `CloseKeepsRange` combines them. The arithmetic of the
grid (`PaneGridProofs`) is reduced to `DivMod` and spacing: two points of a
grid that differ are a width apart.

`PanesCountedOnce` relates counters to a distance, so it needs to know how many
panes an interval has: `GridCount` maps its ends one to one onto 1..n.
`ClosingCount` and `CloseCounts` add up the panes of one call: built, failed and
expired are disjoint and together all those between the newest closed pane
and the watermark.

`PaneArithmeticProofs` proves, for integers of every width, all definitions and
options, and any samples and barriers up to both ends of the range:

| Theorem | Statement |
|---|---|
| `ArithmeticInvariantHolds` | the inductive invariant |
| `ArithmeticIsExact` | `CodeIsExact` |
| `UndeclaredStartsAreExact` | if no stream start is declared, the panes are the exact ones without exception, and nothing panics |

Assumption: `ArithmeticAssumption` (widths are positive and, like retentions and
latenesses, within the range). The argument is that saturation shows only where
there is nothing to lose. `ArithmeticInvariant` adds to `CodeIsExact` that stored panes are
closed, retained and *started* within the range, which is so from the first pane
on unless its start wrapped. So the oldest end that is kept, when saturated, is
raised to the first end any pane can have (`OldestKeptFacts`), which changes neither
the first pane built (`FirstToBuildFacts`) nor the panes kept (`KeptFacts`). When the end
of the next pane overflows the program leaves the definition alone, without
evicting; the watermark is then before that end, and with exact arithmetic there
is nothing to close or evict either (`NothingToClose`, for which stored panes have to be
retained as of the newest *closed* pane). A watermark that saturates at the
smallest time closes nothing in either arithmetic (`ClosedBeforeRange`).

`PerSampleProofs` proves, for all sets of series and of selected series, all times,
pane widths and retentions:

| Theorem | Statement |
|---|---|
| `PerSampleInvariantHolds` | the inductive invariant |
| `PerSampleTypeCorrect` | `TypeOK`; states hold only samples that count |
| `CachedNumbersAreValid` | `CachedNumberIsItsGroup` |
| `MemoryFollowsActiveSeries` | `StateFollowsActiveSeries` |
| `TablesImplementPanes` | `ImplementsSamplePanes` |

Its only assumption is `PerSampleAssumption` (a positive width, a natural
retention, integer times, selected series among the series). Argument: a cached
number is valid only if the pane it is of has not been replaced.
`PerSampleInvariant` therefore adds that the numbers of a pane and its groups are
inverse (`NumbersMatch`), that a pane some series cached is open until it closes
(`PanesAhead`), that a state holds its series' and pane's samples with the newest
known (`StatesMatch`), and that series are as new as their groups and cells
(`NewestSeen`), from which forgetting is safe. An update changes one pane, and
`UpdateKeeps` proves the invariant once for every change under which that pane
`Grows`; each case of `Update` then shows that it is such a change. For the
refinement, `TakenIsHeld` and `HeldInItsGroup` locate a taken sample in the one group
of its series, `NotAfterIsKnown` equates the two forms of the duplicate test, and
`RowsAreTaken` the rows of a closing pane; `UpdateImplementsTake` and
`CloseImplementsClose` map each step to one step.

The second part of `QueryEngineProofs` proves of the query engine, for all plans,
queries, deliveries and clients:

| Theorem | Statement |
|---|---|
| `QueryInvariantHolds` | the inductive invariant |
| `QueryTypeCorrect` | `QTypeOK`; no counter of the query engine goes below zero |
| `SummariesAreClosed` | `QueryRunStoredOnceClosed` |
| `LateEvaluationsAreServed` | `LateEvaluationServed` |
| `SummariesNeverChange` | `StoredSummaryNeverChanges` |
| `SummariesInUseAreKept` | `NoSummaryInUseEvicted` |
| `StoredInvariantHolds` | the inductive invariant of what is stored |
| `SummariesInUseAreWhole` | `SummaryInUseIsWhole`, if `SharedReadOnce` |
| `UnwholeSummariesAreCounted` | `UnwholeStoredAreCounted`, if `SharedReadOnce` |
| `StoredSummariesAreWhole` | `StoredSummaryIsWhole`, if `ReadOnce` |

It adds `QueryPlanAssumption` (as above, for the QueryRun definitions and the
queries; keys are distinct) and `FetchNodeAssumption` to the assumptions on the plan.
`QueryInvariant` has `PaneInvariant` as
a conjunct, since every step either is one of `Precompute` or leaves its
state alone. What an evaluation carries across its fetch has to stay true of a
state that moves on: `SnapshotsAreOld` (its watermark is not ahead, by
`WatermarkIsMonotone`'s step) gives the first and the last theorem, and
`PreparedPanesWereBuilt` (the panes it found were closed and did not fail, which
never changes) together with `StoreIsRetainedRange` gives `LateEvaluationsAreServed`: a
pane that was built and is in the retained range is in the store.

The last three relate samples fetched at one time, under a snapshot of an
earlier one, to what Prometheus holds later. `StoredInvariant` adds to
`QueryInvariant`:

- `NewestIsOld`, `SpansAreTimes`: what a snapshot saw is not ahead, and a fetch is of
  a definition the query reads.
- `NeededAreSpanned`: a summary that is missing and in use lies in what was
  fetched for its definition. It was missing when the fetches were chosen, for if it
  had been stored then, it would have been evicted since, which
  `NoSummaryInUseEvicted`'s step excludes (`InUseStays`: a summary in use now was in use
  then). A summary that is the only one of its definition a query reads is what the
  fetch was for, in use or not.
- `FetchedIsFinal`: Prometheus takes no more samples of a pane a snapshot
  is past, so what was fetched of it is all there will be. "Past" depends on the
  delivery: behind the watermark of the snapshot (`"prompt"`), or behind the newest
  sample of the metric that it knew (`"forwarded"`).
- `SoundAreWhole` and `UnsettledAreCounted`, of what is stored: a summary stored from a
  final fetch is whole. The others are stored by an evaluation that counts them as
  behind: `UnsettledAreCounted` bounds the stored summaries that miss samples *or
  may still come to*, which is what makes the count inductive, and `GrowsByImage`
  bounds what one evaluation adds by the inputs it counted.

`BuiltIsFinal` joins them. An input that is built may be given the samples fetched
for another definition of its node. If none shares it, they are its own, and `NeededAreSpanned`
says that they span its pane. If one does, then by `SharedReadOnce` each of
them reads one summary, and by `FetchNodeAssumption` the same one, of the same metric:
so whichever fetch stays spans the pane.

`ReadOnce` is needed for summaries that are no longer in use: `query_evicted` is a
counterexample without. `SharedReadOnce` is needed for those in use: if two definitions
share a node and one of them reads two summaries of which one is stored already, the
fetch of the missing one may be what the other definition's evaluation is given, and TLC
finds a summary in use that misses samples. No run keeps that instance, since
nothing in the repository shows whether the planner makes such a plan. `query` has instances
that read several summaries of a definition, and ones whose definitions share a node.

`EngineQueueProofs` proves, for any numbers and sizes of writes, any asks and
barriers, and any interleaving, stop and panic:

| Theorem | Statement |
|---|---|
| `BarrierInvariantHolds`, `QueueInvariantHolds` | the inductive invariants |
| `BarriersFollowAckedWrites` | `BarrierBehindAckedWrites` |
| `QueueTypes` | `TypeOK`; `queued_samples` never goes below zero |
| `QueuedSamplesAreCounted` | `QueuedIsCounted` |
| `QueueStaysBounded` | `QueueBounded` |
| `EmptyQueuesArePublished` | `EmptyQueueIsPublished` |

The assumption is `QueueAssumption` (the requests are distinct from each other and
from the stop command, and counts are positive). `BarrierInvariant` says
where a write that was acknowledged is until it is ingested: in the channel or
with the engine (`AckedOnTheWay`), and before every barrier that remembers it
(`AckedAhead`); a barrier is sent after it remembered (`SentWasChecked`). Once the
engine exits nothing is promised and nothing is answered as done.

`QueuedIsCounted` equates the counter with the number of the samples of the
writes admitted and not released. A step that admits, gives back or releases a
write changes both by the write's count; that each such step happens once per write
is `OnePlace`: an acknowledged write is in one place only, once in the channel, or
with the engine, or released. `AloneOverBound` names the write that took the queue
over the bound, from which `QueueBounded` follows, and `PublishedFirst` orders ingesting,
publishing and releasing, so that a counter of zero, which by `QueuedIsCounted`
means that every acknowledged write is released, means that all are published.

`SeriesIdsProofs` proves, for any number of threads and any hash function:
`InternerInvariantHolds`, `InternerTypeCorrect` (ids are u32, even when all but
one are given), `LabelSetsHaveOneId` (`OneIdPerLabelSet`) and `InterningIsAtomic`
(`ImplementsLabelIds`). `InternerInvariant` is the exclusion of the lock (`LockHeld`), that
every series is listed under its hash unless its writer is between its two
appends (`Listed`), and that only a full table is poisoned (`PoisonedWhenFull`), for the
step that panics without an attempt. In the refinement all steps stutter but
the call, the lookups that find, the second append, and the panics.
Assumption: `InternerAssumption`.

`SdsProofs` proves, for all plans and for integers of any width, of the reading of
a plan:

| Theorem | Statement |
|---|---|
| `PlanInvariantHolds` | the inductive invariant |
| `PlanTypes` | `TypeOK` |
| `DefinitionsMerge` | `DefinitionsAreMerged` |
| `OrdersAreFound` | `OrderedIffOrderable` |
| `InputsAreBuiltFirst` | `BuiltAfterItsInputs` |
| `WidthsAreTrue` | `StartedWidthsAreTrue` |

`PlanInvariant` says that what was read stays (`ReadIsKept`, `PhasesInOrder`), that the
calls on the stack are a path along what the definitions read and hold in
`left` what they have still to visit (`StackIsPath`), that a definition that was
visited is on the stack or in the order, and not in both (`VisitedOnce`), and that a
definition the engine starts with builds (`StartedAreBuildable`). A call that meets a
definition on the stack has therefore closed a cycle. The other direction, that a
finished order leaves none, would be an induction along the order; it is a
minimal element instead: every nonempty set of definitions has a member that comes
first in the order, and since what it reads comes before it, it reads none of the
set, which is what `Acyclic` asks. The least number this takes is `LeastNatural`,
from the well-foundedness of the naturals. Assumptions: `PlansAssumption` (plans
are well-formed), `IntAssumption` (the largest integer is positive),
`NoneAssumption` (the marker for no refusal is none).

Of the store it proves `StoreTypeCorrect`, `StoreKeepsDefinitionsApart` and, for a plan
that was read and started, `PlansKeepDefinitionsApart`
(`ImplementsStoredPanes`), for all ids, label constraints, widths and ends, also
unbounded ones. The core is that the range from (labels, width, smallest end)
to (labels, width, end) in the order of selections holds exactly the selections with those labels
and that width and an older end. Assumptions: `StoreAssumption` (the fields are
ordered like integers, and no end is below the smallest) and `StoringAssumption` (the
model of the store has a place for the definitions of the plans that use it).

`FrontProofs` proves `EveryWindowIsRead` (`PlanAnswersFromEveryWindow`) and
`ForwardingIsOnceAndExplained` (`ForwardedOnceSayingWhy`) for all requests and
windows; its invariant says in each phase what has been fetched, received and
remembered, and where a request can be that is not planned. Its
assumption `NoneAssumption` keeps the marker apart from the texts.

Not proved:

- Liveness, which TLC checks (`NoWriteRefusedForever`, `EveryAskAnswered`, `AckedIsIngested`,
  `StoppedIsReported`, `EveryCallEnds`, `EveryPlanIsAnswered`,
  `EveryRequestAnswered`), which this prover does not reach.
- That `Precompute`, whose integers have no bound, is what `PaneArithmetic` calls
  `exact` for one definition: both are read off the same lines, and no run or
  theorem relates them.

## 5. Hazards

`PROJECT.json` lists them by line with the properties that cover them, and those
not covered yet with the reason.

## 6. Where code and documentation disagree

1. **`query_evicted`** (`query.rs:353`). A query reads two summaries of one
   QueryRun definition. When it is prepared one is stored and the other missing, so
   only the other's interval is fetched. Before it is evaluated the stored one is
   evicted. `evaluate` then finds fetched samples for the definition and builds
   the evicted summary from them, without its own samples; its pane is closed, so
   it is stored, and stays until evicted again. The "was evicted" answer
   (`query.rs:357`) covers only the case in which nothing was fetched for the
   definition. `sds.rs:388` says that a stored instance is complete.
2. **`repeated_barrier`** (`precompute.rs:403`). A repeated barrier raises the
   newest clock, so the watermark may pass open panes, and returns before
   closing them. The comment says that it does nothing, and the module's that a
   pane closes when the watermark reaches its end. The next call closes them.
3. **`late_behind_barrier`** (`precompute.rs:457`). A barrier that comes before
   a definition's first sample closes nothing for it. Samples of panes that end at
   or before the barrier are buffered and built, not counted as late.
4. **`stream_start`** (`precompute.rs:456`). With a declared stream start, the
   first sample routed fixes the first pane. If it is not the oldest, the samples
   of an earlier pane that also starts after the stream start are skipped.

A fifth has no run of its own, since `ForwardedOnceSayingWhy` names it as its
exception: `lib.rs:38` and `src/README.md:83` say that the header with the reason is
for planned queries. When the engine has stopped, the ask that would find out
whether a query is planned fails (`engine.rs:205`), and the response to an
unplanned query says that the engine has stopped (`lib.rs:289`).

## 7. What is not modelled

- Decoding of Remote Write: a pure function of bytes. What it yields is the
  samples of a write.
- The programs and the control plane: flags, files, the start of a server; they
  keep no state.
- The planner and the executor: other repositories. The executor is abstracted to
  the samples it reads, the plan to the constants of the modules.
- The rows and the formatting of an answer, the status page, the readiness check
  and the headers copied between requests: they change no state. That the
  readiness check tells of a stopped engine is `StoppedIsReported`.
- Which builds are made per sample, and the columns of a sealed pane: functions
  of the plan and of a pane.
- Raw windows: a query's raw windows are fetched and not stored, so `Front` has them
  as what must have arrived and `QueryEngine` leaves them out. The batcher is in
  `Precompute` (which samples a build aggregates) and `PerSample` (when a cell is
  cached and forgotten); the contents of cells are left out.
- Restarts: nothing is persisted, so a restart is a new behaviour from `Init`.
  The samples acknowledged and not ingested are lost with the engine
  (`AckedIsIngested` promises them only while it runs), and what a restart does to the
  first pane after it depends on the stream start the producer declares then.
- The growth of the store by evaluations off the pane grid: the code states no bound.

What could come next: `Precompute` on `SummaryStore` instead of a set of
ends, so that the two refinements compose.
