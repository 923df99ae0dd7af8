---------------------------- MODULE EngineQueue ----------------------------
(***************************************************************************)
(* The engine thread and its handle (engine.rs): HTTP handlers run         *)
(* concurrently and send the engine commands over an unbounded FIFO        *)
(* channel; Remote Write is admitted by a shared counter of the samples    *)
(* queued; asks and barriers wait for a reply.  The engine may be stopped  *)
(* or may panic between any two steps of a command, and then drops the     *)
(* receiver before it clears the running flag.                             *)
(*                                                                         *)
(* Every request is a process of its own: its local state is pc (and       *)
(* seen, the counter value a write loaded).  A sender retries a write that *)
(* was refused as busy.  What a command does to the engine's own state is  *)
(* the subject of Precompute and QueryEngine.                              *)
(***************************************************************************)
EXTENDS Integers, Sequences, FiniteSets, SequencesExt

CONSTANTS
    Writes,         \* Remote Write requests that carry samples
    Asks,           \* bound_raw_sample_windows and evaluate requests
    Barriers,       \* event-time barriers
    CountOf,        \* [Writes -> number of samples]
    MaxQueued,      \* max_queued_samples
    NoCommand

Requests == Writes \cup Asks \cup Barriers

Stop == "stop"

ASSUME QueueAssumption ==
    /\ CountOf \in [Writes -> Nat \ {0}]
    /\ MaxQueued \in Nat
    /\ Writes \cap (Asks \cup Barriers) = {}
    /\ Asks \cap Barriers = {}
    /\ NoCommand \notin Requests
    /\ Stop \notin Requests

VARIABLES
    pc,             \* by request: how far its handler is
    seen,           \* by write: queued_samples as it last loaded it
    queued,         \* queued_samples
    channel,        \* the commands sent and not received
    receiving,      \* whether the receiver exists
    running,        \* the running flag
    engine,         \* [at, command]: what the engine thread is doing
    ingested,       \* the writes precompute has ingested
    published,      \* the writes the published stats include
    released,       \* the writes the engine took off queued_samples
    ackedBefore     \* by barrier: history, writes acknowledged before it

vars == <<pc, seen, queued, channel, receiving, running, engine, ingested,
          published, released, ackedBefore>>

engineVars == <<engine, ingested, published, released, receiving, running>>

PcStates == {"new", "checked", "loaded", "admitted", "busy", "undo",
             "waiting", "acked", "answered", "stopped"}

Acked == {w \in Writes : pc[w] = "acked"}

Become(r, state) == pc' = [pc EXCEPT ![r] = state]

----------------------------------------------------------------------------
(* Remote Write: try_ingest.                                               *)

CheckRunning(r) ==
    /\ pc[r] = "new"
    /\ r \notin Asks
    /\ Become(r, IF running THEN "checked" ELSE "stopped")
    /\ ackedBefore' = IF r \in Barriers THEN [ackedBefore EXCEPT ![r] = Acked]
                      ELSE ackedBefore
    /\ UNCHANGED <<engineVars, seen, queued, channel>>

LoadQueued(w) ==
    /\ pc[w] = "checked"
    /\ seen' = [seen EXCEPT ![w] = queued]
    /\ Become(w, "loaded")
    /\ UNCHANGED <<engineVars, queued, channel, ackedBefore>>

\* (mutant) a request larger than the bound is never admitted
AdmitsWithinBound(q, count) == q + count <= MaxQueued

\* (mutant) the request's own samples are not held against the bound
AdmitsBelowBound(q, count) == q = 0 \/ q < MaxQueued

\* A request is admitted while the total stays within the bound, and always
\* into an empty queue.
Admits(q, count) == q = 0 \/ q + count <= MaxQueued

\* (mutant) the counter is stored without comparing it with what was loaded
AdmitWithoutCompare(w) ==
    /\ pc[w] = "loaded"
    /\ IF Admits(seen[w], CountOf[w])
       THEN queued' = seen[w] + CountOf[w] /\ Become(w, "admitted")
       ELSE UNCHANGED queued /\ Become(w, "busy")
    /\ UNCHANGED <<engineVars, seen, channel, ackedBefore>>

\* One turn of the compare-and-exchange loop.
Admit(w) ==
    /\ pc[w] = "loaded"
    /\ \/ /\ ~Admits(seen[w], CountOf[w])
          /\ Become(w, "busy")
          /\ UNCHANGED <<seen, queued>>
       \/ /\ Admits(seen[w], CountOf[w])
          /\ queued = seen[w]
          /\ queued' = queued + CountOf[w]
          /\ Become(w, "admitted")
          /\ UNCHANGED seen
       \/ /\ Admits(seen[w], CountOf[w])
          /\ queued # seen[w]
          /\ seen' = [seen EXCEPT ![w] = queued]
          /\ UNCHANGED <<pc, queued>>
    /\ UNCHANGED <<engineVars, channel, ackedBefore>>

\* (mutant) a failed send keeps its samples counted
SendWriteWithoutUndo(w) ==
    /\ pc[w] = "admitted"
    /\ IF receiving
       THEN channel' = Append(channel, w) /\ Become(w, "acked")
       ELSE Become(w, "stopped") /\ UNCHANGED channel
    /\ UNCHANGED <<engineVars, seen, queued, ackedBefore>>

SendWrite(w) ==
    /\ pc[w] = "admitted"
    /\ IF receiving
       THEN channel' = Append(channel, w) /\ Become(w, "acked")
       ELSE Become(w, "undo") /\ UNCHANGED channel
    /\ UNCHANGED <<engineVars, seen, queued, ackedBefore>>

UndoAdmission(w) ==
    /\ pc[w] = "undo"
    /\ queued' = queued - CountOf[w]
    /\ Become(w, "stopped")
    /\ UNCHANGED <<engineVars, seen, channel, ackedBefore>>

\* The sender writes again after a 503 (external).
Retry(w) ==
    /\ pc[w] = "busy"
    /\ Become(w, "new")
    /\ UNCHANGED <<engineVars, seen, queued, channel, ackedBefore>>

----------------------------------------------------------------------------
(* Asks and barriers.                                                      *)

SendAsk(a) ==
    /\ pc[a] = "new"
    /\ IF receiving
       THEN channel' = Append(channel, a) /\ Become(a, "waiting")
       ELSE Become(a, "stopped") /\ UNCHANGED channel
    /\ UNCHANGED <<engineVars, seen, queued, ackedBefore>>

\* (mutant) a barrier overtakes the commands queued before it
SendBarrierFirst(b) ==
    /\ pc[b] = "checked"
    /\ IF receiving
       THEN channel' = <<b>> \o channel /\ Become(b, "waiting")
       ELSE Become(b, "stopped") /\ UNCHANGED channel
    /\ UNCHANGED <<engineVars, seen, queued, ackedBefore>>

SendBarrier(b) ==
    /\ pc[b] = "checked"
    /\ IF receiving
       THEN channel' = Append(channel, b) /\ Become(b, "waiting")
       ELSE Become(b, "stopped") /\ UNCHANGED channel
    /\ UNCHANGED <<engineVars, seen, queued, ackedBefore>>

\* Stops the engine after the commands queued before (tests only).
SendStop ==
    /\ receiving
    /\ ~Contains(channel, Stop)
    /\ channel' = Append(channel, Stop)
    /\ UNCHANGED <<engineVars, pc, seen, queued, ackedBefore>>

----------------------------------------------------------------------------
(* The engine thread.                                                      *)

At(place, command) == engine' = [at |-> place, command |-> command]

Receive ==
    /\ engine.at = "receiving"
    /\ channel # <<>>
    /\ channel' = Tail(channel)
    /\ IF Head(channel) = Stop THEN At("exiting", NoCommand)
       ELSE At("serving", Head(channel))
    /\ UNCHANGED <<pc, seen, queued, receiving, running, ingested, published,
                   released, ackedBefore>>

ServeAsk ==
    /\ engine.at = "serving"
    /\ engine.command \in Asks
    /\ Become(engine.command, "answered")
    /\ At("receiving", NoCommand)
    /\ UNCHANGED <<seen, queued, channel, receiving, running, ingested,
                   published, released, ackedBefore>>

\* ingest, or advance_watermark.
Run ==
    /\ engine.at = "serving"
    /\ engine.command \in Writes \cup Barriers
    /\ ingested' = ingested \cup ({engine.command} \cap Writes)
    /\ At("ran", engine.command)
    /\ UNCHANGED <<pc, seen, queued, channel, receiving, running, published,
                   released, ackedBefore>>

\* (mutant) an ingest does not publish the counters
PublishOnlyForBarriers ==
    /\ engine.at = "ran"
    /\ published' = IF engine.command \in Barriers THEN ingested ELSE published
    /\ At("published", engine.command)
    /\ UNCHANGED <<pc, seen, queued, channel, receiving, running, ingested,
                   released, ackedBefore>>

Publish ==
    /\ engine.at = "ran"
    /\ published' = ingested
    /\ At("published", engine.command)
    /\ UNCHANGED <<pc, seen, queued, channel, receiving, running, ingested,
                   released, ackedBefore>>

ReleaseSamples ==
    /\ engine.at = "published"
    /\ engine.command \in Writes
    /\ queued' = queued - CountOf[engine.command]
    /\ released' = released \cup {engine.command}
    /\ At("receiving", NoCommand)
    /\ UNCHANGED <<pc, seen, channel, receiving, running, ingested, published,
                   ackedBefore>>

ReplyBarrier ==
    /\ engine.at = "published"
    /\ engine.command \in Barriers
    /\ Become(engine.command, "answered")
    /\ At("receiving", NoCommand)
    /\ UNCHANGED <<seen, queued, channel, receiving, running, ingested,
                   published, released, ackedBefore>>

\* A command panics.
Panic ==
    /\ engine.at \in {"serving", "ran"}
    /\ At("exiting", engine.command)
    /\ UNCHANGED <<pc, seen, queued, channel, receiving, running, ingested,
                   published, released, ackedBefore>>

\* The requests whose reply sender goes with the receiver, or with the
\* command that panicked.
Abandoned == {r \in Requests :
                 pc[r] = "waiting" /\ (Contains(channel, r) \/ engine.command = r)}

\* (mutant) the commands left in the channel keep their reply senders
DropReceiverOnly ==
    /\ engine.at = "exiting"
    /\ receiving' = FALSE
    /\ At("dropped", NoCommand)
    /\ UNCHANGED <<pc, seen, queued, channel, running, ingested, published,
                   released, ackedBefore>>

DropReceiver ==
    /\ engine.at = "exiting"
    /\ receiving' = FALSE
    /\ channel' = <<>>
    /\ pc' = [r \in Requests |-> IF r \in Abandoned THEN "stopped" ELSE pc[r]]
    /\ At("dropped", NoCommand)
    /\ UNCHANGED <<seen, queued, running, ingested, published, released,
                   ackedBefore>>

\* (mutant) the running flag outlives the thread
ExitStillRunning ==
    /\ engine.at = "dropped"
    /\ At("exited", NoCommand)
    /\ UNCHANGED <<pc, seen, queued, channel, receiving, running, ingested,
                   published, released, ackedBefore>>

ClearRunning ==
    /\ engine.at = "dropped"
    /\ running' = FALSE
    /\ At("exited", NoCommand)
    /\ UNCHANGED <<pc, seen, queued, channel, receiving, ingested, published,
                   released, ackedBefore>>

----------------------------------------------------------------------------

Init ==
    /\ pc = [r \in Requests |-> "new"]
    /\ seen = [w \in Writes |-> 0]
    /\ queued = 0
    /\ channel = <<>>
    /\ receiving = TRUE
    /\ running = TRUE
    /\ engine = [at |-> "receiving", command |-> NoCommand]
    /\ ingested = {}
    /\ published = {}
    /\ released = {}
    /\ ackedBefore = [b \in Barriers |-> {}]

WriteStep(w) == LoadQueued(w) \/ Admit(w) \/ SendWrite(w) \/ UndoAdmission(w)

Handler(r) == \/ CheckRunning(r)
              \/ r \in Writes /\ WriteStep(r)
              \/ r \in Asks /\ SendAsk(r)
              \/ r \in Barriers /\ SendBarrier(r)

Engine == \/ Receive \/ ServeAsk \/ Run \/ Publish \/ ReleaseSamples
          \/ ReplyBarrier \/ DropReceiver \/ ClearRunning

Next == \/ \E r \in Requests : Handler(r)
        \/ \E w \in Writes : Retry(w)
        \/ Engine
        \/ Panic
        \/ SendStop

\* Threads and tasks are scheduled: the engine thread runs when it has a
\* step, every handler runs on, and a refused sender retries.  Nothing makes
\* the engine stop or panic.
Fairness == /\ WF_vars(Engine)
            /\ \A r \in Requests : WF_vars(Handler(r))
            /\ \A w \in Writes : WF_vars(Retry(w))

Spec == Init /\ [][Next]_vars
FairSpec == Spec /\ Fairness

----------------------------------------------------------------------------
(* Properties.                                                             *)

\* The type of what says where a request is.
PlacesOK ==
    /\ pc \in [Requests -> PcStates]
    /\ channel \in Seq(Requests \cup {Stop})
    /\ engine \in [at : {"receiving", "serving", "ran", "published", "exiting",
                         "dropped", "exited"},
                   command : Requests \cup {NoCommand}]
    /\ ingested \subseteq Writes
    /\ ackedBefore \in [Barriers -> SUBSET Writes]

\* The type invariant.
TypeOK ==
    /\ PlacesOK
    /\ seen \in [Writes -> Nat]
    /\ queued \in Nat
    /\ receiving \in BOOLEAN
    /\ running \in BOOLEAN
    /\ published \subseteq Writes
    /\ released \subseteq Writes

\* The writes whose samples queued_samples counts.
Counted == {w \in Writes : \/ pc[w] \in {"admitted", "undo"}
                           \/ pc[w] = "acked" /\ w \notin released}

\* The samples of the writes in W, each by its write and its number in it.
SamplesOf(W) == UNION {{w} \X (1..CountOf[w]) : w \in W}

\* queued_samples is the number of samples admitted and not released,
\* however admissions, releases and failed sends interleave: it neither
\* drifts nor wraps below zero.
QueuedIsCounted == queued = Cardinality(SamplesOf(Counted))

\* More samples than the bound wait only when one request alone is larger.
QueueBounded == queued > MaxQueued => Cardinality(Counted) = 1

\* A barrier answers only after every write acknowledged before it was
\* ingested.
BarrierBehindAckedWrites ==
    \A b \in Barriers : pc[b] = "answered" => ackedBefore[b] \subseteq ingested

\* An empty queue means that the published stats include every acknowledged
\* write, whether the engine still serves or not.
EmptyQueueIsPublished == queued = 0 => Acked \subseteq published

Done(r) == pc[r] \in {"acked", "answered", "stopped"}

\* No write is refused as busy for ever, even one larger than the bound: a
\* sender that retries is acknowledged in the end, or told that the engine
\* has stopped.
NoWriteRefusedForever == \A w \in Writes : <>Done(w)

\* Every ask and barrier is answered in the end, the ones still queued when
\* the engine stops or panics included.
EveryAskAnswered == \A r \in Asks \cup Barriers : pc[r] = "waiting" ~> Done(r)

\* An acknowledged write is ingested, unless the engine stops.
AckedIsIngested ==
    \A w \in Writes : pc[w] = "acked" ~> (w \in published \/ ~receiving)

\* Once the engine no longer receives, the data plane reports not ready.
StoppedIsReported == ~receiving ~> ~running

(* What makes BarrierBehindAckedWrites inductive.                          *)

\* The engine has neither stopped nor panicked.
Alive == engine.at \in {"receiving", "serving", "ran", "published"}

Serving(w) == engine.at = "serving" /\ engine.command = w

\* An acknowledged write is ingested, or on its way to be.
AckedOnTheWay ==
    Alive => \A w \in Acked : w \in ingested \/ Contains(channel, w) \/ Serving(w)

\* A write acknowledged stays so.
AckedBeforeStays == \A b \in Barriers : ackedBefore[b] \subseteq Acked

\* A barrier that was sent had remembered the writes before it.
SentWasChecked ==
    \A b \in Barriers : Contains(channel, b) \/ engine.command = b => pc[b] # "new"

\* Every write acknowledged before a barrier is ahead of it: ingested, being
\* served, or before it in the channel.
AckedAhead ==
    Alive => \A b \in Barriers :
        /\ \A i \in 1..Len(channel) : channel[i] = b =>
              \A w \in ackedBefore[b] : \/ w \in ingested
                                        \/ \E j \in 1..i - 1 : channel[j] = w
                                        \/ Serving(w)
        /\ engine.command = b => ackedBefore[b] \subseteq ingested

\* The inductive invariant.
BarrierInvariant ==
    /\ PlacesOK
    /\ AckedOnTheWay
    /\ AckedBeforeStays
    /\ SentWasChecked
    /\ AckedAhead
    /\ BarrierBehindAckedWrites

(* What makes QueuedIsCounted inductive.                                   *)

\* A write in the channel or with the engine was acknowledged and has not
\* been released.
UnderWay(w) == pc[w] = "acked" /\ w \notin released

\* Each acknowledged write is in one place only: once in the channel, or with
\* the engine, or released.
OnePlace ==
    /\ \A i \in 1..Len(channel) : channel[i] \in Writes =>
          /\ UnderWay(channel[i])
          /\ channel[i] # engine.command
          /\ \A j \in 1..Len(channel) : channel[j] = channel[i] => j = i
    /\ engine.command \in Writes => UnderWay(engine.command)
    /\ released \subseteq Acked

\* A write is released after it is published, and published after it is
\* ingested.
PublishedFirst ==
    /\ released \subseteq published
    /\ published \subseteq ingested
    /\ engine.command \in Writes =>
          /\ engine.at \in {"ran", "published"} => engine.command \in ingested
          /\ engine.at = "published" => engine.command \in published

\* The write that takes the queue over the bound is alone in it.
AloneOverBound == queued > MaxQueued => \E w \in Writes : Counted = {w}

\* The inductive invariant.
QueueInvariant ==
    /\ TypeOK
    /\ OnePlace
    /\ PublishedFirst
    /\ IsFiniteSet(SamplesOf(Counted))
    /\ QueuedIsCounted
    /\ AloneOverBound

=============================================================================
