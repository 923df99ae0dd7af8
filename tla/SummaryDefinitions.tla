-------------------------- MODULE SummaryDefinitions --------------------------
(***************************************************************************)
(* How a plan becomes the stored summaries of the data plane: Sds::from_plan*)
(* (sds.rs) and what Engine::new does with it (engine.rs).                 *)
(*                                                                         *)
(* The stored outputs are read one by one and merged into definitions, by  *)
(* definition id, label constraints and pane width.  The definitions are   *)
(* linked to the ones their builders read and put in build order by a      *)
(* depth-first search, one call or return of `visit' a step.  The data     *)
(* plane starts if nothing is refused on the way.                          *)
(***************************************************************************)
EXTENDS Integers, Sequences, FiniteSets

CONSTANTS
    DagNodes,       \* the nodes of the plan's DAG
    Plans,          \* the plans that may be read
    MaxInt,         \* the largest i64 of milliseconds
    OverflowChecks, \* TRUE in a debug build: arithmetic that overflows panics
    NoForward,      \* the flag --no-forward
    None

\* The smallest one.
MinInt == -MaxInt - 1

Key == [id : Nat, labels : Nat, pane : Int]

\* A stored output of a plan.  windows are the TimeRange nodes of its raw
\* sample windows, reads the nodes of the stored outputs it is built from.
Output == [node : Nat, id : Nat, labels : Nat, boxes : Nat,
           from : MinInt..MaxInt, to : MinInt..MaxInt, leftOpen : BOOLEAN,
           windows : SUBSET Nat, reads : SUBSET Nat,
           built : {"ingestion_run", "query_run"}, retention : Nat]

\* A plan keys its stored outputs by node.  A query is the set of the stored
\* outputs it reads.
IsPlan(p) ==
    /\ p.outputs \in Seq(Output)
    /\ \A i, j \in 1..Len(p.outputs) :
          p.outputs[i].node = p.outputs[j].node => i = j
    /\ p.queries \subseteq SUBSET DagNodes

ASSUME PlansAssumption == \A p \in Plans : IsPlan(p)

ASSUME IntAssumption ==
    /\ MaxInt \in Nat \ {0}
    /\ OverflowChecks \in BOOLEAN /\ NoForward \in BOOLEAN

\* Why from_plan refuses an output.
OutputRefusals ==
    {"unknown node", "not one box", "no left-open interval", "several windows",
     "no input", "panic", "retention overflow"}

\* Why the build order is refused.
OrderRefusals == {"cycle", "ingestion reads query run"}

ASSUME NoneAssumption == None \notin OutputRefusals \cup OrderRefusals

VARIABLES
    plan,
    read,           \* how many stored outputs were read
    definitions,    \* Sds.definitions: key -> definition
    outputs,        \* Sds.outputs: node -> its key and binding
    inputs,         \* from_plan: node -> nodes of the stored outputs it reads
    stack,          \* the calls of visit that have not returned
    visited,        \* the keys visit was called with
    order,          \* ingestion_build_order so far, QueryRun ones included
    phase,
    refusal         \* why the data plane does not start, or None

vars == <<plan, read, definitions, outputs, inputs, stack, visited, order,
          phase, refusal>>

----------------------------------------------------------------------------
(* Reading one stored output.                                              *)

Wrap(n) == IF n > MaxInt THEN n - (MaxInt - MinInt + 1) ELSE n

\* end - start, in i64
WidthOf(o) == Wrap(o.to - o.from)

KeyOf(o) == [id |-> o.id, labels |-> o.labels, pane |-> WidthOf(o)]

\* The TimeRange a definition reads, or None.
WindowOf(o) == IF o.windows = {} THEN None ELSE CHOOSE w \in o.windows : TRUE

\* The first thing about output o that from_plan refuses, or None.
RefusalOf(o) ==
    CASE o.node \notin DagNodes -> "unknown node"
      [] o.boxes # 1 -> "not one box"
      [] ~(o.leftOpen /\ o.from < o.to) -> "no left-open interval"
      [] Cardinality(o.windows) > 1 -> "several windows"
      [] o.windows = {} /\ o.reads = {} -> "no input"
      [] OverflowChecks /\ o.to - o.from > MaxInt -> "panic"
      [] o.retention > MaxInt -> "retention overflow"
      [] OTHER -> None

FirstDefinition(o) ==
    [built |-> o.built, builder |-> o.node, window |-> WindowOf(o),
     retention |-> o.retention, reads |-> {}]

\* (mutant) the window stays that of the first output read
MergedKeepingWindow(d, o) ==
    [d EXCEPT !.built = IF o.built = "ingestion_run" THEN o.built ELSE @,
              !.builder = IF o.node < @ THEN o.node ELSE @,
              !.retention = IF o.retention > @ THEN o.retention ELSE @]

\* Definition d with one more of its outputs: an IngestionRun wins, the
\* first output in node order builds, the longest retention is kept.
Merged(d, o) ==
    [d EXCEPT !.built = IF o.built = "ingestion_run" THEN o.built ELSE @,
              !.builder = IF o.node < @ THEN o.node ELSE @,
              !.window = IF o.node < d.builder THEN WindowOf(o) ELSE @,
              !.retention = IF o.retention > @ THEN o.retention ELSE @]

\* f with x mapped to y
With(f, x, y) == [z \in DOMAIN f \cup {x} |-> IF z = x THEN y ELSE f[z]]

BindingOf(o) ==
    [key |-> KeyOf(o), offset |-> -o.to,
     rawInput |-> IF o.windows = {} THEN o.node ELSE WindowOf(o)]

\* (mutant) the error does not end the reading
RefuseAndGoOn(why) == phase' = phase /\ refusal' = why

Refuse(why) == phase' = "ended" /\ refusal' = why

ReadOutput ==
    /\ phase = "reading" /\ read < Len(plan.outputs)
    /\ LET o == plan.outputs[read + 1]
           k == KeyOf(o)
       IN  \/ /\ RefusalOf(o) # None
              /\ Refuse(RefusalOf(o))
              /\ UNCHANGED <<read, definitions, outputs, inputs>>
           \/ /\ RefusalOf(o) = None
              /\ read' = read + 1
              /\ definitions' = With(definitions, k,
                     IF k \in DOMAIN definitions THEN Merged(definitions[k], o)
                     ELSE FirstDefinition(o))
              /\ outputs' = With(outputs, o.node, BindingOf(o))
              /\ inputs' = With(inputs, o.node, o.reads)
              /\ UNCHANGED <<phase, refusal>>
    /\ UNCHANGED <<plan, stack, visited, order>>

\* The definitions that the builder of definition k reads.
ReadBy(k) == {outputs[n].key : n \in inputs[definitions[k].builder]}

\* link_stored_inputs
LinkStoredInputs ==
    /\ phase = "reading" /\ read = Len(plan.outputs)
    /\ \/ /\ \A k \in DOMAIN definitions :
                inputs[definitions[k].builder] \subseteq DOMAIN outputs
          /\ definitions' = [k \in DOMAIN definitions |->
                [definitions[k] EXCEPT !.reads = ReadBy(k)]]
          /\ phase' = "ordering"
          /\ UNCHANGED refusal
       \/ /\ \E k \in DOMAIN definitions :
                ~(inputs[definitions[k].builder] \subseteq DOMAIN outputs)
          /\ Refuse("unknown node")
          /\ UNCHANGED definitions
    /\ UNCHANGED <<plan, read, outputs, inputs, stack, visited, order>>

----------------------------------------------------------------------------
(* ingestion_build_order.                                                  *)

\* The order of the map of definitions.
Before(k, l) ==
    \/ k.id < l.id
    \/ k.id = l.id /\ k.labels < l.labels
    \/ k.id = l.id /\ k.labels = l.labels /\ k.pane < l.pane

Least(keys) == CHOOSE k \in keys : \A l \in keys \ {k} : Before(k, l)

Call(k) == [key |-> k, left |-> definitions[k].reads]
Top == stack[Len(stack)]
Below == SubSeq(stack, 1, Len(stack) - 1)

Visiting == {stack[i].key : i \in 1..Len(stack)}

Ordered == {order[i] : i \in 1..Len(order)}

\* visit is called with the next definition that it has not been called with.
VisitRoot ==
    /\ phase = "ordering" /\ stack = <<>>
    /\ DOMAIN definitions \ visited # {}
    /\ LET k == Least(DOMAIN definitions \ visited)
       IN  stack' = <<Call(k)>> /\ visited' = visited \cup {k}
    /\ UNCHANGED <<plan, read, definitions, outputs, inputs, order, phase, refusal>>

IngestionReadsQueryRun(k, input) ==
    /\ definitions[k].built = "ingestion_run"
    /\ definitions[input].built = "query_run"

\* (mutant) a definition that was visited is a cycle, done or not
InCycleWhenSeen(input) == input \in visited

\* The input is being visited: the calls on the stack lead back to it.
InCycle(input) == input \in Visiting

\* The innermost call of visit takes its next input.
VisitInput ==
    /\ phase = "ordering" /\ stack # <<>> /\ Top.left # {}
    /\ LET input == Least(Top.left)
           taken == Append(Below, [Top EXCEPT !.left = @ \ {input}])
       IN  \/ /\ IngestionReadsQueryRun(Top.key, input)
              /\ Refuse("ingestion reads query run")
              /\ UNCHANGED <<stack, visited>>
           \/ /\ ~IngestionReadsQueryRun(Top.key, input)
              /\ InCycle(input)
              /\ Refuse("cycle")
              /\ UNCHANGED <<stack, visited>>
           \/ /\ ~IngestionReadsQueryRun(Top.key, input)
              /\ ~InCycle(input)
              /\ stack' = IF input \in visited THEN taken
                          ELSE Append(taken, Call(input))
              /\ visited' = visited \cup {input}
              /\ UNCHANGED <<phase, refusal>>
    /\ UNCHANGED <<plan, read, definitions, outputs, inputs, order>>

\* (mutant) the newest definition goes to the front
Prepended(k) == <<k>> \o order

Appended(k) == Append(order, k)

\* The innermost call of visit returns.
VisitReturns ==
    /\ phase = "ordering" /\ stack # <<>> /\ Top.left = {}
    /\ order' = Appended(Top.key)
    /\ stack' = Below
    /\ UNCHANGED <<plan, read, definitions, outputs, inputs, visited, phase, refusal>>

----------------------------------------------------------------------------
(* Starting the engine.                                                    *)

\* The definitions a Precompute builds.
BuiltByPrecompute ==
    {k \in Ordered : definitions[k].built = "ingestion_run"}

\* (mutant) the pane width is not looked at
BuildableOfAnyWidth(k) == definitions[k].reads = {} /\ definitions[k].window # None

\* SummaryBuild::new compiles definition k.
Buildable(k) ==
    definitions[k].reads = {} /\ k.pane > 0 /\ definitions[k].window # None

\* A query that reads a QueryRun definition that does not build.
Unexecutable(q) ==
    \E n \in q \cap DOMAIN outputs :
        /\ definitions[outputs[n].key].built = "query_run"
        /\ ~Buildable(outputs[n].key)

Start ==
    /\ phase = "ordering" /\ stack = <<>> /\ DOMAIN definitions \subseteq visited
    /\ \/ /\ NoForward /\ \E q \in plan.queries : Unexecutable(q)
          /\ Refuse("unexecutable query")
       \/ /\ ~(NoForward /\ \E q \in plan.queries : Unexecutable(q))
          /\ \/ /\ \E k \in BuiltByPrecompute : ~Buildable(k)
                /\ Refuse("definition")
             \/ /\ \A k \in BuiltByPrecompute : Buildable(k)
                /\ phase' = "started"
                /\ UNCHANGED refusal
    /\ UNCHANGED <<plan, read, definitions, outputs, inputs, stack, visited, order>>

Init ==
    /\ plan \in Plans
    /\ read = 0
    /\ definitions = <<>>
    /\ outputs = <<>>
    /\ inputs = <<>>
    /\ stack = <<>>
    /\ visited = {}
    /\ order = <<>>
    /\ phase = "reading"
    /\ refusal = None

Next ==
    \/ ReadOutput \/ LinkStoredInputs
    \/ VisitRoot \/ VisitInput \/ VisitReturns
    \/ Start

Spec == Init /\ [][Next]_vars

----------------------------------------------------------------------------
(* Properties.                                                             *)

Definition == [built : {"ingestion_run", "query_run"}, builder : Nat,
               window : Nat \cup {None}, retention : 0..MaxInt,
               reads : SUBSET Key]

\* The type invariant.
TypeOK ==
    /\ IsPlan(plan)
    /\ read \in 0..Len(plan.outputs)
    /\ DOMAIN definitions \subseteq Key
    /\ \A k \in DOMAIN definitions : /\ definitions[k] \in Definition
                                     /\ definitions[k].reads \subseteq DOMAIN definitions
    /\ DOMAIN outputs = DOMAIN inputs
    /\ \A n \in DOMAIN outputs : /\ outputs[n].key \in DOMAIN definitions
                                 /\ outputs[n].offset \in MinInt..MaxInt
    /\ visited \subseteq DOMAIN definitions
    /\ stack \in Seq([key : visited, left : SUBSET DOMAIN definitions])
    /\ \A i \in 1..Len(stack) : stack[i].left \subseteq definitions[stack[i].key].reads
    /\ order \in Seq(visited)
    /\ phase \in {"reading", "ordering", "started", "ended"}

\* The outputs of definition k that were read.
OutputsOf(k) == {plan.outputs[i] : i \in {i \in 1..read : KeyOf(plan.outputs[i]) = k}}

\* What a definition is does not depend on the order in which the plan lists
\* its outputs: it is built at ingestion when any output says so, by the
\* first output in node order, from that output's own window, and kept for
\* the longest retention (sds.rs, the fields of SummaryDefinition).
DefinitionsAreMerged ==
    /\ DOMAIN definitions = {KeyOf(plan.outputs[i]) : i \in 1..read}
    /\ \A k \in DOMAIN definitions :
          LET d == definitions[k]
              all == OutputsOf(k)
          IN  /\ d.built = "ingestion_run" <=> \E o \in all : o.built = "ingestion_run"
              /\ \E o \in all : /\ o.node = d.builder
                                /\ d.window = WindowOf(o)
                                /\ \A p \in all : o.node <= p.node
              /\ \E o \in all : /\ o.retention = d.retention
                                /\ \A p \in all : p.retention <= o.retention

\* What the definitions of a whole plan read.
ReadsOf(k) ==
    LET all == {plan.outputs[i] : i \in {i \in 1..Len(plan.outputs) :
                                           KeyOf(plan.outputs[i]) = k}}
        builder == CHOOSE o \in all : \A p \in all : o.node <= p.node
    IN  {KeyOf(plan.outputs[i]) : i \in {i \in 1..Len(plan.outputs) :
                                           plan.outputs[i].node \in builder.reads}}

\* No definition reads itself, directly or through others: every set of
\* definitions has one that reads none of the set.
Acyclic ==
    \A S \in SUBSET DOMAIN definitions :
        S # {} => \E k \in S : ReadsOf(k) \cap S = {}

NoIngestionReadsQueryRun ==
    \A k \in DOMAIN definitions : \A l \in ReadsOf(k) : ~IngestionReadsQueryRun(k, l)

\* The search ends with an order exactly when there is one: a diamond is no
\* cycle, a definition two levels down that is built in a QueryRun is found,
\* and a plan is refused only for what is in it.
OrderedIffOrderable ==
    /\ refusal \in OrderRefusals =>
          ~(Acyclic /\ NoIngestionReadsQueryRun)
    /\ phase = "started" => Acyclic /\ NoIngestionReadsQueryRun

\* "Each after every definition it reads": the build order holds every
\* definition once, and what a definition reads comes before it, so that
\* an ingestion run finds its inputs built.
BuiltAfterItsInputs ==
    /\ \A i, j \in 1..Len(order) : order[i] = order[j] => i = j
    /\ \A i \in 1..Len(order) : \A k \in definitions[order[i]].reads :
          \E j \in 1..(i - 1) : order[j] = k
    /\ phase = "started" => Ordered = DOMAIN definitions

\* A data plane that started has no pane whose width overflowed: every
\* definition it builds at ingestion, and with --no-forward every one a
\* query reads, covers panes as wide as each of its outputs says.
StartedWidthsAreTrue ==
    phase = "started" =>
        \A k \in DOMAIN definitions :
            \/ /\ definitions[k].built = "query_run"
               /\ NoForward => \A q \in plan.queries : \A n \in q \cap DOMAIN outputs :
                                  outputs[n].key # k
            \/ \A o \in OutputsOf(k) : k.pane = o.to - o.from

\* Reading any plan ends, cyclic ones included: the data plane starts or
\* says why it does not.
EveryPlanIsAnswered == <>(phase \in {"started", "ended"})

(* What makes these inductive.                                             *)

\* Every output read so far was accepted, and is found by its node.
ReadIsKept ==
    /\ DOMAIN outputs = {plan.outputs[i].node : i \in 1..read}
    /\ \A i \in 1..read :
          LET o == plan.outputs[i]
          IN  /\ RefusalOf(o) = None
              /\ outputs[o.node] = BindingOf(o)
              /\ inputs[o.node] = o.reads

\* The search starts when the whole plan is read and linked, and a refusal
\* ends it.
PhasesInOrder ==
    /\ phase = "reading" => stack = <<>> /\ visited = {} /\ order = <<>>
    /\ phase \in {"ordering", "started"} =>
          /\ read = Len(plan.outputs)
          /\ \A k \in DOMAIN definitions : definitions[k].reads = ReadsOf(k)
    /\ refusal \in OrderRefusals => phase = "ended"

\* The calls on the stack are a path of the graph of definitions, and what a
\* call has taken of its inputs is ordered or is the next call.
StackIsPath ==
    /\ \A i, j \in 1..Len(stack) : stack[i].key = stack[j].key => i = j
    /\ \A i \in 1..Len(stack) - 1 : stack[i + 1].key \in definitions[stack[i].key].reads
    /\ \A i \in 1..Len(stack) : \A k \in definitions[stack[i].key].reads \ stack[i].left :
          /\ ~IngestionReadsQueryRun(stack[i].key, k)
          /\ k \in Ordered \/ (i < Len(stack) /\ stack[i + 1].key = k)

\* A definition visited is either on the stack or ordered, and what an
\* ordered one reads was looked at.
VisitedOnce ==
    /\ visited = Visiting \cup Ordered
    /\ Visiting \cap Ordered = {}
    /\ \A k \in Ordered : \A l \in definitions[k].reads : ~IngestionReadsQueryRun(k, l)

\* What was checked before the engine started.
StartedAreBuildable ==
    phase = "started" =>
        /\ \A k \in BuiltByPrecompute : Buildable(k)
        /\ NoForward => \A q \in plan.queries : ~Unexecutable(q)

\* The inductive invariant.
PlanInvariant ==
    /\ TypeOK
    /\ DefinitionsAreMerged
    /\ ReadIsKept
    /\ PhasesInOrder
    /\ StackIsPath
    /\ VisitedOnce
    /\ BuiltAfterItsInputs
    /\ OrderedIffOrderable
    /\ StartedAreBuildable

=============================================================================
