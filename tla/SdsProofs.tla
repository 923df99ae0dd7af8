------------------------------- MODULE SdsProofs -------------------------------
(***************************************************************************)
(* What holds of the stored summaries of any plan: their definitions do    *)
(* not depend on the order of the plan, the search ends with an order      *)
(* exactly when there is one, an engine that started covers the panes its  *)
(* plan says, and the nested maps of the store implement a table of panes  *)
(* per definition.                                                         *)
(***************************************************************************)
EXTENDS Sds, SequenceTheorems, NaturalsInduction, WellFoundedInduction, TLAPS

----------------------------------------------------------------------------
(* The order of the map of definitions.                                    *)

LEMMA LeastNatural ==
    ASSUME NEW T \in SUBSET Nat, T # {}
    PROVE  \E m \in T : \A n \in T : m <= n
<1>1. IsWellFoundedOn(OpToRel(<, Nat), Nat)
  BY NatLessThanWellFounded
<1>2. IsWellFoundedOn({ss \in Nat \X Nat : ss[1] < ss[2]}, Nat)
  BY <1>1 DEF OpToRel
<1>3. PICK m \in T : \A n \in T : ~(<<n, m>> \in {ss \in Nat \X Nat : ss[1] < ss[2]})
  BY <1>2, WFMin, Zenon
<1>4. \A n \in T : ~(n < m)
  BY <1>3
<1> QED
  BY <1>4

\* The keys of definitions: a width is at least MinInt.
Keys == {k \in Key : k.pane >= MinInt}

\* Any keys have a least one, and Least gives it.
LEMMA LeastIsOne ==
    ASSUME NEW keys \in SUBSET Keys, keys # {}
    PROVE  Least(keys) \in keys
<1>1. MinInt \in Int
  BY IntAssumption DEF MinInt
<1>2. \A k \in keys : /\ k.id \in Nat /\ k.labels \in Nat /\ k.pane \in Int
                      /\ k.pane - MinInt \in Nat
                      /\ k = [id |-> k.id, labels |-> k.labels, pane |-> k.pane]
  BY <1>1 DEF Keys, Key
<1> DEFINE ids == {k.id : k \in keys}
<1>3. PICK i \in ids : \A j \in ids : i <= j
  <2>1. ids \in SUBSET Nat /\ ids # {}
    BY <1>2
  <2> HIDE DEF ids
  <2> QED
    BY <2>1, LeastNatural
<1> DEFINE labels == {k.labels : k \in {k \in keys : k.id = i}}
<1>4. PICK l \in labels : \A j \in labels : l <= j
  <2>1. labels \in SUBSET Nat /\ labels # {}
    BY <1>2, <1>3
  <2> HIDE DEF labels
  <2> QED
    BY <2>1, LeastNatural
<1> DEFINE panes == {k.pane - MinInt : k \in {k \in keys : k.id = i /\ k.labels = l}}
<1>5. PICK p \in panes : \A j \in panes : p <= j
  <2>1. panes \in SUBSET Nat /\ panes # {}
    BY <1>2, <1>4
  <2> HIDE DEF panes
  <2> QED
    BY <2>1, LeastNatural
<1>6. PICK k \in keys : k.id = i /\ k.labels = l /\ p = k.pane - MinInt
  BY <1>5
<1>7. ASSUME NEW j \in keys \ {k} PROVE Before(k, j)
  <2>1. i <= j.id
    BY <1>3, <1>7
  <2>2. j.id = i => l <= j.labels
    BY <1>4, <1>7
  <2>3. j.id = i /\ j.labels = l => p <= j.pane - MinInt
    BY <1>5, <1>7
  <2>4. ~(j.id = k.id /\ j.labels = k.labels /\ j.pane = k.pane)
    BY <1>2, <1>7
  <2>5. /\ j.id \in Nat /\ j.labels \in Nat /\ j.pane \in Int
        /\ k.id \in Nat /\ k.labels \in Nat /\ k.pane \in Int
    BY <1>2, <1>7
  <2> HIDE DEF ids, labels, panes
  <2> QED
    BY <1>1, <1>6, <2>1, <2>2, <2>3, <2>4, <2>5 DEF Before
<1>8. \E m \in keys : \A j \in keys \ {m} : Before(m, j)
  BY <1>7
<1> QED
  BY <1>8 DEF Least

----------------------------------------------------------------------------
(* The plan's outputs.                                                     *)

\* What an accepted output is.
LEMMA Accepted ==
    ASSUME NEW o \in Output, RefusalOf(o) = None
    PROVE  /\ KeyOf(o) \in Keys
           /\ o.from < o.to
           /\ -o.to \in MinInt..MaxInt
           /\ o.retention \in 0..MaxInt
           /\ WindowOf(o) \in Nat \cup {None}
           /\ WidthOf(o) > 0 => WidthOf(o) = o.to - o.from
<1>1. MaxInt \in Nat \ {0} /\ MinInt = -MaxInt - 1
  BY IntAssumption DEF MinInt
<1>2. o.leftOpen /\ o.from < o.to /\ ~(o.retention > MaxInt)
  BY NoneAssumption DEF RefusalOf, OutputRefusals
<1>3. /\ o.from \in MinInt..MaxInt /\ o.to \in MinInt..MaxInt
      /\ o.id \in Nat /\ o.labels \in Nat /\ o.retention \in Nat
      /\ o.windows \subseteq Nat
  BY DEF Output
<1>4. WidthOf(o) = IF o.to - o.from > MaxInt
                   THEN (o.to - o.from) - (MaxInt - MinInt + 1) ELSE o.to - o.from
  BY DEF WidthOf, Wrap
<1>5. WidthOf(o) \in Int /\ WidthOf(o) >= MinInt
  BY <1>1, <1>2, <1>3, <1>4
<1>6. WidthOf(o) > 0 => WidthOf(o) = o.to - o.from
  BY <1>1, <1>2, <1>3, <1>4
<1>7. KeyOf(o) \in Keys
  BY <1>3, <1>5 DEF KeyOf, Keys, Key
<1>8. WindowOf(o) \in Nat \cup {None}
  BY <1>3 DEF WindowOf
<1> QED
  BY <1>1, <1>2, <1>3, <1>6, <1>7, <1>8


\* What the invariant says of the outputs read.
LEMMA ReadFacts ==
    ASSUME PlanInvariant
    PROVE  /\ plan.outputs \in Seq(Output) /\ Len(plan.outputs) \in Nat
           /\ read \in 0..Len(plan.outputs)
           /\ \A i \in 1..Len(plan.outputs) : plan.outputs[i] \in Output
           /\ \A i, j \in 1..Len(plan.outputs) :
                 plan.outputs[i].node = plan.outputs[j].node => i = j
           /\ \A i \in 1..read : /\ plan.outputs[i] \in Output
                                 /\ RefusalOf(plan.outputs[i]) = None
           /\ DOMAIN definitions \subseteq Keys
           /\ DOMAIN definitions = {KeyOf(plan.outputs[i]) : i \in 1..read}
<1>1. /\ plan.outputs \in Seq(Output) /\ Len(plan.outputs) \in Nat
      /\ read \in 0..Len(plan.outputs)
      /\ \A i, j \in 1..Len(plan.outputs) :
            plan.outputs[i].node = plan.outputs[j].node => i = j
  BY DEF PlanInvariant, TypeOK, IsPlan
<1>2. \A i \in 1..Len(plan.outputs) : plan.outputs[i] \in Output
  BY <1>1
<1>3. \A i \in 1..read : i \in 1..Len(plan.outputs)
  BY <1>1
<1>4. \A i \in 1..read : RefusalOf(plan.outputs[i]) = None
  BY DEF PlanInvariant, ReadIsKept
<1>5. DOMAIN definitions = {KeyOf(plan.outputs[i]) : i \in 1..read}
  BY DEF PlanInvariant, DefinitionsAreMerged
<1>6. \A i \in 1..read : KeyOf(plan.outputs[i]) \in Keys
  BY <1>2, <1>3, <1>4, Accepted
<1> QED
  BY <1>1, <1>2, <1>3, <1>4, <1>5, <1>6

\* A definition with one more output.
LEMMA MergedFacts ==
    ASSUME NEW d \in Definition, NEW o \in Output, RefusalOf(o) = None
    PROVE  LET m == Merged(d, o)
           IN  /\ m \in Definition
               /\ m.built = IF o.built = "ingestion_run" THEN "ingestion_run" ELSE d.built
               /\ m.builder = IF o.node < d.builder THEN o.node ELSE d.builder
               /\ m.window = IF o.node < d.builder THEN WindowOf(o) ELSE d.window
               /\ m.retention = IF o.retention > d.retention THEN o.retention ELSE d.retention
               /\ m.reads = d.reads
<1>1. WindowOf(o) \in Nat \cup {None} /\ o.retention \in 0..MaxInt
  BY Accepted
<1>2. o.node \in Nat /\ o.built \in {"ingestion_run", "query_run"}
  BY DEF Output
<1> DEFINE m == Merged(d, o)
<1>3. m.built = IF o.built = "ingestion_run" THEN "ingestion_run" ELSE d.built
  BY DEF Merged, Definition
<1>4. m.builder = IF o.node < d.builder THEN o.node ELSE d.builder
  BY DEF Merged, Definition
<1>5. m.window = IF o.node < d.builder THEN WindowOf(o) ELSE d.window
  BY DEF Merged, Definition
<1>6. m.retention = IF o.retention > d.retention THEN o.retention ELSE d.retention
  BY DEF Merged, Definition
<1>7. m.reads = d.reads
  BY DEF Merged, Definition
<1>8. m \in Definition
  BY <1>1, <1>2 DEF Merged, Definition
<1> QED
  BY <1>3, <1>4, <1>5, <1>6, <1>7, <1>8

LEMMA FirstFacts ==
    ASSUME NEW o \in Output, RefusalOf(o) = None
    PROVE  FirstDefinition(o) \in Definition
<1>1. WindowOf(o) \in Nat \cup {None} /\ o.retention \in 0..MaxInt
  BY Accepted
<1> QED
  BY <1>1 DEF FirstDefinition, Definition, Output

\* An accepted output is merged into its definition, and leaves the others.
LEMMA MergeKeeps ==
    ASSUME PlanInvariant, phase = "reading", read < Len(plan.outputs),
           NEW o, o = plan.outputs[read + 1], RefusalOf(o) = None,
           NEW k, k = KeyOf(o),
           read' = read + 1, plan' = plan,
           definitions' = With(definitions, k,
               IF k \in DOMAIN definitions THEN Merged(definitions[k], o)
               ELSE FirstDefinition(o))
    PROVE  /\ DefinitionsAreMerged'
           /\ DOMAIN definitions' = DOMAIN definitions \cup {k}
           /\ \A l \in DOMAIN definitions' :
                 /\ definitions'[l] \in Definition
                 /\ definitions'[l].reads \subseteq DOMAIN definitions'
<1>1. /\ read \in Nat /\ o \in Output
      /\ DOMAIN definitions = {KeyOf(plan.outputs[i]) : i \in 1..read}
      /\ 1..read' = 1..read \cup {read + 1}
  BY ReadFacts
<1>2. \A l \in DOMAIN definitions : /\ definitions[l] \in Definition
                                    /\ definitions[l].reads \subseteq DOMAIN definitions
  BY DEF PlanInvariant, TypeOK
<1>3. DOMAIN definitions' = DOMAIN definitions \cup {k}
  BY DEF With
<1>4. \A l \in DOMAIN definitions : l # k => definitions'[l] = definitions[l]
  BY DEF With
<1>5. definitions'[k] = IF k \in DOMAIN definitions THEN Merged(definitions[k], o)
                        ELSE FirstDefinition(o)
  BY DEF With
<1>6. DOMAIN definitions' = {KeyOf(plan.outputs[i]) : i \in 1..read'}
  BY <1>1, <1>3
<1>7. \A l : l # k => OutputsOf(l)' = OutputsOf(l)
  BY <1>1 DEF OutputsOf
<1>8. OutputsOf(k)' = OutputsOf(k) \cup {o}
  BY <1>1 DEF OutputsOf
<1>9. k \notin DOMAIN definitions => OutputsOf(k) = {}
  BY <1>1 DEF OutputsOf
<1>10. \A l : OutputsOf(l) \subseteq Output
  BY ReadFacts DEF OutputsOf
<1> DEFINE Fits(d, all) ==
      /\ d.built = "ingestion_run" <=> \E p \in all : p.built = "ingestion_run"
      /\ \E p \in all : /\ p.node = d.builder
                        /\ d.window = WindowOf(p)
                        /\ \A q \in all : p.node <= q.node
      /\ \E p \in all : /\ p.retention = d.retention
                        /\ \A q \in all : q.retention <= p.retention
<1>11. \A l \in DOMAIN definitions : Fits(definitions[l], OutputsOf(l))
  BY DEF PlanInvariant, DefinitionsAreMerged
<1>12. Fits(definitions'[k], OutputsOf(k) \cup {o}) /\ definitions'[k] \in Definition
  <2>1. CASE k \notin DOMAIN definitions
    <3>1. definitions'[k] = FirstDefinition(o) /\ OutputsOf(k) \cup {o} = {o}
      BY <1>5, <1>9, <2>1
    <3>2. FirstDefinition(o) \in Definition /\ o.node \in Nat /\ o.retention \in Nat
      BY <1>1, FirstFacts DEF Output
    <3>3. Fits(FirstDefinition(o), {o})
      BY <3>2 DEF FirstDefinition
    <3> QED
      BY <3>1, <3>2, <3>3
  <2>2. CASE k \in DOMAIN definitions
    <3> DEFINE d == definitions[k]
               all == OutputsOf(k)
               m == definitions'[k]
    <3>1. d \in Definition /\ Fits(d, all) /\ all \subseteq Output
      BY <1>2, <1>10, <1>11, <2>2
    <3>2. /\ m \in Definition
          /\ m.built = IF o.built = "ingestion_run" THEN "ingestion_run" ELSE d.built
          /\ m.builder = IF o.node < d.builder THEN o.node ELSE d.builder
          /\ m.window = IF o.node < d.builder THEN WindowOf(o) ELSE d.window
          /\ m.retention = IF o.retention > d.retention THEN o.retention ELSE d.retention
      <4>1. d \in Definition /\ o \in Output
        BY <1>1, <1>2, <2>2
      <4>2. m = Merged(d, o)
        BY <1>5, <2>2
      <4> HIDE DEF d, m
      <4> QED
        BY <4>1, <4>2, MergedFacts
    <3>3. /\ \A q \in all : q.node \in Nat /\ q.retention \in Nat
          /\ o.node \in Nat /\ o.retention \in Nat
      BY <1>1, <3>1 DEF Output
    <3> HIDE DEF d, all, m
    <3>4. m.built = "ingestion_run" <=> \E p \in all \cup {o} : p.built = "ingestion_run"
      BY <3>1, <3>2
    <3>5. \E p \in all \cup {o} : /\ p.node = m.builder
                                  /\ m.window = WindowOf(p)
                                  /\ \A q \in all \cup {o} : p.node <= q.node
      <4>1. PICK p \in all : /\ p.node = d.builder
                             /\ d.window = WindowOf(p)
                             /\ \A q \in all : p.node <= q.node
        BY <3>1
      <4>2. CASE o.node < d.builder
        <5>1. \A q \in all \cup {o} : o.node <= q.node
          BY <3>3, <4>1, <4>2
        <5> QED
          BY <3>2, <4>2, <5>1
      <4>3. CASE ~(o.node < d.builder)
        <5>1. \A q \in all \cup {o} : p.node <= q.node
          BY <3>3, <4>1, <4>3
        <5> QED
          BY <3>2, <4>1, <4>3, <5>1
      <4> QED
        BY <4>2, <4>3
    <3>6. \E p \in all \cup {o} : /\ p.retention = m.retention
                                  /\ \A q \in all \cup {o} : q.retention <= p.retention
      <4>1. PICK p \in all : /\ p.retention = d.retention
                             /\ \A q \in all : q.retention <= p.retention
        BY <3>1
      <4>2. CASE o.retention > d.retention
        <5>1. \A q \in all \cup {o} : q.retention <= o.retention
          BY <3>3, <4>1, <4>2
        <5> QED
          BY <3>2, <4>2, <5>1
      <4>3. CASE ~(o.retention > d.retention)
        <5>1. \A q \in all \cup {o} : q.retention <= p.retention
          BY <3>3, <4>1, <4>3
        <5> QED
          BY <3>2, <4>1, <4>3, <5>1
      <4> QED
        BY <4>2, <4>3
    <3> QED
      BY <3>2, <3>4, <3>5, <3>6 DEF all, m
  <2> QED
    BY <2>1, <2>2
<1>13. \A l \in DOMAIN definitions' : Fits(definitions'[l], IF l = k THEN OutputsOf(k) \cup {o}
                                                             ELSE OutputsOf(l))
  <2>1. ASSUME NEW l \in DOMAIN definitions, l # k PROVE Fits(definitions'[l], OutputsOf(l))
    <3>1. definitions'[l] = definitions[l]
      BY <1>4, <2>1
    <3> HIDE DEF Fits
    <3> QED
      BY <1>11, <2>1, <3>1
  <2> HIDE DEF Fits
  <2> QED
    BY <1>3, <1>12, <2>1
<1>14. \A l \in DOMAIN definitions' :
          OutputsOf(l)' = IF l = k THEN OutputsOf(k) \cup {o} ELSE OutputsOf(l)
  BY <1>7, <1>8
<1>15. DefinitionsAreMerged'
  BY <1>6, <1>13, <1>14 DEF DefinitionsAreMerged
<1>16. \A l \in DOMAIN definitions' : /\ definitions'[l] \in Definition
                                      /\ definitions'[l].reads \subseteq DOMAIN definitions'
  <2>1. definitions'[k].reads \subseteq DOMAIN definitions
    <3>1. k \in DOMAIN definitions => definitions'[k].reads = definitions[k].reads
      BY <1>1, <1>2, <1>5, MergedFacts
    <3>2. k \notin DOMAIN definitions => definitions'[k].reads = {}
      BY <1>5 DEF FirstDefinition
    <3> QED
      BY <1>2, <3>1, <3>2
  <2>2. \A l \in DOMAIN definitions : l # k =>
           /\ definitions'[l] \in Definition
           /\ definitions'[l].reads \subseteq DOMAIN definitions
    BY <1>2, <1>4
  <2>3. definitions'[k] \in Definition
    BY <1>12
  <2> QED
    BY <1>3, <2>1, <2>2, <2>3
<1> QED
  BY <1>3, <1>15, <1>16


----------------------------------------------------------------------------
(* Reading and linking keep the invariant.                                 *)

\* Before the search there is nothing on the stack and nothing ordered.
LEMMA NothingSearched ==
    ASSUME stack' = <<>>, visited' = {}, order' = <<>>, phase' # "started"
    PROVE  StackIsPath' /\ VisitedOnce' /\ BuiltAfterItsInputs'
<1>1. Len(stack') = 0 /\ Len(order') = 0
  OBVIOUS
<1>2. Visiting' = {} /\ Ordered' = {}
  BY <1>1 DEF Visiting, Ordered
<1> QED
  BY <1>1, <1>2 DEF StackIsPath, VisitedOnce, BuiltAfterItsInputs

\* Why an output is refused is never why an order is.
LEMMA OutputRefusal ==
    ASSUME NEW o \in Output
    PROVE  RefusalOf(o) \in OutputRefusals \cup {None} /\ RefusalOf(o) \notin OrderRefusals
  BY NoneAssumption DEF RefusalOf, OutputRefusals, OrderRefusals

\* What was merged stays so when no output is read.
LEMMA MergedStay ==
    ASSUME DefinitionsAreMerged, UNCHANGED <<plan, read>>,
           DOMAIN definitions' = DOMAIN definitions,
           \A k \in DOMAIN definitions :
              /\ definitions'[k].built = definitions[k].built
              /\ definitions'[k].builder = definitions[k].builder
              /\ definitions'[k].window = definitions[k].window
              /\ definitions'[k].retention = definitions[k].retention
    PROVE  DefinitionsAreMerged'
<1>1. \A k : OutputsOf(k)' = OutputsOf(k)
  BY DEF OutputsOf
<1>2. DOMAIN definitions = {KeyOf(plan.outputs[i]) : i \in 1..read}
  BY DEF DefinitionsAreMerged
<1>3. ASSUME NEW k \in DOMAIN definitions
      PROVE  LET d == definitions'[k]
                 all == OutputsOf(k)
             IN  /\ d.built = "ingestion_run" <=> \E o \in all : o.built = "ingestion_run"
                 /\ \E o \in all : /\ o.node = d.builder
                                   /\ d.window = WindowOf(o)
                                   /\ \A p \in all : o.node <= p.node
                 /\ \E o \in all : /\ o.retention = d.retention
                                   /\ \A p \in all : p.retention <= o.retention
  BY <1>3 DEF DefinitionsAreMerged
<1> QED
  BY <1>1, <1>2, <1>3 DEF DefinitionsAreMerged

LEMMA ReadKeeps ==
    ASSUME PlanInvariant, ReadOutput
    PROVE  PlanInvariant'
<1> DEFINE o == plan.outputs[read + 1]
           k == KeyOf(o)
<1>1. /\ phase = "reading" /\ read < Len(plan.outputs)
      /\ UNCHANGED <<plan, stack, visited, order>>
      /\ stack = <<>> /\ visited = {} /\ order = <<>>
  BY DEF ReadOutput, PlanInvariant, PhasesInOrder
<1>2. /\ read \in Nat /\ read + 1 \in 1..Len(plan.outputs)
      /\ o \in Output
      /\ \A i \in 1..read : i \in 1..Len(plan.outputs)
      /\ \A i \in 1..read : plan.outputs[i].node # o.node
  BY <1>1, ReadFacts
<1>3. IsPlan(plan)'
  BY <1>1 DEF PlanInvariant, TypeOK, IsPlan
<1>4. CASE RefusalOf(o) # None
  <2>1. /\ phase' = "ended" /\ refusal' = RefusalOf(o)
        /\ UNCHANGED <<read, definitions, outputs, inputs>>
    BY <1>4 DEF ReadOutput, Refuse
  <2>2. refusal' \notin OrderRefusals
    BY <1>2, <2>1, OutputRefusal
  <2>3. StackIsPath' /\ VisitedOnce' /\ BuiltAfterItsInputs'
    BY <1>1, <2>1, NothingSearched
  <2>4. TypeOK'
    BY <1>1, <1>3, <2>1 DEF PlanInvariant, TypeOK
  <2>5. DefinitionsAreMerged' /\ ReadIsKept'
    BY <1>1, <2>1, MergedStay DEF PlanInvariant, ReadIsKept
  <2>6. PhasesInOrder' /\ OrderedIffOrderable' /\ StartedAreBuildable'
    BY <2>1, <2>2 DEF PhasesInOrder, OrderedIffOrderable, StartedAreBuildable
  <2> QED
    BY <2>3, <2>4, <2>5, <2>6 DEF PlanInvariant
<1>5. CASE RefusalOf(o) = None
  <2>1. /\ read' = read + 1
        /\ definitions' = With(definitions, k,
               IF k \in DOMAIN definitions THEN Merged(definitions[k], o)
               ELSE FirstDefinition(o))
        /\ outputs' = With(outputs, o.node, BindingOf(o))
        /\ inputs' = With(inputs, o.node, o.reads)
        /\ UNCHANGED <<phase, refusal>>
    BY <1>5 DEF ReadOutput
  <2> HIDE DEF o, k
  <2>2. /\ DefinitionsAreMerged'
        /\ DOMAIN definitions' = DOMAIN definitions \cup {k}
        /\ \A l \in DOMAIN definitions' :
              /\ definitions'[l] \in Definition
              /\ definitions'[l].reads \subseteq DOMAIN definitions'
    BY <1>1, <1>5, <2>1, MergeKeeps DEF o, k
  <2>3. StackIsPath' /\ VisitedOnce' /\ BuiltAfterItsInputs'
    BY <1>1, <2>1, NothingSearched
  <2>4. PhasesInOrder' /\ OrderedIffOrderable' /\ StartedAreBuildable'
    <3>1. phase' = "reading" /\ refusal' \notin OrderRefusals
      BY <1>1, <2>1 DEF PlanInvariant, PhasesInOrder
    <3> QED
      BY <1>1, <3>1 DEF PhasesInOrder, OrderedIffOrderable, StartedAreBuildable
  <2>5. /\ DOMAIN outputs' = DOMAIN outputs \cup {o.node}
        /\ DOMAIN inputs' = DOMAIN inputs \cup {o.node}
        /\ outputs'[o.node] = BindingOf(o)
        /\ inputs'[o.node] = o.reads
        /\ \A n \in DOMAIN outputs : n # o.node => outputs'[n] = outputs[n]
        /\ \A n \in DOMAIN inputs : n # o.node => inputs'[n] = inputs[n]
    BY <2>1 DEF With
  <2>6. DOMAIN outputs = {plan.outputs[i].node : i \in 1..read} /\ DOMAIN inputs = DOMAIN outputs
    BY DEF PlanInvariant, ReadIsKept, TypeOK
  <2>7. 1..read' = 1..read \cup {read + 1}
    BY <1>2, <2>1
  <2>8. ReadIsKept'
    <3>1. DOMAIN outputs' = {plan.outputs[i].node : i \in 1..read'}
      BY <2>5, <2>6, <2>7 DEF o
    <3>2. \A i \in 1..read :
             /\ RefusalOf(plan.outputs[i]) = None
             /\ outputs'[plan.outputs[i].node] = BindingOf(plan.outputs[i])
             /\ inputs'[plan.outputs[i].node] = plan.outputs[i].reads
      BY <1>2, <2>5, <2>6 DEF PlanInvariant, ReadIsKept
    <3>3. \A i \in 1..read' :
             /\ RefusalOf(plan.outputs[i]) = None
             /\ outputs'[plan.outputs[i].node] = BindingOf(plan.outputs[i])
             /\ inputs'[plan.outputs[i].node] = plan.outputs[i].reads
      BY <1>5, <2>5, <2>7, <3>2 DEF o
    <3> QED
      BY <1>1, <3>1, <3>3 DEF ReadIsKept
  <2>9. TypeOK'
    <3>1. BindingOf(o).key \in DOMAIN definitions' /\ BindingOf(o).offset \in MinInt..MaxInt
      BY <1>2, <1>5, <2>2, Accepted DEF BindingOf, k
    <3>2. \A n \in DOMAIN outputs' : /\ outputs'[n].key \in DOMAIN definitions'
                                     /\ outputs'[n].offset \in MinInt..MaxInt
      BY <2>2, <2>5, <3>1 DEF PlanInvariant, TypeOK
    <3>3. DOMAIN definitions' \subseteq Key
      <4>1. k \in Key
        BY <1>2, <1>5, Accepted DEF Keys, k
      <4> QED
        BY <2>2, <4>1 DEF PlanInvariant, TypeOK
    <3>4. /\ stack' \in Seq([key : visited', left : SUBSET DOMAIN definitions'])
          /\ order' \in Seq(visited')
          /\ visited' \subseteq DOMAIN definitions'
          /\ Len(stack') = 0
      BY <1>1
    <3>5. read' \in 0..Len(plan'.outputs) /\ phase' = "reading"
      BY <1>1, <1>2, <2>1
    <3>6. DOMAIN outputs' = DOMAIN inputs'
      BY <2>5, <2>6
    <3> QED
      BY <1>3, <2>2, <3>2, <3>3, <3>4, <3>5, <3>6 DEF TypeOK
  <2> QED
    BY <2>2, <2>3, <2>4, <2>8, <2>9 DEF PlanInvariant
<1> QED
  BY <1>4, <1>5

\* What a definition that is linked reads is what its builder reads in the
\* plan.
LEMMA LinkedReads ==
    ASSUME PlanInvariant, read = Len(plan.outputs),
           NEW k \in DOMAIN definitions,
           inputs[definitions[k].builder] \subseteq DOMAIN outputs
    PROVE  ReadBy(k) = ReadsOf(k) /\ ReadBy(k) \subseteq DOMAIN definitions
<1> DEFINE all == OutputsOf(k)
<1>1. all = {plan.outputs[i] : i \in {i \in 1..Len(plan.outputs) : KeyOf(plan.outputs[i]) = k}}
  BY DEF OutputsOf
<1>2. /\ \A i \in 1..read : plan.outputs[i] \in Output
      /\ \A i, j \in 1..read : plan.outputs[i].node = plan.outputs[j].node => i = j
  BY ReadFacts
<1>3. PICK o \in all : /\ o.node = definitions[k].builder
                       /\ \A p \in all : o.node <= p.node
  BY DEF PlanInvariant, DefinitionsAreMerged
<1>4. \A p \in all : p.node \in Nat
  BY <1>2 DEF OutputsOf, Output
<1>5. \A p, q \in all : p.node = q.node => p = q
  BY <1>2 DEF OutputsOf
<1> DEFINE builder == CHOOSE p \in all : \A q \in all : p.node <= q.node
<1>6. builder = o
  <2> HIDE DEF all
  <2>1. builder \in all /\ \A q \in all : builder.node <= q.node
    BY <1>3
  <2>2. builder.node <= o.node /\ o.node <= builder.node
    BY <1>3, <2>1
  <2>3. builder.node = o.node
    BY <1>3, <1>4, <2>1, <2>2
  <2> QED
    BY <1>3, <1>5, <2>1, <2>3
<1>7. ReadsOf(k) = {KeyOf(plan.outputs[i]) : i \in {i \in 1..Len(plan.outputs) :
                                              plan.outputs[i].node \in builder.reads}}
  BY <1>1 DEF ReadsOf
<1>8. PICK b \in 1..read : o = plan.outputs[b]
  BY <1>3 DEF OutputsOf
<1> HIDE DEF builder, all
<1>9. inputs[definitions[k].builder] = o.reads
  BY <1>3, <1>8 DEF PlanInvariant, ReadIsKept
<1>10. ReadsOf(k) = {KeyOf(plan.outputs[i]) : i \in {i \in 1..read : plan.outputs[i].node \in o.reads}}
  BY <1>6, <1>7
<1>11. ReadBy(k) = {outputs[n].key : n \in o.reads}
  BY <1>9 DEF ReadBy
<1>12. o.reads \subseteq {plan.outputs[i].node : i \in 1..read}
  BY <1>9 DEF PlanInvariant, ReadIsKept
<1>13. \A i \in 1..read : outputs[plan.outputs[i].node].key = KeyOf(plan.outputs[i])
  <2>1. ASSUME NEW i \in 1..read PROVE outputs[plan.outputs[i].node] = BindingOf(plan.outputs[i])
    BY DEF PlanInvariant, ReadIsKept
  <2>2. ASSUME NEW o1 PROVE BindingOf(o1).key = KeyOf(o1)
    BY DEF BindingOf
  <2> QED
    BY <2>1, <2>2
<1>14. ReadBy(k) = ReadsOf(k)
  BY <1>10, <1>11, <1>12, <1>13
<1>15. ReadsOf(k) \subseteq DOMAIN definitions
  BY <1>10, ReadFacts
<1> QED
  BY <1>14, <1>15

LEMMA LinkKeeps ==
    ASSUME PlanInvariant, LinkStoredInputs
    PROVE  PlanInvariant'
<1>1. /\ phase = "reading" /\ read = Len(plan.outputs)
      /\ UNCHANGED <<plan, read, outputs, inputs, stack, visited, order>>
      /\ stack = <<>> /\ visited = {} /\ order = <<>>
  BY DEF LinkStoredInputs, PlanInvariant, PhasesInOrder
<1>2. IsPlan(plan)' /\ refusal \notin OrderRefusals
  BY <1>1 DEF PlanInvariant, TypeOK, IsPlan, PhasesInOrder
<1>3. CASE phase' = "ended"
  <2>1. refusal' = "unknown node" /\ UNCHANGED definitions
    BY <1>3 DEF LinkStoredInputs, Refuse
  <2>2. refusal' \notin OrderRefusals
    BY <2>1 DEF OrderRefusals
  <2>3. StackIsPath' /\ VisitedOnce' /\ BuiltAfterItsInputs'
    BY <1>1, <1>3, NothingSearched
  <2>4. TypeOK'
    BY <1>1, <1>2, <1>3, <2>1 DEF PlanInvariant, TypeOK
  <2>5. DefinitionsAreMerged' /\ ReadIsKept'
    BY <1>1, <2>1, MergedStay DEF PlanInvariant, ReadIsKept
  <2>6. PhasesInOrder' /\ OrderedIffOrderable' /\ StartedAreBuildable'
    BY <1>3, <2>2 DEF PhasesInOrder, OrderedIffOrderable, StartedAreBuildable
  <2> QED
    BY <2>3, <2>4, <2>5, <2>6 DEF PlanInvariant
<1>4. CASE phase' # "ended"
  <2>1. /\ \A k \in DOMAIN definitions : inputs[definitions[k].builder] \subseteq DOMAIN outputs
        /\ definitions' = [k \in DOMAIN definitions |->
              [definitions[k] EXCEPT !.reads = ReadBy(k)]]
        /\ phase' = "ordering" /\ refusal' = refusal
    BY <1>4 DEF LinkStoredInputs, Refuse
  <2>2. \A k \in DOMAIN definitions : /\ ReadBy(k) = ReadsOf(k)
                                      /\ ReadBy(k) \subseteq DOMAIN definitions
    BY <1>1, <2>1, LinkedReads
  <2>3. \A k \in DOMAIN definitions : definitions[k] \in Definition
    BY DEF PlanInvariant, TypeOK
  <2>4. ASSUME NEW k \in DOMAIN definitions
        PROVE  /\ definitions'[k] \in Definition
               /\ definitions'[k].reads = ReadBy(k)
               /\ definitions'[k].built = definitions[k].built
               /\ definitions'[k].builder = definitions[k].builder
               /\ definitions'[k].window = definitions[k].window
               /\ definitions'[k].retention = definitions[k].retention
    <3>1. definitions'[k] = [definitions[k] EXCEPT !.reads = ReadBy(k)]
      BY <2>1
    <3>2. definitions[k] \in Definition /\ ReadBy(k) \in SUBSET Key
      BY <2>2, <2>3 DEF PlanInvariant, TypeOK
    <3> QED
      BY <3>1, <3>2 DEF Definition
  <2>5. DOMAIN definitions' = DOMAIN definitions
    BY <2>1
  <2>6. StackIsPath' /\ VisitedOnce' /\ BuiltAfterItsInputs'
    BY <1>1, <2>1, NothingSearched
  <2>7. DefinitionsAreMerged'
    BY <1>1, <2>4, <2>5, MergedStay DEF PlanInvariant
  <2>8. ReadIsKept'
    BY <1>1 DEF PlanInvariant, ReadIsKept
  <2>9. TypeOK'
    <3>1. /\ stack' \in Seq([key : visited', left : SUBSET DOMAIN definitions'])
          /\ order' \in Seq(visited')
          /\ visited' \subseteq DOMAIN definitions'
          /\ Len(stack') = 0
      BY <1>1
    <3> QED
      BY <1>1, <1>2, <2>1, <2>2, <2>4, <2>5, <3>1 DEF PlanInvariant, TypeOK
  <2>10. PhasesInOrder'
    <3>1. \A k \in DOMAIN definitions : ReadsOf(k)' = ReadsOf(k)
      BY <1>1 DEF ReadsOf
    <3> QED
      BY <1>1, <1>2, <2>1, <2>2, <2>4, <2>5, <3>1 DEF PhasesInOrder
  <2>11. OrderedIffOrderable' /\ StartedAreBuildable'
    BY <1>2, <2>1 DEF OrderedIffOrderable, StartedAreBuildable
  <2> QED
    BY <2>6, <2>7, <2>8, <2>9, <2>10, <2>11 DEF PlanInvariant
<1> QED
  BY <1>3, <1>4


----------------------------------------------------------------------------
(* The search keeps the invariant.                                         *)

\* What only the reading changes.
LEMMA PlanStays ==
    ASSUME PlanInvariant, UNCHANGED <<plan, read, definitions, outputs, inputs>>
    PROVE  /\ DefinitionsAreMerged' /\ ReadIsKept'
           /\ \A k : ReadsOf(k)' = ReadsOf(k)
           /\ \A k, l : IngestionReadsQueryRun(k, l)' = IngestionReadsQueryRun(k, l)
           /\ (visited' \subseteq DOMAIN definitions
               /\ stack' \in Seq([key : visited', left : SUBSET DOMAIN definitions])
               /\ (\A i \in 1..Len(stack') :
                      stack'[i].left \subseteq definitions[stack'[i].key].reads)
               /\ order' \in Seq(visited')
               /\ phase' \in {"reading", "ordering", "started", "ended"}) => TypeOK'
<1>1. DefinitionsAreMerged' /\ ReadIsKept'
  BY MergedStay DEF PlanInvariant, ReadIsKept
<1>2. \A k : ReadsOf(k)' = ReadsOf(k)
  BY DEF ReadsOf
<1>3. \A k, l : IngestionReadsQueryRun(k, l)' = IngestionReadsQueryRun(k, l)
  BY DEF IngestionReadsQueryRun
<1>4. IsPlan(plan)'
  BY DEF PlanInvariant, TypeOK, IsPlan
<1> QED
  BY <1>1, <1>2, <1>3, <1>4 DEF PlanInvariant, TypeOK

\* The phase stays the search.
LEMMA SearchGoesOn ==
    ASSUME PlanInvariant, phase = "ordering",
           UNCHANGED <<plan, read, definitions, outputs, inputs, phase, refusal>>
    PROVE  PhasesInOrder' /\ OrderedIffOrderable' /\ StartedAreBuildable'
<1>1. \A k : ReadsOf(k)' = ReadsOf(k)
  BY PlanStays
<1>2. refusal \notin OrderRefusals
  BY DEF PlanInvariant, PhasesInOrder
<1> QED
  BY <1>1, <1>2 DEF PlanInvariant, PhasesInOrder, OrderedIffOrderable, StartedAreBuildable

\* The calls on the stack.
LEMMA StackFacts ==
    ASSUME PlanInvariant, stack # <<>>
    PROVE  LET Frame == [key : visited, left : SUBSET DOMAIN definitions]
           IN  /\ Len(stack) \in Nat /\ Len(stack) >= 1
               /\ \A i \in 1..Len(stack) : stack[i] \in Frame
               /\ Top = stack[Len(stack)] /\ Top \in Frame
               /\ Top.key \in visited /\ Top.key \in DOMAIN definitions
               /\ Top.left \subseteq definitions[Top.key].reads
               /\ Below \in Seq(Frame)
               /\ Len(Below) = Len(stack) - 1
               /\ \A i \in 1..Len(stack) - 1 : Below[i] = stack[i]
<1> DEFINE Frame == [key : visited, left : SUBSET DOMAIN definitions]
<1>1. stack \in Seq(Frame) /\ visited \subseteq DOMAIN definitions
  BY DEF PlanInvariant, TypeOK
<1>2. Len(stack) \in Nat /\ Len(stack) >= 1
  <2> HIDE DEF Frame
  <2> QED
    BY <1>1
<1>3. \A i \in 1..Len(stack) : stack[i] \in Frame
  <2> HIDE DEF Frame
  <2> QED
    BY <1>1
<1>4. Top = stack[Len(stack)] /\ Top \in Frame
  <2> HIDE DEF Frame
  <2> QED
    BY <1>2, <1>3 DEF Top
<1>5. Top.left \subseteq definitions[Top.key].reads
  BY <1>2 DEF PlanInvariant, TypeOK, Top
<1>6. /\ Below \in Seq(Frame)
      /\ Len(Below) = Len(stack) - 1
      /\ \A i \in 1..Len(stack) - 1 : Below[i] = stack[i]
  <2> DEFINE n == Len(stack) - 1
  <2> HIDE DEF Frame
  <2>1. n \in Int /\ n >= 0 /\ \A i \in 1..n : stack[i] \in Frame
    BY <1>2, <1>3
  <2>2. /\ SubSeq(stack, 1, n) \in Seq(Frame)
        /\ Len(SubSeq(stack, 1, n)) = IF 1 <= n THEN n - 1 + 1 ELSE 0
        /\ \A i \in 1..n - 1 + 1 : SubSeq(stack, 1, n)[i] = stack[1 + i - 1]
    <3> HIDE DEF n
    <3> QED
      BY <2>1, SubSeqProperties
  <2>3. \A i \in 1..n : i \in 1..n - 1 + 1 /\ 1 + i - 1 = i
    BY <2>1
  <2>4. Below = SubSeq(stack, 1, n)
    BY DEF Below
  <2>5. Len(Below) = n
    <3>1. Len(Below) = IF 1 <= n THEN n - 1 + 1 ELSE 0
      BY <2>2, <2>4
    <3> HIDE DEF n
    <3> QED
      BY <2>1, <3>1
  <2>6. ASSUME NEW i \in 1..n PROVE Below[i] = stack[i]
    <3>1. SubSeq(stack, 1, n)[i] = stack[1 + i - 1] /\ 1 + i - 1 = i
      BY <2>2, <2>3
    <3> QED
      BY <2>4, <3>1
  <2> QED
    BY <2>2, <2>4, <2>5, <2>6
<1> QED
  BY <1>1, <1>2, <1>3, <1>4, <1>5, <1>6

\* Keys of definitions have a least one.
LEMMA LeastOfDefinitions ==
    ASSUME PlanInvariant, NEW keys \in SUBSET DOMAIN definitions, keys # {}
    PROVE  Least(keys) \in keys
  BY ReadFacts, LeastIsOne

LEMMA RootKeeps ==
    ASSUME PlanInvariant, VisitRoot
    PROVE  PlanInvariant'
<1> DEFINE k == Least(DOMAIN definitions \ visited)
           call == Call(k)
<1>1. /\ phase = "ordering" /\ stack = <<>>
      /\ DOMAIN definitions \ visited # {}
      /\ stack' = <<call>> /\ visited' = visited \cup {k}
      /\ UNCHANGED <<plan, read, definitions, outputs, inputs, order, phase, refusal>>
  BY DEF VisitRoot
<1>2. k \in DOMAIN definitions \ visited
  BY <1>1, LeastOfDefinitions
<1>3. /\ call = [key |-> k, left |-> definitions[k].reads]
      /\ definitions[k].reads \subseteq DOMAIN definitions
  BY <1>2 DEF Call, PlanInvariant, TypeOK
<1> HIDE DEF k, call
<1>4. call \in [key : visited', left : SUBSET DOMAIN definitions]
  BY <1>1, <1>3
<1>5. Len(stack') = 1 /\ stack'[1] = call
  BY <1>1
<1>6. stack' \in Seq([key : visited', left : SUBSET DOMAIN definitions])
  BY <1>1, <1>4
<1>7. visited' \subseteq DOMAIN definitions /\ order' \in Seq(visited')
  <2>1. visited \subseteq DOMAIN definitions /\ order \in Seq(visited)
    BY DEF PlanInvariant, TypeOK
  <2>2. order \in Seq(visited')
    BY <1>1, <2>1
  <2> QED
    BY <1>1, <1>2, <2>1, <2>2
<1>8. TypeOK' /\ DefinitionsAreMerged' /\ ReadIsKept'
  BY <1>1, <1>3, <1>5, <1>6, <1>7, PlanStays
<1>9. PhasesInOrder' /\ OrderedIffOrderable' /\ StartedAreBuildable'
  BY <1>1, SearchGoesOn
<1>10. StackIsPath'
  BY <1>1, <1>3, <1>5 DEF StackIsPath
<1>11. Visiting = {} /\ Ordered' = Ordered /\ Visiting' = {k}
  BY <1>1, <1>3, <1>5 DEF Visiting, Ordered
<1>12. VisitedOnce'
  <2>1. \A i, j : IngestionReadsQueryRun(i, j)' = IngestionReadsQueryRun(i, j)
    BY <1>1, PlanStays
  <2> QED
    BY <1>1, <1>2, <1>11, <2>1 DEF PlanInvariant, VisitedOnce
<1>13. BuiltAfterItsInputs'
  <2>1. BuiltAfterItsInputs
    BY DEF PlanInvariant
  <2>2. phase' # "started" /\ order' = order /\ definitions' = definitions
    BY <1>1
  <2> QED
    BY <2>1, <2>2 DEF BuiltAfterItsInputs
<1> QED
  BY <1>8, <1>9, <1>10, <1>12, <1>13 DEF PlanInvariant


\* A cycle that the search runs into is one: each call on the stack reads
\* the next, and the innermost reads the one it leads back to.
LEMMA CycleIsOne ==
    ASSUME PlanInvariant, phase = "ordering", stack # <<>>,
           NEW input \in Top.left, InCycle(input)
    PROVE  ~Acyclic
<1>1. /\ Len(stack) \in Nat /\ Len(stack) >= 1
      /\ Top = stack[Len(stack)]
      /\ Top.left \subseteq definitions[Top.key].reads
      /\ \A i \in 1..Len(stack) : stack[i].key \in DOMAIN definitions
  <2>1. \A i \in 1..Len(stack) : stack[i].key \in visited
    BY StackFacts
  <2> QED
    BY <2>1, StackFacts DEF PlanInvariant, TypeOK
<1>2. PICK j \in 1..Len(stack) : stack[j].key = input
  BY DEF InCycle, Visiting
<1> DEFINE S == {stack[i].key : i \in j..Len(stack)}
<1>3. \A i \in j..Len(stack) : i \in 1..Len(stack)
  BY <1>1, <1>2
<1>4. S \in SUBSET DOMAIN definitions
  BY <1>1, <1>3
<1>5. input \in S
  BY <1>1, <1>2
<1>6. ASSUME NEW i \in j..Len(stack) PROVE ReadsOf(stack[i].key) \cap S # {}
  <2>1. ReadsOf(stack[i].key) = definitions[stack[i].key].reads
    BY <1>1, <1>3, <1>6 DEF PlanInvariant, PhasesInOrder
  <2>2. CASE i = Len(stack)
    <3>1. input \in definitions[stack[i].key].reads
      BY <1>1, <2>2
    <3> HIDE DEF S
    <3> QED
      BY <1>5, <2>1, <3>1
  <2>3. CASE i # Len(stack)
    <3>1. i \in 1..Len(stack) - 1 /\ i + 1 \in j..Len(stack)
      BY <1>1, <1>2, <1>6, <2>3
    <3>2. stack[i + 1].key \in definitions[stack[i].key].reads
      BY <3>1 DEF PlanInvariant, StackIsPath
    <3>3. stack[i + 1].key \in S
      BY <3>1
    <3> HIDE DEF S
    <3> QED
      BY <2>1, <3>2, <3>3
  <2> QED
    BY <2>2, <2>3
<1>7. \A k \in S : ReadsOf(k) \cap S # {}
  BY <1>6
<1> HIDE DEF S
<1> QED
  BY <1>4, <1>5, <1>7 DEF Acyclic

\* An order that is refused is refused for a reason.
LEMMA RefusalKeeps ==
    ASSUME PlanInvariant, phase = "ordering", phase' = "ended",
           refusal' \in OrderRefusals => ~(Acyclic /\ NoIngestionReadsQueryRun),
           UNCHANGED <<plan, read, definitions, outputs, inputs, stack, visited, order>>
    PROVE  PlanInvariant'
<1>1. /\ \A k : ReadsOf(k)' = ReadsOf(k)
      /\ \A k, l : IngestionReadsQueryRun(k, l)' = IngestionReadsQueryRun(k, l)
      /\ DefinitionsAreMerged' /\ ReadIsKept'
  BY PlanStays
<1>2. TypeOK'
  BY PlanStays DEF PlanInvariant, TypeOK
<1>3. Acyclic' = Acyclic /\ NoIngestionReadsQueryRun' = NoIngestionReadsQueryRun
  BY <1>1 DEF Acyclic, NoIngestionReadsQueryRun
<1>4. OrderedIffOrderable' /\ PhasesInOrder' /\ StartedAreBuildable'
  BY <1>3 DEF OrderedIffOrderable, PhasesInOrder, StartedAreBuildable
<1>5. Visiting' = Visiting /\ Ordered' = Ordered
  BY DEF Visiting, Ordered
<1>6. StackIsPath' /\ VisitedOnce'
  BY <1>1, <1>5 DEF PlanInvariant, StackIsPath, VisitedOnce
<1>7. BuiltAfterItsInputs'
  <2>1. BuiltAfterItsInputs
    BY DEF PlanInvariant
  <2> QED
    BY <2>1 DEF BuiltAfterItsInputs
<1> QED
  BY <1>1, <1>2, <1>4, <1>6, <1>7 DEF PlanInvariant

\* The innermost call has taken one input, which was ordered before or is
\* visited next.
LEMMA TakenKeeps ==
    ASSUME PlanInvariant, VisitInput, refusal' = refusal, phase' = "ordering"
    PROVE  PlanInvariant'
<1> DEFINE n == Len(stack)
           top == Top
           input == Least(Top.left)
           rest == [Top EXCEPT !.left = @ \ {input}]
           taken == Append(Below, rest)
<1>1. /\ phase = "ordering" /\ stack # <<>> /\ top.left # {}
      /\ ~IngestionReadsQueryRun(top.key, input)
      /\ ~InCycle(input)
      /\ stack' = IF input \in visited THEN taken ELSE Append(taken, Call(input))
      /\ visited' = visited \cup {input}
      /\ UNCHANGED <<plan, read, definitions, outputs, inputs, order, phase, refusal>>
  BY DEF VisitInput, Refuse
<1>2. /\ n \in Nat /\ n >= 1
      /\ \A i \in 1..n : stack[i] \in [key : visited, left : SUBSET DOMAIN definitions]
      /\ top = stack[n]
      /\ top \in [key : visited, left : SUBSET DOMAIN definitions]
      /\ top.key \in visited /\ top.key \in DOMAIN definitions
      /\ top.left \subseteq definitions[top.key].reads
      /\ Below \in Seq([key : visited, left : SUBSET DOMAIN definitions])
      /\ Len(Below) = n - 1
      /\ \A i \in 1..n - 1 : Below[i] = stack[i]
  BY <1>1, StackFacts
<1>3. definitions[top.key].reads \subseteq DOMAIN definitions
  BY <1>2 DEF PlanInvariant, TypeOK
<1>4. input \in top.left /\ input \in DOMAIN definitions
  <2>1. Top.left \in SUBSET DOMAIN definitions
    BY <1>2
  <2> QED
    BY <1>1, <2>1, LeastOfDefinitions
<1> HIDE DEF n, top, input
<1>5. /\ rest \in [key : visited, left : SUBSET DOMAIN definitions]
      /\ rest.key = top.key /\ rest.left = top.left \ {input}
  BY <1>2 DEF top
<1> HIDE DEF rest
<1>6. /\ taken \in Seq([key : visited, left : SUBSET DOMAIN definitions])
      /\ Len(taken) = n
      /\ \A i \in 1..n - 1 : taken[i] = stack[i]
      /\ taken[n] = rest
  <2> DEFINE Frame == [key : visited, left : SUBSET DOMAIN definitions]
  <2>1. Below \in Seq(Frame) /\ rest \in Frame
    BY <1>2, <1>5
  <2> HIDE DEF Frame
  <2>2. /\ taken \in Seq(Frame)
        /\ Len(taken) = Len(Below) + 1
        /\ \A i \in 1..Len(Below) : taken[i] = Below[i]
        /\ taken[Len(Below) + 1] = rest
    BY <2>1, AppendProperties
  <2>3. Len(Below) = n - 1 /\ n - 1 + 1 = n
    BY <1>2
  <2> HIDE DEF taken
  <2>4. taken \in Seq(Frame) /\ Len(taken) = n /\ taken[n] = rest
    BY <2>2, <2>3
  <2>5. \A i \in 1..n - 1 : taken[i] = stack[i]
    BY <1>2, <2>2, <2>3
  <2> QED
    BY <2>4, <2>5 DEF Frame
<1> HIDE DEF taken
<1>7. /\ \A i \in 1..n : taken[i].key = stack[i].key
      /\ \A i \in 1..n : i \in 1..n - 1 \/ i = n
  <2>1. n \in Nat
    BY <1>2
  <2>2. \A i \in 1..n : i \in 1..n - 1 \/ i = n
    BY <2>1
  <2>3. taken[n].key = stack[n].key
    BY <1>2, <1>5, <1>6
  <2>4. \A i \in 1..n - 1 : taken[i] = stack[i]
    BY <1>6
  <2> QED
    BY <2>2, <2>3, <2>4
<1>8. Ordered' = Ordered /\ input \notin Visiting
  BY <1>1 DEF Ordered, InCycle
<1>9. \A i, j : IngestionReadsQueryRun(i, j)' = IngestionReadsQueryRun(i, j)
  BY <1>1, PlanStays
<1>10. \A i \in 1..n : stack[i].left \subseteq definitions[stack[i].key].reads
  BY DEF PlanInvariant, TypeOK, n
<1>11. \A i \in 1..n : taken[i].left \subseteq definitions[taken[i].key].reads
  BY <1>2, <1>5, <1>6, <1>7, <1>10
<1>12. visited' \subseteq DOMAIN definitions /\ visited \subseteq visited' /\ order' \in Seq(visited')
  <2>1. visited \subseteq DOMAIN definitions /\ order \in Seq(visited)
    BY DEF PlanInvariant, TypeOK
  <2>2. order \in Seq(visited')
    BY <1>1, <2>1
  <2> QED
    BY <1>1, <1>4, <2>1, <2>2
<1>13. PhasesInOrder' /\ OrderedIffOrderable' /\ StartedAreBuildable'
  BY <1>1, SearchGoesOn
<1>14. BuiltAfterItsInputs'
  <2>1. BuiltAfterItsInputs
    BY DEF PlanInvariant
  <2>2. phase' # "started" /\ order' = order /\ definitions' = definitions
    BY <1>1
  <2> QED
    BY <2>1, <2>2 DEF BuiltAfterItsInputs
\* What the calls that were on the stack have taken.
<1>15. ASSUME NEW i \in 1..n, NEW k \in definitions[stack[i].key].reads \ taken[i].left
       PROVE  /\ ~IngestionReadsQueryRun(stack[i].key, k)
              /\ \/ k \in Ordered
                 \/ i < n /\ taken[i + 1].key = k
                 \/ i = n /\ k = input
  <2>1. \A l \in definitions[stack[i].key].reads \ stack[i].left :
           /\ ~IngestionReadsQueryRun(stack[i].key, l)
           /\ l \in Ordered \/ (i < n /\ stack[i + 1].key = l)
    BY DEF PlanInvariant, StackIsPath, n
  <2>2. CASE i = n
    BY <1>1, <1>2, <1>5, <1>6, <1>15, <2>1, <2>2
  <2>3. CASE i # n
    <3>1. i \in 1..n - 1 /\ i < n /\ i + 1 \in 1..n
      BY <1>2, <2>3
    <3>2. taken[i] = stack[i] /\ taken[i + 1].key = stack[i + 1].key
      BY <1>6, <1>7, <3>1
    <3> QED
      BY <1>15, <2>1, <3>1, <3>2
  <2> QED
    BY <2>2, <2>3
<1>16. /\ \A i, j \in 1..n : stack[i].key = stack[j].key => i = j
       /\ \A i \in 1..n - 1 : stack[i + 1].key \in definitions[stack[i].key].reads
  BY DEF PlanInvariant, StackIsPath, n
<1>17. CASE input \in visited
  <2>1. stack' = taken /\ visited' = visited /\ Len(stack') = n
    BY <1>1, <1>6, <1>17
  <2>2. TypeOK' /\ DefinitionsAreMerged' /\ ReadIsKept'
    BY <1>1, <1>6, <1>11, <1>12, <2>1, PlanStays
  <2>3. Visiting' = Visiting
    BY <1>7, <2>1 DEF Visiting, n
  <2>4. VisitedOnce'
    BY <1>1, <1>8, <1>9, <2>1, <2>3 DEF PlanInvariant, VisitedOnce
  <2>5. input \in Ordered
    BY <1>8, <1>17 DEF PlanInvariant, VisitedOnce
  <2>6. StackIsPath'
    <3>1. \A i, j \in 1..n : taken[i].key = taken[j].key => i = j
      BY <1>7, <1>16
    <3>2. ASSUME NEW i \in 1..n - 1 PROVE taken[i + 1].key \in definitions[taken[i].key].reads
      <4>1. i \in 1..n /\ i + 1 \in 1..n
        BY <1>2
      <4> QED
        BY <1>7, <1>16, <4>1
    <3>3. ASSUME NEW i \in 1..n, NEW k \in definitions[taken[i].key].reads \ taken[i].left
          PROVE  /\ ~IngestionReadsQueryRun(taken[i].key, k)
                 /\ k \in Ordered \/ (i < n /\ taken[i + 1].key = k)
      BY <1>7, <1>15, <2>5
    <3> QED
      BY <1>1, <1>8, <1>9, <2>1, <3>1, <3>2, <3>3 DEF StackIsPath
  <2> QED
    BY <1>13, <1>14, <2>2, <2>4, <2>6 DEF PlanInvariant
<1>18. CASE input \notin visited
  <2> DEFINE call == Call(input)
  <2>1. stack' = Append(taken, call)
    BY <1>1, <1>18
  <2>2. /\ call = [key |-> input, left |-> definitions[input].reads]
        /\ definitions[input].reads \subseteq DOMAIN definitions
    BY <1>4 DEF Call, PlanInvariant, TypeOK
  <2> HIDE DEF call
  <2>3. call \in [key : visited', left : SUBSET DOMAIN definitions]
    BY <1>1, <2>2
  <2>4. /\ stack' \in Seq([key : visited', left : SUBSET DOMAIN definitions])
        /\ Len(stack') = n + 1
        /\ \A i \in 1..n : stack'[i] = taken[i]
        /\ stack'[n + 1] = call
    <3> DEFINE Frame == [key : visited', left : SUBSET DOMAIN definitions]
               Earlier == [key : visited, left : SUBSET DOMAIN definitions]
    <3>1. Earlier \subseteq Frame /\ taken \in Seq(Earlier)
      BY <1>6, <1>12
    <3> HIDE DEF Frame, Earlier
    <3>2. taken \in Seq(Frame)
      BY <3>1
    <3>3. call \in Frame
      BY <2>3 DEF Frame
    <3> QED
      BY <1>6, <2>1, <3>2, <3>3, AppendProperties DEF Frame
  <2>5. \A i \in 1..n + 1 : i \in 1..n \/ i = n + 1
    BY <1>2
  <2>6. TypeOK' /\ DefinitionsAreMerged' /\ ReadIsKept'
    <3>1. \A i \in 1..Len(stack') : stack'[i].left \subseteq definitions[stack'[i].key].reads
      BY <1>11, <2>2, <2>4, <2>5
    <3> QED
      BY <1>1, <1>12, <2>4, <3>1, PlanStays
  <2>7. \A i \in 1..n : stack'[i].key = stack[i].key
    BY <1>7, <2>4
  <2>8. stack'[n + 1].key = input /\ n + 1 \in 1..n + 1 /\ 1..n \subseteq 1..n + 1
    BY <1>2, <2>2, <2>4
  <2>9. Visiting' = Visiting \cup {input}
    <3>1. Visiting' = {stack'[i].key : i \in 1..n + 1}
      BY <2>4 DEF Visiting
    <3>2. Visiting = {stack[i].key : i \in 1..n}
      BY DEF Visiting, n
    <3> QED
      BY <2>5, <2>7, <2>8, <3>1, <3>2
  <2>10. VisitedOnce'
    BY <1>1, <1>8, <1>9, <1>18, <2>9 DEF PlanInvariant, VisitedOnce
  <2>11. StackIsPath'
    <3>1. \A i, j \in 1..n + 1 : stack'[i].key = stack'[j].key => i = j
      <4>1. \A i \in 1..n : stack[i].key # input
        BY <1>8 DEF Visiting, n
      <4> QED
        BY <1>16, <2>5, <2>7, <2>8, <4>1
    <3>2. ASSUME NEW i \in 1..n
          PROVE  stack'[i + 1].key \in definitions[stack'[i].key].reads
      <4>1. CASE i = n
        BY <1>2, <1>4, <2>7, <2>8, <4>1
      <4>2. CASE i # n
        <5>1. i \in 1..n - 1 /\ i + 1 \in 1..n
          BY <1>2, <4>2
        <5> QED
          BY <1>16, <2>7, <5>1
      <4> QED
        BY <4>1, <4>2
    <3>3. ASSUME NEW i \in 1..n + 1, NEW k \in definitions[stack'[i].key].reads \ stack'[i].left
          PROVE  /\ ~IngestionReadsQueryRun(stack'[i].key, k)
                 /\ k \in Ordered \/ (i < n + 1 /\ stack'[i + 1].key = k)
      <4>1. CASE i = n + 1
        BY <2>2, <2>4, <3>3, <4>1
      <4>2. CASE i \in 1..n
        <5>1. k \in definitions[stack[i].key].reads \ taken[i].left
          BY <2>4, <2>7, <3>3, <4>2
        <5>2. /\ ~IngestionReadsQueryRun(stack[i].key, k)
              /\ \/ k \in Ordered
                 \/ i < n /\ taken[i + 1].key = k
                 \/ i = n /\ k = input
          BY <1>15, <4>2, <5>1
        <5>3. i < n + 1 /\ (i < n => stack'[i + 1] = taken[i + 1])
          BY <1>2, <2>4, <4>2
        <5>4. i = n => stack'[i + 1].key = input
          BY <2>8
        <5> QED
          BY <2>7, <4>2, <5>2, <5>3, <5>4
      <4> QED
        BY <2>5, <4>1, <4>2
    <3>4. Len(stack') - 1 = n
      BY <1>2, <2>4
    <3> QED
      BY <1>1, <1>8, <1>9, <2>4, <3>1, <3>2, <3>3, <3>4 DEF StackIsPath
  <2> QED
    BY <1>13, <1>14, <2>6, <2>10, <2>11 DEF PlanInvariant
<1> QED
  BY <1>17, <1>18


\* A step of the search that takes an input, or is refused because of it.
LEMMA InputKeeps ==
    ASSUME PlanInvariant, VisitInput
    PROVE  PlanInvariant'
<1> DEFINE input == Least(Top.left)
<1>1. /\ phase = "ordering" /\ stack # <<>> /\ Top.left # {}
      /\ UNCHANGED <<plan, read, definitions, outputs, inputs, order>>
  BY DEF VisitInput
<1>2. /\ Top.key \in DOMAIN definitions
      /\ Top.left \subseteq definitions[Top.key].reads
      /\ definitions[Top.key].reads \subseteq DOMAIN definitions
      /\ definitions[Top.key].reads = ReadsOf(Top.key)
  BY <1>1, StackFacts DEF PlanInvariant, TypeOK, PhasesInOrder
<1>3. input \in Top.left
  <2>1. Top.left \in SUBSET DOMAIN definitions
    BY <1>2
  <2> QED
    BY <1>1, <2>1, LeastOfDefinitions
<1> HIDE DEF input
<1>4. CASE IngestionReadsQueryRun(Top.key, input)
  <2>1. phase' = "ended" /\ UNCHANGED <<stack, visited>>
    BY <1>4 DEF VisitInput, Refuse, input
  <2>2. ~NoIngestionReadsQueryRun
    BY <1>2, <1>3, <1>4 DEF NoIngestionReadsQueryRun
  <2> QED
    BY <1>1, <2>1, <2>2, RefusalKeeps
<1>5. CASE ~IngestionReadsQueryRun(Top.key, input) /\ InCycle(input)
  <2>1. phase' = "ended" /\ UNCHANGED <<stack, visited>>
    BY <1>5 DEF VisitInput, Refuse, input
  <2>2. ~Acyclic
    BY <1>1, <1>3, <1>5, CycleIsOne
  <2> QED
    BY <1>1, <2>1, <2>2, RefusalKeeps
<1>6. CASE ~IngestionReadsQueryRun(Top.key, input) /\ ~InCycle(input)
  BY <1>1, <1>6, TakenKeeps DEF VisitInput, Refuse, input
<1> QED
  BY <1>4, <1>5, <1>6

\* A call returns when all that its definition reads is ordered.
LEMMA ReturnKeeps ==
    ASSUME PlanInvariant, VisitReturns
    PROVE  PlanInvariant'
<1> DEFINE n == Len(stack)
           k == Top.key
           m == Len(order)
<1>1. /\ phase = "ordering" /\ stack # <<>> /\ Top.left = {}
      /\ order' = Append(order, k)
      /\ stack' = Below
      /\ UNCHANGED <<plan, read, definitions, outputs, inputs, visited, phase, refusal>>
  BY DEF VisitReturns, Appended
<1>2. /\ n \in Nat /\ n >= 1
      /\ Top = stack[n] /\ k \in visited /\ k \in DOMAIN definitions
      /\ Below \in Seq([key : visited, left : SUBSET DOMAIN definitions])
      /\ Len(Below) = n - 1
      /\ \A i \in 1..n - 1 : Below[i] = stack[i]
  BY <1>1, StackFacts
<1>3. order \in Seq(visited) /\ visited \subseteq DOMAIN definitions
  BY DEF PlanInvariant, TypeOK
<1> HIDE DEF n, k, m
<1>4. /\ order' \in Seq(visited)
      /\ m \in Nat
      /\ Len(order') = m + 1
      /\ \A i \in 1..m : order'[i] = order[i]
      /\ order'[m + 1] = k
  BY <1>1, <1>2, <1>3, AppendProperties DEF m
<1>5. \A i \in 1..m + 1 : i \in 1..m \/ i = m + 1
  BY <1>4
<1>6. /\ \A i, j \in 1..n : stack[i].key = stack[j].key => i = j
      /\ \A i \in 1..n - 1 : stack[i + 1].key \in definitions[stack[i].key].reads
      /\ \A i \in 1..n : \A l \in definitions[stack[i].key].reads \ stack[i].left :
            /\ ~IngestionReadsQueryRun(stack[i].key, l)
            /\ l \in Ordered \/ (i < n /\ stack[i + 1].key = l)
  BY DEF PlanInvariant, StackIsPath, n
<1>7. n \in 1..n /\ stack[n].key = k /\ stack[n].left = {}
  BY <1>1, <1>2 DEF k
<1>8. \A l \in definitions[k].reads : ~IngestionReadsQueryRun(k, l) /\ l \in Ordered
  BY <1>2, <1>6, <1>7
<1>9. Ordered' = Ordered \cup {k}
  <2>1. Ordered' = {order'[i] : i \in 1..m + 1}
    BY <1>4 DEF Ordered
  <2>2. Ordered = {order[i] : i \in 1..m}
    BY DEF Ordered, m
  <2>3. 1..m \subseteq 1..m + 1 /\ m + 1 \in 1..m + 1
    BY <1>4
  <2> QED
    BY <1>4, <1>5, <2>1, <2>2, <2>3
<1>10. Visiting' = Visiting \ {k} /\ k \in Visiting
  <2>1. Visiting' = {stack'[i].key : i \in 1..n - 1}
    BY <1>1, <1>2 DEF Visiting
  <2>2. Visiting = {stack[i].key : i \in 1..n}
    BY DEF Visiting, n
  <2>3. \A i \in 1..n : i \in 1..n - 1 \/ i = n
    BY <1>2
  <2>4. \A i \in 1..n - 1 : i \in 1..n /\ i # n /\ stack'[i] = stack[i]
    BY <1>1, <1>2
  <2>5. \A i \in 1..n - 1 : stack'[i].key = stack[i].key /\ stack[i].key # k
    BY <1>6, <1>7, <2>4
  <2> QED
    BY <1>7, <2>1, <2>2, <2>3, <2>4, <2>5
<1>11. \A i, j : IngestionReadsQueryRun(i, j)' = IngestionReadsQueryRun(i, j)
  BY <1>1, PlanStays
<1>12. VisitedOnce'
  BY <1>1, <1>8, <1>9, <1>10, <1>11 DEF PlanInvariant, VisitedOnce
<1>13. StackIsPath'
  <2>1. Len(stack') = n - 1 /\ \A i \in 1..n - 1 : i \in 1..n /\ i + 1 \in 1..n /\ stack'[i] = stack[i]
    BY <1>1, <1>2
  <2>2. \A i, j \in 1..n - 1 : stack'[i].key = stack'[j].key => i = j
    BY <1>6, <2>1
  <2>3. ASSUME NEW i \in 1..n - 1 - 1
        PROVE  stack'[i + 1].key \in definitions[stack'[i].key].reads
    <3>1. i \in 1..n - 1 /\ i + 1 \in 1..n - 1
      BY <1>2
    <3> QED
      BY <1>6, <2>1, <3>1
  <2>4. ASSUME NEW i \in 1..n - 1, NEW l \in definitions[stack'[i].key].reads \ stack'[i].left
        PROVE  /\ ~IngestionReadsQueryRun(stack'[i].key, l)
               /\ l \in Ordered' \/ (i < n - 1 /\ stack'[i + 1].key = l)
    <3>1. /\ ~IngestionReadsQueryRun(stack[i].key, l)
          /\ l \in Ordered \/ (i < n /\ stack[i + 1].key = l)
      BY <1>6, <2>1, <2>4
    <3>2. CASE i = n - 1
      <4>1. stack[i + 1].key = k
        BY <1>2, <1>7, <3>2
      <4> QED
        BY <1>9, <2>1, <3>1, <4>1
    <3>3. CASE i # n - 1
      <4>1. i + 1 \in 1..n - 1 /\ i < n - 1
        BY <1>2, <3>3
      <4> QED
        BY <1>9, <2>1, <3>1, <4>1
    <3> QED
      BY <3>2, <3>3
  <2> QED
    BY <1>1, <1>11, <2>1, <2>2, <2>3, <2>4 DEF StackIsPath
<1>14. BuiltAfterItsInputs'
  <2>1. k \notin Ordered
    BY <1>10 DEF PlanInvariant, VisitedOnce
  <2>2. /\ \A i, j \in 1..m : order[i] = order[j] => i = j
        /\ \A i \in 1..m : \A l \in definitions[order[i]].reads : \E j \in 1..(i - 1) : order[j] = l
    BY DEF PlanInvariant, BuiltAfterItsInputs, m
  <2>3. \A i \in 1..m : order[i] # k
    BY <2>1 DEF Ordered, m
  <2>4. \A i, j \in 1..m + 1 : order'[i] = order'[j] => i = j
    BY <1>4, <1>5, <2>2, <2>3
  <2>5. ASSUME NEW i \in 1..m + 1, NEW l \in definitions[order'[i]].reads
        PROVE  \E j \in 1..(i - 1) : order'[j] = l
    <3>1. CASE i \in 1..m
      <4>1. PICK j \in 1..(i - 1) : order[j] = l
        BY <1>4, <2>2, <2>5, <3>1
      <4>2. j \in 1..m
        BY <1>4, <3>1
      <4> QED
        BY <1>4, <4>1, <4>2
    <3>2. CASE i = m + 1
      <4>1. l \in Ordered
        BY <1>4, <1>8, <2>5, <3>2
      <4>2. PICK j \in 1..m : order[j] = l
        BY <4>1 DEF Ordered, m
      <4>3. j \in 1..(i - 1) /\ order'[j] = l
        BY <1>4, <3>2, <4>2
      <4> QED
        BY <4>3
    <3> QED
      BY <1>5, <3>1, <3>2
  <2>6. phase' # "started"
    BY <1>1
  <2> QED
    BY <1>1, <1>4, <2>4, <2>5, <2>6 DEF BuiltAfterItsInputs
<1>15. PhasesInOrder' /\ OrderedIffOrderable' /\ StartedAreBuildable'
  BY <1>1, SearchGoesOn
<1>16. TypeOK' /\ DefinitionsAreMerged' /\ ReadIsKept'
  <2>1. \A i \in 1..Len(stack') : stack'[i].left \subseteq definitions[stack'[i].key].reads
    <3>1. \A i \in 1..n : stack[i].left \subseteq definitions[stack[i].key].reads
      BY DEF PlanInvariant, TypeOK, n
    <3>2. \A i \in 1..n - 1 : i \in 1..n /\ stack'[i] = stack[i]
      BY <1>1, <1>2
    <3>3. Len(stack') = n - 1
      BY <1>1, <1>2
    <3> QED
      BY <3>1, <3>2, <3>3
  <2>2. stack' \in Seq([key : visited', left : SUBSET DOMAIN definitions])
    BY <1>1, <1>2
  <2> QED
    BY <1>1, <1>3, <1>4, <2>1, <2>2, PlanStays
<1> QED
  BY <1>12, <1>13, <1>14, <1>15, <1>16 DEF PlanInvariant

\* An order of all definitions, each after what it reads, has no cycle: of
\* any of them the first in the order reads none of them.
LEMMA OrderIsAcyclic ==
    ASSUME PlanInvariant, phase = "ordering", stack = <<>>,
           DOMAIN definitions \subseteq visited
    PROVE  Ordered = DOMAIN definitions /\ Acyclic /\ NoIngestionReadsQueryRun
<1>1. Visiting = {}
  BY DEF Visiting
<1>2. Ordered = DOMAIN definitions
  BY <1>1 DEF PlanInvariant, VisitedOnce, TypeOK
<1>3. \A k \in DOMAIN definitions : ReadsOf(k) = definitions[k].reads
  BY DEF PlanInvariant, PhasesInOrder
<1>4. NoIngestionReadsQueryRun
  BY <1>2, <1>3 DEF NoIngestionReadsQueryRun, PlanInvariant, VisitedOnce
<1>5. ASSUME NEW S \in SUBSET DOMAIN definitions, S # {}
      PROVE  \E k \in S : ReadsOf(k) \cap S = {}
  <2> DEFINE places == {i \in 1..Len(order) : order[i] \in S}
  <2>1. places \in SUBSET Nat /\ places # {}
    BY <1>2, <1>5 DEF Ordered
  <2>2. PICK i \in places : \A j \in places : i <= j
    <3> HIDE DEF places
    <3> QED
      BY <2>1, LeastNatural
  <2>3. ASSUME NEW l \in ReadsOf(order[i]), l \in S PROVE FALSE
    <3>1. l \in definitions[order[i]].reads
      BY <1>3, <1>5, <2>3
    <3>2. PICK j \in 1..(i - 1) : order[j] = l
      BY <3>1 DEF PlanInvariant, BuiltAfterItsInputs
    <3>3. Len(order) \in Nat
      BY DEF PlanInvariant, TypeOK
    <3>4. j \in places /\ j < i
      BY <2>3, <3>2, <3>3
    <3> QED
      BY <2>2, <3>4
  <2> QED
    BY <2>3
<1>6. Acyclic
  BY <1>5 DEF Acyclic
<1> QED
  BY <1>2, <1>4, <1>6

LEMMA StartKeeps ==
    ASSUME PlanInvariant, Start
    PROVE  PlanInvariant'
<1>1. /\ phase = "ordering" /\ stack = <<>> /\ DOMAIN definitions \subseteq visited
      /\ UNCHANGED <<plan, read, definitions, outputs, inputs, stack, visited, order>>
  BY DEF Start
<1>2. CASE phase' = "ended"
  <2>1. refusal' \notin OrderRefusals
    BY <1>2 DEF Start, Refuse, OrderRefusals
  <2> QED
    BY <1>1, <1>2, <2>1, RefusalKeeps
<1>3. CASE phase' # "ended"
  <2>1. /\ ~(NoForward /\ \E q \in plan.queries : Unexecutable(q))
        /\ \A k \in BuiltByPrecompute : Buildable(k)
        /\ phase' = "started" /\ refusal' = refusal
    BY <1>3 DEF Start, Refuse
  <2>2. /\ \A k : ReadsOf(k)' = ReadsOf(k)
        /\ \A k, l : IngestionReadsQueryRun(k, l)' = IngestionReadsQueryRun(k, l)
        /\ DefinitionsAreMerged' /\ ReadIsKept'
    BY <1>1, PlanStays
  <2>3. TypeOK'
    BY <1>1, <2>1, PlanStays DEF PlanInvariant, TypeOK
  <2>4. Ordered = DOMAIN definitions /\ Acyclic /\ NoIngestionReadsQueryRun
    BY <1>1, OrderIsAcyclic
  <2>5. refusal \notin OrderRefusals
    BY <1>1 DEF PlanInvariant, PhasesInOrder
  <2>6. Acyclic' /\ NoIngestionReadsQueryRun'
    BY <1>1, <2>2, <2>4 DEF Acyclic, NoIngestionReadsQueryRun
  <2>7. OrderedIffOrderable'
    BY <2>1, <2>5, <2>6 DEF OrderedIffOrderable
  <2>8. PhasesInOrder'
    BY <1>1, <2>1, <2>2, <2>5 DEF PlanInvariant, PhasesInOrder
  <2>9. Visiting' = Visiting /\ Ordered' = Ordered
    BY <1>1 DEF Visiting, Ordered
  <2>10. StackIsPath' /\ VisitedOnce'
    BY <1>1, <2>2, <2>9 DEF PlanInvariant, StackIsPath, VisitedOnce
  <2>11. BuiltAfterItsInputs'
    <3>1. BuiltAfterItsInputs
      BY DEF PlanInvariant
    <3> QED
      BY <1>1, <2>4, <2>9, <3>1 DEF BuiltAfterItsInputs
  <2>12. StartedAreBuildable'
    <3>1. BuiltByPrecompute' = BuiltByPrecompute
      BY <1>1, <2>9 DEF BuiltByPrecompute
    <3>2. \A k : Buildable(k)' = Buildable(k)
      BY <1>1 DEF Buildable
    <3>3. \A q : Unexecutable(q)' = Unexecutable(q)
      BY <1>1, <3>2 DEF Unexecutable
    <3> QED
      BY <1>1, <2>1, <3>1, <3>2, <3>3 DEF StartedAreBuildable
  <2> QED
    BY <2>2, <2>3, <2>7, <2>8, <2>10, <2>11, <2>12 DEF PlanInvariant
<1> QED
  BY <1>2, <1>3

\* A step that leaves everything as it is.
LEMMA IdleKeeps ==
    ASSUME PlanInvariant, UNCHANGED vars
    PROVE  PlanInvariant'
<1>1. UNCHANGED <<plan, read, definitions, outputs, inputs, stack, visited, order, phase, refusal>>
  BY DEF vars
<1>2. /\ \A k : ReadsOf(k)' = ReadsOf(k)
      /\ \A k, l : IngestionReadsQueryRun(k, l)' = IngestionReadsQueryRun(k, l)
      /\ DefinitionsAreMerged' /\ ReadIsKept'
  BY <1>1, PlanStays
<1>3. TypeOK'
  BY <1>1, PlanStays DEF PlanInvariant, TypeOK
<1>4. Acyclic' = Acyclic /\ NoIngestionReadsQueryRun' = NoIngestionReadsQueryRun
  BY <1>1, <1>2 DEF Acyclic, NoIngestionReadsQueryRun
<1>5. OrderedIffOrderable' /\ PhasesInOrder'
  BY <1>1, <1>2, <1>4 DEF PlanInvariant, OrderedIffOrderable, PhasesInOrder
<1>6. Visiting' = Visiting /\ Ordered' = Ordered
  BY <1>1 DEF Visiting, Ordered
<1>7. StackIsPath' /\ VisitedOnce'
  BY <1>1, <1>2, <1>6 DEF PlanInvariant, StackIsPath, VisitedOnce
<1>8. BuiltAfterItsInputs'
  <2>1. BuiltAfterItsInputs
    BY DEF PlanInvariant
  <2> QED
    BY <1>1, <1>6, <2>1 DEF BuiltAfterItsInputs
<1>9. StartedAreBuildable'
  <2>1. BuiltByPrecompute' = BuiltByPrecompute
    BY <1>1, <1>6 DEF BuiltByPrecompute
  <2>2. \A k : Buildable(k)' = Buildable(k)
    BY <1>1 DEF Buildable
  <2>3. \A q : Unexecutable(q)' = Unexecutable(q)
    BY <1>1, <2>2 DEF Unexecutable
  <2> QED
    BY <1>1, <2>1, <2>2, <2>3 DEF PlanInvariant, StartedAreBuildable
<1> QED
  BY <1>2, <1>3, <1>5, <1>7, <1>8, <1>9 DEF PlanInvariant

\* Nothing is read at the start.
LEMMA PlanInitHolds ==
    ASSUME Init
    PROVE  PlanInvariant
<1>1. /\ plan \in Plans /\ read = 0 /\ phase = "reading" /\ refusal = None
      /\ definitions = <<>> /\ outputs = <<>> /\ inputs = <<>>
      /\ stack = <<>> /\ visited = {} /\ order = <<>>
  BY DEF Init
<1>2. DOMAIN definitions = {} /\ DOMAIN outputs = {} /\ DOMAIN inputs = {}
  BY <1>1
<1>3. Len(stack) = 0 /\ Len(order) = 0 /\ Visiting = {} /\ Ordered = {}
  BY <1>1 DEF Visiting, Ordered
<1>4. IsPlan(plan) /\ Len(plan.outputs) \in Nat
  BY <1>1, PlansAssumption DEF IsPlan
<1>5. TypeOK
  BY <1>1, <1>2, <1>3, <1>4 DEF TypeOK
<1>6. DefinitionsAreMerged /\ ReadIsKept
  BY <1>1, <1>2 DEF DefinitionsAreMerged, ReadIsKept
<1>7. PhasesInOrder /\ OrderedIffOrderable /\ StartedAreBuildable
  BY <1>1, NoneAssumption DEF PhasesInOrder, OrderedIffOrderable, StartedAreBuildable
<1>8. StackIsPath /\ VisitedOnce /\ BuiltAfterItsInputs
  BY <1>1, <1>3 DEF StackIsPath, VisitedOnce, BuiltAfterItsInputs
<1> QED
  BY <1>5, <1>6, <1>7, <1>8 DEF PlanInvariant

----------------------------------------------------------------------------
(* The theorems on plans.                                                  *)

\* The inductive invariant holds in every state that the reading of any plan
\* reaches.
THEOREM PlanInvariantHolds == Spec => []PlanInvariant
<1>1. Init => PlanInvariant
  BY PlanInitHolds
<1>2. PlanInvariant /\ [Next]_vars => PlanInvariant'
  BY IdleKeeps, ReadKeeps, LinkKeeps, RootKeeps, InputKeeps, ReturnKeeps, StartKeeps DEF Next
<1> QED
  BY <1>1, <1>2, PTL DEF Spec

\* The reading of a plan goes its way whatever is done with the store.
LEMMA StoreLeavesPlan == SdsSpec => Spec
<1>1. SdsInit => Init
  BY DEF SdsInit
<1>2. [SdsNext]_sdsVars => [Next]_vars
  BY DEF SdsNext, ReadPlan, UseStore, sdsVars, vars
<1> QED
  BY <1>1, <1>2, PTL DEF SdsSpec, Spec

\* The variables keep their types.
THEOREM PlanTypes == SdsSpec => []TypeOK
<1>1. PlanInvariant => TypeOK
  BY DEF PlanInvariant
<1> QED
  BY <1>1, StoreLeavesPlan, PlanInvariantHolds, PTL

\* What a definition is does not depend on the order in which the plan lists
\* its outputs.
THEOREM DefinitionsMerge == SdsSpec => []DefinitionsAreMerged
<1>1. PlanInvariant => DefinitionsAreMerged
  BY DEF PlanInvariant
<1> QED
  BY <1>1, StoreLeavesPlan, PlanInvariantHolds, PTL

\* The search for a build order ends with one exactly when there is one.
THEOREM OrdersAreFound == SdsSpec => []OrderedIffOrderable
<1>1. PlanInvariant => OrderedIffOrderable
  BY DEF PlanInvariant
<1> QED
  BY <1>1, StoreLeavesPlan, PlanInvariantHolds, PTL

\* The build order holds every definition once, after those it reads.
THEOREM InputsAreBuiltFirst == SdsSpec => []BuiltAfterItsInputs
<1>1. PlanInvariant => BuiltAfterItsInputs
  BY DEF PlanInvariant
<1> QED
  BY <1>1, StoreLeavesPlan, PlanInvariantHolds, PTL

\* A data plane that started covers panes as wide as the outputs of the plan
\* say, whatever the width of an i64 does to their ends.
THEOREM WidthsAreTrue == SdsSpec => []StartedWidthsAreTrue
<1>1. PlanInvariant => StartedWidthsAreTrue
  <2> SUFFICES ASSUME PlanInvariant, phase = "started", NEW k \in DOMAIN definitions
               PROVE  \/ /\ definitions[k].built = "query_run"
                         /\ NoForward => \A q \in plan.queries : \A n \in q \cap DOMAIN outputs :
                                            outputs[n].key # k
                      \/ \A o \in OutputsOf(k) : k.pane = o.to - o.from
    BY DEF StartedWidthsAreTrue
  <2>1. ASSUME Buildable(k), NEW o \in OutputsOf(k) PROVE k.pane = o.to - o.from
    <3>1. o \in Output /\ RefusalOf(o) = None /\ KeyOf(o) = k
      BY ReadFacts DEF OutputsOf
    <3>2. k.pane > 0 /\ k.pane = WidthOf(o)
      BY <2>1, <3>1 DEF Buildable, KeyOf
    <3> QED
      BY <3>1, <3>2, Accepted
  <2>2. CASE definitions[k].built = "ingestion_run"
    <3>1. k \in Ordered
      BY DEF PlanInvariant, BuiltAfterItsInputs
    <3>2. Buildable(k)
      BY <2>2, <3>1 DEF PlanInvariant, StartedAreBuildable, BuiltByPrecompute
    <3> QED
      BY <2>1, <3>2
  <2>3. CASE definitions[k].built = "query_run"
    <3>1. ASSUME NoForward, NEW q \in plan.queries, NEW n \in q \cap DOMAIN outputs,
                 outputs[n].key = k
          PROVE  Buildable(k)
      BY <2>3, <3>1 DEF PlanInvariant, StartedAreBuildable, Unexecutable
    <3> QED
      BY <2>1, <2>3, <3>1
  <2>4. definitions[k].built \in {"ingestion_run", "query_run"}
    BY DEF PlanInvariant, TypeOK, Definition
  <2> QED
    BY <2>2, <2>3, <2>4
<1> QED
  BY <1>1, StoreLeavesPlan, PlanInvariantHolds, PTL

----------------------------------------------------------------------------
(* The store of panes.                                                     *)

\* The store holds summaries by selection: the inductive invariant.
THEOREM StoreTypeCorrect == StoreSpec => []StoreTypeOK
<1>1. StoreInit => StoreTypeOK
  <2>1. DOMAIN <<>> = {}
    OBVIOUS
  <2> QED BY <2>1 DEF StoreInit, StoreTypeOK
<1>2. StoreTypeOK /\ [StoreNext]_storeVars => StoreTypeOK'
  <2> SUFFICES ASSUME StoreTypeOK, [StoreNext]_storeVars PROVE StoreTypeOK'
    OBVIOUS
  <2>1. CASE UNCHANGED storeVars
    BY <2>1 DEF StoreTypeOK, storeVars
  <2>2. ASSUME NEW k \in DefinitionKeys, NEW e \in Ends, NEW s \in States, Insert(k, e, s)
        PROVE  StoreTypeOK'
    <3>1. SelectionEndingAt(k, e) \in Selections
      BY DEF SelectionEndingAt, Selections, DefinitionKeys
    <3>2. k.id \in Ids
      BY DEF DefinitionKeys
    <3> QED BY <2>2, <3>1, <3>2 DEF Insert, StoreTypeOK
  <2>3. ASSUME NEW k \in DefinitionKeys, NEW e \in Ends, GetPane(k, e)
        PROVE  StoreTypeOK'
    <3>1. k.id \in Ids
      BY DEF DefinitionKeys
    <3> QED BY <2>3, <3>1 DEF GetPane, StoreTypeOK
  <2>4. ASSUME NEW k \in DefinitionKeys, NEW e \in Ends, EvictBefore(k, e)
        PROVE  StoreTypeOK'
    <3>1. k.id \in Ids
      BY DEF DefinitionKeys
    <3> QED BY <2>4, <3>1 DEF EvictBefore, StoreTypeOK
  <2> QED BY <2>1, <2>2, <2>3, <2>4 DEF StoreNext, StoreStep
<1> QED BY <1>1, <1>2, PTL DEF StoreSpec

\* A selection is of one definition's pane only.
LEMMA SelectionsApart ==
    ASSUME NEW k \in DefinitionKeys, NEW l \in DefinitionKeys, k # l,
           NEW e \in Ends, NEW f \in Ends, k.id = l.id
    PROVE  SelectionEndingAt(k, e) # SelectionEndingAt(l, f)
BY DEF SelectionEndingAt, DefinitionKeys

\* What evict_before removes from the map it shares: the panes of the
\* definition that end before the oldest kept one.
LEMMA ExpiredOfOne ==
    ASSUME NEW k \in DefinitionKeys, NEW l \in DefinitionKeys, k.id = l.id,
           NEW e \in Ends, NEW f \in Ends
    PROVE  SelectionEndingAt(l, f) \in Expired(k, SelectionEndingAt(k, e)) <=>
              /\ SelectionEndingAt(l, f) \in DOMAIN instances[k.id]
              /\ l = k
              /\ f < e
<1>1. k.labels \in Int /\ k.pane \in Int /\ l.labels \in Int /\ l.pane \in Int
  BY StoreAssumption DEF DefinitionKeys
<1>2. e \in Int /\ f \in Int /\ MinEnd \in Int /\ MinEnd <= f
  BY StoreAssumption
<1>3. l = k <=> l.labels = k.labels /\ l.pane = k.pane
  BY DEF DefinitionKeys
<1>4. SelectionBefore(SelectionEndingAt(l, f), SelectionEndingAt(k, MinEnd)) <=>
         \/ l.labels < k.labels
         \/ l.labels = k.labels /\ l.pane < k.pane
         \/ l.labels = k.labels /\ l.pane = k.pane /\ f < MinEnd
  BY DEF SelectionBefore, SelectionEndingAt
<1>5. SelectionBefore(SelectionEndingAt(l, f), SelectionEndingAt(k, e)) <=>
         \/ l.labels < k.labels
         \/ l.labels = k.labels /\ l.pane < k.pane
         \/ l.labels = k.labels /\ l.pane = k.pane /\ f < e
  BY DEF SelectionBefore, SelectionEndingAt
<1>6. ~SelectionBefore(SelectionEndingAt(l, f), SelectionEndingAt(k, MinEnd))
      /\ SelectionBefore(SelectionEndingAt(l, f), SelectionEndingAt(k, e))
      <=> l = k /\ f < e
  BY <1>1, <1>2, <1>3, <1>4, <1>5
<1> QED BY <1>6 DEF Expired

\* An operation on definition k leaves the map of another definition as it
\* was, where the other definition looks.
LEMMA OthersPanes ==
    ASSUME NEW l \in DefinitionKeys,
           \A e \in Ends :
              /\ SelectionEndingAt(l, e) \in DOMAIN instances'[l.id] <=>
                    SelectionEndingAt(l, e) \in DOMAIN instances[l.id]
              /\ SelectionEndingAt(l, e) \in DOMAIN instances[l.id] =>
                    instances'[l.id][SelectionEndingAt(l, e)] =
                        instances[l.id][SelectionEndingAt(l, e)]
    PROVE  PanesOf(l)' = PanesOf(l)
<1> DEFINE D == {e \in Ends : SelectionEndingAt(l, e) \in DOMAIN instances[l.id]}
           E == {e \in Ends : SelectionEndingAt(l, e) \in DOMAIN instances'[l.id]}
<1>1. D = E
  OBVIOUS
<1>2. \A e \in D : instances'[l.id][SelectionEndingAt(l, e)] =
                      instances[l.id][SelectionEndingAt(l, e)]
  OBVIOUS
<1>3. PanesOf(l) = [e \in D |-> instances[l.id][SelectionEndingAt(l, e)]]
  BY DEF PanesOf
<1>4. PanesOf(l)' = [e \in E |-> instances'[l.id][SelectionEndingAt(l, e)]]
  BY DEF PanesOf, SelectionEndingAt
<1> HIDE DEF D, E
<1> QED BY <1>1, <1>2, <1>3, <1>4

LEMMA InsertPuts ==
    ASSUME StoreTypeOK, NEW k \in DefinitionKeys, NEW e \in Ends, NEW s \in States,
           Insert(k, e, s)
    PROVE  Abstract!Put(k, e, s)
<1> DEFINE x == SelectionEndingAt(k, e)
<1>1. k.id \in Ids
  BY DEF DefinitionKeys
<1>2. instances'[k.id] = [y \in DOMAIN instances[k.id] \cup {x} |->
                            IF y = x THEN s ELSE instances[k.id][y]]
  BY <1>1 DEF Insert, StoreTypeOK
<1>3. \A id \in Ids : id # k.id => instances'[id] = instances[id]
  BY <1>1 DEF Insert, StoreTypeOK
<1>4. ASSUME NEW l \in DefinitionKeys, l # k
      PROVE  PanesOf(l)' = PanesOf(l)
  <2>1. l.id \in Ids
    BY DEF DefinitionKeys
  <2>2. CASE l.id # k.id
    BY <2>1, <2>2, <1>3, OthersPanes
  <2>3. CASE l.id = k.id
    <3>1. \A f \in Ends : SelectionEndingAt(l, f) # x
      BY <1>4, <2>3, SelectionsApart
    <3> HIDE DEF x
    <3> QED BY <3>1, <1>2, <2>3, OthersPanes
  <2> QED BY <2>2, <2>3
<1>5. PanesOf(k)' = [f \in DOMAIN PanesOf(k) \cup {e} |->
                        IF f = e THEN s ELSE PanesOf(k)[f]]
  <2>1. \A f \in Ends : SelectionEndingAt(k, f) = x <=> f = e
    BY DEF SelectionEndingAt
  <2> DEFINE D == {f \in Ends : SelectionEndingAt(k, f) \in DOMAIN instances[k.id]}
             E == {f \in Ends : SelectionEndingAt(k, f) \in DOMAIN instances'[k.id]}
  <2>2. E = D \cup {e}
    BY <1>2, <2>1
  <2>3. \A f \in E : instances'[k.id][SelectionEndingAt(k, f)] =
                        IF f = e THEN s ELSE instances[k.id][SelectionEndingAt(k, f)]
    BY <1>2, <2>1
  <2>4. PanesOf(k) = [f \in D |-> instances[k.id][SelectionEndingAt(k, f)]]
    BY DEF PanesOf
  <2>5. PanesOf(k)' = [f \in E |-> instances'[k.id][SelectionEndingAt(k, f)]]
    BY DEF PanesOf, SelectionEndingAt
  <2> HIDE DEF D, E, x
  <2> QED BY <2>2, <2>3, <2>4, <2>5
<1>6. [l \in DefinitionKeys |-> PanesOf(l)'] =
      [[l \in DefinitionKeys |-> PanesOf(l)] EXCEPT ![k] =
          [f \in DOMAIN @ \cup {e} |-> IF f = e THEN s ELSE @[f]]]
  BY <1>4, <1>5
<1> QED BY <1>6 DEF Insert, Abstract!Put

LEMMA EvictDrops ==
    ASSUME StoreTypeOK, NEW k \in DefinitionKeys, NEW e \in Ends, EvictBefore(k, e)
    PROVE  Abstract!Drop(k, e)
<1> DEFINE X == Expired(k, SelectionEndingAt(k, e))
<1>1. k.id \in Ids
  BY DEF DefinitionKeys
<1>2. instances'[k.id] = [y \in DOMAIN instances[k.id] \ X |-> instances[k.id][y]]
  BY <1>1 DEF EvictBefore, StoreTypeOK
<1>3. \A id \in Ids : id # k.id => instances'[id] = instances[id]
  BY <1>1 DEF EvictBefore, StoreTypeOK
<1>4. ASSUME NEW l \in DefinitionKeys, l # k
      PROVE  PanesOf(l)' = PanesOf(l)
  <2>1. l.id \in Ids
    BY DEF DefinitionKeys
  <2>2. CASE l.id # k.id
    BY <2>1, <2>2, <1>3, OthersPanes
  <2>3. CASE l.id = k.id
    <3>1. \A f \in Ends : SelectionEndingAt(l, f) \notin X
      BY <1>4, <2>3, ExpiredOfOne
    <3> HIDE DEF X
    <3> QED BY <3>1, <1>2, <2>3, OthersPanes
  <2> QED BY <2>2, <2>3
<1>5. PanesOf(k)' = [f \in {f \in DOMAIN PanesOf(k) : f >= e} |-> PanesOf(k)[f]]
  <2> DEFINE D == {f \in Ends : SelectionEndingAt(k, f) \in DOMAIN instances[k.id]}
             E == {f \in Ends : SelectionEndingAt(k, f) \in DOMAIN instances'[k.id]}
  <2>1. \A f \in D : SelectionEndingAt(k, f) \in X <=> f < e
    BY ExpiredOfOne
  <2>2. E = {f \in D : ~(f < e)}
    BY <1>2, <2>1
  <2>3. \A f \in D : ~(f < e) <=> f >= e
    BY StoreAssumption
  <2>4. \A f \in E : instances'[k.id][SelectionEndingAt(k, f)] =
                        instances[k.id][SelectionEndingAt(k, f)]
    BY <1>2, <2>1
  <2>5. PanesOf(k) = [f \in D |-> instances[k.id][SelectionEndingAt(k, f)]]
    BY DEF PanesOf
  <2>6. PanesOf(k)' = [f \in E |-> instances'[k.id][SelectionEndingAt(k, f)]]
    BY DEF PanesOf, SelectionEndingAt
  <2> HIDE DEF D, E, X
  <2>7. DOMAIN PanesOf(k) = D
    BY <2>5
  <2>8. {f \in DOMAIN PanesOf(k) : f >= e} = E
    BY <2>2, <2>3, <2>7
  <2>9. \A f \in E : instances'[k.id][SelectionEndingAt(k, f)] = PanesOf(k)[f]
    BY <2>2, <2>4, <2>5
  <2> QED BY <2>6, <2>8, <2>9
<1>6. [l \in DefinitionKeys |-> PanesOf(l)'] =
      [[l \in DefinitionKeys |-> PanesOf(l)] EXCEPT ![k] =
          [f \in {f \in DOMAIN @ : f >= e} |-> @[f]]]
  BY <1>4, <1>5
<1> QED BY <1>6 DEF EvictBefore, Abstract!Drop

LEMMA GetLooks ==
    ASSUME NEW k \in DefinitionKeys, NEW e \in Ends, GetPane(k, e)
    PROVE  Abstract!Look(k, e)
<1>1. \A l \in DefinitionKeys : PanesOf(l)' = PanesOf(l)
  BY DEF GetPane, PanesOf, SelectionEndingAt
<1>2. e \in DOMAIN PanesOf(k) <=> SelectionEndingAt(k, e) \in DOMAIN instances[k.id]
  BY DEF PanesOf
<1>3. e \in DOMAIN PanesOf(k) =>
         PanesOf(k)[e] = instances[k.id][SelectionEndingAt(k, e)]
  BY DEF PanesOf
<1>4. [l \in DefinitionKeys |-> PanesOf(l)'] = [l \in DefinitionKeys |-> PanesOf(l)]
  BY <1>1
<1>5. [l \in DefinitionKeys |-> PanesOf(l)][k] = PanesOf(k)
  OBVIOUS
<1> QED BY <1>2, <1>3, <1>4, <1>5 DEF GetPane, Abstract!Look

\* Definitions that share an id have panes of their own: the store of nested
\* maps, with its evictions by range, is a table of panes per definition.
THEOREM StoreKeepsDefinitionsApart == StoreSpec => ImplementsStoredPanes
<1>1. StoreInit => Abstract!Init
  <2> SUFFICES ASSUME StoreInit PROVE Abstract!Init
    OBVIOUS
  <2>1. DOMAIN <<>> = {}
    OBVIOUS
  <2>2. ASSUME NEW k \in DefinitionKeys PROVE PanesOf(k) = <<>>
    <3>1. instances[k.id] = <<>>
      BY DEF StoreInit, DefinitionKeys
    <3>2. {e \in Ends : SelectionEndingAt(k, e) \in DOMAIN instances[k.id]} = {}
      BY <2>1, <3>1
    <3>3. PanesOf(k) = [e \in {} |-> instances[k.id][SelectionEndingAt(k, e)]]
      BY <3>2 DEF PanesOf
    <3> QED BY <3>3
  <2>3. [k \in DefinitionKeys |-> PanesOf(k)] = [k \in DefinitionKeys |-> <<>>]
    BY <2>2
  <2> QED BY <2>3 DEF StoreInit, Abstract!Init
<1>2. StoreTypeOK /\ [StoreNext]_storeVars => [Abstract!Next]_(Abstract!vars)
  <2> SUFFICES ASSUME StoreTypeOK, [StoreNext]_storeVars PROVE [Abstract!Next]_(Abstract!vars)
    OBVIOUS
  <2>1. CASE UNCHANGED storeVars
    <3>1. \A l \in DefinitionKeys : PanesOf(l)' = PanesOf(l)
      BY <2>1 DEF storeVars, PanesOf, SelectionEndingAt
    <3>2. [l \in DefinitionKeys |-> PanesOf(l)'] = [l \in DefinitionKeys |-> PanesOf(l)]
      BY <3>1
    <3> QED BY <2>1, <3>2 DEF storeVars, Abstract!vars
  <2>2. CASE StoreNext
    BY <2>2, InsertPuts, EvictDrops, GetLooks DEF StoreNext, StoreStep, Abstract!Next
  <2> QED BY <2>1, <2>2
<1> QED BY <1>1, <1>2, StoreTypeCorrect, PTL DEF StoreSpec, ImplementsStoredPanes, Abstract!Spec

\* Once the data plane has started, what its engines do with the store of
\* its plan's definitions is what they would do with a table of panes per
\* definition.
THEOREM PlansKeepDefinitionsApart == SdsSpec => ImplementsStoredPanes
<1>1. SdsInit => StoreInit
  BY DEF SdsInit
<1>2. PlanInvariant /\ [SdsNext]_sdsVars => [StoreNext]_storeVars
  <2> SUFFICES ASSUME PlanInvariant, [SdsNext]_sdsVars PROVE [StoreNext]_storeVars
    OBVIOUS
  <2>1. CASE UseStore
    <3>1. PICK k \in DOMAIN definitions, e \in Ends : StoreStep(k, e)
      BY <2>1 DEF UseStore
    <3>2. PICK i \in 1..Len(plan.outputs) : k = KeyOf(plan.outputs[i])
      BY ReadFacts
    <3>3. k \in DefinitionKeys
      BY <2>1, <3>2, StoringAssumption DEF UseStore
    <3> QED
      BY <3>1, <3>3 DEF StoreNext
  <2>2. CASE ReadPlan \/ UNCHANGED sdsVars
    BY <2>2 DEF ReadPlan, sdsVars
  <2> QED
    BY <2>1, <2>2 DEF SdsNext
<1>3. SdsSpec => StoreSpec
  BY <1>1, <1>2, StoreLeavesPlan, PlanInvariantHolds, PTL DEF SdsSpec, StoreSpec
<1> QED
  BY <1>3, StoreKeepsDefinitionsApart, Zenon

=============================================================================
