-------------------------- MODULE QueryEngineProofs --------------------------
(***************************************************************************)
(* The safety of the precompute engine, for every plan, every option and   *)
(* every sequence of samples and barriers, and of the query engine on top  *)
(* of it, for every number of clients and every interleaving of ingestion, *)
(* fetches and evaluations.  The theorems of the first part are about      *)
(* Precompute's Spec; those of the second, about QSpec, rest on the first  *)
(* part's lemmas, since every step of QNext is a step of Next or leaves    *)
(* the variables of Precompute alone.                                      *)
(***************************************************************************)
EXTENDS QueryEngine, PaneGridProofs, FiniteSetTheorems, NaturalsInduction

----------------------------------------------------------------------------
(* The precompute engine.                                                  *)


\* The newer of two optional times is one of them.
LEMMA NewerType ==
    ASSUME NEW a \in TimeOrNone, NEW b \in TimeOrNone
    PROVE  /\ Newer(a, b) \in TimeOrNone
           /\ b # None => Newer(a, b) # None /\ Newer(a, b) >= b
           /\ a # None => Newer(a, b) # None /\ Newer(a, b) >= a
  BY NoneAssumption DEF Newer, TimeOrNone

\* The watermark is a time as soon as there is a sample or a barrier.
LEMMA WatermarkType ==
    ASSUME NEW n \in TimeOrNone, NEW c \in TimeOrNone, NEW b \in TimeOrNone
    PROVE  WatermarkOf(n, c, b) \in TimeOrNone
  BY NoneAssumption, OptionsAssumption DEF WatermarkOf, Newer, Older, TimeOrNone

\* A routed sample gives a watermark.
LEMMA WatermarkOfSample ==
    ASSUME NEW n \in TimeOrNone, NEW c \in TimeOrNone, NEW b \in TimeOrNone,
           n # None, c # None
    PROVE  WatermarkOf(n, c, b) \in Int
<1>1. n \in Int /\ c \in Int
  BY DEF TimeOrNone
<1>2. Older(n, c) - AllowedLateness \in Int
  BY <1>1, OptionsAssumption DEF Older
<1>3. Older(n, c) \in Int
  BY <1>1 DEF Older
<1>4. WatermarkOf(n, c, b) = Newer(Older(n, c) - AllowedLateness, b)
  BY <1>1, <1>3, NoneAssumption DEF WatermarkOf
<1> DEFINE seen == Older(n, c) - AllowedLateness
<1> HIDE DEF seen
<1>5. Newer(seen, b) # None /\ Newer(seen, b) \in TimeOrNone
  BY <1>2, NoneAssumption, NewerType DEF seen, TimeOrNone
<1> QED
  BY <1>4, <1>5 DEF seen, TimeOrNone

\* The watermark grows with each of the three times it is made of, in every
\* order in which they may grow once a clock has been read.
LEMMA WatermarkMonotone ==
    ASSUME NEW n \in TimeOrNone, NEW c \in TimeOrNone, NEW b \in TimeOrNone,
           NEW n2 \in TimeOrNone, NEW c2 \in TimeOrNone, NEW b2 \in TimeOrNone,
           n # None => n2 # None /\ n2 >= n,
           c # None => c2 # None /\ c2 >= c,
           b # None => b2 # None /\ b2 >= b,
           c = None => n = None,
           WatermarkOf(n, c, b) # None
    PROVE  /\ WatermarkOf(n2, c2, b2) # None
           /\ WatermarkOf(n2, c2, b2) >= WatermarkOf(n, c, b)
<1> DEFINE Seen(m, k) == IF m = None THEN None
                        ELSE IF k = None THEN m - AllowedLateness
                        ELSE Older(m, k) - AllowedLateness
<1>1. \A m, k, r \in TimeOrNone :
         /\ WatermarkOf(m, k, r) = Newer(Seen(m, k), r)
         /\ Seen(m, k) \in TimeOrNone
  <2> SUFFICES ASSUME NEW m \in TimeOrNone, NEW k \in TimeOrNone, NEW r \in TimeOrNone
               PROVE  /\ WatermarkOf(m, k, r) = Newer(Seen(m, k), r)
                      /\ Seen(m, k) \in TimeOrNone
    OBVIOUS
  <2>1. CASE m = None
    BY <2>1 DEF WatermarkOf, TimeOrNone
  <2>2. CASE m # None /\ k = None
    BY <2>2, NoneAssumption, OptionsAssumption DEF WatermarkOf, TimeOrNone
  <2>3. CASE m # None /\ k # None
    BY <2>3, NoneAssumption, OptionsAssumption DEF WatermarkOf, Older, TimeOrNone
  <2> QED
    BY <2>1, <2>2, <2>3
<1>2. ASSUME n # None
      PROVE  Seen(n, c) # None /\ Seen(n2, c2) # None /\ Seen(n2, c2) >= Seen(n, c)
  <2>1. n \in Int /\ c \in Int /\ n2 \in Int /\ c2 \in Int /\ n2 >= n /\ c2 >= c
    BY <1>2 DEF TimeOrNone
  <2>2. Seen(n, c) = Older(n, c) - AllowedLateness
    BY <2>1, NoneAssumption
  <2>3. Seen(n2, c2) = Older(n2, c2) - AllowedLateness
    BY <2>1, NoneAssumption
  <2>4. Older(n, c) \in Int /\ Older(n2, c2) \in Int /\ Older(n2, c2) >= Older(n, c)
    BY <2>1 DEF Older
  <2> HIDE DEF Seen
  <2> QED
    BY <2>2, <2>3, <2>4, NoneAssumption, OptionsAssumption
<1> DEFINE a == Seen(n, c)
           a2 == Seen(n2, c2)
<1>3. /\ a \in TimeOrNone /\ a2 \in TimeOrNone
      /\ WatermarkOf(n, c, b) = Newer(a, b)
      /\ WatermarkOf(n2, c2, b2) = Newer(a2, b2)
  <2> HIDE DEF Seen
  <2> QED
    BY <1>1
<1>4. a # None => a2 # None /\ a2 >= a
  <2>1. n = None => a = None
    OBVIOUS
  <2> HIDE DEF a, a2
  <2> QED
    BY <1>2, <2>1 DEF a, a2
<1> HIDE DEF a, a2
<1>5. /\ Newer(a2, b2) \in TimeOrNone
      /\ b2 # None => Newer(a2, b2) # None /\ Newer(a2, b2) >= b2
      /\ a2 # None => Newer(a2, b2) # None /\ Newer(a2, b2) >= a2
  BY <1>3, NewerType
<1>6. Newer(a, b) # None /\ (Newer(a, b) = a \/ Newer(a, b) = b)
  BY <1>3 DEF Newer
<1>7. CASE Newer(a, b) = a
  BY <1>3, <1>4, <1>5, <1>6, <1>7, NoneAssumption DEF TimeOrNone
<1>8. CASE Newer(a, b) = b
  BY <1>3, <1>5, <1>6, <1>8, NoneAssumption DEF TimeOrNone
<1> QED
  BY <1>6, <1>7, <1>8

----------------------------------------------------------------------------
(* Which panes a watermark closes.                                         *)

\* A width and a retention are numbers, a definition's times are integers
\* once it has started, and closing keeps to the grid.
LEMMA StartedFacts ==
    ASSUME TypeOK, Aligned, NEW d \in Definitions, builtThrough[d] # None
    PROVE  /\ PaneMs[d] \in Nat \ {0}
           /\ RetentionMs[d] \in Nat
           /\ builtThrough[d] \in Int
           /\ firstPaneEnd[d] \in Int
           /\ OnGrid(builtThrough[d], PaneMs[d])
           /\ OnGrid(firstPaneEnd[d], PaneMs[d])
           /\ firstPaneEnd[d] <= builtThrough[d]
<1>1. firstPaneEnd[d] # None
  BY DEF Aligned
<1>2. firstPaneEnd[d] \in TimeOrNone /\ builtThrough[d] \in TimeOrNone
  BY DEF TypeOK
<1> QED
  BY <1>1, <1>2, PlanAssumption DEF Aligned, TimeOrNone

\* Nothing on the grid lies between a time and the end of its pane.
LEMMA PaneEndLeast ==
    ASSUME NEW t \in Int, NEW p \in Nat \ {0}, NEW e \in Int, OnGrid(e, p), t <= e
    PROVE  PaneEnd(t, p) <= e
<1>1. PaneEnd(t, p) \in Int /\ OnGrid(PaneEnd(t, p), p) /\ PaneEnd(t, p) < t + p
  BY PaneEndProperties
<1>2. e < PaneEnd(t, p) => e + p <= PaneEnd(t, p)
  BY <1>1, GridSpacing
<1> QED
  BY <1>1, <1>2

\* Nothing on the grid lies between a time and the grid point before it.
LEMMA GridFloorGreatest ==
    ASSUME NEW t \in Int, NEW p \in Nat \ {0}, NEW e \in Int, OnGrid(e, p), e <= t
    PROVE  e <= GridFloor(t, p)
<1>1. /\ GridFloor(t, p) \in Int
      /\ OnGrid(GridFloor(t, p), p)
      /\ t < GridFloor(t, p) + p
  BY GridFloorProperties
<1>2. GridFloor(t, p) < e => GridFloor(t, p) + p <= e
  BY <1>1, GridSpacing
<1> QED
  BY <1>1, <1>2

\* The pane building starts with: the next one, or the oldest kept one when
\* panes before it expire unbuilt.
LEMMA FirstToBuildFacts ==
    ASSUME TypeOK, Aligned, NEW d \in Definitions, builtThrough[d] # None,
           NEW w \in Int
    PROVE  /\ OldestKept(d, w) = GridFloor(w, PaneMs[d]) - RetentionMs[d]
           /\ FirstToBuild(d, w) \in Int
           /\ OnGrid(FirstToBuild(d, w), PaneMs[d])
           /\ builtThrough[d] + PaneMs[d] <= FirstToBuild(d, w)
           /\ ~Skips(d, w) => FirstToBuild(d, w) = builtThrough[d] + PaneMs[d]
           /\ Skips(d, w) => /\ builtThrough[d] + PaneMs[d] < OldestKept(d, w)
                             /\ OldestKept(d, w) <= FirstToBuild(d, w)
                             /\ FirstToBuild(d, w) <= GridFloor(w, PaneMs[d])
           /\ Skips(d, w) => \A e \in Int :
                 OnGrid(e, PaneMs[d]) /\ OldestKept(d, w) <= e => FirstToBuild(d, w) <= e
           /\ SkippedPanes(d, w) \in Nat
<1> DEFINE p == PaneMs[d]
           r == RetentionMs[d]
           b == builtThrough[d]
           g == GridFloor(w, p)
           old == OldestKept(d, w)
           f == FirstToBuild(d, w)
<1>1. p \in Nat \ {0} /\ r \in Nat /\ b \in Int /\ OnGrid(b, p)
  BY StartedFacts
<1>2. g \in Int /\ OnGrid(g, p)
  BY <1>1, GridFloorProperties
<1>3. old = g - r
  BY <1>1, <1>2 DEF OldestKept, OldestKeptEnd
<1>4. b + p \in Int /\ OnGrid(b + p, p)
  BY <1>1, OnGridNeighbours
<1>5. Skips(d, w) <=> b + p < old
  BY DEF Skips, NextEnd
<1>6. f = IF Skips(d, w) THEN PaneEnd(old, p) ELSE b + p
  BY DEF FirstToBuild, NextEnd
<1>7. SkippedPanes(d, w) = (f - (b + p)) \div p
  BY DEF SkippedPanes, NextEnd
<1> HIDE DEF p, r, b, g, old, f
<1>8. old \in Int
  BY <1>1, <1>2, <1>3
<1>9. /\ PaneEnd(old, p) \in Int /\ OnGrid(PaneEnd(old, p), p)
      /\ old <= PaneEnd(old, p)
      /\ \A e \in Int : OnGrid(e, p) /\ old <= e => PaneEnd(old, p) <= e
  BY <1>1, <1>8, PaneEndProperties, PaneEndLeast
<1>10. old <= g
  BY <1>1, <1>2, <1>3
<1>11. f \in Int /\ OnGrid(f, p) /\ b + p <= f
  BY <1>1, <1>4, <1>5, <1>6, <1>8, <1>9
<1>12. SkippedPanes(d, w) \in Nat
  BY <1>1, <1>4, <1>7, <1>11, GridDistance
<1>13. Skips(d, w) => b + p < old /\ old <= f /\ f <= g
  BY <1>2, <1>5, <1>6, <1>9, <1>10
<1>14. Skips(d, w) => \A e \in Int : OnGrid(e, p) /\ old <= e => f <= e
  BY <1>6, <1>9
<1> QED
  BY <1>3, <1>6, <1>11, <1>12, <1>13, <1>14 DEF p, r, b, g, old, f

\* The panes that close end at the grid points from the first to build
\* through the newest one the watermark has reached; there are none exactly
\* when that one is closed already.
LEMMA ClosingFacts ==
    ASSUME TypeOK, Aligned, NEW d \in Definitions, builtThrough[d] # None,
           NEW w \in Int
    PROVE  /\ Closing(d, w) = {e \in Int : /\ OnGrid(e, PaneMs[d])
                                           /\ FirstToBuild(d, w) <= e
                                           /\ e <= GridFloor(w, PaneMs[d])}
           /\ IsFiniteSet(Closing(d, w))
           /\ Closing(d, w) = {} <=> GridFloor(w, PaneMs[d]) <= builtThrough[d]
           /\ Closing(d, w) = {} => ~Skips(d, w)
<1> DEFINE p == PaneMs[d]
           b == builtThrough[d]
           g == GridFloor(w, p)
           f == FirstToBuild(d, w)
<1>1. p \in Nat \ {0} /\ b \in Int /\ OnGrid(b, p)
  BY StartedFacts
<1>2. g \in Int /\ OnGrid(g, p) /\ g <= w
  BY <1>1, GridFloorProperties
<1>3. /\ f \in Int /\ OnGrid(f, p) /\ b + p <= f
      /\ ~Skips(d, w) => f = b + p
      /\ Skips(d, w) => f <= g
  BY FirstToBuildFacts
<1>4. Closing(d, w) = {e \in f..w : OnGrid(e, p)}
  BY DEF Closing, EndsThrough
<1> HIDE DEF p, b, g, f
<1>5. Closing(d, w) = {e \in Int : OnGrid(e, p) /\ f <= e /\ e <= g}
  <2>1. \A e \in Int : OnGrid(e, p) /\ e <= w => e <= g
    BY <1>1, GridFloorGreatest DEF g
  <2> QED
    BY <1>2, <1>3, <1>4, <2>1
<1>6. IsFiniteSet(Closing(d, w))
  <2>1. IsFiniteSet(f..w)
    BY <1>3, FS_Interval
  <2>2. Closing(d, w) \subseteq f..w
    BY <1>4
  <2> QED
    BY <2>1, <2>2, FS_Subset
<1>7. b < g => b + p <= g
  BY <1>1, <1>2, GridSpacing
<1>8. g <= b => Closing(d, w) = {}
  BY <1>1, <1>2, <1>3, <1>5
<1>9. b < g => g \in Closing(d, w)
  BY <1>1, <1>2, <1>3, <1>5, <1>7
<1>10. Skips(d, w) => g \in Closing(d, w)
  BY <1>2, <1>3, <1>5
<1>11. Closing(d, w) = {} <=> g <= b
  BY <1>1, <1>2, <1>8, <1>9
<1>12. Closing(d, w) = {} => ~Skips(d, w)
  BY <1>10
<1> QED
  BY <1>5, <1>6, <1>11, <1>12 DEF p, b, g, f

----------------------------------------------------------------------------
(* close_panes preserves the invariant.                                    *)

\* A definition that has not started is left alone.
LEMMA CloseUnstarted ==
    ASSUME NEW w, NEW bad, CloseWith(w, bad),
           NEW d \in Definitions, builtThrough[d] = None
    PROVE  /\ builtThrough'[d] = None
           /\ open'[d] = open[d]
           /\ stored'[d] = stored[d]
           /\ rows'[d] = rows[d]
           /\ failed'[d] = failed[d]
           /\ Building(d, w, bad) = {} /\ Failing(d, w, bad) = {}
<1>1. Closing(d, w) = {}
  BY DEF Closing
<1> QED
  BY <1>1 DEF CloseWith, Building, Failing

\* One that has started has closed every pane the watermark has reached and
\* no other: the panes that close lie between what it had closed and what it
\* has closed.
LEMMA CloseStarted ==
    ASSUME TypeOK, Aligned, NEW w \in Int, NEW bad, CloseWith(w, bad),
           NEW d \in Definitions, builtThrough[d] # None
    PROVE  /\ builtThrough'[d] \in Int
           /\ OnGrid(builtThrough'[d], PaneMs[d])
           /\ builtThrough[d] <= builtThrough'[d]
           /\ GridFloor(w, PaneMs[d]) <= builtThrough'[d]
           /\ w < builtThrough'[d] + PaneMs[d]
           /\ Closing(d, w) # {} => builtThrough'[d] = GridFloor(w, PaneMs[d])
           /\ \A e \in Closing(d, w) : /\ e \in Int
                                       /\ builtThrough[d] < e
                                       /\ e <= builtThrough'[d]
<1> DEFINE p == PaneMs[d]
           b == builtThrough[d]
           g == GridFloor(w, p)
           f == FirstToBuild(d, w)
<1>1. p \in Nat \ {0} /\ b \in Int /\ OnGrid(b, p)
  BY StartedFacts
<1>2. g \in Int /\ OnGrid(g, p) /\ g <= w /\ w < g + p
  BY <1>1, GridFloorProperties
<1>3. f \in Int /\ b + p <= f
  BY FirstToBuildFacts
<1>4. builtThrough'[d] = IF Closing(d, w) = {} THEN b ELSE g
  BY DEF CloseWith
<1>5. /\ Closing(d, w) = {e \in Int : OnGrid(e, p) /\ f <= e /\ e <= g}
      /\ Closing(d, w) = {} <=> g <= b
  BY ClosingFacts
<1> HIDE DEF p, b, g, f
<1>6. \A e \in Closing(d, w) : e \in Int /\ b < e /\ e <= g
  BY <1>1, <1>2, <1>3, <1>5
<1>7. CASE Closing(d, w) = {}
  BY <1>1, <1>2, <1>4, <1>5, <1>7 DEF p, b, g
<1>8. CASE Closing(d, w) # {}
  BY <1>1, <1>2, <1>4, <1>5, <1>6, <1>8 DEF p, b, g
<1> QED
  BY <1>7, <1>8

\* What closing panes makes of the store and of the open panes has its type.
LEMMA CloseTypes ==
    ASSUME TypeOK, Aligned, NEW w \in Int, NEW bad, CloseWith(w, bad)
    PROVE  /\ firstPaneEnd' \in [Definitions -> TimeOrNone]
           /\ builtThrough' \in [Definitions -> TimeOrNone]
           /\ open' \in [Definitions -> SUBSET Sample]
           /\ stored' \in [Definitions -> SUBSET Int]
           /\ rows' \in [Definitions -> SUBSET Sample]
           /\ failed' \in [Definitions -> SUBSET Int]
           /\ panes' \in [Definitions -> PaneCounts]
<1>1. firstPaneEnd' \in [Definitions -> TimeOrNone]
  BY DEF TypeOK, CloseWith
<1>2. builtThrough' \in [Definitions -> TimeOrNone]
  <2>1. ASSUME NEW d \in Definitions PROVE builtThrough'[d] \in TimeOrNone
    BY CloseStarted, CloseUnstarted DEF TimeOrNone
  <2> QED
    BY <2>1 DEF CloseWith
<1>3. open' \in [Definitions -> SUBSET Sample]
  <2>1. open \in [Definitions -> SUBSET Sample]
    BY DEF TypeOK
  <2>2. \A d \in Definitions : StillOpen(d, w) \subseteq open[d]
    BY DEF StillOpen
  <2> QED
    BY <2>1, <2>2 DEF CloseWith
<1>4. ASSUME NEW d \in Definitions
      PROVE  /\ Building(d, w, bad) \subseteq Int /\ IsFiniteSet(Building(d, w, bad))
             /\ Failing(d, w, bad) \subseteq Int /\ IsFiniteSet(Failing(d, w, bad))
  <2>1. CASE builtThrough[d] = None
    BY <2>1, CloseUnstarted, FS_EmptySet
  <2>2. CASE builtThrough[d] # None
    <3>1. Closing(d, w) \subseteq Int /\ IsFiniteSet(Closing(d, w))
      BY <2>2, ClosingFacts
    <3>2. /\ Building(d, w, bad) \subseteq Closing(d, w)
          /\ Failing(d, w, bad) \subseteq Closing(d, w)
      BY DEF Building, Failing
    <3> QED
      BY <3>1, <3>2, FS_Subset
  <2> QED
    BY <2>1, <2>2
<1>5. stored' \in [Definitions -> SUBSET Int] /\ failed' \in [Definitions -> SUBSET Int]
  <2>1. stored \in [Definitions -> SUBSET Int] /\ failed \in [Definitions -> SUBSET Int]
    BY DEF TypeOK
  <2> QED
    BY <1>4, <2>1 DEF CloseWith, Kept
<1>6. rows' \in [Definitions -> SUBSET Sample]
  <2>1. rows \in [Definitions -> SUBSET Sample] /\ open \in [Definitions -> SUBSET Sample]
    BY DEF TypeOK
  <2> QED
    BY <2>1 DEF CloseWith
<1>7. panes' \in [Definitions -> PaneCounts]
  <2>1. ASSUME NEW d \in Definitions
        PROVE  /\ panes[d].built + Cardinality(Building(d, w, bad)) \in Nat
               /\ panes[d].failed + Cardinality(Failing(d, w, bad)) \in Nat
               /\ panes[d].expired + (IF builtThrough[d] # None
                                      THEN SkippedPanes(d, w) ELSE 0) \in Nat
    <3>1. panes[d].built \in Nat /\ panes[d].failed \in Nat /\ panes[d].expired \in Nat
      BY DEF TypeOK, PaneCounts
    <3>2. /\ Cardinality(Building(d, w, bad)) \in Nat
          /\ Cardinality(Failing(d, w, bad)) \in Nat
      BY <1>4, FS_CardinalityType
    <3>3. builtThrough[d] # None => SkippedPanes(d, w) \in Nat
      BY FirstToBuildFacts
    <3> QED
      BY <3>1, <3>2, <3>3
  <2>2. panes' = [d \in Definitions |->
              [built |-> panes[d].built + Cardinality(Building(d, w, bad)),
               failed |-> panes[d].failed + Cardinality(Failing(d, w, bad)),
               expired |-> panes[d].expired +
                              IF builtThrough[d] # None THEN SkippedPanes(d, w) ELSE 0]]
    BY DEF CloseWith
  <2> QED
    BY <2>1, <2>2 DEF PaneCounts
<1> QED
  BY <1>1, <1>2, <1>3, <1>5, <1>6, <1>7

\* A sample stays open only in a pane behind the newest closed one.
LEMMA CloseKeepsOpenAhead ==
    ASSUME TypeOK, Aligned, OpenIsAhead, NEW w \in Int, NEW bad, CloseWith(w, bad)
    PROVE  OpenIsAhead'
<1> SUFFICES ASSUME NEW d \in Definitions, NEW s \in open'[d]
             PROVE  builtThrough'[d] # None /\ EndOf(d, s) > builtThrough'[d]
  BY DEF OpenIsAhead, EndOf
<1>1. CASE builtThrough[d] = None
  BY <1>1, CloseUnstarted DEF OpenIsAhead
<1>2. CASE builtThrough[d] # None
  <2> DEFINE p == PaneMs[d]
             b == builtThrough[d]
             g == GridFloor(w, p)
             f == FirstToBuild(d, w)
             e == EndOf(d, s)
  <2>1. s \in StillOpen(d, w)
    BY <1>2 DEF CloseWith
  <2>2. s \in open[d] /\ s \in Sample
    BY <2>1 DEF StillOpen, TypeOK
  <2>3. e \notin Closing(d, w) /\ (Skips(d, w) => e >= f) /\ e > b
    BY <2>1, <2>2 DEF StillOpen, OpenIsAhead
  <2>4. p \in Nat \ {0} /\ b \in Int /\ OnGrid(b, p)
    BY <1>2, StartedFacts
  <2>5. s.t \in Int
    BY <2>2, OptionsAssumption DEF Sample
  <2>6. e \in Int /\ OnGrid(e, p)
    BY <2>4, <2>5, PaneEndProperties DEF EndOf
  <2>7. f \in Int /\ (~Skips(d, w) => f = b + p)
    BY <1>2, FirstToBuildFacts
  <2>8. Closing(d, w) = {x \in Int : OnGrid(x, p) /\ f <= x /\ x <= g}
    BY <1>2, ClosingFacts
  <2>9. g \in Int
    BY <2>4, GridFloorProperties
  <2>10. builtThrough'[d] = IF Closing(d, w) = {} THEN b ELSE g
    BY DEF CloseWith
  <2> HIDE DEF p, b, g, f, e
  <2>11. b + p <= e
    BY <2>3, <2>4, <2>6, GridSpacing
  <2>12. e >= f
    BY <2>3, <2>4, <2>6, <2>7, <2>11
  <2>13. e > g
    BY <2>3, <2>6, <2>7, <2>8, <2>9, <2>12
  <2>14. e > builtThrough'[d] /\ builtThrough'[d] \in Int
    BY <2>3, <2>4, <2>9, <2>10, <2>13
  <2> QED
    BY <2>14, NoneAssumption DEF e
<1> QED
  BY <1>1, <1>2

\* The panes a reader may expect after closing are those expected before and
\* those closed, less the evicted ones.
LEMMA CloseExpected ==
    ASSUME TypeOK, Aligned, NEW w \in Int, NEW bad, CloseWith(w, bad),
           NEW d \in Definitions, builtThrough[d] # None
    PROVE  Expected(d)' = Kept(d, w, Expected(d) \cup Closing(d, w))
<1> DEFINE p == PaneMs[d]
           r == RetentionMs[d]
           b == builtThrough[d]
           first == firstPaneEnd[d]
           g == GridFloor(w, p)
           f == FirstToBuild(d, w)
           old == OldestKept(d, w)
           b2 == builtThrough'[d]
<1>1. p \in Nat \ {0} /\ r \in Nat /\ b \in Int /\ OnGrid(b, p) /\ first \in Int /\ first <= b
  BY StartedFacts
<1>2. g \in Int /\ OnGrid(g, p)
  BY <1>1, GridFloorProperties
<1>3. /\ old = g - r
      /\ f \in Int
      /\ b + p <= f
      /\ ~Skips(d, w) => f = b + p
      /\ Skips(d, w) => b + p < old /\ old <= f
      /\ Skips(d, w) => \A e \in Int : OnGrid(e, p) /\ old <= e => f <= e
  BY FirstToBuildFacts
<1>4. /\ Closing(d, w) = {e \in Int : OnGrid(e, p) /\ f <= e /\ e <= g}
      /\ Closing(d, w) = {} <=> g <= b
      /\ Closing(d, w) = {} => ~Skips(d, w)
  BY ClosingFacts
<1>5. b2 = IF Closing(d, w) = {} THEN b ELSE g
  BY DEF CloseWith
<1>6. b2 \in Int /\ b2 # None
  BY CloseStarted, NoneAssumption
<1>7. Expected(d) = {e \in Int : b - r <= e /\ e <= b /\ OnGrid(e, p) /\ first < e}
  BY <1>1 DEF Expected, EndsThrough
<1>8. Expected(d)' = {e \in Int : b2 - r <= e /\ e <= b2 /\ OnGrid(e, p) /\ first < e}
  BY <1>1, <1>6 DEF Expected, EndsThrough, CloseWith
<1>9. Kept(d, w, Expected(d) \cup Closing(d, w)) =
          {e \in Expected(d) \cup Closing(d, w) : old <= e}
  BY <1>1, <1>2, <1>3, <1>4, <1>7 DEF Kept
<1>10. \A e \in Int : OnGrid(e, p) /\ b < e => b + p <= e
  BY <1>1, GridSpacing
<1> HIDE DEF p, r, b, first, g, f, old, b2
<1>11. CASE Closing(d, w) = {}
  BY <1>1, <1>2, <1>3, <1>4, <1>5, <1>7, <1>8, <1>9, <1>11
<1>12. CASE Closing(d, w) # {}
  <2>1. b2 = g /\ b < g
    BY <1>1, <1>2, <1>4, <1>5, <1>12
  <2>2. ASSUME NEW e \in Int, OnGrid(e, p), old <= e, e <= g, first < e
        PROVE  e \in Expected(d) \cup Closing(d, w)
    <3>1. CASE e <= b
      BY <1>1, <1>2, <1>3, <1>7, <2>1, <2>2, <3>1
    <3>2. CASE b < e
      BY <1>1, <1>2, <1>3, <1>4, <1>10, <2>2, <3>2
    <3> QED
      BY <1>1, <2>2, <3>1, <3>2
  <2>3. ASSUME NEW e \in Expected(d) \cup Closing(d, w), old <= e
        PROVE  e \in Int /\ OnGrid(e, p) /\ e <= g /\ first < e
    BY <1>1, <1>2, <1>3, <1>4, <1>7, <2>1, <2>3
  <2> QED
    BY <1>3, <1>8, <1>9, <2>1, <2>2, <2>3
<1> QED
  BY <1>11, <1>12

\* The panes that close are new: none is stored or failed already.
LEMMA ClosingIsNew ==
    ASSUME TypeOK, Aligned, StoreIsRetainedRange, NEW w \in Int,
           NEW d \in Definitions, builtThrough[d] # None
    PROVE  /\ Closing(d, w) \cap stored[d] = {}
           /\ Closing(d, w) \cap failed[d] = {}
<1>1. \A e \in Expected(d) : e <= builtThrough[d]
  BY StartedFacts DEF Expected, EndsThrough
<1>2. PaneMs[d] \in Nat \ {0} /\ builtThrough[d] \in Int
  BY StartedFacts
<1>3. FirstToBuild(d, w) \in Int /\ builtThrough[d] + PaneMs[d] <= FirstToBuild(d, w)
  BY FirstToBuildFacts
<1>4. \A e \in Closing(d, w) : e \in Int /\ FirstToBuild(d, w) <= e
  BY ClosingFacts
<1>5. \A e \in Closing(d, w) : ~(e <= builtThrough[d])
  BY <1>2, <1>3, <1>4
<1> QED
  BY <1>1, <1>5 DEF StoreIsRetainedRange

\* Closing panes leaves no hole in the retained range.
LEMMA CloseKeepsRange ==
    ASSUME TypeOK, Aligned, StoreIsRetainedRange, NEW w \in Int, NEW bad,
           CloseWith(w, bad)
    PROVE  StoreIsRetainedRange'
<1> SUFFICES ASSUME NEW d \in Definitions
             PROVE  /\ stored'[d] \cup failed'[d] = Expected(d)'
                    /\ stored'[d] \cap failed'[d] = {}
  BY DEF StoreIsRetainedRange
<1>1. CASE builtThrough[d] = None
  <2>1. Expected(d) = {} /\ Expected(d)' = {}
    BY <1>1, CloseUnstarted DEF Expected
  <2> QED
    BY <1>1, <2>1, CloseUnstarted DEF StoreIsRetainedRange
<1>2. CASE builtThrough[d] # None
  <2> DEFINE built == Building(d, w, bad)
             missed == Failing(d, w, bad)
  <2>1. /\ stored'[d] = Kept(d, w, stored[d] \cup built)
        /\ failed'[d] = Kept(d, w, failed[d] \cup missed)
    BY <1>2 DEF CloseWith
  <2>2. built \cup missed = Closing(d, w) /\ built \cap missed = {}
    BY DEF Building, Failing
  <2>3. stored[d] \cup failed[d] = Expected(d) /\ stored[d] \cap failed[d] = {}
    BY DEF StoreIsRetainedRange
  <2>4. /\ Closing(d, w) \cap stored[d] = {}
        /\ Closing(d, w) \cap failed[d] = {}
    BY <1>2, ClosingIsNew
  <2>5. Expected(d)' = Kept(d, w, Expected(d) \cup Closing(d, w))
    BY <1>2, CloseExpected
  <2> HIDE DEF built, missed
  <2> QED
    BY <2>1, <2>2, <2>3, <2>4, <2>5 DEF Kept
<1> QED
  BY <1>1, <1>2

\* Closing starts where it was, and stays on the grid.
LEMMA CloseAligned ==
    ASSUME TypeOK, Aligned, NEW w \in Int, NEW bad, CloseWith(w, bad)
    PROVE  Aligned'
<1> SUFFICES ASSUME NEW d \in Definitions
             PROVE  /\ firstPaneEnd'[d] = None <=> builtThrough'[d] = None
                    /\ builtThrough'[d] # None =>
                          /\ OnGrid(builtThrough'[d], PaneMs[d])
                          /\ OnGrid(firstPaneEnd'[d], PaneMs[d])
                          /\ firstPaneEnd'[d] <= builtThrough'[d]
  BY DEF Aligned, OnGrid
<1>1. firstPaneEnd'[d] = firstPaneEnd[d]
  BY DEF CloseWith
<1>2. CASE builtThrough[d] = None
  BY <1>1, <1>2, CloseUnstarted DEF Aligned
<1>3. CASE builtThrough[d] # None
  BY <1>1, <1>3, CloseStarted, StartedFacts, NoneAssumption
<1> QED
  BY <1>2, <1>3

\* close_panes at any watermark, or at none.
LEMMA ClosePanesKeeps ==
    ASSUME TypeOK, Aligned, OpenIsAhead, StoreIsRetainedRange,
           NEW w \in TimeOrNone, ClosePanes(w)
    PROVE  /\ firstPaneEnd' \in [Definitions -> TimeOrNone]
           /\ builtThrough' \in [Definitions -> TimeOrNone]
           /\ open' \in [Definitions -> SUBSET Sample]
           /\ stored' \in [Definitions -> SUBSET Int]
           /\ rows' \in [Definitions -> SUBSET Sample]
           /\ failed' \in [Definitions -> SUBSET Int]
           /\ panes' \in [Definitions -> PaneCounts]
           /\ Aligned' /\ OpenIsAhead' /\ StoreIsRetainedRange'
           /\ \A d \in Definitions : builtThrough[d] = None => builtThrough'[d] = None
<1>1. CASE UNCHANGED <<builderVars, storeVars>>
  BY <1>1 DEF builderVars, storeVars, TypeOK, Aligned, OpenIsAhead,
              StoreIsRetainedRange, Expected, EndOf
<1>2. ASSUME w \in Int, NEW bad, CloseWith(w, bad)
      PROVE  /\ firstPaneEnd' \in [Definitions -> TimeOrNone]
             /\ builtThrough' \in [Definitions -> TimeOrNone]
             /\ open' \in [Definitions -> SUBSET Sample]
             /\ stored' \in [Definitions -> SUBSET Int]
             /\ rows' \in [Definitions -> SUBSET Sample]
             /\ failed' \in [Definitions -> SUBSET Int]
             /\ panes' \in [Definitions -> PaneCounts]
             /\ Aligned' /\ OpenIsAhead' /\ StoreIsRetainedRange'
             /\ \A d \in Definitions : builtThrough[d] = None => builtThrough'[d] = None
  BY <1>2, CloseTypes, CloseAligned, CloseKeepsOpenAhead, CloseKeepsRange, CloseUnstarted
<1> QED
  BY <1>1, <1>2 DEF ClosePanes, TimeOrNone

----------------------------------------------------------------------------
(* ingest_at preserves the invariant, sample by sample.                    *)

\* A sample's pane, and where closing starts in it, are on the grid.
LEMMA SkippedFacts ==
    ASSUME NEW d \in Definitions, NEW s \in Sample
    PROVE  /\ EndOf(d, s) \in Int
           /\ Skipped(d, EndOf(d, s)) \in Int
           /\ OnGrid(Skipped(d, EndOf(d, s)), PaneMs[d])
<1>1. PaneMs[d] \in Nat \ {0} /\ s.t \in Int
  BY PlanAssumption, OptionsAssumption DEF Sample
<1>2. EndOf(d, s) \in Int /\ OnGrid(EndOf(d, s), PaneMs[d])
  BY <1>1, PaneEndProperties DEF EndOf
<1>3. OnGrid(EndOf(d, s) - PaneMs[d], PaneMs[d])
  BY <1>1, <1>2, OnGridNeighbours
<1> QED
  BY <1>1, <1>2, <1>3 DEF Skipped

\* A sample is counted under one of the counters.
LEMMA CounterOfType ==
    ASSUME NEW s
    PROVE  CounterOf(s) \in Counters
  BY DEF CounterOf, Counters

\* Counting keeps the counters' type.
LEMMA CountType ==
    ASSUME TypeOK, NEW c \in Counters, Count(c)
    PROVE  counted' \in [Counters -> Nat]
  BY DEF TypeOK, Count

\* Routing a sample: the definition it starts has closed nothing, and the
\* sample is buffered only in a pane that is still open.
LEMMA RouteKeeps ==
    ASSUME PaneInvariant, NEW s \in Sample, TakeSample(s), Route(s)
    PROVE  PaneInvariant'
<1> USE DEF PaneInvariant
<1>1. ASSUME NEW d \in Definitions
      PROVE  /\ firstPaneEnd'[d] \in TimeOrNone /\ builtThrough'[d] \in TimeOrNone
             /\ builtThrough[d] # None => /\ builtThrough'[d] = builtThrough[d]
                                          /\ firstPaneEnd'[d] = firstPaneEnd[d]
             /\ builtThrough[d] = None =>
                   \/ /\ builtThrough'[d] = None
                      /\ firstPaneEnd'[d] = None
                   \/ /\ builtThrough'[d] = Skipped(d, EndOf(d, s))
                      /\ firstPaneEnd'[d] = Skipped(d, EndOf(d, s))
  <2>1. \/ /\ builtThrough'[d] = builtThrough[d]
           /\ firstPaneEnd'[d] = firstPaneEnd[d]
        \/ /\ builtThrough'[d] = BuiltFor(d, EndOf(d, s))
           /\ firstPaneEnd'[d] = FirstFor(d, EndOf(d, s))
    <3>1. CASE d \in Readers(s)
      BY <3>1 DEF Route
    <3>2. CASE d \notin Readers(s)
      BY <3>2 DEF Route
    <3> QED
      BY <3>1, <3>2
  <2>2. firstPaneEnd[d] \in TimeOrNone /\ builtThrough[d] \in TimeOrNone
    BY DEF TypeOK
  <2>3. firstPaneEnd[d] = None <=> builtThrough[d] = None
    BY DEF Aligned
  <2>4. Skipped(d, EndOf(d, s)) \in TimeOrNone
    BY SkippedFacts DEF TimeOrNone
  <2> QED
    BY <2>1, <2>2, <2>3, <2>4 DEF FirstFor, BuiltFor
<1>2. TypeOK'
  <2>1. s.t \in TimeOrNone
    BY OptionsAssumption DEF Sample, TimeOrNone
  <2>2. newestSample' \in TimeOrNone
    BY <2>1, NewerType DEF Route, TypeOK
  <2>3. queryRunNewest' \in [QueryRunMetrics -> TimeOrNone]
    <3>1. \A m \in QueryRunMetrics : Newer(queryRunNewest[m], s.t) \in TimeOrNone
      BY <2>1, NewerType DEF TypeOK
    <3> QED
      BY <3>1 DEF Route, TypeOK
  <2>4. firstPaneEnd' \in [Definitions -> TimeOrNone]
    BY <1>1 DEF Route
  <2>5. builtThrough' \in [Definitions -> TimeOrNone]
    BY <1>1 DEF Route
  <2>6. open' \in [Definitions -> SUBSET Sample]
    BY DEF Route, TypeOK
  <2>7. counted' \in [Counters -> Nat]
    BY CounterOfType, CountType DEF Route
  <2> QED
    BY <2>2, <2>3, <2>4, <2>5, <2>6, <2>7 DEF TypeOK, Route, TakeSample, storeVars
<1>3. Aligned'
  <2> SUFFICES ASSUME NEW d \in Definitions
               PROVE  /\ firstPaneEnd'[d] = None <=> builtThrough'[d] = None
                      /\ builtThrough'[d] # None =>
                            /\ OnGrid(builtThrough'[d], PaneMs[d])
                            /\ OnGrid(firstPaneEnd'[d], PaneMs[d])
                            /\ firstPaneEnd'[d] <= builtThrough'[d]
    BY DEF Aligned, OnGrid
  <2>1. CASE builtThrough[d] # None
    BY <1>1, <2>1 DEF Aligned
  <2>2. CASE builtThrough[d] = None
    BY <1>1, <2>2, SkippedFacts, NoneAssumption
  <2> QED
    BY <2>1, <2>2
<1>4. ClockRead' /\ StartedBySample'
  <2>1. s.t \in Int
    BY OptionsAssumption DEF Sample
  <2>2. newestSample' # None
    BY <2>1, NoneAssumption DEF Route, Newer
  <2> QED
    BY <2>2 DEF ClockRead, StartedBySample, Route, TakeSample
<1>5. OpenIsAhead'
  <2> SUFFICES ASSUME NEW d \in Definitions, NEW o \in open'[d]
               PROVE  builtThrough'[d] # None /\ EndOf(d, o) > builtThrough'[d]
    BY DEF OpenIsAhead, EndOf
  <2>1. CASE o \in open[d]
    BY <1>1, <2>1 DEF OpenIsAhead
  <2>2. CASE o \notin open[d]
    <3>1. o = s /\ d \in Readers(s) /\ OutcomeOf(d, s) = "accepted"
      BY <2>2 DEF Route, TypeOK
    <3>2. builtThrough'[d] = BuiltFor(d, EndOf(d, s))
      BY <3>1 DEF Route
    <3>3. ~Late(d, s)
      BY <3>1 DEF OutcomeOf
    <3>4. builtThrough'[d] # None /\ builtThrough'[d] \in Int
      BY <1>1, <3>2, SkippedFacts, NoneAssumption DEF BuiltFor, TimeOrNone
    <3> QED
      BY <3>1, <3>2, <3>3, <3>4, SkippedFacts DEF Late
  <2> QED
    BY <2>1, <2>2
<1>6. StoreIsRetainedRange'
  <2> SUFFICES ASSUME NEW d \in Definitions
               PROVE  Expected(d)' = Expected(d)
    BY DEF StoreIsRetainedRange, TakeSample, storeVars
  <2>1. CASE builtThrough[d] # None
    BY <1>1, <2>1 DEF Expected
  <2>2. CASE builtThrough[d] = None
    <3>1. Expected(d) = {}
      BY <2>2 DEF Expected
    <3>2. Expected(d)' = {}
      BY <1>1, <2>2, SkippedFacts, PlanAssumption DEF Expected, EndsThrough
    <3> QED
      BY <3>1, <3>2
  <2> QED
    BY <2>1, <2>2
<1> QED
  BY <1>2, <1>3, <1>4, <1>5, <1>6

----------------------------------------------------------------------------
(* The invariant and the theorems.                                         *)

\* The invariant speaks of the variables only.
LEMMA StutterKeeps ==
    ASSUME PaneInvariant, UNCHANGED vars
    PROVE  PaneInvariant'
  BY DEF PaneInvariant, TypeOK, Aligned, ClockRead, StartedBySample, OpenIsAhead,
         StoreIsRetainedRange, Expected, EndOf, vars, clockVars, builderVars, storeVars

\* It holds before the first call.
LEMMA InitHolds ==
    ASSUME Init
    PROVE  PaneInvariant
  BY DEF Init, PaneInvariant, TypeOK, Aligned, ClockRead, StartedBySample, OpenIsAhead,
         StoreIsRetainedRange, Expected, TimeOrNone, PaneCounts

\* Beginning to ingest reads the clock.
LEMMA BeginIngestKeeps ==
    ASSUME PaneInvariant, NEW now \in Clocks, BeginIngest(now)
    PROVE  PaneInvariant'
<1> USE DEF PaneInvariant
<1>1. now \in Int /\ now \in TimeOrNone /\ now # None
  BY OptionsAssumption, NoneAssumption DEF TimeOrNone
<1>2. newestClock' \in TimeOrNone /\ newestClock' # None
  BY <1>1, NewerType DEF BeginIngest, TypeOK
<1>3. TypeOK'
  BY <1>1, <1>2 DEF BeginIngest, TypeOK, builderVars, storeVars
<1>4. Aligned' /\ OpenIsAhead' /\ StoreIsRetainedRange'
  BY DEF BeginIngest, Aligned, OpenIsAhead, StoreIsRetainedRange, Expected, EndOf,
         builderVars, storeVars
<1>5. ClockRead' /\ StartedBySample'
  BY <1>2 DEF ClockRead, StartedBySample, BeginIngest, builderVars
<1> QED
  BY <1>3, <1>4, <1>5

\* A dropped sample is only counted.
LEMMA DropKeeps ==
    ASSUME PaneInvariant, NEW s \in Sample, TakeSample(s),
           DropUnrouted(s) \/ DropFuture(s)
    PROVE  PaneInvariant'
<1> USE DEF PaneInvariant
<1>1. UNCHANGED <<clockVars, builderVars, storeVars, call>>
  BY DEF TakeSample, DropUnrouted, DropFuture
<1>2. counted' \in [Counters -> Nat]
  <2>1. "unrouted" \in Counters /\ "future" \in Counters
    BY DEF Counters
  <2> QED
    BY <2>1, CountType DEF DropUnrouted, DropFuture
<1> QED
  BY <1>1, <1>2 DEF TypeOK, Aligned, ClockRead, StartedBySample, OpenIsAhead,
                    StoreIsRetainedRange, Expected, EndOf, clockVars, builderVars, storeVars

\* A batch ends with its panes closed.
LEMMA EndIngestKeeps ==
    ASSUME PaneInvariant, EndIngest
    PROVE  PaneInvariant'
<1> USE DEF PaneInvariant
<1>1. WatermarkMs \in TimeOrNone
  BY WatermarkType DEF WatermarkMs, TypeOK
<1>2. ClosePanes(WatermarkMs)
  BY DEF EndIngest
<1>3. /\ firstPaneEnd' \in [Definitions -> TimeOrNone]
      /\ builtThrough' \in [Definitions -> TimeOrNone]
      /\ open' \in [Definitions -> SUBSET Sample]
      /\ stored' \in [Definitions -> SUBSET Int]
      /\ rows' \in [Definitions -> SUBSET Sample]
      /\ failed' \in [Definitions -> SUBSET Int]
      /\ panes' \in [Definitions -> PaneCounts]
      /\ Aligned' /\ OpenIsAhead' /\ StoreIsRetainedRange'
      /\ \A d \in Definitions : builtThrough[d] = None => builtThrough'[d] = None
  BY <1>1, <1>2, ClosePanesKeeps
<1>4. TypeOK'
  BY <1>3 DEF TypeOK, EndIngest, clockVars, TimeOrNone
<1>5. ClockRead' /\ StartedBySample'
  BY <1>3, NoneAssumption DEF ClockRead, StartedBySample, EndIngest, clockVars
<1> QED
  BY <1>3, <1>4, <1>5

\* A barrier closes panes unless it is a repeated one.
LEMMA BarrierKeeps ==
    ASSUME PaneInvariant, NEW b \in Times, NEW now \in Clocks,
           AdvanceWatermarkAt(b, now)
    PROVE  PaneInvariant'
<1> USE DEF PaneInvariant
<1>1. /\ now \in TimeOrNone /\ now # None
      /\ Older(b, now) \in TimeOrNone
  BY OptionsAssumption, NoneAssumption DEF TimeOrNone, Older
<1>2. newestClock' \in TimeOrNone /\ newestClock' # None
  BY <1>1, NewerType DEF AdvanceWatermarkAt, TypeOK
<1>3. barrier' \in TimeOrNone
  BY <1>1 DEF AdvanceWatermarkAt, TypeOK
<1>4. /\ firstPaneEnd' \in [Definitions -> TimeOrNone]
      /\ builtThrough' \in [Definitions -> TimeOrNone]
      /\ open' \in [Definitions -> SUBSET Sample]
      /\ stored' \in [Definitions -> SUBSET Int]
      /\ rows' \in [Definitions -> SUBSET Sample]
      /\ failed' \in [Definitions -> SUBSET Int]
      /\ panes' \in [Definitions -> PaneCounts]
      /\ Aligned' /\ OpenIsAhead' /\ StoreIsRetainedRange'
      /\ \A d \in Definitions : builtThrough[d] = None => builtThrough'[d] = None
  <2>1. CASE UNCHANGED <<builderVars, storeVars>>
    BY <2>1 DEF builderVars, storeVars, TypeOK, Aligned, OpenIsAhead,
                StoreIsRetainedRange, Expected, EndOf
  <2>2. CASE ClosePanes(WatermarkOf(newestSample, newestClock', barrier'))
    <3>1. WatermarkOf(newestSample, newestClock', barrier') \in TimeOrNone
      BY <1>2, <1>3, WatermarkType DEF TypeOK
    <3> QED
      BY <2>2, <3>1, ClosePanesKeeps
  <2> QED
    BY <2>1, <2>2 DEF AdvanceWatermarkAt
<1>5. TypeOK'
  BY <1>2, <1>3, <1>4 DEF TypeOK, AdvanceWatermarkAt
<1>6. ClockRead' /\ StartedBySample'
  BY <1>2, <1>4 DEF ClockRead, StartedBySample, AdvanceWatermarkAt
<1> QED
  BY <1>4, <1>5, <1>6

\* Every call and every sample preserves the invariant.
LEMMA NextKeeps ==
    ASSUME PaneInvariant, [Next]_vars
    PROVE  PaneInvariant'
<1>1. CASE UNCHANGED vars
  BY <1>1, StutterKeeps
<1>2. ASSUME NEW now \in Clocks, BeginIngest(now) PROVE PaneInvariant'
  BY <1>2, BeginIngestKeeps
<1>3. ASSUME NEW s \in Sample, TakeSample(s) PROVE PaneInvariant'
  BY <1>3, DropKeeps, RouteKeeps DEF TakeSample
<1>4. CASE EndIngest
  BY <1>4, EndIngestKeeps
<1>5. ASSUME NEW b \in Times, NEW now \in Clocks, AdvanceWatermarkAt(b, now)
      PROVE  PaneInvariant'
  BY <1>5, BarrierKeeps
<1> QED
  BY <1>1, <1>2, <1>3, <1>4, <1>5 DEF Next

\* The inductive invariant holds in every state the engine reaches.
THEOREM PaneInvariantHolds == Spec => []PaneInvariant
<1>1. Init => PaneInvariant
  BY InitHolds
<1>2. PaneInvariant /\ [Next]_vars => PaneInvariant'
  BY NextKeeps
<1> QED
  BY <1>1, <1>2, PTL DEF Spec

\* Type correctness.
THEOREM TypeCorrect == Spec => []TypeOK
<1>1. PaneInvariant => TypeOK
  BY DEF PaneInvariant
<1> QED
  BY <1>1, PaneInvariantHolds, PTL

\* No sample ever waits in a pane that is closed.
THEOREM OpenSamplesAreAhead == Spec => []OpenIsAhead
<1>1. PaneInvariant => OpenIsAhead
  BY DEF PaneInvariant
<1> QED
  BY <1>1, PaneInvariantHolds, PTL

\* The store is the retained range of panes, without a hole.
THEOREM StoreHasNoHole == Spec => []StoreIsRetainedRange
<1>1. PaneInvariant => StoreIsRetainedRange
  BY DEF PaneInvariant
<1> QED
  BY <1>1, PaneInvariantHolds, PTL

\* An evaluation at the newest closed pane, or one pane behind it, is served.
THEOREM OnePaneBehindIsServed == Spec => []ServedOnePaneBehind
<1>1. ASSUME PaneInvariant PROVE ServedOnePaneBehind
  <2> SUFFICES
        ASSUME NEW d \in Definitions, builtThrough[d] # None,
               NEW at \in {builtThrough[d], builtThrough[d] - PaneMs[d]},
               NEW offset \in EndsThrough(0, RetentionMs[d] - PaneMs[d], PaneMs[d]),
               at - offset > firstPaneEnd[d]
        PROVE  at - offset \in Expected(d)
    BY <1>1 DEF ServedOnePaneBehind, PaneInvariant, StoreIsRetainedRange
  <2>1. /\ PaneMs[d] \in Nat \ {0} /\ RetentionMs[d] \in Nat
        /\ builtThrough[d] \in Int /\ OnGrid(builtThrough[d], PaneMs[d])
    BY <1>1, StartedFacts DEF PaneInvariant
  <2>2. /\ offset \in Int /\ 0 <= offset
        /\ offset <= RetentionMs[d] - PaneMs[d] /\ OnGrid(offset, PaneMs[d])
    BY <2>1 DEF EndsThrough
  <2>3. at \in Int /\ OnGrid(at, PaneMs[d])
    BY <2>1, OnGridNeighbours
  <2>4. at - offset \in (builtThrough[d] - RetentionMs[d])..builtThrough[d]
    BY <2>1, <2>2
  <2>5. OnGrid(at - offset, PaneMs[d])
    BY <2>1, <2>2, <2>3, OnGridDifference
  <2> QED
    BY <2>4, <2>5 DEF Expected, EndsThrough
<1> QED
  BY <1>1, PaneInvariantHolds, PTL

----------------------------------------------------------------------------
(* What a step may never do.                                               *)

\* No step takes the watermark back.
LEMMA WatermarkStep ==
    ASSUME PaneInvariant, [Next]_vars, WatermarkMs # None
    PROVE  WatermarkMs' # None /\ WatermarkMs' >= WatermarkMs
<1>1. PaneInvariant'
  BY NextKeeps
<1>2. /\ newestSample \in TimeOrNone /\ newestSample' \in TimeOrNone
      /\ newestClock \in TimeOrNone /\ newestClock' \in TimeOrNone
      /\ barrier \in TimeOrNone /\ barrier' \in TimeOrNone
      /\ newestClock = None => newestSample = None
  BY <1>1 DEF PaneInvariant, TypeOK, ClockRead
<1>3. /\ newestSample # None => newestSample' # None /\ newestSample' >= newestSample
      /\ newestClock # None => newestClock' # None /\ newestClock' >= newestClock
      /\ barrier # None => barrier' # None /\ barrier' >= barrier
  <2>1. \A t \in TimeOrNone : t # None => t >= t
    BY DEF TimeOrNone
  <2>2. CASE UNCHANGED clockVars
    BY <1>2, <2>1, <2>2 DEF clockVars
  <2>3. ASSUME NEW now \in Clocks, BeginIngest(now)
        PROVE  /\ newestSample' = newestSample /\ barrier' = barrier
               /\ newestClock # None => newestClock' # None /\ newestClock' >= newestClock
    <3>1. now \in TimeOrNone
      BY OptionsAssumption DEF TimeOrNone
    <3> QED
      BY <1>2, <2>3, <3>1, NewerType DEF BeginIngest
  <2>4. ASSUME NEW s \in Sample, TakeSample(s)
        PROVE  /\ newestClock' = newestClock /\ barrier' = barrier
               /\ newestSample # None => newestSample' # None /\ newestSample' >= newestSample
    <3>1. s.t \in TimeOrNone
      BY OptionsAssumption DEF Sample, TimeOrNone
    <3>2. CASE Route(s)
      BY <1>2, <3>1, <3>2, NewerType DEF Route
    <3>3. CASE UNCHANGED clockVars
      BY <1>2, <2>1, <3>3 DEF clockVars
    <3> QED
      BY <2>4, <3>2, <3>3 DEF TakeSample, DropUnrouted, DropFuture
  <2>5. ASSUME NEW b \in Times, NEW now \in Clocks, AdvanceWatermarkAt(b, now)
        PROVE  /\ newestSample' = newestSample
               /\ newestClock # None => newestClock' # None /\ newestClock' >= newestClock
               /\ barrier # None => barrier' # None /\ barrier' >= barrier
    <3>1. b \in Int /\ now \in Int /\ now \in TimeOrNone /\ Older(b, now) \in Int
      BY OptionsAssumption DEF TimeOrNone, Older
    <3>2. newestClock # None => newestClock' # None /\ newestClock' >= newestClock
      BY <1>2, <2>5, <3>1, NewerType DEF AdvanceWatermarkAt
    <3>3. barrier # None => barrier' # None /\ barrier' >= barrier
      <4>1. CASE RepeatedBarrier(Older(b, now))
        BY <1>2, <2>1, <2>5, <4>1 DEF AdvanceWatermarkAt
      <4>2. CASE ~RepeatedBarrier(Older(b, now))
        BY <1>2, <2>5, <3>1, <4>2, NoneAssumption
           DEF AdvanceWatermarkAt, RepeatedBarrier, TimeOrNone
      <4> QED
        BY <4>1, <4>2
    <3> QED
      BY <2>5, <3>2, <3>3 DEF AdvanceWatermarkAt
  <2>6. EndIngest \/ UNCHANGED vars => UNCHANGED clockVars
    BY DEF EndIngest, vars, clockVars
  <2> QED
    BY <1>2, <2>1, <2>2, <2>3, <2>4, <2>5, <2>6 DEF Next
<1> QED
  BY <1>2, <1>3, WatermarkMonotone DEF WatermarkMs

\* The watermark never retreats.
THEOREM WatermarkIsMonotone == Spec => WatermarkNeverRetreats
<1> DEFINE Step == WatermarkMs # None => WatermarkMs' # None /\ WatermarkMs' >= WatermarkMs
<1>1. PaneInvariant /\ [Next]_vars => [Step]_vars
  BY WatermarkStep
<1> QED
  BY <1>1, PaneInvariantHolds, PTL DEF Spec, WatermarkNeverRetreats

\* The three things a step does to the panes: nothing; a sample is routed,
\* which only buffers it; or panes close, at the watermark the step ends with.
LEMMA StepKinds ==
    ASSUME PaneInvariant, [Next]_vars
    PROVE  \/ UNCHANGED <<builderVars, storeVars>>
           \/ /\ UNCHANGED storeVars
              /\ \A d \in Definitions :
                    /\ open[d] \subseteq open'[d]
                    /\ builtThrough[d] # None => builtThrough'[d] = builtThrough[d]
           \/ \E bad : WatermarkMs' \in Int /\ CloseWith(WatermarkMs', bad)
<1> DEFINE Kinds == \/ UNCHANGED <<builderVars, storeVars>>
                    \/ /\ UNCHANGED storeVars
                       /\ \A d \in Definitions :
                             /\ open[d] \subseteq open'[d]
                             /\ builtThrough[d] # None => builtThrough'[d] = builtThrough[d]
                    \/ \E bad : WatermarkMs' \in Int /\ CloseWith(WatermarkMs', bad)
<1>1. WatermarkMs' \in TimeOrNone
  <2>1. TypeOK'
    BY NextKeeps DEF PaneInvariant
  <2> QED
    BY <2>1, WatermarkType DEF WatermarkMs, TypeOK
<1>2. ClosePanes(WatermarkMs') => Kinds
  BY <1>1 DEF ClosePanes, TimeOrNone
<1>3. CASE EndIngest
  <2>1. WatermarkMs' = WatermarkMs
    BY <1>3 DEF EndIngest, WatermarkMs, clockVars
  <2> QED
    BY <1>2, <1>3, <2>1 DEF EndIngest
<1>4. ASSUME NEW b \in Times, NEW now \in Clocks, AdvanceWatermarkAt(b, now)
      PROVE  Kinds
  <2>1. newestSample' = newestSample
    BY <1>4 DEF AdvanceWatermarkAt
  <2>2. CASE UNCHANGED <<barrier, builderVars, storeVars>>
    BY <2>2
  <2>3. CASE ClosePanes(WatermarkOf(newestSample, newestClock', barrier'))
    BY <1>2, <2>1, <2>3 DEF WatermarkMs
  <2> QED
    BY <1>4, <2>2, <2>3 DEF AdvanceWatermarkAt
<1>5. ASSUME NEW s \in Sample, TakeSample(s), Route(s)
      PROVE  Kinds
  <2> SUFFICES ASSUME NEW d \in Definitions
               PROVE  /\ open[d] \subseteq open'[d]
                      /\ builtThrough[d] # None => builtThrough'[d] = builtThrough[d]
    BY <1>5 DEF TakeSample
  <2>1. open[d] \subseteq open'[d]
    BY <1>5 DEF Route, PaneInvariant, TypeOK
  <2>2. builtThrough[d] # None => builtThrough'[d] = builtThrough[d]
    BY <1>5 DEF Route, BuiltFor
  <2> QED
    BY <2>1, <2>2
<1>6. ASSUME NEW s \in Sample, TakeSample(s), ~Route(s)
      PROVE  UNCHANGED <<builderVars, storeVars>>
  BY <1>6 DEF TakeSample, DropUnrouted, DropFuture
<1>7. ASSUME NEW now \in Clocks, BeginIngest(now)
      PROVE  UNCHANGED <<builderVars, storeVars>>
  BY <1>7 DEF BeginIngest
<1>8. UNCHANGED vars => UNCHANGED <<builderVars, storeVars>>
  BY DEF vars
<1> QED
  BY <1>3, <1>4, <1>5, <1>6, <1>7, <1>8 DEF Next

\* A pane is stored at most once and never changes.
THEOREM PanesAreStoredOnce == Spec => StoredOnceNeverChanges
<1> DEFINE Same(d) == builtThrough[d] # None =>
                         /\ builtThrough'[d] >= builtThrough[d]
                         /\ \A e \in stored'[d] : e <= builtThrough[d] =>
                               /\ e \in stored[d]
                               /\ PaneRows(d, e, rows'[d]) = PaneRows(d, e, rows[d])
           Step == \A d \in Definitions : Same(d)
<1>1. ASSUME PaneInvariant, [Next]_vars PROVE Step
  <2> SUFFICES ASSUME NEW d \in Definitions, builtThrough[d] # None
               PROVE  Same(d)
    OBVIOUS
  <2>1. /\ PaneMs[d] \in Nat \ {0} /\ builtThrough[d] \in Int
        /\ firstPaneEnd[d] \in Int
    BY <1>1, StartedFacts DEF PaneInvariant
  <2>2. CASE UNCHANGED storeVars /\ builtThrough'[d] = builtThrough[d]
    BY <2>1, <2>2 DEF storeVars
  <2>3. ASSUME NEW bad, WatermarkMs' \in Int, CloseWith(WatermarkMs', bad)
        PROVE  Same(d)
    <3> DEFINE w == WatermarkMs'
               built == Building(d, w, bad)
    <3> HIDE DEF w
    <3>1. w \in Int /\ CloseWith(w, bad)
      BY <2>3 DEF w
    <3>2. /\ builtThrough[d] <= builtThrough'[d]
          /\ \A e \in Closing(d, w) : e \in Int /\ builtThrough[d] < e
      BY <1>1, <3>1, CloseStarted DEF PaneInvariant
    <3>3. \A e \in built : ~(e <= builtThrough[d])
      BY <2>1, <3>2 DEF Building
    <3>4. stored'[d] = Kept(d, w, stored[d] \cup built)
      BY <3>1 DEF CloseWith
    <3>5. rows'[d] = {s \in rows[d] : EndOf(d, s) \in Kept(d, w, stored[d] \ built)}
                     \cup {s \in open[d] : EndOf(d, s) \in Kept(d, w, built)}
      BY <3>1 DEF CloseWith
    <3> HIDE DEF built
    <3>6. ASSUME NEW e \in stored'[d], e <= builtThrough[d]
          PROVE  /\ e \in stored[d]
                 /\ PaneRows(d, e, rows'[d]) = PaneRows(d, e, rows[d])
      <4>1. e \in stored[d] /\ e \notin built /\ e \in Kept(d, w, stored[d] \ built)
        BY <3>3, <3>4, <3>6 DEF Kept
      <4>2. e \notin Kept(d, w, built)
        BY <4>1 DEF Kept
      <4> QED
        BY <3>5, <4>1, <4>2 DEF PaneRows
    <3> QED
      BY <2>1, <3>2, <3>6
  <2> QED
    BY <1>1, <2>2, <2>3, StepKinds DEF builderVars, storeVars
<1>2. PaneInvariant /\ [Next]_vars => [Step]_vars
  BY <1>1
<1> QED
  BY <1>2, PaneInvariantHolds, PTL DEF Spec, StoredOnceNeverChanges

\* A buffered sample leaves its pane only when the pane closes, and is then
\* in the stored pane if there is one.
THEOREM BufferedSamplesAreBuilt == Spec => BufferedReachesItsPane
<1> DEFINE Step == \A d \in Definitions : \A s \in open[d] \ open'[d] :
                      /\ EndOf(d, s) <= builtThrough'[d]
                      /\ EndOf(d, s) \in stored'[d] => s \in rows'[d]
<1>1. ASSUME PaneInvariant, [Next]_vars PROVE Step
  <2> SUFFICES ASSUME NEW d \in Definitions, NEW s \in open[d], s \notin open'[d]
               PROVE  /\ EndOf(d, s) <= builtThrough'[d]
                      /\ EndOf(d, s) \in stored'[d] => s \in rows'[d]
    OBVIOUS
  <2>1. builtThrough[d] # None /\ EndOf(d, s) > builtThrough[d]
    BY <1>1 DEF PaneInvariant, OpenIsAhead
  <2>2. ~UNCHANGED builderVars /\ ~(open[d] \subseteq open'[d])
    BY DEF builderVars
  <2>3. PICK bad : WatermarkMs' \in Int /\ CloseWith(WatermarkMs', bad)
    BY <1>1, <2>2, StepKinds
  <2> DEFINE w == WatermarkMs'
             e == EndOf(d, s)
             built == Building(d, w, bad)
  <2> HIDE DEF w
  <2>4. w \in Int /\ CloseWith(w, bad)
    BY <2>3 DEF w
  <2>5. builtThrough[d] \in Int /\ PaneMs[d] \in Nat \ {0}
    BY <1>1, <2>1, StartedFacts DEF PaneInvariant
  <2>6. s \in Sample
    BY <1>1 DEF PaneInvariant, TypeOK
  <2>7. e \in Int
    BY <2>6, SkippedFacts
  <2>8. s \notin StillOpen(d, w)
    BY <2>1, <2>4 DEF CloseWith
  <2>9. e \in Closing(d, w) \/ (Skips(d, w) /\ ~(e >= FirstToBuild(d, w)))
    BY <2>8 DEF StillOpen
  <2>10. e <= builtThrough'[d]
    <3>1. CASE e \in Closing(d, w)
      BY <1>1, <2>1, <2>4, <3>1, CloseStarted DEF PaneInvariant
    <3>2. CASE Skips(d, w) /\ ~(e >= FirstToBuild(d, w))
      <4>1. FirstToBuild(d, w) \in Int /\ FirstToBuild(d, w) <= GridFloor(w, PaneMs[d])
        BY <1>1, <2>1, <2>4, <3>2, FirstToBuildFacts DEF PaneInvariant
      <4>2. builtThrough'[d] \in Int /\ GridFloor(w, PaneMs[d]) <= builtThrough'[d]
        BY <1>1, <2>1, <2>4, CloseStarted DEF PaneInvariant
      <4>3. GridFloor(w, PaneMs[d]) \in Int
        BY <2>4, <2>5, GridFloorProperties
      <4> HIDE DEF e
      <4> QED
        BY <2>7, <3>2, <4>1, <4>2, <4>3
    <3> QED
      BY <2>9, <3>1, <3>2
  <2>11. ASSUME e \in stored'[d] PROVE s \in rows'[d]
    <3>1. e \notin stored[d]
      <4>1. \A x \in Expected(d) : x <= builtThrough[d]
        BY <2>5 DEF Expected, EndsThrough
      <4>2. ~(e <= builtThrough[d])
        BY <2>1, <2>5, <2>7
      <4> QED
        BY <1>1, <4>1, <4>2 DEF PaneInvariant, StoreIsRetainedRange
    <3>2. stored'[d] = Kept(d, w, stored[d] \cup built)
      BY <2>1, <2>4 DEF CloseWith
    <3>3. e \in Kept(d, w, built)
      BY <2>11, <3>1, <3>2 DEF Kept
    <3>4. {x \in open[d] : EndOf(d, x) \in Kept(d, w, built)} \subseteq rows'[d]
      BY <2>1, <2>4 DEF CloseWith
    <3> QED
      BY <3>3, <3>4
  <2> QED
    BY <2>10, <2>11
<1>2. PaneInvariant /\ [Next]_vars => [Step]_vars
  BY <1>1
<1> QED
  BY <1>2, PaneInvariantHolds, PTL DEF Spec, BufferedReachesItsPane

\* A call that closes panes leaves none open that the watermark has passed.
THEOREM DuePanesAreClosed == Spec => DuePanesClosed
<1> DEFINE Step == (call # None /\ call' = None) \/ barrier' # barrier =>
                      \A d \in Definitions :
                         builtThrough'[d] # None =>
                            builtThrough'[d] + PaneMs[d] > WatermarkMs'
<1>1. ASSUME PaneInvariant, [Next]_vars PROVE Step
  <2> SUFFICES ASSUME (call # None /\ call' = None) \/ barrier' # barrier,
                      NEW d \in Definitions, builtThrough'[d] # None
               PROVE  builtThrough'[d] + PaneMs[d] > WatermarkMs'
    OBVIOUS
  <2>1. ClosePanes(WatermarkMs')
    <3>1. CASE EndIngest
      <4>1. WatermarkMs' = WatermarkMs
        BY <3>1 DEF EndIngest, WatermarkMs, clockVars
      <4> QED
        BY <3>1, <4>1 DEF EndIngest
    <3>2. ASSUME NEW b \in Times, NEW now \in Clocks, AdvanceWatermarkAt(b, now)
          PROVE  ClosePanes(WatermarkMs')
      <4>1. ~RepeatedBarrier(Older(b, now)) /\ newestSample' = newestSample
        BY <3>2 DEF AdvanceWatermarkAt
      <4> QED
        BY <3>2, <4>1 DEF AdvanceWatermarkAt, WatermarkMs
    <3>3. ASSUME NEW now \in Clocks, BeginIngest(now) PROVE FALSE
      BY <3>3 DEF BeginIngest
    <3>4. ASSUME NEW s \in Sample, TakeSample(s) PROVE FALSE
      BY <3>4 DEF TakeSample, DropUnrouted, DropFuture, Route, clockVars
    <3>5. ~UNCHANGED vars
      BY DEF vars, clockVars
    <3> QED
      BY <1>1, <3>1, <3>2, <3>3, <3>4, <3>5 DEF Next
  <2>2. WatermarkMs' \in Int
    <3>1. PaneInvariant'
      BY <1>1, NextKeeps
    <3>2. newestSample' # None /\ newestClock' # None /\ TypeOK'
      BY <3>1 DEF PaneInvariant, StartedBySample, ClockRead
    <3> QED
      BY <3>2, WatermarkOfSample DEF WatermarkMs, TypeOK
  <2>3. PICK bad : CloseWith(WatermarkMs', bad)
    BY <2>1, <2>2, NoneAssumption DEF ClosePanes
  <2>4. builtThrough[d] # None
    BY <2>3, CloseUnstarted
  <2> DEFINE w == WatermarkMs'
  <2> HIDE DEF w
  <2>5. w \in Int /\ CloseWith(w, bad)
    BY <2>2, <2>3 DEF w
  <2>6. w < builtThrough'[d] + PaneMs[d] /\ builtThrough'[d] \in Int
    BY <1>1, <2>4, <2>5, CloseStarted DEF PaneInvariant
  <2>7. PaneMs[d] \in Nat
    BY PlanAssumption
  <2> QED
    BY <2>5, <2>6, <2>7 DEF w
<1>2. PaneInvariant /\ [Next]_vars => [Step]_vars
  BY <1>1
<1> QED
  BY <1>2, PaneInvariantHolds, PTL DEF Spec, DuePanesClosed
----------------------------------------------------------------------------
(* Every pane is counted once.                                             *)

\* How many panes lie between two grid points.
LEMMA GridCount ==
    ASSUME NEW f \in Int, NEW g \in Int, NEW p \in Nat \ {0},
           OnGrid(f, p), OnGrid(g, p), f <= g,
           NEW S, S = {e \in Int : OnGrid(e, p) /\ f <= e /\ e <= g}
    PROVE  IsFiniteSet(S) /\ Cardinality(S) \in Nat /\ Cardinality(S) * p = (g - f) + p
<1> DEFINE j == f \div p
           k == g \div p
           map == [i \in j..k |-> i * p]
<1>1. j \in Int /\ f = j * p /\ k \in Int /\ g = k * p
  BY OnGridMultiple
<1> HIDE DEF j, k
<1>2. \A a, b \in Int : a <= b => a * p <= b * p
  BY SMT
<1>3. \A a, b \in Int : a < b => a * p < b * p
  BY SMT
<1>4. j <= k
  BY <1>1, <1>3
<1>5. \A i \in j..k : map[i] \in S
  <2> SUFFICES ASSUME NEW i \in j..k PROVE i * p \in S
    OBVIOUS
  <2>1. i \in Int /\ j <= i /\ i <= k
    BY <1>1
  <2>2. i * p \in Int /\ OnGrid(i * p, p)
    BY <2>1, MultipleOnGrid
  <2>3. j * p <= i * p
    BY <1>1, <1>2, <2>1
  <2>4. i * p <= k * p
    BY <1>1, <1>2, <2>1
  <2> QED
    BY <1>1, <2>2, <2>3, <2>4
<1>6. \A e \in S : \E i \in j..k : map[i] = e
  <2> SUFFICES ASSUME NEW e \in S PROVE \E i \in j..k : i * p = e
    OBVIOUS
  <2> DEFINE i == e \div p
  <2>1. i \in Int /\ e = i * p
    BY OnGridMultiple
  <2> HIDE DEF i
  <2>2. j <= i /\ i <= k
    BY <1>1, <1>3, <2>1
  <2> QED
    BY <1>1, <2>1, <2>2
<1>7. \A a, b \in j..k : map[a] = map[b] => a = b
  <2> SUFFICES ASSUME NEW a \in j..k, NEW b \in j..k, a * p = b * p PROVE a = b
    OBVIOUS
  <2> QED
    BY <1>1, <1>3
<1>8. map \in Bijection(j..k, S)
  BY <1>5, <1>6, <1>7 DEF Bijection, Injection, Surjection, IsInjective
<1>9. IsFiniteSet(j..k) /\ Cardinality(j..k) = k - j + 1
  BY <1>1, <1>4, FS_Interval
<1>10. IsFiniteSet(S) /\ Cardinality(S) = k - j + 1
  BY <1>8, <1>9, FS_Bijection DEF ExistsBijection
<1>11. (k - j + 1) * p = (k * p - j * p) + p
  BY <1>1, SMT
<1> QED
  BY <1>1, <1>4, <1>10, <1>11

\* The panes that close are built or fail, never both.
LEMMA ClosingCount ==
    ASSUME TypeOK, Aligned, NEW d \in Definitions, builtThrough[d] # None,
           NEW w \in Int, NEW bad
    PROVE  /\ Cardinality(Building(d, w, bad)) \in Nat
           /\ Cardinality(Failing(d, w, bad)) \in Nat
           /\ Cardinality(Building(d, w, bad)) + Cardinality(Failing(d, w, bad))
                = Cardinality(Closing(d, w))
<1> DEFINE all == Closing(d, w)
           fails == Failing(d, w, bad)
<1>1. IsFiniteSet(all)
  BY ClosingFacts
<1>2. fails \subseteq all /\ Building(d, w, bad) = all \ fails
  BY DEF Failing, Building
<1> HIDE DEF all, fails
<1>3. all \cap fails = fails
  BY <1>2
<1>4. /\ IsFiniteSet(fails) /\ IsFiniteSet(all \ fails)
      /\ Cardinality(all \ fails) = Cardinality(all) - Cardinality(fails)
  <2>1. IsFiniteSet(fails)
    BY <1>1, <1>2, FS_Subset
  <2>2. /\ IsFiniteSet(all \ fails)
        /\ Cardinality(all \ fails) = Cardinality(all) - Cardinality(all \cap fails)
    BY <1>1, FS_Difference
  <2> QED
    BY <1>3, <2>1, <2>2
<1>5. Cardinality(fails) \in Nat /\ Cardinality(all) \in Nat
      /\ Cardinality(all \ fails) \in Nat
  BY <1>1, <1>4, FS_CardinalityType
<1> QED
  BY <1>2, <1>4, <1>5 DEF all, fails

\* What a call that closes panes adds to the counters is how far the newest
\* closed pane moves: the panes skipped lie before the first it builds, the
\* panes built and failed from that one on.
LEMMA CloseCounts ==
    ASSUME TypeOK, Aligned, NEW w \in Int, NEW bad, CloseWith(w, bad),
           NEW d \in Definitions, builtThrough[d] # None
    PROVE  (Cardinality(Building(d, w, bad)) + Cardinality(Failing(d, w, bad))
              + SkippedPanes(d, w)) * PaneMs[d] = builtThrough'[d] - builtThrough[d]
<1> DEFINE p == PaneMs[d]
           b == builtThrough[d]
           g == GridFloor(w, p)
           f == FirstToBuild(d, w)
           all == Closing(d, w)
           closed == Cardinality(all)
           skipped == SkippedPanes(d, w)
<1>1. p \in Nat \ {0} /\ b \in Int /\ OnGrid(b, p)
  BY StartedFacts
<1>2. g \in Int /\ OnGrid(g, p)
  BY <1>1, GridFloorProperties
<1>3. /\ f \in Int /\ OnGrid(f, p) /\ b + p <= f
      /\ ~Skips(d, w) => f = b + p
      /\ skipped \in Nat
  BY FirstToBuildFacts
<1>4. skipped * p = f - (b + p)
  <2>1. b + p \in Int /\ OnGrid(b + p, p)
    BY <1>1, OnGridNeighbours
  <2>2. skipped = (f - (b + p)) \div p
    BY DEF SkippedPanes, NextEnd
  <2> HIDE DEF p, b, f, skipped
  <2> QED
    BY <1>1, <1>3, <2>1, <2>2, GridDistance
<1>5. /\ all = {e \in Int : OnGrid(e, p) /\ f <= e /\ e <= g}
      /\ all = {} => ~Skips(d, w)
  BY ClosingFacts
<1>6. builtThrough'[d] = IF all = {} THEN b ELSE g
  BY DEF CloseWith
<1>7. Cardinality(Building(d, w, bad)) + Cardinality(Failing(d, w, bad)) = closed
  BY ClosingCount
<1> HIDE DEF p, b, g, f, all, skipped
<1>8. closed \in Nat /\ (closed + skipped) * p = builtThrough'[d] - b
  <2>1. CASE all = {}
    <3>1. closed = 0 /\ f = b + p
      BY <1>3, <1>5, <2>1, FS_EmptySet
    <3> QED
      BY <1>1, <1>3, <1>4, <1>6, <2>1, <3>1
  <2>2. CASE all # {}
    <3>1. f <= g
      BY <1>2, <1>3, <1>5, <2>2
    <3>2. closed \in Nat /\ closed * p = (g - f) + p
      BY <1>1, <1>2, <1>3, <1>5, <3>1, GridCount
    <3> HIDE DEF closed
    <3>3. (closed + skipped) * p = closed * p + skipped * p
      BY <1>1, <1>3, <3>2, SMT
    <3> QED
      BY <1>1, <1>2, <1>3, <1>4, <1>6, <2>2, <3>2, <3>3 DEF closed
  <2> QED
    BY <2>1, <2>2
<1> QED
  BY <1>7, <1>8 DEF p, b, skipped

\* A step moves a definition's newest closed pane and its counters together.
LEMMA CountsStep ==
    ASSUME PaneInvariant, PanesCountedOnce, [Next]_vars
    PROVE  PanesCountedOnce'
<1> DEFINE Total(c) == c.built + c.failed + c.expired
<1> SUFFICES ASSUME NEW d \in Definitions
             PROVE  IF builtThrough'[d] = None THEN Total(panes'[d]) = 0
                    ELSE Total(panes'[d]) * PaneMs[d] = builtThrough'[d] - firstPaneEnd'[d]
  BY DEF PanesCountedOnce
<1>1. TypeOK /\ Aligned /\ PaneInvariant'
  BY NextKeeps DEF PaneInvariant
<1>2. /\ panes[d] \in PaneCounts
      /\ Total(panes[d]) \in Nat
  BY <1>1 DEF TypeOK, PaneCounts
<1>3. IF builtThrough[d] = None THEN Total(panes[d]) = 0
      ELSE Total(panes[d]) * PaneMs[d] = builtThrough[d] - firstPaneEnd[d]
  BY DEF PanesCountedOnce
<1>4. builtThrough[d] = None <=> firstPaneEnd[d] = None
  BY <1>1 DEF Aligned
<1>5. PaneMs[d] \in Nat \ {0}
  BY PlanAssumption
<1> HIDE DEF Total
<1>6. CASE UNCHANGED <<builderVars, storeVars>>
  BY <1>3, <1>6 DEF builderVars, storeVars
<1>7. ASSUME NEW s \in Sample, Route(s), UNCHANGED storeVars
      PROVE  IF builtThrough'[d] = None THEN Total(panes'[d]) = 0
             ELSE Total(panes'[d]) * PaneMs[d] = builtThrough'[d] - firstPaneEnd'[d]
  <2>1. panes'[d] = panes[d]
    BY <1>7 DEF storeVars
  <2>2. CASE builtThrough[d] # None \/ d \notin Readers(s)
    <3>1. builtThrough'[d] = builtThrough[d] /\ firstPaneEnd'[d] = firstPaneEnd[d]
      BY <1>4, <1>7, <2>2 DEF Route, BuiltFor, FirstFor
    <3> QED
      BY <1>3, <2>1, <3>1
  <2>3. CASE builtThrough[d] = None /\ d \in Readers(s)
    <3> DEFINE start == Skipped(d, EndOf(d, s))
    <3>1. builtThrough'[d] = start /\ firstPaneEnd'[d] = start
      BY <1>4, <1>7, <2>3 DEF Route, BuiltFor, FirstFor
    <3>2. start \in Int
      BY SkippedFacts
    <3> HIDE DEF start
    <3>3. Total(panes'[d]) = 0
      BY <1>3, <2>1, <2>3
    <3> QED
      BY <1>5, <3>1, <3>2, <3>3, NoneAssumption
  <2> QED
    BY <2>2, <2>3
<1>8. ASSUME NEW w \in Int, NEW bad, CloseWith(w, bad)
      PROVE  IF builtThrough'[d] = None THEN Total(panes'[d]) = 0
             ELSE Total(panes'[d]) * PaneMs[d] = builtThrough'[d] - firstPaneEnd'[d]
  <2> DEFINE built == Cardinality(Building(d, w, bad))
             fails == Cardinality(Failing(d, w, bad))
             skipped == IF builtThrough[d] # None THEN SkippedPanes(d, w) ELSE 0
  <2>1. panes'[d] = [built |-> panes[d].built + built,
                     failed |-> panes[d].failed + fails,
                     expired |-> panes[d].expired + skipped]
    BY <1>8 DEF CloseWith
  <2>2. firstPaneEnd'[d] = firstPaneEnd[d]
    BY <1>8 DEF CloseWith
  <2>3. CASE builtThrough[d] = None
    <3>1. builtThrough'[d] = None
      BY <1>8, <2>3, CloseUnstarted
    <3>2. built = 0 /\ fails = 0 /\ skipped = 0
      BY <1>8, <2>3, CloseUnstarted, FS_EmptySet
    <3> HIDE DEF built, fails, skipped
    <3>3. Total(panes'[d]) = Total(panes[d])
      BY <1>2, <2>1, <3>2 DEF Total, PaneCounts
    <3> QED
      BY <1>3, <2>3, <3>1, <3>3
  <2>4. CASE builtThrough[d] # None
    <3>1. /\ built \in Nat /\ fails \in Nat
          /\ (built + fails + SkippedPanes(d, w)) * PaneMs[d]
               = builtThrough'[d] - builtThrough[d]
      BY <1>1, <1>8, <2>4, CloseCounts, ClosingCount
    <3>2. SkippedPanes(d, w) \in Nat
      BY <1>1, <2>4, FirstToBuildFacts
    <3>3. skipped = SkippedPanes(d, w)
      BY <2>4
    <3>4. /\ builtThrough[d] \in Int /\ firstPaneEnd[d] \in Int
          /\ builtThrough'[d] \in Int
      BY <1>1, <1>8, <2>4, StartedFacts, CloseStarted
    <3> DEFINE more == built + fails + skipped
    <3> HIDE DEF built, fails, skipped
    <3>5. Total(panes'[d]) = Total(panes[d]) + more /\ more \in Nat
      BY <1>2, <2>1, <3>1, <3>2, <3>3 DEF Total, PaneCounts
    <3>6. more * PaneMs[d] = builtThrough'[d] - builtThrough[d]
      BY <3>1, <3>3
    <3> HIDE DEF more
    <3>7. (Total(panes[d]) + more) * PaneMs[d]
            = Total(panes[d]) * PaneMs[d] + more * PaneMs[d]
      BY <1>2, <1>5, <3>5, SMT
    <3> QED
      BY <1>3, <2>2, <2>4, <3>4, <3>5, <3>6, <3>7, NoneAssumption
  <2> QED
    BY <2>3, <2>4
<1>9. ASSUME NEW w \in TimeOrNone, ClosePanes(w)
      PROVE  \/ UNCHANGED <<builderVars, storeVars>>
             \/ w \in Int /\ \E bad : CloseWith(w, bad)
  BY <1>9 DEF ClosePanes, TimeOrNone
<1>10. CASE EndIngest
  <2>1. WatermarkMs \in TimeOrNone
    BY <1>1, WatermarkType DEF WatermarkMs, TypeOK
  <2> QED
    BY <1>6, <1>8, <1>9, <1>10, <2>1 DEF EndIngest
<1>11. ASSUME NEW b \in Times, NEW now \in Clocks, AdvanceWatermarkAt(b, now)
       PROVE  IF builtThrough'[d] = None THEN Total(panes'[d]) = 0
              ELSE Total(panes'[d]) * PaneMs[d] = builtThrough'[d] - firstPaneEnd'[d]
  <2>1. WatermarkOf(newestSample, newestClock', barrier') \in TimeOrNone
    BY <1>1, WatermarkType DEF PaneInvariant, TypeOK
  <2> QED
    BY <1>6, <1>8, <1>9, <1>11, <2>1 DEF AdvanceWatermarkAt
<1>12. ASSUME NEW s \in Sample, TakeSample(s)
       PROVE  \/ UNCHANGED <<builderVars, storeVars>>
              \/ Route(s) /\ UNCHANGED storeVars
  BY <1>12 DEF TakeSample, DropUnrouted, DropFuture
<1>13. ASSUME NEW now \in Clocks, BeginIngest(now)
       PROVE  UNCHANGED <<builderVars, storeVars>>
  BY <1>13 DEF BeginIngest
<1>14. UNCHANGED vars => UNCHANGED <<builderVars, storeVars>>
  BY DEF vars
<1> QED
  BY <1>6, <1>7, <1>10, <1>11, <1>12, <1>13, <1>14 DEF Next

\* Each pane is counted once, as built, failed or expired.
THEOREM PanesAreCountedOnce == Spec => []PanesCountedOnce
<1>1. Init => PanesCountedOnce
  BY DEF Init, PanesCountedOnce
<1>2. PaneInvariant /\ PanesCountedOnce /\ [Next]_vars => PanesCountedOnce'
  BY CountsStep
<1> QED
  BY <1>1, <1>2, PaneInvariantHolds, PTL DEF Spec

----------------------------------------------------------------------------
(* The query engine: what is decided when a query is prepared still holds  *)
(* when it is evaluated.                                                   *)


\* The numbers of a QueryRun definition.
LEMMA QueryRunFacts ==
    ASSUME NEW q \in QueryRuns
    PROVE  QueryRunPaneMs[q] \in Nat \ {0} /\ QueryRunRetentionMs[q] \in Nat
  BY QueryPlanAssumption

\* An input of a query is a definition and an offset.
LEMMA InputFacts ==
    ASSUME NEW query \in Queries, NEW i \in 1..Len(QueryRunInputs[query])
    PROVE  QueryRunInputs[query][i] \in QueryRuns \X Int
<1>1. QueryRunInputs[query] \in Seq(QueryRuns \X Int)
  BY QueryPlanAssumption
<1> QED
  BY <1>1

\* An evaluation that is not idle carries what it was prepared with.
LEMMA EvaluationFacts ==
    ASSUME QTypeOK, NEW c \in Clients, evaluation[c].phase = "fetching"
    PROVE  IsEvaluation(evaluation[c])
  BY DEF QTypeOK, Idle

\* No step of a query touches the precompute engine.
LEMMA EngineStep ==
    ASSUME [QNext]_allVars
    PROVE  [Next]_vars
  BY DEF QNext, allVars, Precomputes, Scrape, Prepare, Fetch, Abandon, Evaluate,
         EvaluateMisses, EvaluateFails

\* The panes of an evaluation's inputs end at times.
LEMMA EndAtType ==
    ASSUME QTypeOK, NEW c \in Clients, evaluation[c].phase = "fetching",
           NEW i \in 1..Len(QueryRunInputs[evaluation[c].query])
    PROVE  EndAt(c, i) \in Int /\ DefinitionAt(c, i) \in QueryRuns
<1>1. evaluation[c].query \in Queries /\ evaluation[c].at \in Int
  BY EvaluationFacts, QueryPlanAssumption DEF IsEvaluation
<1> QED
  BY <1>1, InputFacts DEF EndAt, DefinitionAt

\* Some natural number of any is the least.
LEMMA LeastNatural ==
    ASSUME NEW T \in SUBSET Nat, T # {}
    PROVE  \E m \in T : \A n \in T : m <= n
<1>1. IsWellFoundedOn(OpToRel(<, Nat), Nat)
  BY NatLessThanWellFounded
<1>2. IsWellFoundedOn({ss \in Nat \X Nat : ss[1] < ss[2]}, Nat)
  BY <1>1 DEF OpToRel
<1>3. PICK m \in T : \A n \in T : ~(<<n, m>> \in {ss \in Nat \X Nat : ss[1] < ss[2]})
  BY <1>2, WFMin, Zenon
<1>4. \A n \in T : ~(n < m)
  BY <1>3
<1> QED
  BY <1>4

\* The samples given to an evaluation by a node are those of one of the
\* fetches that share it.
LEMMA GivenIsShared ==
    ASSUME QTypeOK, NEW c \in Clients, evaluation[c].phase = "fetching",
           NEW q \in QueryRuns, Sharing(c, q) # {}
    PROVE  /\ GivenBy(c, q) \in Sharing(c, q)
           /\ GivenBy(c, q) \in QueryRuns
           /\ evaluation[c].raw[GivenBy(c, q)] \subseteq Sample
<1>1. IsEvaluation(evaluation[c])
  BY EvaluationFacts
<1>2. Sharing(c, q) \subseteq DOMAIN evaluation[c].raw
  BY DEF Sharing
<1>3. Sharing(c, q) \subseteq QueryRuns
  BY <1>1, <1>2 DEF IsEvaluation
<1> DEFINE after == {KeysAfter[d] : d \in Sharing(c, q)}
<1>4. PICK d \in Sharing(c, q) : \A o \in Sharing(c, q) : KeysAfter[d] <= KeysAfter[o]
  <2>1. after \in SUBSET Nat /\ after # {}
    BY <1>3, QueryPlanAssumption
  <2> HIDE DEF after
  <2>2. PICK m \in after : \A n \in after : m <= n
    BY <2>1, LeastNatural
  <2> QED
    BY <2>2 DEF after
<1>5. GivenBy(c, q) \in Sharing(c, q)
  BY <1>4 DEF GivenBy
<1> QED
  BY <1>1, <1>2, <1>3, <1>5 DEF IsEvaluation

\* Binding inputs only adds summaries, of panes the snapshot had closed.
LEMMA WithStoredFacts ==
    ASSUME QTypeOK, NEW c \in Clients, evaluation[c].phase = "fetching",
           NEW n \in 0..Len(QueryRunInputs[evaluation[c].query]),
           \A i \in 1..n : MustBuild(c, i) => HasSamples(c, i),
           NEW q \in QueryRuns
    PROVE  /\ DOMAIN WithStored(c, n, q) = DOMAIN qstore[q] \cup StoresOf(c, n, q)
           /\ \A e \in DOMAIN qstore[q] : WithStored(c, n, q)[e] = qstore[q][e]
           /\ \A e \in StoresOf(c, n, q) : /\ e \in Int
                                           /\ Closed(c, e)
                                           /\ e \notin DOMAIN qstore[q]
                                           /\ WithStored(c, n, q)[e] \subseteq Sample
<1>1. Len(QueryRunInputs[evaluation[c].query]) \in Nat
  BY EvaluationFacts, QueryPlanAssumption DEF IsEvaluation
<1>2. ASSUME NEW e \in StoresOf(c, n, q)
      PROVE  /\ e \in Int /\ Closed(c, e) /\ e \notin DOMAIN qstore[q]
             /\ evaluation[c].raw[GivenBy(c, q)] \subseteq Sample
  <2>1. PICK i \in 1..n : /\ e = EndAt(c, i)
                          /\ DefinitionAt(c, i) = q
                          /\ MustBuild(c, i)
                          /\ Closed(c, EndAt(c, i))
    BY <1>2 DEF StoresOf
  <2>2. i \in 1..Len(QueryRunInputs[evaluation[c].query])
    BY <1>1
  <2>3. EndAt(c, i) \in Int
    BY <2>2, EndAtType
  <2>4. evaluation[c].raw[GivenBy(c, q)] \subseteq Sample
    BY <2>1, GivenIsShared DEF HasSamples
  <2> QED
    BY <2>1, <2>3, <2>4 DEF MustBuild
<1>3. ASSUME NEW e \in StoresOf(c, n, q)
      PROVE  WithStored(c, n, q)[e] \subseteq Sample
  <2>1. WithStored(c, n, q)[e] = Coverage(q, e, evaluation[c].raw[GivenBy(c, q)])
    BY <1>3 DEF WithStored
  <2> QED
    BY <1>2, <1>3, <2>1 DEF Coverage, SamplesOf
<1> QED
  BY <1>2, <1>3 DEF WithStored

\* What an evaluation does to a stored summary: it is kept as it is, or
\* stored because the snapshot had closed its pane, or evicted because the
\* snapshot was past it.
LEMMA StoreStep ==
    ASSUME QTypeOK, [QNext]_allVars, NEW q \in QueryRuns
    PROVE  /\ \A e \in DOMAIN qstore'[q] :
                 \/ e \in DOMAIN qstore[q] /\ qstore'[q][e] = qstore[q][e]
                 \/ /\ e \notin DOMAIN qstore[q]
                    /\ e \in Int
                    /\ qstore'[q][e] \subseteq Sample
                    /\ \E c \in Clients : /\ evaluation[c].phase = "fetching"
                                          /\ Closed(c, e)
           /\ \A e \in DOMAIN qstore[q] \ DOMAIN qstore'[q] :
                 \E c \in Clients : /\ evaluation[c].phase = "fetching"
                                    /\ DecidedBy(c) # None
                                    /\ ~(e >= QueryRunOldest(c, q))
<1> DEFINE Step == /\ \A e \in DOMAIN qstore'[q] :
                         \/ e \in DOMAIN qstore[q] /\ qstore'[q][e] = qstore[q][e]
                         \/ /\ e \notin DOMAIN qstore[q]
                            /\ e \in Int
                            /\ qstore'[q][e] \subseteq Sample
                            /\ \E c \in Clients : /\ evaluation[c].phase = "fetching"
                                                  /\ Closed(c, e)
                   /\ \A e \in DOMAIN qstore[q] \ DOMAIN qstore'[q] :
                         \E c \in Clients : /\ evaluation[c].phase = "fetching"
                                            /\ DecidedBy(c) # None
                                            /\ ~(e >= QueryRunOldest(c, q))
<1>1. ASSUME NEW c \in Clients, EvaluateFails(c) PROVE Step
  <2>1. evaluation[c].phase = "fetching"
    BY <1>1 DEF EvaluateFails, Fetched
  <2>2. PICK n \in 0..Len(QueryRunInputs[evaluation[c].query]) :
           /\ qstore' = [d \in QueryRuns |-> WithStored(c, n, d)]
           /\ \A i \in 1..n : MustBuild(c, i) => HasSamples(c, i)
    BY <1>1 DEF EvaluateFails
  <2> DEFINE store == WithStored(c, n, q)
  <2>4. qstore'[q] = store
    BY <2>2
  <2>5. /\ DOMAIN store = DOMAIN qstore[q] \cup StoresOf(c, n, q)
        /\ \A e \in DOMAIN qstore[q] : store[e] = qstore[q][e]
        /\ \A e \in StoresOf(c, n, q) : /\ e \in Int
                                        /\ Closed(c, e)
                                        /\ e \notin DOMAIN qstore[q]
                                        /\ store[e] \subseteq Sample
    BY <2>1, <2>2, WithStoredFacts
  <2> HIDE DEF store
  <2> QED
    BY <2>1, <2>4, <2>5
<1>2. ASSUME NEW c \in Clients, Evaluate(c) PROVE Step
  <2> DEFINE n == Len(QueryRunInputs[evaluation[c].query])
             store == WithStored(c, n, q)
  <2>1. evaluation[c].phase = "fetching"
    BY <1>2 DEF Evaluate, Fetched
  <2>2. n \in 0..Len(QueryRunInputs[evaluation[c].query])
    BY <2>1, EvaluationFacts, QueryPlanAssumption DEF IsEvaluation
  <2>3. /\ qstore'[q] = Evicted(c, q, store)
        /\ \A i \in 1..n : MustBuild(c, i) => HasSamples(c, i)
    BY <1>2 DEF Evaluate
  <2>4. /\ DOMAIN store = DOMAIN qstore[q] \cup StoresOf(c, n, q)
        /\ \A e \in DOMAIN qstore[q] : store[e] = qstore[q][e]
        /\ \A e \in StoresOf(c, n, q) : /\ e \in Int
                                        /\ Closed(c, e)
                                        /\ e \notin DOMAIN qstore[q]
                                        /\ store[e] \subseteq Sample
    BY <2>1, <2>2, <2>3, WithStoredFacts
  <2> HIDE DEF n, store
  <2>5. /\ DOMAIN qstore'[q] = {x \in DOMAIN store :
                                  DecidedBy(c) # None => x >= QueryRunOldest(c, q)}
        /\ \A e \in DOMAIN qstore'[q] : qstore'[q][e] = store[e]
    BY <2>3 DEF Evicted
  <2> QED
    BY <2>1, <2>4, <2>5
<1>3. ASSUME UNCHANGED qstore PROVE Step
  <2>1. qstore'[q] = qstore[q]
    BY <1>3
  <2> QED
    BY <2>1
<1> QED
  BY <1>1, <1>2, <1>3
     DEF QNext, allVars, queryVars, Precomputes, Scrape, Prepare, Fetch, Abandon,
         EvaluateMisses

\* What a step does to an evaluation: nothing to what it was prepared with;
\* it ends; or it is prepared, from the state of the step.
LEMMA EvaluationStep ==
    ASSUME QTypeOK, [QNext]_allVars, NEW c \in Clients,
           evaluation'[c].phase = "fetching"
    PROVE  \/ /\ evaluation[c].phase = "fetching"
              /\ evaluation'[c].query = evaluation[c].query
              /\ evaluation'[c].at = evaluation[c].at
              /\ evaluation'[c].watermark = evaluation[c].watermark
           \/ /\ UNCHANGED vars
              /\ evaluation'[c].query \in Queries
              /\ evaluation'[c].at \in EvaluationTimes
              /\ evaluation'[c].watermark = WatermarkMs
              /\ Available(evaluation'[c].query, evaluation'[c].at)
<1> DEFINE Carried == /\ evaluation[c].phase = "fetching"
                      /\ evaluation'[c].query = evaluation[c].query
                      /\ evaluation'[c].at = evaluation[c].at
                      /\ evaluation'[c].watermark = evaluation[c].watermark
           Prepared == /\ UNCHANGED vars
                       /\ evaluation'[c].query \in Queries
                       /\ evaluation'[c].at \in EvaluationTimes
                       /\ evaluation'[c].watermark = WatermarkMs
                       /\ Available(evaluation'[c].query, evaluation'[c].at)
<1>1. DOMAIN evaluation = Clients
  BY DEF QTypeOK
<1>2. UNCHANGED evaluation => Carried
  OBVIOUS
<1>3. ASSUME NEW o \in Clients, NEW query \in Queries, NEW at \in EvaluationTimes,
             Prepare(o, query, at)
      PROVE  Carried \/ Prepared
  <2>1. CASE o = c
    BY <1>1, <1>3, <2>1 DEF Prepare
  <2>2. CASE o # c
    BY <1>1, <1>3, <2>2 DEF Prepare
  <2> QED
    BY <2>1, <2>2
<1>4. ASSUME NEW o \in Clients, NEW q \in QueryRuns, Fetch(o, q)
      PROVE  Carried
  <2>1. CASE o = c
    <3> DEFINE e == evaluation[c]
               raw == [d \in DOMAIN e.raw \cup {q} |->
                         IF d = q
                         THEN SamplesOf(q, prometheus, e.spans[q].from, e.spans[q].to)
                         ELSE e.raw[d]]
    <3>1. evaluation' = [evaluation EXCEPT ![c].raw = raw] /\ e.phase = "fetching"
      BY <1>4, <2>1 DEF Fetch
    <3> HIDE DEF raw
    <3>2. evaluation'[c] = [e EXCEPT !.raw = raw]
      BY <1>1, <3>1
    <3>3. IsEvaluation(e)
      BY <3>1, EvaluationFacts
    <3>4. DOMAIN e = {"phase", "query", "at", "watermark", "newest", "spans", "raw"}
      BY <3>3 DEF IsEvaluation
    <3> QED
      BY <3>1, <3>2, <3>4
  <2>2. CASE o # c
    BY <1>1, <1>4, <2>2 DEF Fetch
  <2> QED
    BY <2>1, <2>2
<1>5. ASSUME NEW o \in Clients, evaluation' = [evaluation EXCEPT ![o] = Idle]
      PROVE  Carried
  <2>1. o # c
    BY <1>1, <1>5 DEF Idle
  <2> QED
    BY <1>1, <1>5, <2>1
<1>6. UNCHANGED allVars \/ Precomputes \/ (\E s \in Sample : Scrape(s))
      => UNCHANGED evaluation
  BY DEF allVars, queryVars, Precomputes, Scrape
<1>7. ASSUME NEW o \in Clients,
             Abandon(o) \/ Evaluate(o) \/ EvaluateMisses(o) \/ EvaluateFails(o)
      PROVE  Carried
  BY <1>5, <1>7 DEF Abandon, Evaluate, EvaluateMisses, EvaluateFails
<1> HIDE DEF Carried, Prepared
<1>8. Carried \/ Prepared
  BY <1>2, <1>3, <1>4, <1>6, <1>7 DEF QNext
<1> QED
  BY <1>8 DEF Carried, Prepared

----------------------------------------------------------------------------
(* Each part of the invariant is preserved.                                *)

\* The watermark of a snapshot stays behind the engine's, which never
\* retreats.
LEMMA SnapshotsKeep ==
    ASSUME QueryInvariant, [QNext]_allVars
    PROVE  SnapshotsAreOld'
<1> SUFFICES ASSUME NEW c \in Clients, evaluation'[c].phase = "fetching",
                    evaluation'[c].watermark # None
             PROVE  WatermarkMs' # None /\ evaluation'[c].watermark <= WatermarkMs'
  BY DEF SnapshotsAreOld
<1>1. PaneInvariant /\ QTypeOK /\ [Next]_vars /\ PaneInvariant'
  BY EngineStep, NextKeeps DEF QueryInvariant
<1>2. WatermarkMs \in TimeOrNone /\ WatermarkMs' \in TimeOrNone
  BY <1>1, WatermarkType DEF WatermarkMs, PaneInvariant, TypeOK
<1>3. WatermarkMs # None => WatermarkMs' # None /\ WatermarkMs' >= WatermarkMs
  BY <1>1, WatermarkStep
<1>4. CASE /\ evaluation[c].phase = "fetching"
           /\ evaluation'[c].watermark = evaluation[c].watermark
  <2>1. evaluation[c].watermark \in TimeOrNone
    BY <1>1, <1>4, EvaluationFacts DEF IsEvaluation
  <2>2. WatermarkMs # None /\ evaluation[c].watermark <= WatermarkMs
    BY <1>4 DEF QueryInvariant, SnapshotsAreOld
  <2> QED
    BY <1>2, <1>3, <1>4, <2>1, <2>2 DEF TimeOrNone
<1>5. CASE evaluation'[c].watermark = WatermarkMs
  BY <1>2, <1>3, <1>5 DEF TimeOrNone
<1> QED
  BY <1>1, <1>4, <1>5, EvaluationStep

\* A summary is stored behind the watermark of a snapshot, so behind the
\* engine's.
LEMMA StoredClosedKeep ==
    ASSUME QueryInvariant, [QNext]_allVars
    PROVE  QueryRunStoredOnceClosed'
<1> SUFFICES ASSUME NEW q \in QueryRuns, NEW e \in DOMAIN qstore'[q]
             PROVE  WatermarkMs' # None /\ e <= WatermarkMs'
  BY DEF QueryRunStoredOnceClosed
<1>1. PaneInvariant /\ QTypeOK /\ [Next]_vars /\ PaneInvariant'
  BY EngineStep, NextKeeps DEF QueryInvariant
<1>2. WatermarkMs \in TimeOrNone /\ WatermarkMs' \in TimeOrNone
  BY <1>1, WatermarkType DEF WatermarkMs, PaneInvariant, TypeOK
<1>3. WatermarkMs # None => WatermarkMs' # None /\ WatermarkMs' >= WatermarkMs
  BY <1>1, WatermarkStep
<1>4. e \in Int /\ WatermarkMs # None /\ e <= WatermarkMs
  <2>1. CASE e \in DOMAIN qstore[q]
    BY <1>1, <2>1 DEF QueryInvariant, QueryRunStoredOnceClosed, QTypeOK
  <2>2. CASE e \notin DOMAIN qstore[q]
    <3>1. PICK c \in Clients : evaluation[c].phase = "fetching" /\ Closed(c, e)
      BY <1>1, <2>2, StoreStep
    <3>2. e \in Int
      BY <1>1, <2>2, StoreStep
    <3>3. evaluation[c].watermark # None /\ e <= evaluation[c].watermark
      BY <3>1 DEF Closed, DecidedBy
    <3>4. evaluation[c].watermark \in TimeOrNone
      BY <1>1, <3>1, EvaluationFacts DEF IsEvaluation
    <3>5. WatermarkMs # None /\ evaluation[c].watermark <= WatermarkMs
      BY <3>1, <3>3 DEF QueryInvariant, SnapshotsAreOld
    <3> QED
      BY <1>2, <3>2, <3>3, <3>4, <3>5 DEF TimeOrNone
  <2> QED
    BY <2>1, <2>2
<1> QED
  BY <1>2, <1>3, <1>4 DEF TimeOrNone

\* A pane that was closed stays so, and only panes that close can fail.
LEMMA ClosedPaneStays ==
    ASSUME PaneInvariant, [Next]_vars, NEW d \in Definitions,
           builtThrough[d] # None
    PROVE  /\ builtThrough'[d] # None
           /\ builtThrough'[d] >= builtThrough[d]
           /\ firstPaneEnd'[d] = firstPaneEnd[d]
           /\ \A e \in failed'[d] : e \in failed[d] \/ ~(e <= builtThrough[d])
<1>1. PaneInvariant'
  BY NextKeeps
<1>2. builtThrough[d] \in Int /\ firstPaneEnd[d] \in Int /\ firstPaneEnd[d] # None
  BY StartedFacts, NoneAssumption DEF PaneInvariant
<1>3. ASSUME UNCHANGED storeVars, builtThrough'[d] = builtThrough[d]
      PROVE  /\ builtThrough'[d] \in Int
             /\ builtThrough'[d] >= builtThrough[d]
             /\ \A e \in failed'[d] : e \in failed[d] \/ ~(e <= builtThrough[d])
  BY <1>2, <1>3 DEF storeVars
<1>4. firstPaneEnd'[d] = firstPaneEnd[d]
  <2>1. ASSUME NEW s \in Sample, TakeSample(s), Route(s)
        PROVE  firstPaneEnd'[d] = firstPaneEnd[d]
    BY <1>2, <2>1 DEF Route, FirstFor
  <2>2. ASSUME NEW w, ClosePanes(w) PROVE UNCHANGED firstPaneEnd
    BY <2>2 DEF ClosePanes, CloseWith, builderVars
  <2>3. ASSUME NEW s \in Sample, TakeSample(s), ~Route(s)
        PROVE  UNCHANGED firstPaneEnd
    BY <2>3 DEF TakeSample, DropUnrouted, DropFuture, builderVars
  <2>4. ASSUME NEW b \in Times, NEW now \in Clocks, AdvanceWatermarkAt(b, now)
        PROVE  UNCHANGED firstPaneEnd
    BY <2>2, <2>4 DEF AdvanceWatermarkAt, builderVars
  <2>5. EndIngest => UNCHANGED firstPaneEnd
    BY <2>2 DEF EndIngest
  <2>6. ASSUME NEW now \in Clocks, BeginIngest(now) PROVE UNCHANGED firstPaneEnd
    BY <2>6 DEF BeginIngest, builderVars
  <2>7. UNCHANGED vars => UNCHANGED firstPaneEnd
    BY DEF vars, builderVars
  <2> QED
    BY <2>1, <2>3, <2>4, <2>5, <2>6, <2>7 DEF Next
<1>5. ASSUME NEW bad, WatermarkMs' \in Int, CloseWith(WatermarkMs', bad)
      PROVE  /\ builtThrough'[d] \in Int
             /\ builtThrough'[d] >= builtThrough[d]
             /\ \A e \in failed'[d] : e \in failed[d] \/ ~(e <= builtThrough[d])
  <2> DEFINE w == WatermarkMs'
             fails == Failing(d, w, bad)
  <2> HIDE DEF w
  <2>1. w \in Int /\ CloseWith(w, bad)
    BY <1>5 DEF w
  <2>2. /\ builtThrough'[d] \in Int
        /\ builtThrough[d] <= builtThrough'[d]
        /\ \A e \in Closing(d, w) : e \in Int /\ builtThrough[d] < e
    BY <2>1, CloseStarted DEF PaneInvariant
  <2>3. \A e \in fails : ~(e <= builtThrough[d])
    BY <1>2, <2>2 DEF Failing
  <2>4. failed'[d] = Kept(d, w, failed[d] \cup fails)
    BY <2>1 DEF CloseWith
  <2> HIDE DEF fails
  <2> QED
    BY <1>2, <2>2, <2>3, <2>4 DEF Kept
<1> QED
  BY <1>2, <1>3, <1>4, <1>5, StepKinds, NoneAssumption DEF builderVars, storeVars

\* A stored pane was built: it lies in the retained range and did not fail.
LEMMA StoredWasBuilt ==
    ASSUME PaneInvariant, NEW d \in Definitions, NEW e \in stored[d]
    PROVE  /\ builtThrough[d] # None
           /\ firstPaneEnd[d] < e
           /\ e <= builtThrough[d]
           /\ e \notin failed[d]
<1>1. e \in Expected(d) /\ e \notin failed[d]
  BY DEF PaneInvariant, StoreIsRetainedRange
<1>2. builtThrough[d] # None
  BY <1>1 DEF Expected
<1>3. /\ builtThrough[d] \in Int /\ firstPaneEnd[d] \in Int
      /\ RetentionMs[d] \in Nat
  BY <1>2, StartedFacts DEF PaneInvariant
<1> QED
  BY <1>1, <1>2, <1>3 DEF Expected, EndsThrough

\* The stored panes an evaluation was prepared with never turn out failed.
LEMMA PreparedKeep ==
    ASSUME QueryInvariant, [QNext]_allVars
    PROVE  PreparedPanesWereBuilt'
<1> SUFFICES ASSUME NEW c \in Clients, evaluation'[c].phase = "fetching",
                    NEW input \in StoredInputs[evaluation'[c].query]
             PROVE  LET d   == input[1]
                        end == evaluation'[c].at - input[2]
                    IN  /\ OnGrid(end, PaneMs[d])
                        /\ builtThrough'[d] # None
                        /\ firstPaneEnd'[d] < end
                        /\ end <= builtThrough'[d]
                        /\ end \notin failed'[d]
  BY DEF PreparedPanesWereBuilt
<1>1. PaneInvariant /\ QTypeOK /\ [Next]_vars /\ PaneInvariant'
  BY EngineStep, NextKeeps DEF QueryInvariant
<1>2. /\ evaluation'[c].query \in Queries
      /\ evaluation'[c].at \in Int
  BY <1>1, EvaluationStep, EvaluationFacts, QueryPlanAssumption DEF IsEvaluation
<1>3. input[1] \in Definitions /\ input[2] \in Int
  BY <1>2, QueryPlanAssumption
<1> DEFINE d == input[1]
           end == evaluation'[c].at - input[2]
<1>4. d \in Definitions /\ end \in Int
  BY <1>2, <1>3
<1>5. /\ OnGrid(end, PaneMs[d])
      /\ builtThrough[d] # None
      /\ firstPaneEnd[d] < end
      /\ end <= builtThrough[d]
      /\ end \notin failed[d]
  <2>1. CASE /\ evaluation[c].phase = "fetching"
             /\ evaluation'[c].query = evaluation[c].query
             /\ evaluation'[c].at = evaluation[c].at
    BY <2>1 DEF QueryInvariant, PreparedPanesWereBuilt
  <2>2. CASE Available(evaluation'[c].query, evaluation'[c].at)
    <3>1. OnGrid(end, PaneMs[d]) /\ end \in stored[d]
      BY <2>2 DEF Available
    <3> QED
      BY <1>1, <1>4, <3>1, StoredWasBuilt
  <2> QED
    BY <1>1, <2>1, <2>2, EvaluationStep
<1>6. /\ builtThrough'[d] # None
      /\ builtThrough'[d] >= builtThrough[d]
      /\ firstPaneEnd'[d] = firstPaneEnd[d]
      /\ \A e \in failed'[d] : e \in failed[d] \/ ~(e <= builtThrough[d])
  BY <1>1, <1>4, <1>5, ClosedPaneStays
<1>7. builtThrough[d] \in Int /\ builtThrough'[d] \in Int
  BY <1>1, <1>4, <1>5, <1>6 DEF PaneInvariant, TypeOK, TimeOrNone
<1> QED
  BY <1>4, <1>5, <1>6, <1>7

\* The counters only count up: of n inputs at most n were built.
LEMMA CountsKeep ==
    ASSUME QTypeOK, NEW c \in Clients, NEW n \in Nat, CountReads(c, n)
    PROVE  qstats' \in [built : Nat, stored : Nat, behind : Nat, reused : Nat]
<1> DEFINE built == BuiltInputs(c, n)
           kept == {i \in built : Closed(c, EndAt(c, i))}
           behind == {i \in kept : MetricBehind(c, i)}
<1>1. IsFiniteSet(1..n) /\ Cardinality(1..n) = n
  BY FS_Interval
<1>2. built \subseteq 1..n
  BY DEF BuiltInputs
<1>3. /\ IsFiniteSet(built)
      /\ Cardinality(built) \in Nat
      /\ Cardinality(built) <= n
  BY <1>1, <1>2, FS_Subset, FS_CardinalityType
<1> HIDE DEF built
<1>4. IsFiniteSet(kept) /\ IsFiniteSet(behind)
  BY <1>3, FS_Subset
<1>5. Cardinality(kept) \in Nat /\ Cardinality(behind) \in Nat
  BY <1>4, FS_CardinalityType
<1>6. qstats' = [built |-> qstats.built + Cardinality(built),
                 stored |-> qstats.stored + Cardinality(kept),
                 behind |-> qstats.behind + Cardinality(behind),
                 reused |-> qstats.reused + (n - Cardinality(built))]
  BY DEF CountReads, Reused, built
<1> HIDE DEF kept, behind
<1> QED
  BY <1>3, <1>5, <1>6 DEF QTypeOK

\* What an evaluation carries keeps its type.
LEMMA EvaluationsKeep ==
    ASSUME TypeOK, QTypeOK, [QNext]_allVars
    PROVE  /\ evaluation' = [c \in Clients |-> evaluation'[c]]
           /\ \A c \in Clients : evaluation'[c] = Idle \/ IsEvaluation(evaluation'[c])
<1> DEFINE Typed(f) == /\ f = [c \in Clients |-> f[c]]
                       /\ \A c \in Clients : f[c] = Idle \/ IsEvaluation(f[c])
<1>1. Typed(evaluation)
  BY DEF QTypeOK
<1>2. ASSUME NEW o \in Clients, NEW e, evaluation' = [evaluation EXCEPT ![o] = e],
             e = Idle \/ IsEvaluation(e)
      PROVE  Typed(evaluation')
  <2>1. \A c \in Clients : evaluation'[c] = IF c = o THEN e ELSE evaluation[c]
    BY <1>1, <1>2
  <2>2. evaluation' = [c \in Clients |-> evaluation'[c]]
    BY <1>1, <1>2
  <2> QED
    BY <1>1, <1>2, <2>1, <2>2
<1>3. ASSUME NEW o \in Clients, NEW query \in Queries, NEW at \in EvaluationTimes,
             Prepare(o, query, at)
      PROVE  Typed(evaluation')
  <2> DEFINE spans == [q \in {d \in QueryRuns : MissingEnds(query, at, d) # {}} |->
                         Span(query, at, q)]
             e == [phase |-> "fetching", query |-> query, at |-> at,
                   watermark |-> WatermarkMs, newest |-> queryRunNewest,
                   spans |-> spans, raw |-> <<>>]
  <2>1. evaluation' = [evaluation EXCEPT ![o] = e]
    BY <1>3 DEF Prepare
  <2>2. DOMAIN spans \subseteq QueryRuns
    OBVIOUS
  <2>3. WatermarkMs \in TimeOrNone /\ queryRunNewest \in [QueryRunMetrics -> TimeOrNone]
    BY WatermarkType DEF WatermarkMs, TypeOK
  <2> HIDE DEF spans
  <2>4. IsEvaluation(e)
    BY <2>2, <2>3 DEF IsEvaluation
  <2> HIDE DEF e
  <2> QED
    BY <1>2, <2>1, <2>4
<1>4. ASSUME NEW o \in Clients, NEW q \in QueryRuns, Fetch(o, q)
      PROVE  Typed(evaluation')
  <2> DEFINE e == evaluation[o]
             samples == SamplesOf(q, prometheus, e.spans[q].from, e.spans[q].to)
             raw == [d \in DOMAIN e.raw \cup {q} |-> IF d = q THEN samples ELSE e.raw[d]]
  <2>1. /\ evaluation' = [evaluation EXCEPT ![o].raw = raw]
        /\ e.phase = "fetching"
        /\ q \in DOMAIN e.spans
    BY <1>4 DEF Fetch
  <2>2. IsEvaluation(e)
    BY <2>1, EvaluationFacts
  <2>3. samples \subseteq Sample
    BY DEF SamplesOf, QTypeOK
  <2> HIDE DEF samples
  <2>4. /\ DOMAIN raw \subseteq DOMAIN e.spans
        /\ \A d \in DOMAIN raw : raw[d] \subseteq Sample
    BY <2>1, <2>2, <2>3 DEF IsEvaluation
  <2> HIDE DEF raw
  <2>5. evaluation' = [evaluation EXCEPT ![o] = [e EXCEPT !.raw = raw]]
    BY <2>1
  <2>6. [e EXCEPT !.raw = raw] =
          [phase |-> "fetching", query |-> e.query, at |-> e.at,
           watermark |-> e.watermark, newest |-> e.newest,
           spans |-> e.spans, raw |-> raw]
    BY <2>2 DEF IsEvaluation
  <2>7. IsEvaluation([e EXCEPT !.raw = raw])
    BY <2>2, <2>4, <2>6 DEF IsEvaluation
  <2> QED
    BY <1>2, <2>5, <2>7
<1>5. UNCHANGED allVars \/ Precomputes \/ (\E s \in Sample : Scrape(s))
      => UNCHANGED evaluation
  BY DEF allVars, queryVars, Precomputes, Scrape
<1>6. ASSUME NEW o \in Clients,
             Abandon(o) \/ Evaluate(o) \/ EvaluateMisses(o) \/ EvaluateFails(o)
      PROVE  Typed(evaluation')
  <2>1. evaluation' = [evaluation EXCEPT ![o] = Idle]
    BY <1>6 DEF Abandon, Evaluate, EvaluateMisses, EvaluateFails
  <2> QED
    BY <1>2, <2>1
<1>7. UNCHANGED evaluation => Typed(evaluation')
  BY <1>1
<1> HIDE DEF Typed
<1>8. Typed(evaluation')
  BY <1>3, <1>4, <1>5, <1>6, <1>7 DEF QNext
<1> QED
  BY <1>8 DEF Typed

\* The type invariant is preserved.
LEMMA TypesKeep ==
    ASSUME PaneInvariant, QTypeOK, [QNext]_allVars
    PROVE  QTypeOK'
<1>1. TypeOK /\ TypeOK'
  BY EngineStep, NextKeeps DEF PaneInvariant
<1>2. ASSUME NEW q \in QueryRuns
      PROVE  /\ DOMAIN qstore'[q] \subseteq Int
             /\ \A e \in DOMAIN qstore'[q] : qstore'[q][e] \subseteq Sample
  BY <1>2, StoreStep DEF QTypeOK
<1>3. delivery' \in Deliveries
  BY DEF QTypeOK, QNext, allVars, externalVars, Precomputes, Scrape, Prepare, Fetch,
         Abandon, Evaluate, EvaluateMisses, EvaluateFails
<1>4. prometheus' \subseteq Sample
  BY DEF QTypeOK, QNext, allVars, externalVars, Precomputes, Scrape, Prepare, Fetch,
         Abandon, Evaluate, EvaluateMisses, EvaluateFails
<1>5. qstats' \in [built : Nat, stored : Nat, behind : Nat, reused : Nat]
  <2>1. ASSUME NEW c \in Clients, Evaluate(c) \/ EvaluateFails(c)
        PROVE  \E n \in Nat : CountReads(c, n)
    <3>1. evaluation[c].phase = "fetching"
      BY <2>1 DEF Evaluate, EvaluateFails, Fetched
    <3>2. Len(QueryRunInputs[evaluation[c].query]) \in Nat
      BY <3>1, EvaluationFacts, QueryPlanAssumption DEF IsEvaluation
    <3> QED
      BY <2>1, <3>2 DEF Evaluate, EvaluateFails
  <2>2. ASSUME NEW c \in Clients, Evaluate(c) \/ EvaluateFails(c)
        PROVE  qstats' \in [built : Nat, stored : Nat, behind : Nat, reused : Nat]
    BY <2>1, <2>2, CountsKeep
  <2>3. CASE UNCHANGED qstats
    BY <2>3 DEF QTypeOK
  <2> QED
    BY <2>2, <2>3 DEF QNext, allVars, queryVars, Precomputes, Scrape, Prepare, Fetch,
                      Abandon, EvaluateMisses
<1>6. /\ evaluation' = [c \in Clients |-> evaluation'[c]]
      /\ \A c \in Clients : evaluation'[c] = Idle \/ IsEvaluation(evaluation'[c])
  BY <1>1, EvaluationsKeep
<1> QED
  BY <1>1, <1>2, <1>3, <1>4, <1>5, <1>6 DEF QTypeOK

\* The invariant holds at the start.
LEMMA QueryInitHolds ==
    ASSUME QInit
    PROVE  QueryInvariant
<1>1. PaneInvariant
  BY InitHolds DEF QInit
<1>2. \A c \in Clients : evaluation[c] = Idle /\ evaluation[c].phase # "fetching"
  BY DEF QInit, Idle
<1>3. \A q \in QueryRuns : DOMAIN qstore[q] = {}
  BY DEF QInit
<1>4. QTypeOK
  BY <1>1, <1>2, <1>3 DEF QTypeOK, QInit, PaneInvariant
<1> QED
  BY <1>1, <1>2, <1>3, <1>4
     DEF QueryInvariant, SnapshotsAreOld, PreparedPanesWereBuilt,
         QueryRunStoredOnceClosed

\* Every step preserves the invariant.
LEMMA QueryKeeps ==
    ASSUME QueryInvariant, [QNext]_allVars
    PROVE  QueryInvariant'
<1>1. PaneInvariant'
  BY EngineStep, NextKeeps DEF QueryInvariant
<1> QED
  BY <1>1, TypesKeep, SnapshotsKeep, PreparedKeep, StoredClosedKeep DEF QueryInvariant

----------------------------------------------------------------------------
(* The theorems.                                                           *)

\* The inductive invariant holds in every state the two engines reach.
THEOREM QueryInvariantHolds == QSpec => []QueryInvariant
<1>1. QInit => QueryInvariant
  BY QueryInitHolds
<1>2. QueryInvariant /\ [QNext]_allVars => QueryInvariant'
  BY QueryKeeps
<1> QED
  BY <1>1, <1>2, PTL DEF QSpec

\* Type correctness; no counter of the query engine goes below zero.
THEOREM QueryTypeCorrect == QSpec => []QTypeOK
<1>1. QueryInvariant => QTypeOK
  BY DEF QueryInvariant
<1> QED
  BY <1>1, QueryInvariantHolds, PTL

\* A summary is stored only once its pane is closed.
THEOREM SummariesAreClosed == QSpec => []QueryRunStoredOnceClosed
<1>1. QueryInvariant => QueryRunStoredOnceClosed
  BY DEF QueryInvariant
<1> QED
  BY <1>1, QueryInvariantHolds, PTL

\* An evaluation still finds its stored panes after its fetches, if it is at
\* most one pane behind the newest closed pane by then.
THEOREM LateEvaluationsAreServed == QSpec => []LateEvaluationServed
<1>1. ASSUME QueryInvariant PROVE LateEvaluationServed
  <2> SUFFICES
        ASSUME NEW c \in Clients, evaluation[c].phase = "fetching",
               NEW input \in StoredInputs[evaluation[c].query],
               input[2] + PaneMs[input[1]] <= RetentionMs[input[1]],
               evaluation[c].at >= builtThrough[input[1]] - PaneMs[input[1]]
        PROVE  evaluation[c].at - input[2] \in stored[input[1]]
    BY DEF LateEvaluationServed
  <2>1. PaneInvariant /\ QTypeOK
    BY <1>1 DEF QueryInvariant
  <2>2. evaluation[c].query \in Queries /\ evaluation[c].at \in Int
    BY <2>1, EvaluationFacts, QueryPlanAssumption DEF IsEvaluation
  <2> DEFINE d == input[1]
             end == evaluation[c].at - input[2]
  <2>3. d \in Definitions /\ input[2] \in Int /\ end \in Int
    BY <2>2, QueryPlanAssumption
  <2>4. /\ OnGrid(end, PaneMs[d])
        /\ builtThrough[d] # None
        /\ firstPaneEnd[d] < end
        /\ end <= builtThrough[d]
        /\ end \notin failed[d]
    BY <1>1 DEF QueryInvariant, PreparedPanesWereBuilt
  <2>5. /\ PaneMs[d] \in Nat \ {0} /\ RetentionMs[d] \in Nat
        /\ builtThrough[d] \in Int
    BY <2>1, <2>3, <2>4, StartedFacts DEF PaneInvariant
  <2>6. builtThrough[d] - RetentionMs[d] <= end
    BY <2>2, <2>3, <2>5
  <2>7. end \in Expected(d)
    BY <2>3, <2>4, <2>5, <2>6 DEF Expected, EndsThrough
  <2> QED
    BY <2>1, <2>3, <2>4, <2>7 DEF PaneInvariant, StoreIsRetainedRange
<1> QED
  BY <1>1, QueryInvariantHolds, PTL

\* Racing evaluations never replace a stored summary.
THEOREM SummariesNeverChange == QSpec => StoredSummaryNeverChanges
<1> DEFINE Step == \A q \in QueryRuns : \A e \in DOMAIN qstore[q] \cap DOMAIN qstore'[q] :
                      qstore'[q][e] = qstore[q][e]
<1>1. ASSUME QueryInvariant, [QNext]_allVars PROVE Step
  BY <1>1, StoreStep DEF QueryInvariant
<1>2. QueryInvariant /\ [QNext]_allVars => [Step]_allVars
  BY <1>1
<1> QED
  BY <1>2, QueryInvariantHolds, PTL DEF QSpec, StoredSummaryNeverChanges

\* What an evaluation evicts is not in use: an old snapshot evicts less than
\* the newest would.
LEMMA EvictedIsUnused ==
    ASSUME QueryInvariant, [QNext]_allVars, NEW q \in QueryRuns,
           NEW e \in DOMAIN qstore[q] \ DOMAIN qstore'[q]
    PROVE  ~InUse(q, e)
<1> DEFINE p == QueryRunPaneMs[q]
           r == QueryRunRetentionMs[q]
<1>1. PaneInvariant /\ QTypeOK
  BY DEF QueryInvariant
<1>2. PICK c \in Clients : /\ evaluation[c].phase = "fetching"
                           /\ DecidedBy(c) # None
                           /\ ~(e >= QueryRunOldest(c, q))
  BY <1>1, StoreStep
<1>3. e \in Int /\ p \in Nat \ {0} /\ r \in Nat
  BY <1>1, QueryRunFacts DEF QTypeOK
<1>4. evaluation[c].watermark \in Int
  BY <1>1, <1>2, EvaluationFacts DEF IsEvaluation, DecidedBy, TimeOrNone
<1>5. WatermarkMs # None /\ evaluation[c].watermark <= WatermarkMs
  BY <1>2 DEF QueryInvariant, SnapshotsAreOld, DecidedBy
<1>6. WatermarkMs \in Int
  BY <1>1, <1>5, WatermarkType DEF WatermarkMs, PaneInvariant, TypeOK, TimeOrNone
<1> DEFINE old == GridFloor(evaluation[c].watermark, p)
           new == GridFloor(WatermarkMs, p)
<1>7. /\ old \in Int /\ new \in Int
      /\ OnGrid(old, p) /\ old <= evaluation[c].watermark
  BY <1>3, <1>4, <1>6, GridFloorProperties
<1>8. QueryRunOldest(c, q) = ((old - p) - r) + p
  BY DEF QueryRunOldest, OldestKeptEnd, DecidedBy
<1> HIDE DEF old, new
<1>9. old <= new
  BY <1>3, <1>4, <1>5, <1>6, <1>7, GridFloorGreatest DEF new
<1> HIDE DEF p, r
<1>10. ~(e >= new - r)
  BY <1>2, <1>3, <1>7, <1>8, <1>9
<1> QED
  BY <1>5, <1>10 DEF InUse, new, p, r

\* No evaluation evicts a summary one at the newest closed pane, or one pane
\* behind it, reads.
THEOREM SummariesInUseAreKept == QSpec => NoSummaryInUseEvicted
<1> DEFINE Step == \A q \in QueryRuns : \A e \in DOMAIN qstore[q] \ DOMAIN qstore'[q] :
                      ~InUse(q, e)
<1>1. ASSUME QueryInvariant, [QNext]_allVars PROVE Step
  BY <1>1, EvictedIsUnused
<1>2. QueryInvariant /\ [QNext]_allVars => [Step]_allVars
  BY <1>1
<1> QED
  BY <1>2, QueryInvariantHolds, PTL DEF QSpec, NoSummaryInUseEvicted

----------------------------------------------------------------------------
(* What is stored, and what Prometheus may still take.                     *)

\* The parts of a sample.
LEMMA SampleFacts ==
    ASSUME NEW s \in Sample
    PROVE  s.series \in Series /\ s.t \in Int
  BY OptionsAssumption DEF Sample

\* Of finitely many things one has the least number.
LEMMA LeastOfFinite ==
    ASSUME NEW S, IsFiniteSet(S), S # {}, NEW f \in [S -> Int]
    PROVE  \E x \in S : \A y \in S : f[x] <= f[y]
<1> DEFINE below == [x \in S |-> {y \in S : f[y] < f[x]}]
           ranks == {Cardinality(below[x]) : x \in S}
<1>1. ASSUME NEW x \in S
      PROVE  IsFiniteSet(below[x]) /\ Cardinality(below[x]) \in Nat
  <2>1. below[x] \subseteq S
    OBVIOUS
  <2> QED
    BY <2>1, FS_Subset, FS_CardinalityType
<1>2. PICK x \in S : \A y \in S : Cardinality(below[x]) <= Cardinality(below[y])
  <2>1. ranks \in SUBSET Nat /\ ranks # {}
    BY <1>1
  <2> HIDE DEF ranks
  <2>2. PICK m \in ranks : \A n \in ranks : m <= n
    BY <2>1, LeastNatural
  <2> QED
    BY <2>2 DEF ranks
<1>3. ASSUME NEW y \in S, f[y] < f[x] PROVE FALSE
  <2>1. /\ below[y] \subseteq below[x]
        /\ y \in below[x]
        /\ y \notin below[y]
    BY <1>3
  <2> HIDE DEF below
  <2>2. /\ Cardinality(below[y]) <= Cardinality(below[x])
        /\ Cardinality(below[x]) = Cardinality(below[y]) => below[x] = below[y]
    BY <1>1, <2>1, FS_Subset
  <2>3. Cardinality(below[x]) <= Cardinality(below[y])
    BY <1>2
  <2> QED
    BY <1>1, <2>1, <2>2, <2>3
<1> QED
  BY <1>3

\* A query reads finitely many ends, which are times.
LEMMA ReadEndsFacts ==
    ASSUME NEW query \in Queries, NEW at \in Int, NEW q \in QueryRuns
    PROVE  /\ ReadEnds(query, at, q) \subseteq Int
           /\ MissingEnds(query, at, q) \subseteq ReadEnds(query, at, q)
           /\ IsFiniteSet(MissingEnds(query, at, q))
<1> DEFINE length == Len(QueryRunInputs[query])
           f == [i \in 1..length |-> at - QueryRunInputs[query][i][2]]
           ends == {f[i] : i \in 1..length}
<1>1. length \in Nat /\ DOMAIN QueryRunInputs[query] = 1..length
  BY QueryPlanAssumption
<1>2. \A i \in 1..length : f[i] \in Int
  BY InputFacts
<1>3. ReadEnds(query, at, q) \subseteq ends
  BY <1>1 DEF ReadEnds, Inputs
<1>4. f \in Surjection(1..length, ends)
  BY DEF Surjection
<1> HIDE DEF f, length
<1>5. IsFiniteSet(1..length)
  BY <1>1, FS_Interval
<1>6. IsFiniteSet(ends)
  BY <1>4, <1>5, FS_Surjection
<1>7. ends \subseteq Int
  BY <1>2
<1>8. MissingEnds(query, at, q) \subseteq ReadEnds(query, at, q)
  BY DEF MissingEnds
<1> HIDE DEF ends
<1>9. IsFiniteSet(MissingEnds(query, at, q))
  BY <1>3, <1>6, <1>8, FS_Subset
<1> QED
  BY <1>3, <1>7, <1>8, <1>9

\* Where a query reads one summary of a definition, it reads one end.
LEMMA ReadsOneEnd ==
    ASSUME NEW query, NEW at, NEW q, ReadsOneOf(query, q),
           NEW end \in ReadEnds(query, at, q), NEW x \in ReadEnds(query, at, q)
    PROVE  x = end
  BY DEF ReadsOneOf, ReadEnds

\* The fetch of a definition spans all its missing summaries.
LEMMA SpanHolds ==
    ASSUME NEW query \in Queries, NEW at \in Int, NEW q \in QueryRuns,
           MissingEnds(query, at, q) # {}
    PROVE  /\ Span(query, at, q).from \in Int /\ Span(query, at, q).to \in Int
           /\ \A end \in MissingEnds(query, at, q) :
                 /\ Span(query, at, q).from <= end - QueryRunPaneMs[q]
                 /\ end <= Span(query, at, q).to
<1> DEFINE ends == MissingEnds(query, at, q)
<1>1. IsFiniteSet(ends) /\ ends \subseteq Int /\ ends # {}
  BY ReadEndsFacts
<1>2. Span(query, at, q) = [from |-> SmallestOf(ends) - QueryRunPaneMs[q],
                            to |-> LargestOf(ends)]
  BY DEF Span
<1> HIDE DEF ends
<1>3. \E x \in ends : \A y \in ends : x <= y
  <2> DEFINE f == [x \in ends |-> x]
  <2>1. f \in [ends -> Int]
    BY <1>1
  <2>2. \A x \in ends : f[x] = x
    OBVIOUS
  <2> HIDE DEF f
  <2>3. \E x \in ends : \A y \in ends : f[x] <= f[y]
    BY <1>1, <2>1, LeastOfFinite
  <2> QED
    BY <2>2, <2>3
<1>4. \E x \in ends : \A y \in ends : y <= x
  <2> DEFINE f == [x \in ends |-> 0 - x]
  <2>1. f \in [ends -> Int]
    BY <1>1
  <2>2. \A x \in ends : f[x] = 0 - x /\ x \in Int
    BY <1>1
  <2> HIDE DEF f
  <2>3. PICK x \in ends : \A y \in ends : f[x] <= f[y]
    BY <1>1, <2>1, LeastOfFinite
  <2>4. \A y \in ends : y <= x
    BY <2>2, <2>3
  <2> QED
    BY <2>4
<1>5. /\ SmallestOf(ends) \in ends
      /\ \A y \in ends : SmallestOf(ends) <= y
  BY <1>3 DEF SmallestOf
<1>6. /\ LargestOf(ends) \in ends
      /\ \A y \in ends : y <= LargestOf(ends)
  BY <1>4 DEF LargestOf
<1> DEFINE small == SmallestOf(ends)
           large == LargestOf(ends)
           p == QueryRunPaneMs[q]
<1>7. small \in Int /\ large \in Int
  BY <1>1, <1>5, <1>6
<1>8. p \in Int
  BY QueryRunFacts
<1>9. Span(query, at, q).from = small - p /\ Span(query, at, q).to = large
  BY <1>2
<1> HIDE DEF small, large, p
<1>10. \A end \in ends : small <= end /\ end <= large /\ end \in Int
  BY <1>1, <1>5, <1>6 DEF small, large
<1>11. /\ small - p \in Int
       /\ \A end \in ends : small - p <= end - p /\ end <= large
  BY <1>7, <1>8, <1>10
<1> QED
  BY <1>7, <1>9, <1>11 DEF ends, p

\* A fetch that spans a pane holds all of it.
LEMMA FetchHoldsPane ==
    ASSUME NEW q \in QueryRuns, NEW end \in Int, NEW from \in Int, NEW to \in Int,
           from <= end - QueryRunPaneMs[q], end <= to,
           NEW samples, samples \subseteq Sample
    PROVE  Coverage(q, end, SamplesOf(q, samples, from, to)) = Coverage(q, end, samples)
<1>1. QueryRunPaneMs[q] \in Int
  BY QueryRunFacts
<1>2. \A s \in samples : s.t \in Int
  BY SampleFacts
<1>3. \A s \in samples :
         Between(s, end - QueryRunPaneMs[q], end) => Between(s, from, to)
  BY <1>1, <1>2 DEF Between
<1> QED
  BY <1>3 DEF Coverage, SamplesOf

\* A sample after a pane's end leaves what the pane holds.
LEMMA LaterLeavesPane ==
    ASSUME NEW q \in QueryRuns, NEW end \in Int, NEW s \in Sample, NEW samples,
           MetricOf[s.series] = QueryRunReads[q] => s.t > end
    PROVE  Coverage(q, end, samples \cup {s}) = Coverage(q, end, samples)
<1>1. MetricOf[s.series] = QueryRunReads[q] => ~(s.t <= end)
  BY SampleFacts
<1> QED
  BY <1>1 DEF Coverage, SamplesOf, Between

\* The newest sample of a metric only grows newer.
LEMMA NewestStep ==
    ASSUME TypeOK, [Next]_vars, NEW m \in QueryRunMetrics, queryRunNewest[m] # None
    PROVE  /\ queryRunNewest[m] \in Int
           /\ queryRunNewest'[m] \in Int
           /\ queryRunNewest'[m] # None
           /\ queryRunNewest'[m] >= queryRunNewest[m]
<1>1. queryRunNewest[m] \in TimeOrNone /\ queryRunNewest[m] \in Int
  BY DEF TypeOK, TimeOrNone
<1>2. ASSUME NEW s \in Sample, Route(s)
      PROVE  /\ queryRunNewest'[m] \in TimeOrNone
             /\ queryRunNewest'[m] # None
             /\ queryRunNewest'[m] >= queryRunNewest[m]
  <2>1. s.t \in TimeOrNone
    BY SampleFacts DEF TimeOrNone
  <2>2. queryRunNewest'[m] = Newer(queryRunNewest[m], s.t)
        \/ queryRunNewest'[m] = queryRunNewest[m]
    BY <1>2 DEF Route
  <2> QED
    BY <1>1, <2>1, <2>2, NewerType
<1>3. queryRunNewest' = queryRunNewest =>
        /\ queryRunNewest'[m] \in TimeOrNone
        /\ queryRunNewest'[m] # None
        /\ queryRunNewest'[m] >= queryRunNewest[m]
  BY <1>1
<1>4. ASSUME NEW s \in Sample, TakeSample(s), ~Route(s)
      PROVE  queryRunNewest' = queryRunNewest
  BY <1>4 DEF TakeSample, DropUnrouted, DropFuture, clockVars
<1>5. ASSUME NEW b \in Times, NEW now \in Clocks, AdvanceWatermarkAt(b, now)
      PROVE  queryRunNewest' = queryRunNewest
  BY <1>5 DEF AdvanceWatermarkAt
<1>6. EndIngest => queryRunNewest' = queryRunNewest
  BY DEF EndIngest, clockVars
<1>7. ASSUME NEW now \in Clocks, BeginIngest(now)
      PROVE  queryRunNewest' = queryRunNewest
  BY <1>7 DEF BeginIngest
<1>8. UNCHANGED vars => queryRunNewest' = queryRunNewest
  BY DEF vars, clockVars
<1>9. \/ queryRunNewest' = queryRunNewest
      \/ \E s \in Sample : Route(s)
  BY <1>4, <1>5, <1>6, <1>7, <1>8 DEF Next
<1>10. /\ queryRunNewest'[m] \in TimeOrNone
       /\ queryRunNewest'[m] # None
       /\ queryRunNewest'[m] >= queryRunNewest[m]
  BY <1>2, <1>3, <1>9
<1>11. queryRunNewest'[m] \in Int
  BY <1>10 DEF TimeOrNone
<1> QED
  BY <1>1, <1>10, <1>11

\* The samples Prometheus holds, and how they are delivered, change by
\* scrapes only, which change nothing else.
LEMMA PrometheusStep ==
    ASSUME [QNext]_allVars
    PROVE  /\ delivery' = delivery
           /\ \/ prometheus' = prometheus
              \/ \E s \in Sample : Scrape(s) /\ UNCHANGED <<vars, queryVars>>
  BY DEF QNext, allVars, externalVars, Precomputes, Scrape, Prepare, Fetch, Abandon,
         Evaluate, EvaluateMisses, EvaluateFails

\* What Prometheus takes no more of now, it takes no more of later.
LEMMA NoMoreTakenStays ==
    ASSUME PaneInvariant, [QNext]_allVars, NEW q \in QueryRuns, NEW end \in Int,
           NoMoreTaken(q, end, WatermarkMs, queryRunNewest)
    PROVE  NoMoreTaken(q, end, WatermarkMs, queryRunNewest)'
<1> DEFINE m == QueryRunReads[q]
<1>1. delivery' = delivery /\ [Next]_vars /\ TypeOK /\ PaneInvariant'
  BY PrometheusStep, EngineStep, NextKeeps DEF PaneInvariant
<1>2. m \in QueryRunMetrics
  BY QueryPlanAssumption
<1>3. CASE delivery = "prompt" /\ WatermarkMs # None /\ end <= WatermarkMs
  <2>1. WatermarkMs' # None /\ WatermarkMs' >= WatermarkMs
    BY <1>1, <1>3, WatermarkStep
  <2>2. WatermarkMs \in TimeOrNone /\ WatermarkMs' \in TimeOrNone
    BY <1>1, WatermarkType DEF WatermarkMs, PaneInvariant, TypeOK
  <2>3. end <= WatermarkMs'
    BY <1>3, <2>1, <2>2 DEF TimeOrNone
  <2> QED
    BY <1>1, <1>3, <2>1, <2>3 DEF NoMoreTaken
<1>4. CASE delivery = "forwarded" /\ queryRunNewest[m] # None /\ end <= queryRunNewest[m]
  <2>1. /\ queryRunNewest[m] \in Int /\ queryRunNewest'[m] \in Int
        /\ queryRunNewest'[m] # None /\ queryRunNewest'[m] >= queryRunNewest[m]
    BY <1>1, <1>2, <1>4, NewestStep
  <2>2. end <= queryRunNewest'[m]
    BY <1>4, <2>1
  <2> QED
    BY <1>1, <1>4, <2>1, <2>2 DEF NoMoreTaken
<1> QED
  BY <1>3, <1>4 DEF NoMoreTaken

\* What Prometheus holds of a pane it takes no more of does not change.
LEMMA PastIsFinal ==
    ASSUME TypeOK, [QNext]_allVars, NEW q \in QueryRuns, NEW end \in Int,
           NoMoreTaken(q, end, WatermarkMs, queryRunNewest)
    PROVE  Coverage(q, end, prometheus') = Coverage(q, end, prometheus)
<1> DEFINE m == QueryRunReads[q]
<1>1. m \in QueryRunMetrics
  BY QueryPlanAssumption
<1>2. ASSUME NEW s \in Sample, Scrape(s), MetricOf[s.series] = m
      PROVE  s.t > end
  <2>1. s.t \in Int
    BY SampleFacts
  <2>2. CASE delivery = "prompt" /\ WatermarkMs # None /\ end <= WatermarkMs
    <3>1. s.t > WatermarkMs
      BY <1>2, <2>2 DEF Scrape, MayTake
    <3>2. WatermarkMs \in Int
      BY <2>2, WatermarkType DEF WatermarkMs, TypeOK, TimeOrNone
    <3> QED
      BY <2>1, <2>2, <3>1, <3>2
  <2>3. CASE /\ delivery = "forwarded" /\ queryRunNewest[m] # None
             /\ end <= queryRunNewest[m]
    <3>1. s.t > queryRunNewest[m]
      BY <1>2, <2>3 DEF Scrape, MayTake
    <3>2. queryRunNewest[m] \in Int
      BY <1>1, <2>3 DEF TypeOK, TimeOrNone
    <3> QED
      BY <2>1, <2>3, <3>1, <3>2
  <2> QED
    BY <2>2, <2>3 DEF NoMoreTaken
<1>3. ASSUME NEW s \in Sample, Scrape(s)
      PROVE  Coverage(q, end, prometheus') = Coverage(q, end, prometheus)
  <2>1. prometheus' = prometheus \cup {s}
    BY <1>3 DEF Scrape
  <2>2. MetricOf[s.series] = QueryRunReads[q] => s.t > end
    BY <1>2, <1>3
  <2> QED
    BY <2>1, <2>2, LaterLeavesPane
<1> QED
  BY <1>3, PrometheusStep

\* What a snapshot is past, ingestion is past.
LEMMA PastIsPast ==
    ASSUME QueryInvariant, NewestIsOld,
           NEW c \in Clients, evaluation[c].phase = "fetching",
           NEW q \in QueryRuns, NEW end \in Int, SnapshotPast(c, q, end)
    PROVE  NoMoreTaken(q, end, WatermarkMs, queryRunNewest)
<1> DEFINE e == evaluation[c]
           m == QueryRunReads[q]
<1>1. /\ e.watermark \in TimeOrNone
      /\ e.newest \in [QueryRunMetrics -> TimeOrNone]
      /\ m \in QueryRunMetrics
  BY EvaluationFacts, QueryPlanAssumption DEF QueryInvariant, IsEvaluation
<1>2. TypeOK
  BY DEF QueryInvariant, PaneInvariant
<1>3. CASE delivery = "prompt" /\ e.watermark # None /\ end <= e.watermark
  <2>1. WatermarkMs # None /\ e.watermark <= WatermarkMs
    BY <1>3 DEF QueryInvariant, SnapshotsAreOld
  <2>2. WatermarkMs \in Int /\ e.watermark \in Int
    BY <1>1, <1>2, <1>3, <2>1, WatermarkType DEF WatermarkMs, TypeOK, TimeOrNone
  <2>3. end <= WatermarkMs
    BY <1>3, <2>1, <2>2
  <2> QED
    BY <1>3, <2>1, <2>3 DEF NoMoreTaken
<1>4. CASE delivery = "forwarded" /\ e.newest[m] # None /\ end <= e.newest[m]
  <2>1. queryRunNewest[m] # None /\ e.newest[m] <= queryRunNewest[m]
    BY <1>1, <1>4 DEF NewestIsOld
  <2>2. queryRunNewest[m] \in Int /\ e.newest[m] \in Int
    BY <1>1, <1>2, <1>4, <2>1 DEF TypeOK, TimeOrNone
  <2>3. end <= queryRunNewest[m]
    BY <1>4, <2>1, <2>2
  <2> QED
    BY <1>4, <2>1, <2>3 DEF NoMoreTaken
<1> QED
  BY <1>3, <1>4 DEF SnapshotPast, NoMoreTaken

\* A summary that is not in use is never in use again.
LEMMA InUseStays ==
    ASSUME PaneInvariant, [QNext]_allVars, NEW q \in QueryRuns, NEW e \in Int,
           InUse(q, e)'
    PROVE  InUse(q, e)
<1> SUFFICES ASSUME WatermarkMs # None
             PROVE  e >= GridFloor(WatermarkMs, QueryRunPaneMs[q]) - QueryRunRetentionMs[q]
  BY DEF InUse
<1> DEFINE p == QueryRunPaneMs[q]
           r == QueryRunRetentionMs[q]
<1>1. [Next]_vars /\ TypeOK /\ TypeOK'
  BY EngineStep, NextKeeps DEF PaneInvariant
<1>2. WatermarkMs' # None /\ WatermarkMs' >= WatermarkMs
  BY <1>1, WatermarkStep
<1>3. WatermarkMs \in TimeOrNone /\ WatermarkMs' \in TimeOrNone
  BY <1>1, WatermarkType DEF WatermarkMs, TypeOK
<1>4. WatermarkMs \in Int /\ WatermarkMs' \in Int
  BY <1>2, <1>3 DEF TimeOrNone
<1>5. p \in Nat \ {0} /\ r \in Nat
  BY QueryRunFacts
<1>6. e >= GridFloor(WatermarkMs', p) - r
  BY <1>2 DEF InUse
<1> DEFINE now == WatermarkMs
           later == WatermarkMs'
<1> HIDE DEF now, later
<1>7. now \in Int /\ later \in Int /\ now <= later
  BY <1>2, <1>4 DEF now, later
<1>8. /\ GridFloor(now, p) \in Int /\ GridFloor(later, p) \in Int
      /\ OnGrid(GridFloor(now, p), p)
      /\ GridFloor(now, p) <= now
  BY <1>5, <1>7, GridFloorProperties
<1>9. GridFloor(now, p) <= later
  BY <1>7, <1>8
<1>10. GridFloor(now, p) <= GridFloor(later, p)
  BY <1>5, <1>7, <1>8, <1>9, GridFloorGreatest
<1> HIDE DEF p, r
<1>11. e >= GridFloor(now, p) - r
  BY <1>5, <1>6, <1>8, <1>10 DEF later
<1> QED
  BY <1>11 DEF now, p, r

\* Preparing an evaluation.
LEMMA PrepareForm ==
    ASSUME QTypeOK, NEW c \in Clients, NEW query \in Queries,
           NEW at \in EvaluationTimes, Prepare(c, query, at)
    PROVE  LET f == evaluation'[c]
           IN  /\ f.query = query /\ f.at = at
               /\ f.watermark = WatermarkMs /\ f.newest = queryRunNewest
               /\ DOMAIN f.spans = {d \in QueryRuns : MissingEnds(query, at, d) # {}}
               /\ \A d \in DOMAIN f.spans : f.spans[d] = Span(query, at, d)
               /\ DOMAIN f.raw = {}
<1> DEFINE spans == [q \in {d \in QueryRuns : MissingEnds(query, at, d) # {}} |->
                       Span(query, at, q)]
           e == [phase |-> "fetching", query |-> query, at |-> at,
                 watermark |-> WatermarkMs, newest |-> queryRunNewest,
                 spans |-> spans, raw |-> <<>>]
<1>1. evaluation'[c] = e
  BY DEF Prepare, QTypeOK
<1>2. /\ DOMAIN spans = {d \in QueryRuns : MissingEnds(query, at, d) # {}}
      /\ \A d \in DOMAIN spans : spans[d] = Span(query, at, d)
  OBVIOUS
<1> HIDE DEF spans
<1>3. /\ e.query = query /\ e.at = at /\ e.watermark = WatermarkMs
      /\ e.newest = queryRunNewest /\ e.spans = spans /\ DOMAIN e.raw = {}
  OBVIOUS
<1> HIDE DEF e
<1> QED
  BY <1>1, <1>2, <1>3

\* Fetching the samples of one definition.
LEMMA FetchForm ==
    ASSUME QTypeOK, NEW c \in Clients, NEW q \in QueryRuns, Fetch(c, q)
    PROVE  LET e == evaluation[c]
               f == evaluation'[c]
           IN  /\ e.phase = "fetching" /\ f.phase = "fetching"
               /\ f.query = e.query /\ f.at = e.at
               /\ f.watermark = e.watermark /\ f.newest = e.newest
               /\ f.spans = e.spans
               /\ q \in DOMAIN e.spans
               /\ DOMAIN f.raw = DOMAIN e.raw \cup {q}
               /\ f.raw[q] = SamplesOf(q, prometheus, e.spans[q].from, e.spans[q].to)
               /\ \A d \in DOMAIN e.raw : d # q => f.raw[d] = e.raw[d]
               /\ UNCHANGED <<vars, qstore, externalVars, qstats>>
<1> DEFINE e == evaluation[c]
           samples == SamplesOf(q, prometheus, e.spans[q].from, e.spans[q].to)
           raw == [d \in DOMAIN e.raw \cup {q} |-> IF d = q THEN samples ELSE e.raw[d]]
<1>1. /\ evaluation' = [evaluation EXCEPT ![c].raw = raw]
      /\ e.phase = "fetching" /\ q \in DOMAIN e.spans
      /\ UNCHANGED <<vars, qstore, externalVars, qstats>>
  BY DEF Fetch
<1>2. IsEvaluation(e)
  BY <1>1, EvaluationFacts
<1>3. /\ DOMAIN raw = DOMAIN e.raw \cup {q}
      /\ raw[q] = samples
      /\ \A d \in DOMAIN e.raw : d # q => raw[d] = e.raw[d]
  OBVIOUS
<1> HIDE DEF raw, samples
<1>4. evaluation'[c] = [e EXCEPT !.raw = raw]
  BY <1>1 DEF QTypeOK
<1>5. DOMAIN e = {"phase", "query", "at", "watermark", "newest", "spans", "raw"}
  BY <1>2 DEF IsEvaluation
<1> HIDE DEF e
<1>6. LET f == evaluation'[c]
      IN  /\ f.phase = e.phase /\ f.query = e.query /\ f.at = e.at
          /\ f.watermark = e.watermark /\ f.newest = e.newest
          /\ f.spans = e.spans /\ f.raw = raw
  BY <1>4, <1>5
<1> QED
  BY <1>1, <1>3, <1>6 DEF e, samples

\* prepared by the step.
LEMMA EvaluationKinds ==
    ASSUME QTypeOK, [QNext]_allVars, NEW c \in Clients,
           evaluation'[c].phase = "fetching"
    PROVE  \/ evaluation'[c] = evaluation[c]
           \/ \E q \in QueryRuns : Fetch(c, q)
           \/ \E query \in Queries, at \in EvaluationTimes : Prepare(c, query, at)
<1>1. DOMAIN evaluation = Clients
  BY DEF QTypeOK
<1>2. ASSUME NEW o \in Clients, o # c, NEW e, evaluation' = [evaluation EXCEPT ![o] = e]
      PROVE  evaluation'[c] = evaluation[c]
  BY <1>1, <1>2
<1>3. ASSUME NEW o \in Clients, evaluation' = [evaluation EXCEPT ![o] = Idle]
      PROVE  evaluation'[c] = evaluation[c]
  BY <1>1, <1>3 DEF Idle
<1>4. ASSUME NEW o \in Clients, o # c, NEW q \in QueryRuns, Fetch(o, q)
      PROVE  evaluation'[c] = evaluation[c]
  BY <1>1, <1>4 DEF Fetch
<1>5. ASSUME NEW o \in Clients, o # c, NEW query, NEW at, Prepare(o, query, at)
      PROVE  evaluation'[c] = evaluation[c]
  BY <1>1, <1>5 DEF Prepare
<1>6. ASSUME NEW o \in Clients,
             Abandon(o) \/ Evaluate(o) \/ EvaluateMisses(o) \/ EvaluateFails(o)
      PROVE  evaluation'[c] = evaluation[c]
  BY <1>3, <1>6 DEF Abandon, Evaluate, EvaluateMisses, EvaluateFails
<1>7. UNCHANGED allVars \/ Precomputes \/ (\E s \in Sample : Scrape(s))
      => UNCHANGED evaluation
  BY DEF allVars, queryVars, Precomputes, Scrape
<1> QED
  BY <1>4, <1>5, <1>6, <1>7 DEF QNext

\* The newest sample a snapshot saw stays behind the engine's.
LEMMA NewestKeep ==
    ASSUME QTypeOK, TypeOK, NewestIsOld, [QNext]_allVars
    PROVE  NewestIsOld'
<1> SUFFICES ASSUME NEW c \in Clients, evaluation'[c].phase = "fetching",
                    NEW m \in QueryRunMetrics, evaluation'[c].newest[m] # None
             PROVE  /\ queryRunNewest'[m] # None
                    /\ evaluation'[c].newest[m] <= queryRunNewest'[m]
  BY DEF NewestIsOld
<1>1. queryRunNewest[m] # None => /\ queryRunNewest[m] \in Int
                                  /\ queryRunNewest'[m] \in Int
                                  /\ queryRunNewest'[m] # None
                                  /\ queryRunNewest'[m] >= queryRunNewest[m]
  BY EngineStep, NewestStep
<1>2. CASE /\ evaluation[c].phase = "fetching"
           /\ evaluation'[c].newest = evaluation[c].newest
  <2>1. evaluation[c].newest \in [QueryRunMetrics -> TimeOrNone]
    BY <1>2, EvaluationFacts DEF IsEvaluation
  <2>2. evaluation[c].newest[m] \in Int /\ evaluation[c].newest[m] # None
    BY <1>2, <2>1 DEF TimeOrNone
  <2>3. queryRunNewest[m] # None /\ evaluation[c].newest[m] <= queryRunNewest[m]
    BY <1>2, <2>2 DEF NewestIsOld
  <2> QED
    BY <1>1, <1>2, <2>2, <2>3
<1>3. CASE evaluation'[c].newest = queryRunNewest
  BY <1>1, <1>3
<1>4. ASSUME NEW query \in Queries, NEW at \in EvaluationTimes, Prepare(c, query, at)
      PROVE  evaluation'[c].newest = queryRunNewest
  BY <1>4, PrepareForm
<1>5. ASSUME NEW q \in QueryRuns, Fetch(c, q)
      PROVE  evaluation[c].phase = "fetching" /\ evaluation'[c].newest = evaluation[c].newest
  BY <1>5, FetchForm
<1> QED
  BY <1>2, <1>3, <1>4, <1>5, EvaluationKinds

\* The fetches are chosen when an evaluation is prepared, and stay.
LEMMA SpansKeep ==
    ASSUME QTypeOK, SpansAreTimes, [QNext]_allVars
    PROVE  SpansAreTimes'
<1> SUFFICES ASSUME NEW c \in Clients, evaluation'[c].phase = "fetching",
                    NEW q \in DOMAIN evaluation'[c].spans
             PROVE  /\ evaluation'[c].spans[q].from \in Int
                    /\ evaluation'[c].spans[q].to \in Int
                    /\ ReadEnds(evaluation'[c].query, evaluation'[c].at, q) # {}
  BY DEF SpansAreTimes
<1>1. CASE evaluation'[c] = evaluation[c]
  BY <1>1 DEF SpansAreTimes
<1>2. ASSUME NEW d \in QueryRuns, Fetch(c, d)
      PROVE  /\ evaluation[c].phase = "fetching"
             /\ evaluation'[c].query = evaluation[c].query
             /\ evaluation'[c].at = evaluation[c].at
             /\ evaluation'[c].spans = evaluation[c].spans
  BY <1>2, FetchForm
<1>3. ASSUME NEW query \in Queries, NEW at \in EvaluationTimes, Prepare(c, query, at)
      PROVE  /\ evaluation'[c].spans[q].from \in Int
             /\ evaluation'[c].spans[q].to \in Int
             /\ ReadEnds(evaluation'[c].query, evaluation'[c].at, q) # {}
  <2>1. /\ evaluation'[c].query = query /\ evaluation'[c].at = at
        /\ DOMAIN evaluation'[c].spans = {d \in QueryRuns : MissingEnds(query, at, d) # {}}
        /\ \A d \in DOMAIN evaluation'[c].spans : evaluation'[c].spans[d] = Span(query, at, d)
    BY <1>3, PrepareForm
  <2>2. /\ q \in QueryRuns /\ MissingEnds(query, at, q) # {}
        /\ evaluation'[c].spans[q] = Span(query, at, q)
    BY <2>1
  <2>3. at \in Int
    BY QueryPlanAssumption
  <2>4. ReadEnds(query, at, q) # {}
    BY <2>2, <2>3, ReadEndsFacts
  <2> QED
    BY <2>1, <2>2, <2>3, <2>4, SpanHolds
<1>4. (\E d \in QueryRuns : Fetch(c, d))
      => /\ evaluation'[c].spans[q].from \in Int
         /\ evaluation'[c].spans[q].to \in Int
         /\ ReadEnds(evaluation'[c].query, evaluation'[c].at, q) # {}
  BY <1>2 DEF SpansAreTimes
<1> QED
  BY <1>1, <1>3, <1>4, EvaluationKinds

\* An evaluation keeps to the planned queries and to times.
LEMMA EvaluationTypes ==
    ASSUME QueryInvariant, [QNext]_allVars, NEW c \in Clients,
           evaluation'[c].phase = "fetching"
    PROVE  evaluation'[c].query \in Queries /\ evaluation'[c].at \in Int
<1>1. QTypeOK
  BY DEF QueryInvariant
<1>2. evaluation[c].phase = "fetching"
      => evaluation[c].query \in Queries /\ evaluation[c].at \in EvaluationTimes
  BY <1>1, EvaluationFacts DEF IsEvaluation
<1>3. evaluation'[c].query \in Queries /\ evaluation'[c].at \in EvaluationTimes
  BY <1>1, <1>2, EvaluationStep
<1> QED
  BY <1>3, QueryPlanAssumption

\* What a query needs of an evaluation's fetches was missing when they were
\* chosen: what is evicted since is not in use.
LEMMA NeededKeep ==
    ASSUME QueryInvariant, NeededAreSpanned, [QNext]_allVars
    PROVE  NeededAreSpanned'
<1> SUFFICES
      ASSUME NEW c \in Clients, evaluation'[c].phase = "fetching",
             NEW q \in QueryRuns,
             NEW end \in ReadEnds(evaluation'[c].query, evaluation'[c].at, q),
             \/ end \notin DOMAIN qstore'[q] /\ InUse(q, end)'
             \/ /\ q \in DOMAIN evaluation'[c].spans
                /\ ReadsOneOf(evaluation'[c].query, q)
      PROVE  Spanned(c, q, end)'
  BY DEF NeededAreSpanned
<1>1. QTypeOK /\ PaneInvariant
  BY DEF QueryInvariant
<1>2. evaluation'[c].query \in Queries /\ evaluation'[c].at \in Int
  BY EvaluationTypes
<1>3. end \in Int
  BY <1>2, ReadEndsFacts
<1>4. end \notin DOMAIN qstore'[q] /\ InUse(q, end)'
      => end \notin DOMAIN qstore[q] /\ InUse(q, end)
  BY <1>1, <1>3, InUseStays, EvictedIsUnused
<1>5. ASSUME evaluation[c].phase = "fetching",
             evaluation'[c].query = evaluation[c].query,
             evaluation'[c].at = evaluation[c].at,
             evaluation'[c].spans = evaluation[c].spans
      PROVE  Spanned(c, q, end)'
  <2>1. Spanned(c, q, end)
    BY <1>4, <1>5 DEF NeededAreSpanned
  <2> QED
    BY <1>5, <2>1 DEF Spanned
<1>6. CASE evaluation'[c] = evaluation[c]
  BY <1>5, <1>6
<1>7. ASSUME NEW d \in QueryRuns, Fetch(c, d)
      PROVE  Spanned(c, q, end)'
  BY <1>1, <1>5, <1>7, FetchForm
<1>8. ASSUME NEW query \in Queries, NEW at \in EvaluationTimes, Prepare(c, query, at)
      PROVE  Spanned(c, q, end)'
  <2>1. /\ evaluation'[c].query = query /\ evaluation'[c].at = at
        /\ DOMAIN evaluation'[c].spans = {d \in QueryRuns : MissingEnds(query, at, d) # {}}
        /\ \A d \in DOMAIN evaluation'[c].spans : evaluation'[c].spans[d] = Span(query, at, d)
    BY <1>1, <1>8, PrepareForm
  <2>2. end \in ReadEnds(query, at, q) /\ at \in Int
    BY <1>2, <2>1
  <2>3. end \in MissingEnds(query, at, q)
    <3>1. CASE end \notin DOMAIN qstore[q]
      BY <2>2, <3>1 DEF MissingEnds
    <3>2. CASE q \in DOMAIN evaluation'[c].spans /\ ReadsOneOf(query, q)
      <4>1. PICK x : x \in MissingEnds(query, at, q)
        BY <2>1, <3>2
      <4>2. x \in ReadEnds(query, at, q)
        BY <2>2, <4>1, ReadEndsFacts
      <4>3. x = end
        BY <2>2, <3>2, <4>2, ReadsOneEnd
      <4> QED
        BY <4>1, <4>3
    <3> QED
      BY <1>4, <2>1, <3>1, <3>2
  <2>4. /\ q \in DOMAIN evaluation'[c].spans
        /\ evaluation'[c].spans[q] = Span(query, at, q)
    BY <2>1, <2>3
  <2>5. /\ Span(query, at, q).from <= end - QueryRunPaneMs[q]
        /\ end <= Span(query, at, q).to
    BY <2>2, <2>3, SpanHolds
  <2> QED
    BY <2>4, <2>5 DEF Spanned
<1> QED
  BY <1>1, <1>6, <1>7, <1>8, EvaluationKinds

\* What an evaluation fetched of a pane its snapshot is past stays all that
\* Prometheus holds of it.
LEMMA FetchedKeep ==
    ASSUME QueryInvariant, NewestIsOld, SpansAreTimes, FetchedIsFinal, [QNext]_allVars
    PROVE  FetchedIsFinal'
<1> SUFFICES ASSUME NEW c \in Clients, evaluation'[c].phase = "fetching",
                    NEW q \in DOMAIN evaluation'[c].raw,
                    NEW end \in ReadEnds(evaluation'[c].query, evaluation'[c].at, q),
                    Spanned(c, q, end)', SnapshotPast(c, q, end)'
             PROVE  Coverage(q, end, evaluation'[c].raw[q])
                      = Coverage(q, end, prometheus')
  BY DEF FetchedIsFinal
<1>1. QTypeOK /\ TypeOK
  BY DEF QueryInvariant, PaneInvariant
<1>2. evaluation'[c].query \in Queries /\ evaluation'[c].at \in Int
  BY EvaluationTypes
<1>3. CASE evaluation'[c] = evaluation[c]
  <2>1. /\ evaluation[c].phase = "fetching"
        /\ q \in DOMAIN evaluation[c].raw
        /\ end \in ReadEnds(evaluation[c].query, evaluation[c].at, q)
        /\ Spanned(c, q, end)
    BY <1>3 DEF Spanned
  <2>2. SnapshotPast(c, q, end)
    BY <1>3, PrometheusStep DEF SnapshotPast, NoMoreTaken
  <2>3. Coverage(q, end, evaluation[c].raw[q]) = Coverage(q, end, prometheus)
    BY <2>1, <2>2 DEF FetchedIsFinal
  <2>4. q \in QueryRuns
    BY <1>1, <2>1, EvaluationFacts DEF IsEvaluation
  <2>5. end \in Int
    BY <1>2, <2>4, ReadEndsFacts
  <2>6. NoMoreTaken(q, end, WatermarkMs, queryRunNewest)
    BY <2>1, <2>2, <2>4, <2>5, PastIsPast
  <2>7. Coverage(q, end, prometheus') = Coverage(q, end, prometheus)
    BY <1>1, <2>4, <2>5, <2>6, PastIsFinal
  <2> QED
    BY <1>3, <2>3, <2>7
<1>4. ASSUME NEW d \in QueryRuns, Fetch(c, d)
      PROVE  Coverage(q, end, evaluation'[c].raw[q]) = Coverage(q, end, prometheus')
  <2> DEFINE e == evaluation[c]
             f == evaluation'[c]
  <2>1. /\ e.phase = "fetching"
        /\ f.query = e.query /\ f.at = e.at
        /\ f.watermark = e.watermark /\ f.newest = e.newest
        /\ f.spans = e.spans
        /\ d \in DOMAIN e.spans
        /\ DOMAIN f.raw = DOMAIN e.raw \cup {d}
        /\ f.raw[d] = SamplesOf(d, prometheus, e.spans[d].from, e.spans[d].to)
        /\ \A o \in DOMAIN e.raw : o # d => f.raw[o] = e.raw[o]
        /\ prometheus' = prometheus /\ delivery' = delivery
    BY <1>1, <1>4, FetchForm DEF externalVars
  <2>2. end \in ReadEnds(e.query, e.at, q)
    BY <2>1
  <2>3. Spanned(c, q, end) /\ SnapshotPast(c, q, end)
    BY <2>1 DEF Spanned, SnapshotPast, NoMoreTaken
  <2>4. CASE q = d
    <3>1. e.spans[d].from \in Int /\ e.spans[d].to \in Int
      BY <2>1 DEF SpansAreTimes
    <3>2. e.spans[d].from <= end - QueryRunPaneMs[d] /\ end <= e.spans[d].to
      BY <2>3, <2>4 DEF Spanned
    <3>3. end \in Int
      BY <1>2, <2>4, ReadEndsFacts
    <3>4. prometheus \subseteq Sample
      BY <1>1 DEF QTypeOK
    <3> DEFINE from == e.spans[d].from
               to == e.spans[d].to
    <3>5. from \in Int /\ to \in Int /\ from <= end - QueryRunPaneMs[d] /\ end <= to
      BY <3>1, <3>2
    <3> HIDE DEF from, to
    <3>6. Coverage(d, end, SamplesOf(d, prometheus, from, to))
            = Coverage(d, end, prometheus)
      BY <3>3, <3>4, <3>5, FetchHoldsPane
    <3> QED
      BY <2>1, <2>4, <3>6 DEF from, to
  <2>5. CASE q # d
    <3>1. q \in DOMAIN e.raw /\ f.raw[q] = e.raw[q]
      BY <2>1, <2>5
    <3>2. Coverage(q, end, e.raw[q]) = Coverage(q, end, prometheus)
      BY <2>1, <2>2, <2>3, <3>1 DEF FetchedIsFinal
    <3> QED
      BY <2>1, <3>1, <3>2
  <2> QED
    BY <2>4, <2>5
<1>5. ASSUME NEW query \in Queries, NEW at \in EvaluationTimes, Prepare(c, query, at)
      PROVE  FALSE
  <2>1. DOMAIN evaluation'[c].raw = {}
    BY <1>1, <1>5, PrepareForm
  <2> QED
    BY <2>1
<1> QED
  BY <1>1, <1>3, <1>4, <1>5, EvaluationKinds

\* it fetched; it counts them, and Prometheus takes nothing meanwhile.
LEMMA EvaluationStores ==
    ASSUME QTypeOK, NEW c \in Clients, Evaluate(c) \/ EvaluateFails(c)
    PROVE  /\ evaluation[c].phase = "fetching"
           /\ delivery' = delivery /\ prometheus' = prometheus
           /\ \E n \in 0..Len(QueryRunInputs[evaluation[c].query]) :
                 /\ CountReads(c, n)
                 /\ \A q \in QueryRuns : \A e \in DOMAIN qstore'[q] :
                       \/ e \in DOMAIN qstore[q] /\ qstore'[q][e] = qstore[q][e]
                       \/ /\ e \notin DOMAIN qstore[q]
                          /\ Sharing(c, q) # {}
                          /\ Closed(c, e)
                          /\ qstore'[q][e] = Coverage(q, e, evaluation[c].raw[GivenBy(c, q)])
                          /\ \E i \in BuiltInputs(c, n) :
                                DefinitionAt(c, i) = q /\ EndAt(c, i) = e
<1> DEFINE length == Len(QueryRunInputs[evaluation[c].query])
<1>1. /\ evaluation[c].phase = "fetching"
      /\ delivery' = delivery /\ prometheus' = prometheus
  BY DEF Evaluate, EvaluateFails, Fetched, externalVars
<1>2. length \in Nat
  BY <1>1, EvaluationFacts, QueryPlanAssumption DEF IsEvaluation
<1>3. \E n \in 0..length :
         /\ CountReads(c, n)
         /\ \A i \in 1..n : MustBuild(c, i) => HasSamples(c, i)
         /\ \A q \in QueryRuns : \A e \in DOMAIN qstore'[q] :
               e \in DOMAIN WithStored(c, n, q) /\ qstore'[q][e] = WithStored(c, n, q)[e]
  <2>1. CASE Evaluate(c)
    <3>1. /\ CountReads(c, length)
          /\ \A i \in 1..length : MustBuild(c, i) => HasSamples(c, i)
          /\ \A q \in QueryRuns : qstore'[q] = Evicted(c, q, WithStored(c, length, q))
      BY <2>1 DEF Evaluate
    <3>2. length \in 0..length
      BY <1>2
    <3>3. ASSUME NEW q \in QueryRuns, NEW e \in DOMAIN qstore'[q]
          PROVE  /\ e \in DOMAIN WithStored(c, length, q)
                 /\ qstore'[q][e] = WithStored(c, length, q)[e]
      <4> DEFINE store == WithStored(c, length, q)
      <4>1. qstore'[q] = Evicted(c, q, store)
        BY <3>1
      <4> HIDE DEF store, length
      <4>2. e \in DOMAIN store /\ qstore'[q][e] = store[e]
        BY <3>3, <4>1 DEF Evicted
      <4> QED
        BY <4>2 DEF store
    <3> HIDE DEF length
    <3> QED
      BY <3>1, <3>2, <3>3
  <2>2. CASE EvaluateFails(c)
    <3>1. PICK n \in 0..length :
             /\ CountReads(c, n)
             /\ \A i \in 1..n : MustBuild(c, i) => HasSamples(c, i)
             /\ \A q \in QueryRuns : qstore'[q] = WithStored(c, n, q)
      BY <2>2 DEF EvaluateFails
    <3> HIDE DEF length
    <3> QED
      BY <3>1
  <2> QED
    BY <2>1, <2>2
<1>4. PICK n \in 0..length :
         /\ CountReads(c, n)
         /\ \A i \in 1..n : MustBuild(c, i) => HasSamples(c, i)
         /\ \A q \in QueryRuns : \A e \in DOMAIN qstore'[q] :
               e \in DOMAIN WithStored(c, n, q) /\ qstore'[q][e] = WithStored(c, n, q)[e]
  BY <1>3
<1>5. ASSUME NEW q \in QueryRuns, NEW e \in DOMAIN qstore'[q],
             ~(e \in DOMAIN qstore[q] /\ qstore'[q][e] = qstore[q][e])
      PROVE  /\ e \notin DOMAIN qstore[q]
             /\ Sharing(c, q) # {}
             /\ Closed(c, e)
             /\ qstore'[q][e] = Coverage(q, e, evaluation[c].raw[GivenBy(c, q)])
             /\ \E i \in BuiltInputs(c, n) : DefinitionAt(c, i) = q /\ EndAt(c, i) = e
  <2>1. /\ DOMAIN WithStored(c, n, q) = DOMAIN qstore[q] \cup StoresOf(c, n, q)
        /\ \A x \in DOMAIN qstore[q] : WithStored(c, n, q)[x] = qstore[q][x]
        /\ \A x \in StoresOf(c, n, q) : Closed(c, x) /\ x \notin DOMAIN qstore[q]
    <3>1. \A i \in 1..n : MustBuild(c, i) => HasSamples(c, i)
      BY <1>4
    <3> QED
      BY <1>1, <3>1, WithStoredFacts
  <2>2. e \in StoresOf(c, n, q)
    BY <1>4, <1>5, <2>1
  <2>3. WithStored(c, n, q)[e] = Coverage(q, e, evaluation[c].raw[GivenBy(c, q)])
    BY <2>2 DEF WithStored
  <2>4. PICK i \in 1..n : /\ e = EndAt(c, i)
                          /\ DefinitionAt(c, i) = q
                          /\ MustBuild(c, i)
    BY <2>2 DEF StoresOf
  <2>5. Sharing(c, q) # {}
    BY <1>4, <2>4 DEF HasSamples
  <2>6. i \in BuiltInputs(c, n)
    BY <2>4 DEF BuiltInputs
  <2>7. qstore'[q][e] = WithStored(c, n, q)[e]
    BY <1>4, <1>5
  <2> QED
    BY <2>1, <2>2, <2>3, <2>4, <2>5, <2>6, <2>7
<1> QED
  BY <1>1, <1>4, <1>5

\* The end of an input of the evaluation is one its query reads.
LEMMA InputEnd ==
    ASSUME QTypeOK, NEW c \in Clients, evaluation[c].phase = "fetching",
           NEW i \in 1..Len(QueryRunInputs[evaluation[c].query])
    PROVE  EndAt(c, i) \in ReadEnds(evaluation[c].query, evaluation[c].at, DefinitionAt(c, i))
<1>1. evaluation[c].query \in Queries
  BY EvaluationFacts DEF IsEvaluation
<1>2. i \in DOMAIN QueryRunInputs[evaluation[c].query]
  BY <1>1, QueryPlanAssumption
<1> QED
  BY <1>2 DEF EndAt, DefinitionAt, ReadEnds, Inputs

\* What is stored changes by evaluations only, which count it.
LEMMA QueryStoreStep ==
    ASSUME [QNext]_allVars
    PROVE  \/ \E c \in Clients : Evaluate(c) \/ EvaluateFails(c)
           \/ qstore' = qstore /\ qstats' = qstats
  BY DEF QNext, allVars, queryVars, Precomputes, Scrape, Prepare, Fetch, Abandon,
         EvaluateMisses

\* What an evaluation builds of a pane its snapshot is past, whichever fetch
\* gave it the samples, is all that Prometheus holds of it.
LEMMA BuiltIsFinal ==
    ASSUME QueryInvariant, SpansAreTimes, NeededAreSpanned, FetchedIsFinal,
           NEW c \in Clients, evaluation[c].phase = "fetching",
           NEW q \in QueryRuns,
           NEW e \in ReadEnds(evaluation[c].query, evaluation[c].at, q),
           e \notin DOMAIN qstore[q], Sharing(c, q) # {}, Sound(q, e),
           SnapshotPast(c, q, e)
    PROVE  Coverage(q, e, evaluation[c].raw[GivenBy(c, q)]) = Coverage(q, e, prometheus)
<1> DEFINE v == evaluation[c]
           g == GivenBy(c, q)
<1>1. QTypeOK
  BY DEF QueryInvariant
<1>2. /\ v.query \in Queries
      /\ DOMAIN v.raw \subseteq DOMAIN v.spans
  BY <1>1, EvaluationFacts DEF IsEvaluation
<1>3. g \in Sharing(c, q) /\ g \in QueryRuns
  BY <1>1, GivenIsShared
<1>4. /\ g \in DOMAIN v.raw /\ g \in DOMAIN v.spans
      /\ FetchNode[v.query][g] = FetchNode[v.query][q]
  BY <1>2, <1>3 DEF Sharing
<1> HIDE DEF g
<1>5. CASE g = q
  <2>1. \/ e \notin DOMAIN qstore[q] /\ InUse(q, e)
        \/ q \in DOMAIN v.spans /\ ReadsOneOf(v.query, q)
    BY <1>2, <1>4, <1>5 DEF Sound, ReadOnce
  <2>2. Spanned(c, q, e)
    BY <2>1 DEF NeededAreSpanned
  <2>3. Coverage(q, e, v.raw[q]) = Coverage(q, e, prometheus)
    BY <1>4, <1>5, <2>2 DEF FetchedIsFinal
  <2> QED
    BY <1>5, <2>3 DEF g
<1>6. CASE g # q
  <2>1. PICK i \in Inputs(v.query) : i[1] = q /\ e = v.at - i[2]
    BY DEF ReadEnds
  <2>2. PICK j \in Inputs(v.query) : j[1] = g
    <3>1. ReadEnds(v.query, v.at, g) # {}
      BY <1>4 DEF SpansAreTimes
    <3> QED
      BY <3>1 DEF ReadEnds
  <2>3. ReadsOneOf(v.query, q) /\ ReadsOneOf(v.query, g)
    BY <1>2, <1>4, <1>6, <2>1, <2>2 DEF Sound, SharedReadOnce
  <2>4. /\ QueryRunReads[q] = QueryRunReads[g]
        /\ QueryRunPaneMs[q] = QueryRunPaneMs[g]
        /\ \E x, y \in Inputs(v.query) : x[1] = q /\ y[1] = g /\ x[2] = y[2]
    <3>1. FetchNode[v.query][i[1]] = FetchNode[v.query][j[1]]
      BY <1>4, <2>1, <2>2
    <3>2. /\ QueryRunReads[i[1]] = QueryRunReads[j[1]]
          /\ QueryRunPaneMs[i[1]] = QueryRunPaneMs[j[1]]
          /\ \E x, y \in Inputs(v.query) : x[1] = i[1] /\ y[1] = j[1] /\ x[2] = y[2]
      BY <1>2, <3>1, FetchNodeAssumption DEF Inputs
    <3> QED
      BY <2>1, <2>2, <3>2
  <2>5. PICK y \in Inputs(v.query) : y[1] = g /\ y[2] = i[2]
    BY <2>1, <2>3, <2>4 DEF ReadsOneOf
  <2>6. e \in ReadEnds(v.query, v.at, g)
    BY <2>1, <2>5 DEF ReadEnds
  <2>7. Spanned(c, g, e)
    BY <1>3, <1>4, <2>3, <2>6 DEF NeededAreSpanned
  <2>8. SnapshotPast(c, g, e)
    BY <2>4 DEF SnapshotPast, NoMoreTaken
  <2>9. Coverage(g, e, v.raw[g]) = Coverage(g, e, prometheus)
    BY <1>4, <2>6, <2>7, <2>8 DEF FetchedIsFinal
  <2>10. \A samples : Coverage(q, e, samples) = Coverage(g, e, samples)
    BY <2>4 DEF Coverage, SamplesOf
  <2> QED
    BY <2>9, <2>10 DEF g
<1> QED
  BY <1>5, <1>6

\* A summary that counts as fetched whole after a step did so before it.
LEMMA SoundStays ==
    ASSUME PaneInvariant, [QNext]_allVars, NEW q \in QueryRuns, NEW e \in Int,
           Sound(q, e)'
    PROVE  Sound(q, e)
<1>1. SharedReadOnce /\ (InUse(q, e)' \/ ReadOnce)
  BY DEF Sound, SharedReadOnce, ReadOnce, ReadsOneOf, Inputs
<1>2. InUse(q, e)' => InUse(q, e)
  BY InUseStays
<1> QED
  BY <1>1, <1>2 DEF Sound

\* The summaries fetched whole stay whole.
LEMMA SoundKeep ==
    ASSUME QueryInvariant, SpansAreTimes, NeededAreSpanned, FetchedIsFinal,
           SoundAreWhole, [QNext]_allVars
    PROVE  SoundAreWhole'
<1> SUFFICES ASSUME delivery' = "prompt", NEW q \in QueryRuns,
                    NEW e \in DOMAIN qstore'[q], Sound(q, e)'
             PROVE  qstore'[q][e] = Coverage(q, e, prometheus')
  BY DEF SoundAreWhole, Whole
<1>1. QTypeOK /\ TypeOK /\ PaneInvariant /\ delivery = "prompt"
  BY PrometheusStep DEF QueryInvariant, PaneInvariant
<1>2. e \in Int
  BY <1>1, StoreStep DEF QTypeOK
<1>3. Sound(q, e)
  BY <1>1, <1>2, SoundStays
<1>4. ASSUME NEW c \in Clients, Evaluate(c) \/ EvaluateFails(c)
      PROVE  qstore'[q][e] = Coverage(q, e, prometheus')
  <2> DEFINE length == Len(QueryRunInputs[evaluation[c].query])
  <2>1. evaluation[c].phase = "fetching" /\ prometheus' = prometheus
    BY <1>1, <1>4, EvaluationStores
  <2>2. CASE e \in DOMAIN qstore[q] /\ qstore'[q][e] = qstore[q][e]
    BY <1>1, <1>3, <2>1, <2>2 DEF SoundAreWhole, Whole
  <2>3. CASE ~(e \in DOMAIN qstore[q] /\ qstore'[q][e] = qstore[q][e])
    <3>1. PICK n \in 0..length :
             /\ e \notin DOMAIN qstore[q]
             /\ Sharing(c, q) # {}
             /\ Closed(c, e)
             /\ qstore'[q][e] = Coverage(q, e, evaluation[c].raw[GivenBy(c, q)])
             /\ \E i \in BuiltInputs(c, n) : DefinitionAt(c, i) = q /\ EndAt(c, i) = e
      BY <1>1, <1>4, <2>3, EvaluationStores
    <3>2. PICK i \in 1..n : DefinitionAt(c, i) = q /\ EndAt(c, i) = e
      BY <3>1 DEF BuiltInputs
    <3>3. length \in Nat
      BY <1>1, <2>1, EvaluationFacts, QueryPlanAssumption DEF IsEvaluation
    <3>4. i \in 1..length
      BY <3>2, <3>3
    <3>5. e \in ReadEnds(evaluation[c].query, evaluation[c].at, q)
      BY <1>1, <2>1, <3>2, <3>4, InputEnd
    <3>6. SnapshotPast(c, q, e)
      BY <1>1, <3>1 DEF SnapshotPast, NoMoreTaken, Closed, DecidedBy
    <3>7. Coverage(q, e, evaluation[c].raw[GivenBy(c, q)]) = Coverage(q, e, prometheus)
      BY <1>3, <2>1, <3>1, <3>5, <3>6, BuiltIsFinal
    <3> QED
      BY <2>1, <3>1, <3>7
  <2> QED
    BY <2>2, <2>3
<1>5. CASE qstore' = qstore
  <2>1. /\ e \in DOMAIN qstore[q]
        /\ WatermarkMs # None /\ e <= WatermarkMs
        /\ qstore'[q][e] = Coverage(q, e, prometheus)
    BY <1>1, <1>3, <1>5 DEF SoundAreWhole, Whole, QueryInvariant, QueryRunStoredOnceClosed
  <2>2. NoMoreTaken(q, e, WatermarkMs, queryRunNewest)
    BY <1>1, <2>1 DEF NoMoreTaken
  <2>3. Coverage(q, e, prometheus') = Coverage(q, e, prometheus)
    BY <1>1, <1>2, <2>2, PastIsFinal
  <2> QED
    BY <2>1, <2>3
<1> QED
  BY <1>4, <1>5, QueryStoreStep

\* A stored summary misses no sample, and will not, or is unsettled.
LEMMA UnsettledMembers ==
    ASSUME NEW q \in QueryRuns, NEW e \in DOMAIN qstore[q], Sound(q, e),
           <<q, e>> \notin Unsettled
    PROVE  /\ qstore[q][e] = Coverage(q, e, prometheus)
           /\ NoMoreTaken(q, e, WatermarkMs, queryRunNewest)
<1> DEFINE k == <<q, e>>
<1>1. k[1] = q /\ k[2] = e
  OBVIOUS
<1>2. k \in UNION {{d} \X DOMAIN qstore[d] : d \in QueryRuns}
  OBVIOUS
<1> HIDE DEF k
<1>3. Sound(k[1], k[2])
  BY <1>1
<1>4. Whole(k[1], k[2]) /\ NoMoreTaken(k[1], k[2], WatermarkMs, queryRunNewest)
  BY <1>2, <1>3 DEF Unsettled, k
<1> QED
  BY <1>1, <1>4 DEF Whole

\* A summary that misses samples, or may still come to, after a step.
LEMMA UnsettledAfter ==
    ASSUME NEW k \in Unsettled'
    PROVE  \E q \in QueryRuns : \E e \in DOMAIN qstore'[q] :
              /\ k = <<q, e>>
              /\ Sound(q, e)'
              /\ ~(/\ qstore'[q][e] = Coverage(q, e, prometheus')
                   /\ NoMoreTaken(q, e, WatermarkMs, queryRunNewest)')
<1>1. PICK q \in QueryRuns : k \in {q} \X DOMAIN qstore'[q]
  BY DEF Unsettled
<1>2. PICK e \in DOMAIN qstore'[q] : k = <<q, e>>
  BY <1>1
<1>3. k[1] = q /\ k[2] = e
  BY <1>2
<1>4. /\ Sound(k[1], k[2])'
      /\ ~(Whole(k[1], k[2])' /\ NoMoreTaken(k[1], k[2], WatermarkMs, queryRunNewest)')
  BY DEF Unsettled
<1>5. /\ Sound(q, e)'
      /\ ~(/\ qstore'[q][e] = Coverage(q, e, prometheus')
           /\ NoMoreTaken(q, e, WatermarkMs, queryRunNewest)')
  BY <1>3, <1>4 DEF Whole
<1> QED
  BY <1>2, <1>5

\* size.
LEMMA GrowsByImage ==
    ASSUME NEW U, IsFiniteSet(U), NEW B, IsFiniteSet(B), NEW V,
           NEW f, V \subseteq U \cup {f[i] : i \in B}
    PROVE  IsFiniteSet(V) /\ Cardinality(V) <= Cardinality(U) + Cardinality(B)
<1> DEFINE M == {f[i] : i \in B}
           g == [i \in B |-> f[i]]
<1>1. g \in Surjection(B, M)
  BY DEF Surjection
<1>2. IsFiniteSet(M) /\ Cardinality(M) <= Cardinality(B)
  BY <1>1, FS_Surjection
<1> HIDE DEF M
<1>3. /\ IsFiniteSet(U \cup M)
      /\ Cardinality(U \cup M) = Cardinality(U) + Cardinality(M) - Cardinality(U \cap M)
  BY <1>2, FS_Union
<1>4. IsFiniteSet(U \cap M)
  BY FS_Subset
<1>5. /\ Cardinality(U) \in Nat /\ Cardinality(M) \in Nat /\ Cardinality(B) \in Nat
      /\ Cardinality(U \cap M) \in Nat
  BY <1>2, <1>4, FS_CardinalityType
<1>6. V \subseteq U \cup M
  BY DEF M
<1>7. IsFiniteSet(V) /\ Cardinality(V) <= Cardinality(U \cup M) /\ Cardinality(V) \in Nat
  BY <1>3, <1>6, FS_Subset, FS_CardinalityType
<1> QED
  BY <1>2, <1>3, <1>5, <1>7

\* Every summary that misses samples, or may still come to, was counted when
\* it was stored.
LEMMA UnsettledKeep ==
    ASSUME QueryInvariant, NewestIsOld, SpansAreTimes, NeededAreSpanned,
           FetchedIsFinal, UnsettledAreCounted, [QNext]_allVars
    PROVE  UnsettledAreCounted'
<1> SUFFICES ASSUME delivery' = "forwarded"
             PROVE  IsFiniteSet(Unsettled') /\ Cardinality(Unsettled') <= qstats'.behind
  BY DEF UnsettledAreCounted
<1>1. QTypeOK /\ TypeOK /\ PaneInvariant /\ delivery = "forwarded"
  BY PrometheusStep DEF QueryInvariant, PaneInvariant
<1>2. /\ IsFiniteSet(Unsettled) /\ Cardinality(Unsettled) \in Nat
      /\ Cardinality(Unsettled) <= qstats.behind /\ qstats.behind \in Nat
  BY <1>1, FS_CardinalityType DEF UnsettledAreCounted, QTypeOK
<1>3. ASSUME NEW q \in QueryRuns, NEW e \in Int,
             NoMoreTaken(q, e, WatermarkMs, queryRunNewest)
      PROVE  /\ Coverage(q, e, prometheus') = Coverage(q, e, prometheus)
             /\ NoMoreTaken(q, e, WatermarkMs, queryRunNewest)'
  BY <1>1, <1>3, PastIsFinal, NoMoreTakenStays
<1>4. ASSUME NEW q \in QueryRuns, NEW e \in DOMAIN qstore[q], e \in DOMAIN qstore'[q],
             qstore'[q][e] = qstore[q][e], Sound(q, e)',
             ~(/\ qstore'[q][e] = Coverage(q, e, prometheus')
               /\ NoMoreTaken(q, e, WatermarkMs, queryRunNewest)')
      PROVE  <<q, e>> \in Unsettled
  <2> SUFFICES ASSUME <<q, e>> \notin Unsettled PROVE FALSE
    OBVIOUS
  <2>1. e \in Int
    BY <1>1 DEF QTypeOK
  <2>2. Sound(q, e)
    BY <1>1, <1>4, <2>1, SoundStays
  <2>3. /\ qstore[q][e] = Coverage(q, e, prometheus)
        /\ NoMoreTaken(q, e, WatermarkMs, queryRunNewest)
    BY <2>2, UnsettledMembers
  <2> QED
    BY <1>3, <1>4, <2>1, <2>3
<1>5. ASSUME NEW c \in Clients, Evaluate(c) \/ EvaluateFails(c)
      PROVE  IsFiniteSet(Unsettled') /\ Cardinality(Unsettled') <= qstats'.behind
  <2> DEFINE length == Len(QueryRunInputs[evaluation[c].query])
  <2>1. evaluation[c].phase = "fetching" /\ prometheus' = prometheus
    BY <1>1, <1>5, EvaluationStores
  <2>2. PICK n \in 0..length :
           /\ CountReads(c, n)
           /\ \A q \in QueryRuns : \A e \in DOMAIN qstore'[q] :
                 \/ e \in DOMAIN qstore[q] /\ qstore'[q][e] = qstore[q][e]
                 \/ /\ e \notin DOMAIN qstore[q]
                    /\ Sharing(c, q) # {}
                    /\ Closed(c, e)
                    /\ qstore'[q][e] = Coverage(q, e, evaluation[c].raw[GivenBy(c, q)])
                    /\ \E i \in BuiltInputs(c, n) :
                          DefinitionAt(c, i) = q /\ EndAt(c, i) = e
    BY <1>1, <1>5, EvaluationStores
  <2>3. length \in Nat
    BY <1>1, <2>1, EvaluationFacts, QueryPlanAssumption DEF IsEvaluation
  <2> DEFINE kept == {i \in BuiltInputs(c, n) : Closed(c, EndAt(c, i))}
             behind == {i \in kept : MetricBehind(c, i)}
             pair == [i \in 1..n |-> <<DefinitionAt(c, i), EndAt(c, i)>>]
  <2>4. behind \subseteq 1..n /\ IsFiniteSet(behind)
    <3>1. behind \subseteq 1..n
      BY DEF BuiltInputs
    <3>2. IsFiniteSet(1..n)
      BY <2>3, FS_Interval
    <3> QED
      BY <3>1, <3>2, FS_Subset
  <2>5. qstats'.behind = qstats.behind + Cardinality(behind)
    BY <2>2 DEF CountReads
  <2>6. Unsettled' \subseteq Unsettled \cup {pair[i] : i \in behind}
    <3> SUFFICES ASSUME NEW k \in Unsettled', k \notin Unsettled
                 PROVE  \E i \in behind : k = pair[i]
      OBVIOUS
    <3>1. PICK q \in QueryRuns : \E e \in DOMAIN qstore'[q] :
             /\ k = <<q, e>>
             /\ Sound(q, e)'
             /\ ~(/\ qstore'[q][e] = Coverage(q, e, prometheus')
                  /\ NoMoreTaken(q, e, WatermarkMs, queryRunNewest)')
      BY UnsettledAfter
    <3>2. PICK e \in DOMAIN qstore'[q] :
             /\ k = <<q, e>>
             /\ Sound(q, e)'
             /\ ~(/\ qstore'[q][e] = Coverage(q, e, prometheus')
                  /\ NoMoreTaken(q, e, WatermarkMs, queryRunNewest)')
      BY <3>1
    <3>3. ~(e \in DOMAIN qstore[q] /\ qstore'[q][e] = qstore[q][e])
      BY <1>4, <3>2
    <3>4. /\ e \notin DOMAIN qstore[q]
          /\ Sharing(c, q) # {}
          /\ Closed(c, e)
          /\ qstore'[q][e] = Coverage(q, e, evaluation[c].raw[GivenBy(c, q)])
          /\ \E i \in BuiltInputs(c, n) : DefinitionAt(c, i) = q /\ EndAt(c, i) = e
      BY <2>2, <3>3
    <3>5. PICK i \in BuiltInputs(c, n) : DefinitionAt(c, i) = q /\ EndAt(c, i) = e
      BY <3>4
    <3>6. i \in 1..n /\ i \in 1..length
      BY <2>3 DEF BuiltInputs
    <3>7. MetricBehind(c, i)
      <4> SUFFICES ASSUME ~MetricBehind(c, i) PROVE FALSE
        OBVIOUS
      <4> DEFINE m == QueryRunReads[q]
                 newest == evaluation[c].newest[m]
      <4>1. m \in QueryRunMetrics /\ evaluation[c].newest \in [QueryRunMetrics -> TimeOrNone]
        BY <1>1, <2>1, EvaluationFacts, QueryPlanAssumption DEF IsEvaluation
      <4>2. e \in Int
        BY <1>1, <2>1, <3>5, <3>6, EndAtType
      <4>3. newest # None /\ e <= newest
        BY <3>5, <4>1, <4>2 DEF MetricBehind, TimeOrNone
      <4>4. SnapshotPast(c, q, e)
        BY <1>1, <4>3 DEF SnapshotPast, NoMoreTaken
      <4>5. e \in ReadEnds(evaluation[c].query, evaluation[c].at, q)
        BY <1>1, <2>1, <3>5, <3>6, InputEnd
      <4>6. Sound(q, e)
        BY <1>1, <3>2, <4>2, SoundStays
      <4>7. Coverage(q, e, evaluation[c].raw[GivenBy(c, q)]) = Coverage(q, e, prometheus)
        BY <2>1, <3>4, <4>4, <4>5, <4>6, BuiltIsFinal
      <4>8. NoMoreTaken(q, e, WatermarkMs, queryRunNewest)
        BY <2>1, <4>2, <4>4, PastIsPast
      <4> QED
        BY <1>3, <2>1, <3>2, <3>4, <4>2, <4>7, <4>8
    <3>8. i \in behind /\ k = pair[i]
      BY <3>2, <3>4, <3>5, <3>6, <3>7
    <3> QED
      BY <3>8
  <2> HIDE DEF behind, pair
  <2>7. /\ IsFiniteSet(Unsettled')
        /\ Cardinality(Unsettled') <= Cardinality(Unsettled) + Cardinality(behind)
    BY <1>2, <2>4, <2>6, GrowsByImage
  <2>8. Cardinality(Unsettled') \in Nat /\ Cardinality(behind) \in Nat
    BY <2>4, <2>7, FS_CardinalityType
  <2> QED
    BY <1>2, <2>5, <2>7, <2>8
<1>6. CASE qstore' = qstore /\ qstats' = qstats
  <2>1. Unsettled' \subseteq Unsettled
    <3> SUFFICES ASSUME NEW k \in Unsettled' PROVE k \in Unsettled
      OBVIOUS
    <3>1. PICK q \in QueryRuns : \E e \in DOMAIN qstore'[q] :
             /\ k = <<q, e>>
             /\ Sound(q, e)'
             /\ ~(/\ qstore'[q][e] = Coverage(q, e, prometheus')
                  /\ NoMoreTaken(q, e, WatermarkMs, queryRunNewest)')
      BY UnsettledAfter
    <3> QED
      BY <1>4, <1>6, <3>1
  <2>2. /\ IsFiniteSet(Unsettled')
        /\ Cardinality(Unsettled') <= Cardinality(Unsettled)
        /\ Cardinality(Unsettled') \in Nat
    BY <1>2, <2>1, FS_Subset, FS_CardinalityType
  <2> QED
    BY <1>2, <1>6, <2>2
<1> QED
  BY <1>5, <1>6, QueryStoreStep

----------------------------------------------------------------------------
(* The theorems on what is stored.                                         *)

\* What is stored and fetched is what Prometheus holds, in every state the
\* two engines reach: the inductive invariant.
THEOREM StoredInvariantHolds == QSpec => []StoredInvariant
<1>1. QInit => StoredInvariant
  <2> SUFFICES ASSUME QInit PROVE StoredInvariant
    OBVIOUS
  <2>1. QueryInvariant
    BY QueryInitHolds
  <2>2. \A c \in Clients : evaluation[c].phase # "fetching"
    BY DEF QInit, Idle
  <2>3. SpansAreTimes /\ NeededAreSpanned /\ FetchedIsFinal /\ NewestIsOld
    BY <2>2 DEF SpansAreTimes, NeededAreSpanned, FetchedIsFinal, NewestIsOld
  <2>4. \A q \in QueryRuns : DOMAIN qstore[q] = {}
    BY DEF QInit
  <2>5. SoundAreWhole
    BY <2>4 DEF SoundAreWhole
  <2>6. Unsettled = {}
    BY <2>4 DEF Unsettled
  <2>7. UnsettledAreCounted
    BY <2>6, FS_EmptySet DEF UnsettledAreCounted, QInit
  <2> QED
    BY <2>1, <2>3, <2>5, <2>7 DEF StoredInvariant
<1>2. StoredInvariant /\ [QNext]_allVars => StoredInvariant'
  <2> SUFFICES ASSUME StoredInvariant, [QNext]_allVars PROVE StoredInvariant'
    OBVIOUS
  <2>1. /\ QueryInvariant /\ QTypeOK /\ TypeOK
        /\ NewestIsOld /\ SpansAreTimes /\ NeededAreSpanned /\ FetchedIsFinal
        /\ SoundAreWhole /\ UnsettledAreCounted
    BY DEF StoredInvariant, QueryInvariant, PaneInvariant
  <2> QED
    BY <2>1, QueryKeeps, NewestKeep, SpansKeep, NeededKeep, FetchedKeep, SoundKeep,
       UnsettledKeep
       DEF StoredInvariant
<1> QED
  BY <1>1, <1>2, PTL DEF QSpec

\* Where no query reads two summaries of one definition, every stored summary
\* holds every sample of its coverage, however fetches and evaluations race.
THEOREM StoredSummariesAreWhole ==
    ASSUME ReadOnce
    PROVE  QSpec => []StoredSummaryIsWhole
<1>1. SharedReadOnce
  <2>1. \A query \in Queries : \A i \in Inputs(query) : i[1] \in QueryRuns
    BY InputFacts DEF Inputs
  <2> QED
    BY <2>1 DEF ReadOnce, SharedReadOnce
<1>2. StoredInvariant => StoredSummaryIsWhole
  BY <1>1 DEF StoredInvariant, SoundAreWhole, Sound, StoredSummaryIsWhole
<1> QED
  BY <1>2, StoredInvariantHolds, PTL

\* However many summaries of a definition a query reads, if no other
\* definition's fetch has its node, the stored summaries in use hold every
\* sample of their coverage, evicted and failing evaluations included.
THEOREM SummariesInUseAreWhole ==
    ASSUME SharedReadOnce
    PROVE  QSpec => []SummaryInUseIsWhole
<1>1. StoredInvariant => SummaryInUseIsWhole
  BY DEF StoredInvariant, SoundAreWhole, Sound, SummaryInUseIsWhole
<1> QED
  BY <1>1, StoredInvariantHolds, PTL

\* By the same hypothesis, no summary in use that misses samples of a metric
\* that was behind was stored without being counted.
THEOREM UnwholeSummariesAreCounted ==
    ASSUME SharedReadOnce
    PROVE  QSpec => []UnwholeStoredAreCounted
<1>1. ASSUME StoredInvariant PROVE UnwholeStoredAreCounted
  <2> SUFFICES ASSUME delivery = "forwarded"
               PROVE  Cardinality({k \in UNION {{q} \X DOMAIN qstore[q] : q \in QueryRuns} :
                                     InUse(k[1], k[2]) /\ ~Whole(k[1], k[2])}) <= qstats.behind
    BY DEF UnwholeStoredAreCounted
  <2> DEFINE unwhole == {k \in UNION {{q} \X DOMAIN qstore[q] : q \in QueryRuns} :
                           InUse(k[1], k[2]) /\ ~Whole(k[1], k[2])}
  <2>1. IsFiniteSet(Unsettled) /\ Cardinality(Unsettled) <= qstats.behind
    BY <1>1 DEF StoredInvariant, UnsettledAreCounted
  <2>2. unwhole \subseteq Unsettled
    BY DEF Unsettled, Sound
  <2> HIDE DEF unwhole
  <2>3. /\ IsFiniteSet(unwhole) /\ Cardinality(unwhole) <= Cardinality(Unsettled)
        /\ Cardinality(unwhole) \in Nat /\ Cardinality(Unsettled) \in Nat
    BY <2>1, <2>2, FS_Subset, FS_CardinalityType
  <2>4. qstats.behind \in Nat
    BY <1>1 DEF StoredInvariant, QueryInvariant, QTypeOK
  <2> QED
    BY <2>1, <2>3, <2>4 DEF unwhole
<1> QED
  BY <1>1, StoredInvariantHolds, PTL

=============================================================================
