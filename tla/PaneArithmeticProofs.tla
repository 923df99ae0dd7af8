------------------------ MODULE PaneArithmeticProofs ------------------------
(***************************************************************************)
(* Integers of i64 lose no pane, whatever the width of i64, the definition *)
(* and the times: the saturated and checked operations of the program give *)
(* the panes that arithmetic without a bound gives.                        *)
(***************************************************************************)
EXTENDS PaneArithmetic, PaneGridProofs

\* The numbers of the definition and of the options are within the range.
LEMMA SettingFacts ==
    ASSUME SettingType
    PROVE  /\ MaxInt \in Nat \ {0}
           /\ P \in Nat \ {0} /\ P <= MaxInt
           /\ setting.retention \in Nat /\ setting.retention <= MaxInt
           /\ setting.lateness \in Nat /\ setting.lateness <= MaxInt
           /\ setting.start \in Time
<1>1. /\ setting.pane \in PaneWidths /\ setting.retention \in Retentions
      /\ setting.lateness \in Latenesses /\ setting.start \in StreamStarts
  BY DEF SettingType
<1>2. \A n \in 0..MaxInt : n \in Nat /\ n <= MaxInt
  BY ArithmeticAssumption
<1>3. \A n \in 1..MaxInt : n \in Nat \ {0} /\ n <= MaxInt
  BY ArithmeticAssumption
<1> QED
  BY <1>1, <1>2, <1>3, ArithmeticAssumption DEF P, Time

\* The ends of the range.
LEMMA RangeFacts ==
    ASSUME NEW n \in Int
    PROVE  /\ MinInt \in Int /\ MinInt = -MaxInt - 1
           /\ Fits(n) <=> (MinInt <= n /\ n <= MaxInt)
           /\ n \in Int64 <=> (MinInt <= n /\ n <= MaxInt)
  BY ArithmeticAssumption DEF MinInt, Fits, Int64

\* A number within the range does not wrap.
LEMMA FittingIsNotWrapped ==
    ASSUME NEW n \in Int, Fits(n)
    PROVE  Wrapped(n) = n
<1> DEFINE size == 2 * MaxInt + 2
           k == n - MinInt
<1>1. MaxInt \in Nat \ {0} /\ MinInt = -MaxInt - 1 /\ MinInt <= n /\ n <= MaxInt
  BY ArithmeticAssumption, RangeFacts
<1>2. size \in Nat \ {0} /\ k \in 0..size-1
  BY <1>1
<1>3. Wrapped(n) = MinInt + (k % size)
  BY DEF Wrapped
<1> HIDE DEF size, k
<1>4. k % size = k
  BY <1>2, SMT
<1>5. MinInt + k = n
  BY <1>1 DEF k
<1> QED
  BY <1>3, <1>4, <1>5

\* The oldest end that is kept, computed with saturation, is the exact one,
\* or the first end whose pane starts within the range if that is later.
LEMMA OldestKeptFacts ==
    ASSUME SettingType, NEW w \in Int
    PROVE  /\ OldestKept("exact", w) \in Int
           /\ OldestKept("exact", w) = GridFloor(w, P) - setting.retention
           /\ w \in Int64 =>
                 /\ OldestKept("i64", w) \in Int
                 /\ OldestKept("i64", w) =
                       IF OldestKept("exact", w) >= MinInt + P
                       THEN OldestKept("exact", w)
                       ELSE MinInt + P
<1> DEFINE f == GridFloor(w, P)
           r == setting.retention
<1>1. /\ MaxInt \in Nat \ {0} /\ P \in Nat \ {0} /\ P <= MaxInt
      /\ r \in Nat /\ r <= MaxInt
  BY SettingFacts
<1>2. f \in Int /\ f <= w /\ w < f + P
  BY <1>1, GridFloorProperties
<1>3. OldestKept("exact", w) = ((f - P) - r) + P
  BY DEF OldestKept, Bring
<1>4. OldestKept("i64", w) =
        Saturated(Saturated(Saturated(Saturated(f) - P) - r) + P)
  BY DEF OldestKept, Bring
<1> HIDE DEF f, r
<1>5. OldestKept("exact", w) \in Int /\ OldestKept("exact", w) = f - r
  BY <1>1, <1>2, <1>3
<1>6. ASSUME w \in Int64
      PROVE  OldestKept("i64", w) = IF f - r >= MinInt + P THEN f - r ELSE MinInt + P
  <2>1. MinInt \in Int /\ MinInt = -MaxInt - 1 /\ w <= MaxInt
    BY <1>6, RangeFacts
  <2>2. Saturated(f) = IF f < MinInt THEN MinInt ELSE f
    BY <1>1, <1>2, <2>1 DEF Saturated
  <2>3. Saturated(Saturated(f) - P) = IF f - P < MinInt THEN MinInt ELSE f - P
    BY <1>1, <1>2, <2>1, <2>2 DEF Saturated
  <2>4. Saturated(Saturated(Saturated(f) - P) - r)
          = IF (f - P) - r < MinInt THEN MinInt ELSE (f - P) - r
    BY <1>1, <1>2, <2>1, <2>3 DEF Saturated
  <2> QED
    BY <1>1, <1>2, <1>4, <2>1, <2>4 DEF Saturated
<1>7. w \in Int64 => OldestKept("i64", w) \in Int
  BY <1>1, <1>2, <1>6, RangeFacts
<1> QED
  BY <1>5, <1>6, <1>7 DEF f, r

\* A definition whose next pane ends after the watermark is left alone.
LEMMA NothingToClose ==
    ASSUME SettingType, NEW d, IsDefinition(d), NEW w \in Int,
           d.built # None => w < d.built + P
    PROVE  Closed("exact", d, w) = d
<1>1. CASE d.built = None
  BY <1>1 DEF Closed
<1>2. CASE d.built # None
  <2> DEFINE f == GridFloor(w, P)
             r == setting.retention
             old == OldestKept("exact", w)
             ends == EndsThrough(FirstToBuild(d, old), w, P)
  <2>1. P \in Nat \ {0} /\ r \in Nat
    BY SettingFacts
  <2>2. /\ d.built \in Int
        /\ OnGrid(d.built, P)
        /\ d.stored \subseteq Int
        /\ \A e \in d.stored : e \in (d.built - r)..d.built
    BY <1>2, RangeFacts DEF IsDefinition, Time, Int64
  <2>3. f \in Int /\ OnGrid(f, P) /\ f <= w
    BY <2>1, GridFloorProperties
  <2>4. old = f - r
    BY OldestKeptFacts
  <2>5. f <= d.built
    <3> SUFFICES ASSUME d.built < f PROVE FALSE
      BY <2>2, <2>3
    <3>1. d.built + P <= f
      BY <2>1, <2>2, <2>3, GridSpacing
    <3> QED
      BY <1>2, <2>1, <2>2, <2>3, <3>1
  <2>6. ~(NextEnd(d) < old)
    BY <2>1, <2>2, <2>3, <2>4, <2>5 DEF NextEnd
  <2>7. FirstToBuild(d, old) = d.built + P
    BY <2>6 DEF FirstToBuild, NextEnd
  <2>8. ends = {}
    BY <1>2, <2>1, <2>2, <2>7 DEF EndsThrough
  <2>9. Closed("exact", d, w) =
          [d EXCEPT !.stored = {e \in @ \cup ends : e >= old},
                    !.built = IF ends = {} THEN @ ELSE f]
    <3>1. ~(d.built = None \/ ~Holds("exact", NextEnd(d))
              \/ (NextEnd(d) < old /\ ~Holds("exact", PaneEnd(old, P))))
      BY <1>2, <2>6 DEF Holds
    <3> QED
      BY <3>1 DEF Closed
  <2>10. {e \in d.stored \cup {} : e >= old} = d.stored
    BY <2>1, <2>2, <2>3, <2>4, <2>5
  <2> HIDE DEF ends, old, f
  <2>11. Closed("exact", d, w) = [d EXCEPT !.stored = d.stored, !.built = d.built]
    BY <2>8, <2>9, <2>10
  <2> QED
    BY <2>11 DEF IsDefinition
<1> QED
  BY <1>1, <1>2

\* A grid point at or before a time is at or before the newest one.
LEMMA GridFloorIsNewest ==
    ASSUME NEW e \in Int, NEW w \in Int, NEW p \in Nat \ {0}, OnGrid(e, p), e <= w
    PROVE  e <= GridFloor(w, p)
<1>1. /\ GridFloor(w, p) \in Int /\ OnGrid(GridFloor(w, p), p)
      /\ w < GridFloor(w, p) + p
  BY GridFloorProperties
<1> SUFFICES ASSUME GridFloor(w, p) < e PROVE FALSE
  BY <1>1
<1>2. GridFloor(w, p) + p <= e
  BY <1>1, GridSpacing
<1> QED
  BY <1>1, <1>2

\* A pane whose end is at or before a grid point ends at or before it.
LEMMA PaneEndBefore ==
    ASSUME NEW t \in Int, NEW f \in Int, NEW p \in Nat \ {0}, OnGrid(f, p), t <= f
    PROVE  PaneEnd(t, p) <= f
<1>1. /\ PaneEnd(t, p) \in Int /\ OnGrid(PaneEnd(t, p), p)
      /\ PaneEnd(t, p) < t + p
  BY PaneEndProperties
<1> SUFFICES ASSUME f < PaneEnd(t, p) PROVE FALSE
  BY <1>1
<1>2. f + p <= PaneEnd(t, p)
  BY <1>1, GridSpacing
<1> QED
  BY <1>1, <1>2

\* What a definition that has started is made of.
LEMMA StartedFacts ==
    ASSUME SettingType, NEW d, IsDefinition(d), d.built # None
    PROVE  /\ d.built \in Int /\ MinInt <= d.built /\ d.built <= MaxInt
           /\ OnGrid(d.built, P)
           /\ NextEnd(d) \in Int /\ NextEnd(d) = d.built + P
           /\ MinInt + P <= NextEnd(d)
           /\ OnGrid(NextEnd(d), P)
           /\ d.stored \subseteq Int
           /\ \A e \in d.stored : /\ d.built - setting.retention <= e
                                  /\ e <= d.built
                                  /\ MinInt + P <= e
<1>1. d.built \in Int64 /\ d.stored \subseteq Int /\ OnGrid(d.built, P)
  BY DEF IsDefinition, Time
<1>2. d.built \in Int /\ MinInt \in Int /\ MinInt <= d.built /\ d.built <= MaxInt
  BY <1>1, RangeFacts DEF Int64
<1>3. P \in Nat \ {0} /\ setting.retention \in Nat
  BY SettingFacts
<1>4. NextEnd(d) \in Int /\ NextEnd(d) = d.built + P /\ MinInt + P <= NextEnd(d)
  BY <1>2, <1>3 DEF NextEnd
<1>5. OnGrid(NextEnd(d), P)
  BY <1>1, <1>2, <1>3, <1>4, OnGridNeighbours
<1>6. \A e \in d.stored : e \in (d.built - setting.retention)..d.built /\ e >= MinInt + P
  BY DEF IsDefinition
<1>7. \A e \in d.stored : /\ d.built - setting.retention <= e
                          /\ e <= d.built
                          /\ MinInt + P <= e
  BY <1>1, <1>2, <1>3, <1>6
<1> QED
  BY <1>1, <1>2, <1>4, <1>5, <1>7

\* Which pane is built first does not depend on the arithmetic, the checks
\* of the program succeed, and the pane starts within the range.
LEMMA FirstToBuildFacts ==
    ASSUME SettingType, NEW d, IsDefinition(d), d.built # None,
           NEW w \in Int64, Fits(NextEnd(d))
    PROVE  /\ FirstToBuild(d, OldestKept("i64", w)) = FirstToBuild(d, OldestKept("exact", w))
           /\ FirstToBuild(d, OldestKept("exact", w)) \in Int
           /\ FirstToBuild(d, OldestKept("exact", w)) >= NextEnd(d)
           /\ FirstToBuild(d, OldestKept("exact", w)) >= OldestKept("exact", w)
           /\ NextEnd(d) < OldestKept("i64", w) => Fits(PaneEnd(OldestKept("i64", w), P))
<1> DEFINE i == OldestKept("i64", w)
           x == OldestKept("exact", w)
           f == GridFloor(w, P)
           r == setting.retention
<1>1. P \in Nat \ {0} /\ r \in Nat
  BY SettingFacts
<1>2. w \in Int /\ MinInt \in Int /\ MinInt <= w /\ w <= MaxInt
  BY RangeFacts DEF Int64
<1>3. f \in Int /\ OnGrid(f, P) /\ f <= w
  BY <1>1, <1>2, GridFloorProperties
<1>4. x \in Int /\ x = f - r /\ i = IF x >= MinInt + P THEN x ELSE MinInt + P
  BY <1>2, OldestKeptFacts
<1>5. NextEnd(d) \in Int /\ MinInt + P <= NextEnd(d)
  BY StartedFacts
<1> HIDE DEF i, x, f, r
<1>6. CASE NextEnd(d) < i
  <2>1. i = x
    BY <1>1, <1>2, <1>4, <1>5, <1>6
  <2>2. FirstToBuild(d, i) = PaneEnd(x, P) /\ FirstToBuild(d, x) = PaneEnd(x, P)
    BY <1>6, <2>1 DEF FirstToBuild
  <2>3. PaneEnd(x, P) \in Int /\ x <= PaneEnd(x, P)
    BY <1>1, <1>4, PaneEndProperties
  <2>4. PaneEnd(x, P) <= f
    BY <1>1, <1>3, <1>4, PaneEndBefore
  <2>5. PaneEnd(x, P) >= NextEnd(d)
    BY <1>4, <1>5, <1>6, <2>1, <2>3
  <2>6. MinInt <= PaneEnd(x, P) /\ PaneEnd(x, P) <= MaxInt
    <3>1. MaxInt \in Int
      BY SettingFacts
    <3> QED
      BY <1>1, <1>2, <1>3, <1>5, <2>3, <2>4, <2>5, <3>1
  <2>7. Fits(PaneEnd(i, P))
    BY <2>1, <2>3, <2>6, RangeFacts
  <2> QED
    BY <2>2, <2>3, <2>5, <2>7 DEF i, x
<1>7. CASE ~(NextEnd(d) < i)
  <2>1. x <= NextEnd(d)
    BY <1>1, <1>2, <1>4, <1>5, <1>7
  <2>2. ~(NextEnd(d) < x)
    BY <1>4, <1>5, <2>1
  <2>3. FirstToBuild(d, i) = NextEnd(d) /\ FirstToBuild(d, x) = NextEnd(d)
    BY <1>7, <2>2 DEF FirstToBuild
  <2> QED
    BY <1>4, <1>5, <1>7, <2>1, <2>3 DEF i, x
<1> QED
  BY <1>6, <1>7

\* The panes kept are the same too: none starts before the range.
LEMMA KeptFacts ==
    ASSUME SettingType, NEW w \in Int64, NEW kept \in SUBSET Int,
           \A e \in kept : e >= MinInt + P
    PROVE  {e \in kept : e >= OldestKept("i64", w)} = {e \in kept : e >= OldestKept("exact", w)}
<1> DEFINE i == OldestKept("i64", w)
           x == OldestKept("exact", w)
<1>1. P \in Nat \ {0} /\ w \in Int /\ MinInt \in Int
  BY SettingFacts, RangeFacts DEF Int64
<1>2. x \in Int /\ i = IF x >= MinInt + P THEN x ELSE MinInt + P
  BY <1>1, OldestKeptFacts
<1> HIDE DEF i, x
<1>3. \A e \in kept : e >= i <=> e >= x
  BY <1>1, <1>2
<1>4. {e \in kept : e >= i} = {e \in kept : e >= x}
  BY <1>3
<1> QED
  BY <1>4 DEF i, x

\* Closing panes at a watermark that fits does the same in both, it leaves a
\* definition, and every pane it builds starts within the range.
LEMMA ClosedIsExact ==
    ASSUME SettingType, NEW d, IsDefinition(d), NEW w \in Int64
    PROVE  /\ Closed("i64", d, w) = Closed("exact", d, w)
           /\ IsDefinition(Closed("i64", d, w))
           /\ d.built # None => \A s \in StartsBuilt(d, w) : Fits(s)
<1>w. w \in Int /\ MinInt \in Int /\ MinInt <= w /\ w <= MaxInt
  BY RangeFacts DEF Int64
<1>p. P \in Nat \ {0} /\ P <= MaxInt /\ MaxInt \in Nat /\ setting.retention \in Nat
  BY SettingFacts
<1>1. CASE d.built = None
  BY <1>1 DEF Closed
<1>2. CASE d.built # None /\ ~Fits(NextEnd(d))
  <2>1. Closed("i64", d, w) = d
    BY <1>2 DEF Closed, Holds
  <2>2. NextEnd(d) \in Int /\ NextEnd(d) = d.built + P /\ MinInt + P <= NextEnd(d)
    BY <1>2, StartedFacts
  <2>3. w < d.built + P
    BY <1>2, <1>w, <1>p, <2>2, RangeFacts
  <2>4. Closed("exact", d, w) = d
    BY <1>w, <2>3, NothingToClose
  <2>5. \A e \in d.stored : ~(e > d.built)
    BY <1>2, StartedFacts
  <2>6. StartsBuilt(d, w) = {}
    BY <2>1, <2>5 DEF StartsBuilt
  <2> QED
    BY <2>1, <2>4, <2>6
<1>3. CASE d.built # None /\ Fits(NextEnd(d))
  <2> DEFINE i == OldestKept("i64", w)
             x == OldestKept("exact", w)
             f == GridFloor(w, P)
             r == setting.retention
             first == FirstToBuild(d, x)
             ends == EndsThrough(first, w, P)
             kept == {e \in d.stored \cup ends : e >= x}
             built == IF ends = {} THEN d.built ELSE f
  <2>1. /\ d.built \in Int /\ MinInt <= d.built /\ d.built <= MaxInt
        /\ OnGrid(d.built, P)
        /\ NextEnd(d) \in Int /\ NextEnd(d) = d.built + P
        /\ MinInt + P <= NextEnd(d)
        /\ OnGrid(NextEnd(d), P)
        /\ d.stored \subseteq Int
        /\ \A e \in d.stored : /\ d.built - r <= e
                               /\ e <= d.built
                               /\ MinInt + P <= e
    BY <1>3, StartedFacts
  <2>2. /\ FirstToBuild(d, i) = first
        /\ first \in Int /\ first >= NextEnd(d) /\ first >= x
        /\ NextEnd(d) < i => Fits(PaneEnd(i, P))
    BY <1>3, FirstToBuildFacts
  <2>3. x \in Int /\ x = f - r
    BY <1>w, OldestKeptFacts
  <2>4. f \in Int /\ OnGrid(f, P) /\ f <= w /\ w < f + P
    BY <1>w, <1>p, GridFloorProperties
  <2>5. \A e \in ends : /\ e \in Int /\ first <= e /\ e <= w /\ OnGrid(e, P)
                        /\ e <= f
                        /\ MinInt + P <= e
    <3>1. SUFFICES ASSUME NEW e \in ends
                   PROVE  /\ e \in Int /\ first <= e /\ e <= w /\ OnGrid(e, P)
                          /\ e <= f
                          /\ MinInt + P <= e
      OBVIOUS
    <3>2. e \in Int /\ first <= e /\ e <= w /\ OnGrid(e, P)
      BY <1>w, <2>2, <3>1 DEF EndsThrough
    <3>3. e <= f
      BY <1>w, <1>p, <3>2, GridFloorIsNewest
    <3> HIDE DEF first
    <3> QED
      BY <1>w, <1>p, <2>1, <2>2, <3>2, <3>3
  <2>6. Closed("exact", d, w) = [d EXCEPT !.stored = kept, !.built = built]
    <3>1. ~(d.built = None \/ ~Holds("exact", NextEnd(d))
              \/ (NextEnd(d) < x /\ ~Holds("exact", PaneEnd(x, P))))
      BY <1>3 DEF Holds
    <3> QED
      BY <3>1 DEF Closed
  <2>7. {e \in d.stored \cup ends : e >= i} = kept
    <3>1. d.stored \cup ends \subseteq Int
      BY <2>1, <2>5
    <3>2. \A e \in d.stored \cup ends : e >= MinInt + P
      <4> HIDE DEF ends
      <4> QED
        BY <1>w, <1>p, <2>1, <2>5
    <3> HIDE DEF ends
    <3> QED
      BY <3>1, <3>2, KeptFacts
  <2>8. Closed("i64", d, w) = [d EXCEPT !.stored = kept, !.built = built]
    <3>1. ~(d.built = None \/ ~Holds("i64", NextEnd(d))
              \/ (NextEnd(d) < i /\ ~Holds("i64", PaneEnd(i, P))))
      BY <1>3, <2>2 DEF Holds
    <3>2. Closed("i64", d, w) =
            [d EXCEPT !.stored = {e \in d.stored \cup EndsThrough(FirstToBuild(d, i), w, P) : e >= i},
                      !.built = IF EndsThrough(FirstToBuild(d, i), w, P) = {}
                                THEN d.built ELSE f]
      BY <3>1 DEF Closed
    <3>3. EndsThrough(FirstToBuild(d, i), w, P) = ends
      BY <2>2
    <3> HIDE DEF i, f, ends, kept
    <3>4. Closed("i64", d, w) =
            [d EXCEPT !.stored = {e \in d.stored \cup ends : e >= i},
                      !.built = IF ends = {} THEN d.built ELSE f]
      BY <3>2, <3>3
    <3> QED
      BY <2>7, <3>4
  <2>9. /\ Closed("i64", d, w).first = d.first
        /\ Closed("i64", d, w).stored = kept
        /\ Closed("i64", d, w).built = built
        /\ Closed("i64", d, w) \in [first : Time, built : {built}, stored : {kept}]
    <3> HIDE DEF kept, built
    <3> QED
      BY <2>8 DEF IsDefinition
  <2>10. /\ built \in Int /\ MinInt <= built /\ built <= MaxInt /\ OnGrid(built, P)
         /\ \A e \in kept : built - r <= e /\ e <= built /\ MinInt + P <= e
    <3>1. CASE ends = {}
      <4>1. built = d.built /\ kept \subseteq d.stored
        BY <3>1
      <4> HIDE DEF built, kept
      <4> QED
        BY <2>1, <4>1
    <3>2. CASE ends # {}
      <4>1. PICK e0 \in ends : TRUE
        BY <3>2
      <4>2. e0 \in Int /\ first <= e0 /\ e0 <= f /\ MinInt + P <= e0
        BY <2>5, <4>1
      <4>3. built = f
        BY <3>2
      <4> HIDE DEF first, f, built, r, x
      <4>4. MinInt <= f /\ f <= MaxInt /\ d.built <= f
        BY <1>w, <1>p, <2>1, <2>2, <2>4, <4>2
      <4>5. ASSUME NEW e \in kept
            PROVE  f - r <= e /\ e <= f /\ MinInt + P <= e
        <5>1. e \in d.stored \cup ends /\ e >= f - r
          BY <2>3, <4>5
        <5> HIDE DEF ends, kept
        <5>2. e \in Int /\ e <= f /\ MinInt + P <= e
          BY <1>w, <1>p, <2>1, <2>4, <2>5, <4>4, <5>1
        <5>3. r \in Int
          BY <1>p DEF r
        <5> QED
          BY <2>4, <5>1, <5>2, <5>3
      <4> QED
        BY <2>4, <4>3, <4>4, <4>5
    <3> QED
      BY <3>1, <3>2
  <2>11. IsDefinition(Closed("i64", d, w))
    <3>1. built \in Time
      BY <2>10, RangeFacts DEF Time
    <3>2. kept \in SUBSET Int
      <4> HIDE DEF ends
      <4> QED
        BY <2>1, <2>5
    <3>3. Closed("i64", d, w) \in [first : Time, built : Time, stored : SUBSET Int]
      <4> HIDE DEF built, kept
      <4> QED
        BY <2>9, <3>1, <3>2
    <3>4. built # None
      BY <2>10, ArithmeticAssumption
    <3>5. \A e \in kept : e \in (built - r)..built /\ e >= MinInt + P
      <4> HIDE DEF built, kept
      <4> QED
        BY <1>w, <1>p, <2>10, <3>2
    <3> HIDE DEF built, kept
    <3> QED
      BY <2>9, <2>10, <3>3, <3>4, <3>5 DEF IsDefinition
  <2>12. \A s \in StartsBuilt(d, w) : Fits(s)
    <3>1. SUFFICES ASSUME NEW s \in StartsBuilt(d, w)
                   PROVE  Fits(s)
      OBVIOUS
    <3>2. PICK e \in kept : s = e - P
      BY <2>9, <3>1 DEF StartsBuilt
    <3>3. e \in Int
      <4> HIDE DEF ends
      <4> QED
        BY <2>1, <2>5, <3>2
    <3>4. MinInt + P <= e /\ e <= built /\ built \in Int /\ built <= MaxInt
      BY <2>10, <3>2
    <3> HIDE DEF built
    <3>5. s \in Int /\ MinInt <= s /\ s <= MaxInt
      BY <1>w, <1>p, <3>2, <3>3, <3>4
    <3> QED
      BY <3>5, RangeFacts
  <2>13. Closed("i64", d, w) = Closed("exact", d, w)
    BY <2>6, <2>8
  <2> QED
    BY <2>11, <2>12, <2>13
<1> QED
  BY <1>1, <1>2, <1>3

\* The watermark is the exact one, except that one before the range is
\* raised to its smallest time.
LEMMA WatermarkFacts ==
    ASSUME SettingType, NEW n \in Time, NEW b \in Time
    PROVE  /\ Watermark("i64", n, b) \in Time
           /\ \/ Watermark("i64", n, b) = Watermark("exact", n, b)
              \/ /\ Watermark("i64", n, b) = MinInt
                 /\ Watermark("exact", n, b) \in Int
                 /\ Watermark("exact", n, b) < MinInt
<1>1. /\ MaxInt \in Nat \ {0} /\ MinInt \in Int /\ MinInt = -MaxInt - 1
      /\ setting.lateness \in Nat
      /\ None \notin Int
  BY SettingFacts, RangeFacts, ArithmeticAssumption
<1>2. \A t : t \in Time <=> t = None \/ (t \in Int /\ MinInt <= t /\ t <= MaxInt)
  BY RangeFacts DEF Time, Int64
<1>3. CASE n = None
  <2>1. \A mode : Watermark(mode, n, b) = b
    <3>1. \A mode : Watermark(mode, n, b) = Max2(None, b)
      BY <1>3 DEF Watermark
    <3>2. Max2(None, b) = b
      BY DEF Max2
    <3> QED
      BY <3>1, <3>2
  <2> QED
    BY <2>1
<1>4. CASE n # None
  <2> DEFINE late == n - setting.lateness
             sat == Saturated(late)
  <2>1. n \in Int /\ MinInt <= n /\ n <= MaxInt
    BY <1>2, <1>4
  <2>2. late \in Int /\ late <= MaxInt
    BY <1>1, <2>1
  <2> HIDE DEF late
  <2>3. sat = IF late < MinInt THEN MinInt ELSE late
    BY <1>1, <2>2 DEF Saturated
  <2> HIDE DEF sat
  <2>4. Watermark("i64", n, b) = Max2(sat, b) /\ Watermark("exact", n, b) = Max2(late, b)
    BY <1>4 DEF Watermark, Bring, late, sat
  <2>5. CASE b = None
    <3>1. Max2(sat, b) = sat /\ Max2(late, b) = late
      BY <1>1, <2>2, <2>3, <2>5 DEF Max2
    <3> QED
      BY <1>1, <1>2, <2>2, <2>3, <2>4, <3>1
  <2>6. CASE b # None
    <3>1. b \in Int /\ MinInt <= b /\ b <= MaxInt
      BY <1>2, <2>6
    <3>2. /\ Max2(sat, b) = IF b > sat THEN b ELSE sat
          /\ Max2(late, b) = IF b > late THEN b ELSE late
      BY <1>1, <2>2, <2>3, <2>6 DEF Max2
    <3>3. Max2(sat, b) = Max2(late, b) /\ Max2(sat, b) \in Time
      BY <1>1, <1>2, <2>2, <2>3, <3>1, <3>2
    <3> QED
      BY <2>4, <3>3
  <2> QED
    BY <2>5, <2>6
<1> QED
  BY <1>3, <1>4

\* Before the range there is nothing to close, and at its smallest time
\* there is nothing either.
LEMMA ClosedBeforeRange ==
    ASSUME SettingType, NEW d, IsDefinition(d), NEW w \in Int, w < MinInt
    PROVE  Closed("exact", d, w) = d /\ Closed("exact", d, MinInt) = d
<1>1. MinInt \in Int /\ P \in Nat \ {0}
  BY SettingFacts, RangeFacts
<1>2. d.built # None => d.built \in Int /\ MinInt < d.built + P
  BY <1>1, StartedFacts
<1>3. d.built # None => w < d.built + P
  BY <1>1, <1>2
<1> QED
  BY <1>1, <1>2, <1>3, NothingToClose

\* Closing what there is to close keeps both the same.
LEMMA ClosePanesIsExact ==
    ASSUME SettingType, NEW d, IsDefinition(d), NEW n \in Time, NEW b \in Time,
           ~overflowed, ClosePanes(d, d, n, b)
    PROVE  code' = exact' /\ IsDefinition(code') /\ ~overflowed'
<1> DEFINE w == Watermark("i64", n, b)
           x == Watermark("exact", n, b)
<1>1. /\ w \in Time
      /\ w = x \/ (w = MinInt /\ x \in Int /\ x < MinInt)
  BY WatermarkFacts
<1>2. /\ code' = IF w = None THEN d ELSE Closed("i64", d, w)
      /\ exact' = IF w = None THEN d ELSE Closed("exact", d, x)
      /\ overflowed' = (overflowed \/ (w # None /\ d.built # None
                                         /\ \E s \in StartsBuilt(d, w) : ~Fits(s)))
  BY DEF ClosePanes
<1> HIDE DEF w, x
<1>3. CASE w = None
  BY <1>2, <1>3
<1>4. CASE w # None
  <2>1. w \in Int64
    BY <1>1, <1>4 DEF Time
  <2>2. /\ Closed("i64", d, w) = Closed("exact", d, w)
        /\ IsDefinition(Closed("i64", d, w))
        /\ d.built # None => \A s \in StartsBuilt(d, w) : Fits(s)
    BY <2>1, ClosedIsExact
  <2>3. Closed("exact", d, w) = Closed("exact", d, x)
    BY <1>1, ClosedBeforeRange
  <2> QED
    BY <1>2, <1>4, <2>2, <2>3
<1> QED
  BY <1>3, <1>4

\* The newer of two times is a time.
LEMMA NewerIsTime ==
    ASSUME NEW a \in Time, NEW b \in Time
    PROVE  Max2(a, b) \in Time
  BY DEF Max2

\* The checked end of a time's pane, if there is one, is the pane's end.
LEMMA EndOfFacts ==
    ASSUME SettingType, NEW t \in Int64, EndOf(t, P) # None
    PROVE  /\ EndOf(t, P) = PaneEnd(t, P)
           /\ EndOf(t, P) \in Int64
           /\ OnGrid(EndOf(t, P), P)
  BY SettingFacts, PaneEndProperties DEF EndOf, Fits, Int64

\* A definition begins with the same pane in both, unless the start of that
\* pane overflows.
LEMMA BegunIsExact ==
    ASSUME SettingType, NEW d, IsDefinition(d), NEW t \in Int64,
           EndOf(t, P) # None, d.built # None \/ ~StartOverflows(t),
           NEW e, e = EndOf(t, P)
    PROVE  /\ Begun(d, SkippedEnd(e, Wrapped(e - P))) = Begun(d, SkippedEnd(e, e - P))
           /\ IsDefinition(Begun(d, SkippedEnd(e, e - P)))
<1>1. e \in Int64 /\ e \in Int /\ OnGrid(e, P)
  BY EndOfFacts, RangeFacts DEF Int64
<1>2. P \in Nat \ {0} /\ e - P \in Int
  BY <1>1, SettingFacts
<1>3. CASE d.built # None
  BY <1>3 DEF Begun
<1>4. CASE d.built = None
  <2>1. setting.start # None => Fits(e - P) /\ Wrapped(e - P) = e - P
    BY <1>2, <1>4, FittingIsNotWrapped DEF StartOverflows
  <2>2. SkippedEnd(e, Wrapped(e - P)) = SkippedEnd(e, e - P)
    BY <2>1 DEF SkippedEnd
  <2> DEFINE skipped == SkippedEnd(e, e - P)
  <2>3. skipped \in Int64 /\ OnGrid(skipped, P)
    BY <1>1, <1>2, <2>1, OnGridNeighbours DEF SkippedEnd, Fits
  <2> HIDE DEF skipped
  <2>4. d \in [first : Time, built : Time, stored : SUBSET Int] /\ d.stored = {}
    BY <1>4 DEF IsDefinition
  <2>5. Begun(d, skipped) = [d EXCEPT !.first = skipped, !.built = skipped]
    BY <1>4 DEF Begun
  <2>6. skipped \in Time
    BY <2>3 DEF Time
  <2>7. /\ Begun(d, skipped) \in [first : Time, built : Time, stored : SUBSET Int]
        /\ Begun(d, skipped).stored = {}
        /\ Begun(d, skipped).built = skipped
    BY <2>4, <2>5, <2>6
  <2>8. IsDefinition(Begun(d, skipped))
    BY <2>3, <2>7 DEF IsDefinition
  <2> QED
    BY <2>2, <2>8 DEF skipped
<1> QED
  BY <1>3, <1>4

----------------------------------------------------------------------------
(* The theorems.                                                           *)

\* The invariant holds: while no first pane's start wrapped, the program and
\* the exact arithmetic have the same panes, all of them retained, closed and
\* started within the range (precompute.rs, close_panes).
THEOREM ArithmeticInvariantHolds == Spec => []ArithmeticInvariant
<1>1. Init => ArithmeticInvariant
  <2> SUFFICES ASSUME Init PROVE ArithmeticInvariant
    OBVIOUS
  <2>1. SettingType /\ newest \in Time /\ barrier \in Time
    BY DEF Init, SettingType, Time
  <2>2. code = exact /\ ~overflowed
    BY DEF Init
  <2>3. IsDefinition(code)
    BY DEF Init, IsDefinition, Time
  <2> QED
    BY <2>1, <2>2, <2>3 DEF ArithmeticInvariant
<1>2. ArithmeticInvariant /\ [Next]_vars => ArithmeticInvariant'
  <2> SUFFICES ASSUME ArithmeticInvariant, [Next]_vars PROVE ArithmeticInvariant'
    OBVIOUS
  <2>1. SettingType /\ newest \in Time /\ barrier \in Time
    BY DEF ArithmeticInvariant
  <2>2. ASSUME setting' = setting,
               newest' \in Time, barrier' \in Time,
               wrapped' \/ (code' = exact' /\ IsDefinition(code') /\ ~overflowed')
        PROVE  ArithmeticInvariant'
    <3>1. SettingType'
      BY <2>1, <2>2 DEF SettingType
    <3>2. P' = P
      BY <2>2 DEF P
    <3>3. IsDefinition(code') => IsDefinition(code)'
      BY <2>2, <3>2 DEF IsDefinition
    <3> QED
      BY <2>2, <3>1, <3>3 DEF ArithmeticInvariant, Time
  <2>3. ASSUME NEW t \in Int64, IngestUnfit(t), UNCHANGED barrier, UNCHANGED setting
        PROVE  ArithmeticInvariant'
    <3>1. newest' \in Time
      BY <2>1, <2>3, NewerIsTime DEF IngestUnfit, Time
    <3>2. CASE wrapped
      BY <2>1, <2>2, <2>3, <3>1, <3>2 DEF IngestUnfit
    <3>3. CASE ~wrapped
      <4>1. code = exact /\ ~overflowed /\ IsDefinition(code)
        BY <3>3 DEF ArithmeticInvariant
      <4>2. ClosePanes(code, code, newest', barrier)
        BY <2>3, <4>1 DEF IngestUnfit
      <4>3. code' = exact' /\ IsDefinition(code') /\ ~overflowed'
        BY <2>1, <3>1, <4>1, <4>2, ClosePanesIsExact
      <4> QED
        BY <2>1, <2>2, <2>3, <3>1, <4>3
    <3> QED
      BY <3>2, <3>3
  <2>4. ASSUME NEW t \in Int64, Ingest(t), UNCHANGED barrier, UNCHANGED setting
        PROVE  ArithmeticInvariant'
    <3>1. newest' \in Time
      BY <2>1, <2>4, NewerIsTime DEF Ingest, Time
    <3>2. CASE wrapped'
      BY <2>1, <2>2, <2>4, <3>1, <3>2
    <3>3. CASE ~wrapped'
      <4> DEFINE e == EndOf(t, P)
                 began == Begun(code, SkippedEnd(e, e - P))
      <4>1. ~wrapped /\ (code.built # None \/ ~StartOverflows(t)) /\ e # None
        BY <2>4, <3>3 DEF Ingest
      <4>2. code = exact /\ ~overflowed /\ IsDefinition(code)
        BY <4>1 DEF ArithmeticInvariant
      <4>3. Begun(code, SkippedEnd(e, Wrapped(e - P))) = began /\ IsDefinition(began)
        BY <2>1, <4>1, <4>2, BegunIsExact
      <4>4. ClosePanes(began, began, newest', barrier)
        BY <2>4, <4>2, <4>3 DEF Ingest
      <4> HIDE DEF began
      <4>5. code' = exact' /\ IsDefinition(code') /\ ~overflowed'
        BY <2>1, <3>1, <4>2, <4>3, <4>4, ClosePanesIsExact
      <4> QED
        BY <2>1, <2>2, <2>4, <3>1, <4>5
    <3> QED
      BY <3>2, <3>3
  <2>5. ASSUME NEW t \in Int64, IngestPanics(t), UNCHANGED barrier, UNCHANGED setting
        PROVE  ArithmeticInvariant'
    BY <2>1, <2>2, <2>5 DEF IngestPanics, ArithmeticInvariant
  <2>6. ASSUME NEW b \in Int64, AdvanceWatermark(b), UNCHANGED setting
        PROVE  ArithmeticInvariant'
    <3>1. b \in Time
      BY DEF Time
    <3>2. barrier' = b /\ newest' = newest /\ wrapped' = wrapped
      BY <2>6 DEF AdvanceWatermark
    <3>3. CASE wrapped
      BY <2>1, <2>2, <2>6, <3>1, <3>2, <3>3
    <3>4. CASE ~wrapped
      <4>1. code = exact /\ ~overflowed /\ IsDefinition(code)
        BY <3>4 DEF ArithmeticInvariant
      <4>2. ClosePanes(code, code, newest, b)
        BY <2>6, <4>1 DEF AdvanceWatermark
      <4>3. code' = exact' /\ IsDefinition(code') /\ ~overflowed'
        BY <2>1, <3>1, <4>1, <4>2, ClosePanesIsExact
      <4> QED
        BY <2>1, <2>2, <2>6, <3>1, <3>2, <4>3
    <3> QED
      BY <3>3, <3>4
  <2>7. CASE UNCHANGED vars
    BY <2>1, <2>2, <2>7 DEF vars, ArithmeticInvariant
  <2> QED
    BY <2>3, <2>4, <2>5, <2>6, <2>7 DEF Next
<1> QED
  BY <1>1, <1>2, PTL DEF Spec

\* CodeIsExact, for integers of every width, every definition and option, and
\* any samples and barriers (precompute.rs, close_panes and pane_end; sds.rs,
\* oldest_kept_end_ms).
THEOREM ArithmeticIsExact == Spec => []CodeIsExact
<1>1. ArithmeticInvariant => CodeIsExact
  BY DEF ArithmeticInvariant, CodeIsExact
<1> QED
  BY <1>1, ArithmeticInvariantHolds, PTL

\* Nothing wraps and nothing panics while no producer declares where its
\* stream starts: the panes are then the exact ones without exception.
THEOREM UndeclaredStartsAreExact ==
    ASSUME StreamStarts = {None}
    PROVE  Spec => [](code = exact /\ ~overflowed /\ ~panicked)
<1> DEFINE Calm == setting.start = None /\ ~wrapped /\ ~panicked
<1>1. Init => Calm
  BY DEF Init
<1>2. Calm /\ [Next]_vars => Calm'
  <2> SUFFICES ASSUME Calm, [Next]_vars PROVE Calm'
    OBVIOUS
  <2>1. ASSUME NEW t, IngestUnfit(t), UNCHANGED setting PROVE Calm'
    BY <2>1 DEF IngestUnfit, ClosePanes
  <2>2. ASSUME NEW t, Ingest(t), UNCHANGED setting PROVE Calm'
    <3>1. ~StartOverflows(t)
      BY DEF StartOverflows
    <3>2. ~wrapped'
      BY <2>2, <3>1 DEF Ingest
    <3>3. panicked' = panicked
      BY <2>2 DEF Ingest, ClosePanes
    <3> QED
      BY <2>2, <3>2, <3>3
  <2>3. ASSUME NEW t, IngestPanics(t) PROVE FALSE
    BY <2>3 DEF IngestPanics, StartOverflows
  <2>4. ASSUME NEW b, AdvanceWatermark(b), UNCHANGED setting PROVE Calm'
    BY <2>4 DEF AdvanceWatermark, ClosePanes
  <2>5. CASE UNCHANGED vars
    BY <2>5 DEF vars
  <2> QED
    BY <2>1, <2>2, <2>3, <2>4, <2>5 DEF Next
<1>3. ArithmeticInvariant /\ Calm => code = exact /\ ~overflowed /\ ~panicked
  BY DEF ArithmeticInvariant
<1> QED
  BY <1>1, <1>2, <1>3, ArithmeticInvariantHolds, PTL DEF Spec
=============================================================================
