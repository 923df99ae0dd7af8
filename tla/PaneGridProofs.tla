--------------------------- MODULE PaneGridProofs ---------------------------
(***************************************************************************)
(* The facts about the pane grid that the proofs about panes rest on.      *)
(* They hide the multiplications and divisions: a proof that uses them     *)
(* reasons about ends that are on the grid and a pane apart.               *)
(***************************************************************************)
EXTENDS PaneGrid, TLAPS

\* Division with remainder, the fact the others come from.
LEMMA DivMod ==
    ASSUME NEW t \in Int, NEW p \in Nat \ {0}
    PROVE  /\ t \div p \in Int
           /\ t % p \in 0..p-1
           /\ t = p * (t \div p) + (t % p)
  BY SMT

\* A multiple of the width is on the grid.
LEMMA MultipleOnGrid ==
    ASSUME NEW k \in Int, NEW p \in Nat \ {0}
    PROVE  k * p \in Int /\ OnGrid(k * p, p)
  BY DivMod, SMT DEF OnGrid

\* A grid point is a multiple of the width.
LEMMA OnGridMultiple ==
    ASSUME NEW t \in Int, NEW p \in Nat \ {0}, OnGrid(t, p)
    PROVE  t \div p \in Int /\ t = (t \div p) * p
  BY DivMod, SMT DEF OnGrid

\* A pane's end is on the grid, at or after the times of the pane and less
\* than a width after them.
LEMMA PaneEndProperties ==
    ASSUME NEW t \in Int, NEW p \in Nat \ {0}
    PROVE  /\ PaneEnd(t, p) \in Int
           /\ OnGrid(PaneEnd(t, p), p)
           /\ t <= PaneEnd(t, p)
           /\ PaneEnd(t, p) < t + p
<1> DEFINE k == (-t) \div p
<1>1. k \in Int /\ (-t) % p \in 0..p-1 /\ -t = p * k + ((-t) % p)
  BY DivMod, -t \in Int
<1> HIDE DEF k
<1>2. PaneEnd(t, p) = (-k) * p
  BY DEF PaneEnd, k
<1>3. (-k) * p = -(p * k) /\ p * k \in Int
  BY <1>1, SMT
<1>4. t <= PaneEnd(t, p) /\ PaneEnd(t, p) < t + p
  BY <1>1, <1>2, <1>3, SMT
<1>5. -k \in Int
  BY <1>1
<1> QED
  BY <1>2, <1>4, <1>5, MultipleOnGrid

\* The newest grid point at or before a time is less than a width behind it.
LEMMA GridFloorProperties ==
    ASSUME NEW t \in Int, NEW p \in Nat \ {0}
    PROVE  /\ GridFloor(t, p) \in Int
           /\ OnGrid(GridFloor(t, p), p)
           /\ GridFloor(t, p) <= t
           /\ t < GridFloor(t, p) + p
<1> DEFINE k == t \div p
<1>1. k \in Int /\ t % p \in 0..p-1 /\ t = p * k + (t % p)
  BY DivMod
<1> HIDE DEF k
<1>2. GridFloor(t, p) = k * p
  BY DEF GridFloor, k
<1>3. k * p = p * k /\ p * k \in Int
  BY <1>1, SMT
<1>4. GridFloor(t, p) <= t /\ t < GridFloor(t, p) + p
  BY <1>1, <1>2, <1>3, SMT
<1> QED
  BY <1>1, <1>2, <1>4, MultipleOnGrid

\* A pane before or after one on the grid is on the grid.
LEMMA OnGridNeighbours ==
    ASSUME NEW t \in Int, NEW p \in Nat \ {0}, OnGrid(t, p)
    PROVE  OnGrid(t + p, p) /\ OnGrid(t - p, p)
<1> DEFINE k == t \div p
<1>1. k \in Int /\ t = k * p
  BY OnGridMultiple
<1> HIDE DEF k
<1>2. t + p = (k + 1) * p /\ t - p = (k - 1) * p
  BY <1>1, SMT
<1>3. k + 1 \in Int /\ k - 1 \in Int
  BY <1>1
<1> QED
  BY <1>2, <1>3, MultipleOnGrid

\* Two grid points are at least a width apart.
LEMMA GridSpacing ==
    ASSUME NEW a \in Int, NEW b \in Int, NEW p \in Nat \ {0},
           OnGrid(a, p), OnGrid(b, p), a < b
    PROVE  a + p <= b
<1> DEFINE j == a \div p
           k == b \div p
<1>1. j \in Int /\ a = j * p /\ k \in Int /\ b = k * p
  BY OnGridMultiple
<1> HIDE DEF j, k
<1>2. j < k
  <2> SUFFICES ASSUME k <= j PROVE FALSE
    BY <1>1
  <2>1. k * p <= j * p
    BY <1>1, SMT
  <2> QED
    BY <1>1, <2>1
<1>3. (j + 1) * p <= k * p
  BY <1>1, <1>2, SMT
<1> QED
  BY <1>1, <1>3, SMT

\* The distance of two grid points is a number of widths.
LEMMA GridDistance ==
    ASSUME NEW a \in Int, NEW b \in Int, NEW p \in Nat \ {0},
           OnGrid(a, p), OnGrid(b, p)
    PROVE  /\ (b - a) \div p \in Int
           /\ ((b - a) \div p) * p = b - a
           /\ a <= b => (b - a) \div p \in Nat
<1> DEFINE j == a \div p
           k == b \div p
<1>1. j \in Int /\ a = j * p /\ k \in Int /\ b = k * p
  BY OnGridMultiple
<1> HIDE DEF j, k
<1>2. b - a = (k - j) * p /\ k - j \in Int
  BY <1>1, SMT
<1>3. OnGrid(b - a, p)
  BY <1>2, MultipleOnGrid
<1>4. (b - a) \div p \in Int /\ b - a = ((b - a) \div p) * p
  BY <1>1, <1>3, OnGridMultiple, b - a \in Int
<1>5. a <= b => (b - a) \div p >= 0
  BY <1>1, SMT
<1> QED
  BY <1>4, <1>5

\* The difference of two grid points is on the grid.
LEMMA OnGridDifference ==
    ASSUME NEW a \in Int, NEW b \in Int, NEW p \in Nat \ {0},
           OnGrid(a, p), OnGrid(b, p)
    PROVE  OnGrid(a - b, p)
<1> DEFINE j == a \div p
           k == b \div p
<1>1. j \in Int /\ a = j * p /\ k \in Int /\ b = k * p
  BY OnGridMultiple
<1> HIDE DEF j, k
<1>2. a - b = (j - k) * p /\ j - k \in Int
  BY <1>1
<1> QED
  BY <1>2, MultipleOnGrid
=============================================================================
