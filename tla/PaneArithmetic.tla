---------------------------- MODULE PaneArithmetic ----------------------------
(***************************************************************************)
(* The arithmetic of pane times in the precompute engine (precompute.rs,   *)
(* sds.rs), with the width of its integers.  Precompute computes with      *)
(* integers of any size; the program has i64 and checks, saturates or      *)
(* trusts each operation.  One definition is run twice over the same       *)
(* samples and barriers: `code' as the program does, `exact' with integers *)
(* of any size.  The wall clock is ahead of every time here, so it caps    *)
(* nothing.                                                                *)
(***************************************************************************)
EXTENDS PaneGrid

CONSTANTS
    MaxInt,         \* the largest i64
    PaneWidths,     \* widths of the definition
    Retentions,
    Latenesses,
    StreamStarts,   \* where the producer's stream starts; None if undeclared
    None

MinInt == -MaxInt - 1
Int64 == MinInt..MaxInt

ASSUME ArithmeticAssumption ==
    /\ MaxInt \in Nat \ {0}
    /\ PaneWidths \subseteq 1..MaxInt
    /\ Retentions \subseteq 0..MaxInt
    /\ Latenesses \subseteq 0..MaxInt
    /\ None \notin Int
    /\ StreamStarts \subseteq Int64 \cup {None}

VARIABLES
    setting,        \* the definition's pane and retention, the options
    newest,         \* newest sample time, or None
    barrier,        \* newest barrier, or None
    code,           \* first_pane_end, built_through and the stored panes
    exact,          \* the same, with integers of any size
    overflowed,     \* history: the start of a pane that is built overflowed
    wrapped,        \* history: the start of a first pane wrapped
    panicked

vars == <<setting, newest, barrier, code, exact, overflowed, wrapped, panicked>>

----------------------------------------------------------------------------
(* The operations of i64.                                                  *)

Fits(n) == n \in Int64

Wrapped(n) == MinInt + ((n - MinInt) % (2 * MaxInt + 2))

Saturated(n) == IF n > MaxInt THEN MaxInt ELSE IF n < MinInt THEN MinInt ELSE n

\* What a saturating operation gives, and whether a checked one succeeds, in
\* the program ("i64") and with integers of any size.
Bring(mode, n) == IF mode = "i64" THEN Saturated(n) ELSE n
Holds(mode, n) == mode = "i64" => Fits(n)

\* pane_end: negates, divides, negates and multiplies, with every step checked.
EndOf(t, p) ==
    IF t = MinInt \/ ~Fits(PaneEnd(t, p)) THEN None ELSE PaneEnd(t, p)

\* The end of the pane that is skipped by a definition whose first sample is
\* in the pane ending at e, where the pane's start was computed as `start'.
SkippedEnd(e, start) ==
    IF setting.start # None /\ start >= setting.start THEN start ELSE e

----------------------------------------------------------------------------

P == setting.pane

\* oldest_kept_end_ms of the newest closed end less one pane, step by step.
OldestKept(mode, w) ==
    LET newestClosed == Bring(mode, GridFloor(w, P))
        onePaneBehind == Bring(mode, newestClosed - P)
    IN  Bring(mode, Bring(mode, onePaneBehind - setting.retention) + P)

NextEnd(d) == d.built + P

FirstToBuild(d, oldest) == IF NextEnd(d) < oldest THEN PaneEnd(oldest, P) ELSE NextEnd(d)

\* close_panes at watermark w for definition d.
Closed(mode, d, w) ==
    LET oldest == OldestKept(mode, w)
        ends == EndsThrough(FirstToBuild(d, oldest), w, P)
    IN  IF d.built = None \/ ~Holds(mode, NextEnd(d))
               \/ (NextEnd(d) < oldest /\ ~Holds(mode, PaneEnd(oldest, P)))
        THEN d
        ELSE [d EXCEPT !.stored = {e \in @ \cup ends : e >= oldest},
                       !.built = IF ends = {} THEN @ ELSE GridFloor(w, P)]

\* The starts of the panes the program builds, which it does not check.
StartsBuilt(d, w) ==
    {e - P : e \in {e \in Closed("i64", d, w).stored : e > d.built}}

Max2(a, b) == IF a = None \/ (b # None /\ b > a) THEN b ELSE a

Watermark(mode, n, b) ==
    Max2(IF n = None THEN None ELSE Bring(mode, n - setting.lateness), b)

ClosePanes(began, exactBegan, n, b) ==
    LET w == Watermark("i64", n, b)
    IN  /\ code' = IF w = None THEN began ELSE Closed("i64", began, w)
        /\ exact' = IF w = None THEN exactBegan
                    ELSE Closed("exact", exactBegan, Watermark("exact", n, b))
        /\ overflowed' = (overflowed \/ (w # None /\ began.built # None
                                           /\ \E s \in StartsBuilt(began, w) : ~Fits(s)))
        /\ UNCHANGED panicked

Begun(d, skipped) ==
    IF d.built = None THEN [d EXCEPT !.first = skipped, !.built = skipped] ELSE d

Init ==
    /\ setting \in [pane : PaneWidths, retention : Retentions,
                    lateness : Latenesses, start : StreamStarts]
    /\ newest = None /\ barrier = None
    /\ code = [first |-> None, built |-> None, stored |-> {}]
    /\ exact = code
    /\ overflowed = FALSE /\ wrapped = FALSE /\ panicked = FALSE

\* A sample whose pane has no end in i64 is late and starts nothing.
IngestUnfit(t) ==
    /\ EndOf(t, P) = None
    /\ newest' = Max2(newest, t)
    /\ ClosePanes(code, exact, newest', barrier)
    /\ UNCHANGED wrapped

\* The start of the first pane is computed, unchecked, only when the
\* producer's stream start was declared.  It is computed for every sample, and
\* used for the definition's first.  When it overflows, a debug build panics
\* and a release build wraps.
StartOverflows(t) == setting.start # None /\ ~Fits(EndOf(t, P) - P)

Ingest(t) ==
    /\ EndOf(t, P) # None
    /\ wrapped' = (wrapped \/ (code.built = None /\ StartOverflows(t)))
    /\ LET e == EndOf(t, P)
           began == Begun(code, SkippedEnd(e, Wrapped(e - P)))
       IN  /\ newest' = Max2(newest, t)
           /\ ClosePanes(began, Begun(exact, SkippedEnd(e, e - P)), newest', barrier)

IngestPanics(t) ==
    /\ EndOf(t, P) # None
    /\ StartOverflows(t)
    /\ panicked' = TRUE
    /\ UNCHANGED <<newest, code, exact, overflowed, wrapped>>

AdvanceWatermark(b) ==
    /\ ~(barrier # None /\ barrier >= b)
    /\ barrier' = b
    /\ ClosePanes(code, exact, newest, b)
    /\ UNCHANGED <<newest, wrapped>>

Next ==
    /\ ~panicked
    /\ \/ \E t \in Int64 :
             /\ IngestUnfit(t) \/ Ingest(t) \/ IngestPanics(t)
             /\ UNCHANGED barrier
       \/ \E b \in Int64 : AdvanceWatermark(b)
    /\ UNCHANGED setting

Spec == Init /\ [][Next]_vars

----------------------------------------------------------------------------
(* Properties.                                                             *)

\* Saturation and checks lose nothing: over any samples and barriers, up to
\* both ends of the range, the program closes and keeps exactly the panes
\* that arithmetic without a bound does (precompute.rs, close_panes;
\* sds.rs, oldest_kept_end_ms), and the start of a pane it builds, which it
\* does not check (window_start_ms), is in range.  The one exception is a
\* release build whose first sample is within a pane of the smallest i64
\* while a stream start is declared: the start of its first pane wraps.
CodeIsExact == wrapped \/ (code = exact /\ ~overflowed)

----------------------------------------------------------------------------
(* The inductive invariant.                                                *)

Time == Int64 \cup {None}

SettingType ==
    setting \in [pane : PaneWidths, retention : Retentions,
                 lateness : Latenesses, start : StreamStarts]

\* A pane that is stored is retained, closed, and started within the range.
IsDefinition(d) ==
    /\ d \in [first : Time, built : Time, stored : SUBSET Int]
    /\ d.built = None => d.stored = {}
    /\ d.built # None =>
          /\ OnGrid(d.built, P)
          /\ \A e \in d.stored : e \in (d.built - setting.retention)..d.built
                                    /\ e >= MinInt + P

ArithmeticInvariant ==
    /\ SettingType
    /\ newest \in Time /\ barrier \in Time
    /\ wrapped \/ (code = exact /\ ~overflowed /\ IsDefinition(code))

=============================================================================
