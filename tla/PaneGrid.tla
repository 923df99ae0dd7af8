------------------------------ MODULE PaneGrid ------------------------------
(***************************************************************************)
(* The arithmetic of tumbling panes.  A pane of width p is the half-open   *)
(* interval (end - p, end] and every end is a multiple of p.  Times are    *)
(* event-time milliseconds; negative times are legal.  The integers are    *)
(* unbounded here: what i64 does at its ends is a matter of its own.       *)
(***************************************************************************)
EXTENDS Integers

\* The multiples of the pane width: where a pane may end.
OnGrid(t, p) == t % p = 0

\* End of the pane that contains t (-((-t) div_euclid p) * p in the code).
PaneEnd(t, p) == (-((-t) \div p)) * p

\* The newest grid point at or before t.
GridFloor(t, p) == (t \div p) * p

\* The end of the oldest pane still read when the newest evaluation is at
\* newest: a pane that ends before it is evicted.
OldestKeptEnd(newest, retention, p) == (newest - retention) + p

\* The ends of the panes from the pane ending at first through time t.
EndsThrough(first, t, p) == {e \in first..t : OnGrid(e, p)}

=============================================================================
