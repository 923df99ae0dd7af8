---------------------------- MODULE SamplePanes ----------------------------
(***************************************************************************)
(* What a build promises of the panes of one definition: the samples of    *)
(* an open pane are those taken into it, each series' in the order of      *)
(* their times and none twice, and a pane that closes has one row per      *)
(* series with exactly its samples, or has failed.                         *)
(***************************************************************************)
EXTENDS PaneGrid

CONSTANTS
    Series,     \* the series that update is called with
    Selected,   \* those of them the Scan's matchers select
    PaneMs,     \* a positive number
    Times       \* the times of samples, a set of integers

VARIABLES
    through,    \* the newest pane closed or skipped: later panes are open
    taken,      \* the samples of the open panes
    broken,     \* the open panes that failed
    sealed,     \* the closed panes
    outcome     \* what was done with the last sample

panesVars == <<through, taken, broken, sealed, outcome>>

Sample == [series : Series, t : Times, stale : BOOLEAN]

EndOf(s) == PaneEnd(s.t, PaneMs)

Ends == {PaneEnd(t, PaneMs) : t \in Times}

\* A stale marker and a series that is not selected are no sample of a pane.
Counts(s) == s.series \in Selected /\ ~s.stale

NotAfterPrevious(s) ==
    \E o \in taken : o.series = s.series /\ EndOf(o) = EndOf(s) /\ s.t <= o.t

InPane(e) == {s \in taken : EndOf(s) = e}

RowsOf(samples) ==
    {[series |-> id, samples |-> {s \in samples : s.series = id}] :
        id \in {s.series : s \in samples}}

----------------------------------------------------------------------------

Ignore(s) ==
    /\ ~Counts(s) \/ EndOf(s) \in broken
    /\ outcome' = "taken"
    /\ UNCHANGED <<taken, broken>>

Drop(s) ==
    /\ Counts(s)
    /\ EndOf(s) \notin broken
    /\ NotAfterPrevious(s)
    /\ outcome' = "duplicate"
    /\ UNCHANGED <<taken, broken>>

Add(s) ==
    /\ Counts(s)
    /\ EndOf(s) \notin broken
    /\ ~NotAfterPrevious(s)
    /\ taken' = taken \cup {s}
    /\ outcome' = "taken"
    /\ UNCHANGED broken

\* The state refuses the sample: its pane fails, whatever it held.
Break(s) ==
    /\ Counts(s)
    /\ EndOf(s) \notin broken
    /\ ~NotAfterPrevious(s)
    /\ broken' = broken \cup {EndOf(s)}
    /\ taken' = taken \ InPane(EndOf(s))
    /\ outcome' = "taken"

Take(s) ==
    /\ EndOf(s) > through
    /\ Ignore(s) \/ Drop(s) \/ Add(s) \/ Break(s)
    /\ UNCHANGED <<through, sealed>>

\* The pane ending at e closes, and the open ones before it are dropped.
Close(e) ==
    /\ e > through
    /\ through' = e
    /\ \E pane \in {[failed |-> FALSE, rows |-> RowsOf(InPane(e))],
                    [failed |-> TRUE, rows |-> {}]} :
          /\ e \in broken => pane.failed
          /\ sealed' = [x \in DOMAIN sealed \cup {e} |->
                           IF x = e THEN pane ELSE sealed[x]]
    /\ taken' = {s \in taken : EndOf(s) > e}
    /\ broken' = {x \in broken : x > e}
    /\ UNCHANGED outcome

Init ==
    /\ through \in Ends
    /\ taken = {}
    /\ broken = {}
    /\ sealed = [x \in {} |-> {}]
    /\ outcome = "taken"

Next == \/ \E s \in Sample : Take(s)
        \/ \E e \in Ends : Close(e)

Spec == Init /\ [][Next]_panesVars

=============================================================================
