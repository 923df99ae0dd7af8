----------------------------- MODULE PerSample -----------------------------
(***************************************************************************)
(* The panes of one definition built per sample (per_sample.rs): a table   *)
(* of the series seen, and for each open pane a table of groups, one per   *)
(* series, whose states are updated in place.  A group is named by its     *)
(* number in its pane; a series caches the number it had in the pane it    *)
(* last wrote.  Series not seen for long are forgotten, with their cells   *)
(* in the cache of the raw sample window (raw_sample_window.rs).           *)
(*                                                                         *)
(* Precompute calls update for a sample of an open pane, and closes panes  *)
(* in their order, skipping some; through is where it has got to.          *)
(***************************************************************************)
EXTENDS PaneGrid, Sequences

CONSTANTS
    Series,     \* the series that update is called with
    Selected,   \* the series the Scan's matchers select
    PaneMs,
    RetentionMs,
    Times       \* the times of samples

ASSUME PerSampleAssumption ==
    /\ Selected \subseteq Series
    /\ PaneMs \in Nat \ {0}
    /\ RetentionMs \in Nat
    /\ Times \subseteq Int

KeepMs == RetentionMs + PaneMs

VARIABLES
    series,     \* the series remembered, by id
    cells,      \* the series whose cells are cached: when last looked up
    panes,      \* the open panes, by their end
    through,    \* the newest pane closed or skipped
    sealed,     \* the closed panes, as handed to the store
    outcome     \* what update did with the last sample

vars == <<series, cells, panes, through, sealed, outcome>>

Sample == [series : Series, t : Times, stale : BOOLEAN]

EndOf(s) == PaneEnd(s.t, PaneMs)

Ends == {PaneEnd(t, PaneMs) : t \in Times}

\* No pane was written yet: groups are numbered from 1 here.
NoPane == [end |-> 0, number |-> 0]

EmptyPane == [failed |-> FALSE, groups |-> <<>>, numbers |-> [x \in {} |-> 0]]
FailedPane == [failed |-> TRUE, groups |-> <<>>, numbers |-> [x \in {} |-> 0]]

PaneAt(e) == IF e \in DOMAIN panes THEN panes[e] ELSE EmptyPane

SetPane(e, pane) ==
    panes' = [x \in DOMAIN panes \cup {e} |-> IF x = e THEN pane ELSE panes[x]]

----------------------------------------------------------------------------
(* The series of a sample.                                                 *)

Later(a, b) == IF a < b THEN b ELSE a

\* (mutant) a series' newest time is that of its first sample
SeenFirst(s) ==
    IF s.series \in DOMAIN series THEN series[s.series]
    ELSE [selected |-> s.series \in Selected, newest |-> s.t, pane |-> NoPane]

\* The entry of the series of s, when s has been seen.
Seen(s) ==
    IF s.series \in DOMAIN series
    THEN [series[s.series] EXCEPT !.newest = Later(@, s.t)]
    ELSE [selected |-> s.series \in Selected, newest |-> s.t, pane |-> NoPane]

\* The entry is kept with pane as the pane it last wrote.  The cells are
\* looked up only when the series is new.
Remember(s, pane) ==
    /\ series' = [id \in DOMAIN series \cup {s.series} |->
                     IF id = s.series THEN [Seen(s) EXCEPT !.pane = pane]
                     ELSE series[id]]
    /\ cells' = IF s.series \in DOMAIN series THEN cells
                ELSE [id \in DOMAIN cells \cup {s.series} |->
                         IF id # s.series THEN cells[id]
                         ELSE IF id \in DOMAIN cells THEN Later(cells[id], s.t)
                         ELSE s.t]

HasCached(s) == Seen(s).pane.number # 0 /\ Seen(s).pane.end = EndOf(s)

InNumbers(s) == s.series \in DOMAIN PaneAt(EndOf(s)).numbers

IsNew(s) == ~HasCached(s) /\ ~InNumbers(s)

\* The number of the series' group in the pane, for one that is not new.
NumberOf(s) == IF HasCached(s) THEN Seen(s).pane.number
               ELSE PaneAt(EndOf(s)).numbers[s.series]

GroupOf(s) == PaneAt(EndOf(s)).groups[NumberOf(s)]

----------------------------------------------------------------------------
(* update                                                                  *)

\* (mutant) a stale marker is a sample like any other
NeverStale(s) == FALSE

IsStale(s) == s.stale

IgnoreStale(s) ==
    /\ IsStale(s)
    /\ UNCHANGED <<series, cells, panes>>

IgnoreUnselected(s) ==
    /\ ~IsStale(s)
    /\ ~Seen(s).selected
    /\ Remember(s, Seen(s).pane)
    /\ UNCHANGED panes

IgnoreFailed(s) ==
    /\ ~IsStale(s)
    /\ Seen(s).selected
    /\ PaneAt(EndOf(s)).failed
    /\ Remember(s, Seen(s).pane)
    /\ UNCHANGED panes

\* The pane takes samples of the series of s.
Accepts(s) == ~IsStale(s) /\ Seen(s).selected /\ ~PaneAt(EndOf(s)).failed

\* (mutant) the group's number is not recorded in the pane
TakeNewUnrecorded(s) ==
    LET pane == PaneAt(EndOf(s))
        number == Len(pane.groups) + 1
    IN  /\ Accepts(s)
        /\ IsNew(s)
        /\ SetPane(EndOf(s),
              [pane EXCEPT !.groups = Append(@, [key |-> s.series, newest |-> s.t,
                                                 state |-> {s}])])
        /\ Remember(s, [end |-> EndOf(s), number |-> number])

\* The series' first sample in the pane: a group is added for it.
TakeNew(s) ==
    LET pane == PaneAt(EndOf(s))
        number == Len(pane.groups) + 1
    IN  /\ Accepts(s)
        /\ IsNew(s)
        /\ SetPane(EndOf(s),
              [failed |-> FALSE,
               groups |-> Append(pane.groups,
                             [key |-> s.series, newest |-> s.t, state |-> {s}]),
               numbers |-> [id \in DOMAIN pane.numbers \cup {s.series} |->
                               IF id = s.series THEN number ELSE pane.numbers[id]]])
        /\ Remember(s, [end |-> EndOf(s), number |-> number])

TakeNext(s) ==
    LET pane == PaneAt(EndOf(s))
        number == NumberOf(s)
    IN  /\ Accepts(s)
        /\ ~IsNew(s)
        /\ s.t > GroupOf(s).newest
        /\ SetPane(EndOf(s),
              [failed |-> FALSE,
               groups |-> [pane.groups EXCEPT
                              ![number] = [key |-> @.key, newest |-> s.t,
                                           state |-> @.state \cup {s}]],
               numbers |-> pane.numbers])
        /\ Remember(s, [end |-> EndOf(s), number |-> number])

\* As Prometheus does, a sample not after its series' previous one is dropped.
DropDuplicate(s) ==
    /\ Accepts(s)
    /\ ~IsNew(s)
    /\ s.t <= GroupOf(s).newest
    /\ Remember(s, [end |-> EndOf(s), number |-> NumberOf(s)])
    /\ UNCHANGED panes

\* (mutant) a failed pane is emptied, and takes the next sample
EmptyFailedPane(e) == SetPane(e, EmptyPane)

FailPane(e) == SetPane(e, FailedPane)

\* No state can be made for the pane, or no group added to it.
FailToAdd(s) ==
    /\ Accepts(s)
    /\ IsNew(s)
    /\ FailPane(EndOf(s))
    /\ Remember(s, Seen(s).pane)

\* The state refuses the sample.
FailToUpdate(s) ==
    /\ Accepts(s)
    /\ ~IsNew(s) => s.t > GroupOf(s).newest
    /\ FailPane(EndOf(s))
    /\ Remember(s, [end |-> EndOf(s),
                    number |-> IF IsNew(s) THEN Len(PaneAt(EndOf(s)).groups) + 1
                               ELSE NumberOf(s)])

Update(s) ==
    /\ EndOf(s) > through
    /\ \/ /\ outcome' = "taken"
          /\ \/ IgnoreStale(s)
             \/ IgnoreUnselected(s)
             \/ IgnoreFailed(s)
             \/ TakeNew(s)
             \/ TakeNext(s)
             \/ FailToAdd(s)
             \/ FailToUpdate(s)
       \/ /\ outcome' = "duplicate"
          /\ DropDuplicate(s)
    /\ UNCHANGED <<through, sealed>>

----------------------------------------------------------------------------
(* drop_before and close                                                   *)

\* Every series seen after oldest is remembered; the cells are forgotten by
\* when they were last looked up.
ForgetUnseen(oldest) ==
    /\ series' = [id \in {x \in DOMAIN series : series[x].newest > oldest} |-> series[id]]
    /\ cells' = [id \in {x \in DOMAIN cells : cells[x] > oldest} |-> cells[id]]

RowsOfPane(pane) ==
    {[series |-> pane.groups[n].key, samples |-> pane.groups[n].state] :
        n \in DOMAIN pane.groups}

Seal(e, pane) ==
    sealed' = [x \in DOMAIN sealed \cup {e} |-> IF x = e THEN pane ELSE sealed[x]]

\* The pane ending at e closes; the open panes before it, if any, are
\* skipped and dropped.  A pane that did not fail may fail to be built.
Close(e) ==
    /\ e > through
    /\ through' = e
    /\ ForgetUnseen(e - KeepMs)
    /\ \/ ~PaneAt(e).failed /\ Seal(e, [failed |-> FALSE, rows |-> RowsOfPane(PaneAt(e))])
       \/ Seal(e, [failed |-> TRUE, rows |-> {}])
    /\ panes' = [x \in {y \in DOMAIN panes : y > e} |-> panes[x]]
    /\ UNCHANGED outcome

Init ==
    /\ series = [id \in {} |-> 0]
    /\ cells = [id \in {} |-> 0]
    /\ panes = [e \in {} |-> 0]
    /\ through \in Ends
    /\ sealed = [e \in {} |-> {}]
    /\ outcome = "taken"

Next == \/ \E s \in Sample : Update(s)
        \/ \E e \in Ends : Close(e)

Spec == Init /\ [][Next]_vars

----------------------------------------------------------------------------
(* Properties.                                                             *)

Entry == [selected : BOOLEAN, newest : Int, pane : [end : Int, number : Nat]]
Group == [key : Series, newest : Int,
          state : SUBSET {s \in Sample : s.series \in Selected /\ ~s.stale}]

\* The type invariant.  A state holds only samples of selected series, and
\* no stale marker.
TypeOK ==
    /\ DOMAIN series \subseteq Series
    /\ \A id \in DOMAIN series : series[id] \in Entry
    /\ DOMAIN cells \subseteq Series
    /\ \A id \in DOMAIN cells : cells[id] \in Int
    /\ DOMAIN panes \subseteq Int
    /\ \A e \in DOMAIN panes :
          /\ panes[e].failed \in BOOLEAN
          /\ panes[e].groups \in Seq(Group)
          /\ DOMAIN panes[e].numbers \subseteq Series
    /\ through \in Int
    /\ outcome \in {"taken", "duplicate"}

\* A cached group number is used without asking the pane again: whenever the
\* pane it was cached for is open, it is the number of the series' own
\* group there.
CachedNumberIsItsGroup ==
    \A id \in DOMAIN series :
        LET cached == series[id].pane
        IN  /\ cached.number # 0
            /\ cached.end \in DOMAIN panes
            /\ ~panes[cached.end].failed
            => /\ cached.number \in DOMAIN panes[cached.end].groups
               /\ panes[cached.end].groups[cached.number].key = id

HasStateIn(id, e) == \E n \in DOMAIN panes[e].groups : panes[e].groups[n].key = id

\* The memory of a build follows the active series: one that is remembered
\* was seen within KeepMs of the newest closed pane, one that has a state in
\* an open pane is remembered, and cells are cached for no other.
StateFollowsActiveSeries ==
    /\ \A id \in DOMAIN series : series[id].newest > through - KeepMs
    /\ \A e \in DOMAIN panes, id \in Series : HasStateIn(id, e) => id \in DOMAIN series
    /\ DOMAIN cells \subseteq DOMAIN series

OpenEnds == {e \in DOMAIN panes : ~panes[e].failed}
StatesIn(e) == {panes[e].groups[n].state : n \in DOMAIN panes[e].groups}
TakenSamples == UNION {UNION StatesIn(e) : e \in OpenEnds}
FailedEnds == DOMAIN panes \ OpenEnds

Panes == INSTANCE SamplePanes WITH taken <- TakenSamples, broken <- FailedEnds

\* The tables implement the panes: no sample is taken twice, lost, or taken
\* into another series' state, and what closes has one row per series.
ImplementsSamplePanes == Panes!Spec

(* What makes them inductive.                                              *)

\* The numbers of a pane are those of its groups, one for each series.
NumbersMatch ==
    \A e \in DOMAIN panes :
        LET pane == panes[e]
        IN  /\ pane.failed => pane.groups = <<>>
            /\ \A n \in DOMAIN pane.groups :
                  /\ pane.groups[n].key \in DOMAIN pane.numbers
                  /\ pane.numbers[pane.groups[n].key] = n
            /\ \A id \in DOMAIN pane.numbers :
                  /\ pane.numbers[id] \in DOMAIN pane.groups
                  /\ pane.groups[pane.numbers[id]].key = id

\* A state holds samples of its series and pane, the newest among them.
StatesMatch ==
    \A e \in DOMAIN panes : \A n \in DOMAIN panes[e].groups :
        LET group == panes[e].groups[n]
        IN  /\ \A s \in group.state :
                  s.series = group.key /\ EndOf(s) = e /\ s.t <= group.newest
            /\ \E s \in group.state : s.t = group.newest

\* Open panes are ahead, and a pane that a series cached stays open until
\* it closes.
PanesAhead ==
    /\ \A e \in DOMAIN panes : e > through
    /\ \A id \in DOMAIN series :
          /\ series[id].selected = (id \in Selected)
          /\ series[id].pane.number # 0 /\ series[id].pane.end > through
                => series[id].pane.end \in DOMAIN panes

\* A series is as new as its groups and its cells.
NewestSeen ==
    /\ \A e \in DOMAIN panes : \A n \in DOMAIN panes[e].groups :
          LET group == panes[e].groups[n]
          IN  group.key \in DOMAIN series => group.newest <= series[group.key].newest
    /\ \A id \in DOMAIN cells :
          id \in DOMAIN series => cells[id] <= series[id].newest

\* The inductive invariant.
PerSampleInvariant ==
    /\ TypeOK
    /\ NumbersMatch
    /\ StatesMatch
    /\ PanesAhead
    /\ CachedNumberIsItsGroup
    /\ NewestSeen
    /\ StateFollowsActiveSeries

=============================================================================
