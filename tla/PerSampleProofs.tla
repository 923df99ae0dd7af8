-------------------------- MODULE PerSampleProofs --------------------------
(***************************************************************************)
(* The tables of a per-sample build implement SamplePanes, for every set   *)
(* of series, pane width and retention.                                    *)
(***************************************************************************)
EXTENDS PerSample, PaneGridProofs

\* What NumbersMatch, StatesMatch and TypeOK say of one pane.
GoodPane(pane, e) ==
    /\ pane.failed \in BOOLEAN
    /\ pane.groups \in Seq(Group)
    /\ DOMAIN pane.numbers \subseteq Series
    /\ pane.failed => pane.groups = <<>>
    /\ \A n \in DOMAIN pane.groups :
          /\ pane.groups[n].key \in DOMAIN pane.numbers
          /\ pane.numbers[pane.groups[n].key] = n
    /\ \A id \in DOMAIN pane.numbers :
          /\ pane.numbers[id] \in DOMAIN pane.groups
          /\ pane.groups[pane.numbers[id]].key = id
    /\ \A n \in DOMAIN pane.groups :
          /\ \A s \in pane.groups[n].state :
                s.series = pane.groups[n].key /\ EndOf(s) = e
                /\ s.t <= pane.groups[n].newest
          /\ \E s \in pane.groups[n].state : s.t = pane.groups[n].newest

\* The samples a pane holds.
HoldsIn(pane) == UNION {pane.groups[n].state : n \in DOMAIN pane.groups}

GoodPanes == \A e \in DOMAIN panes : GoodPane(panes[e], e)

\* A pane with the group of a new series added.
WithNew(pane, s) ==
    [failed |-> FALSE,
     groups |-> Append(pane.groups, [key |-> s.series, newest |-> s.t, state |-> {s}]),
     numbers |-> [id \in DOMAIN pane.numbers \cup {s.series} |->
                     IF id = s.series THEN Len(pane.groups) + 1 ELSE pane.numbers[id]]]

\* A pane whose group n takes one more sample.
WithNext(pane, n, s) ==
    [failed |-> FALSE,
     groups |-> [pane.groups EXCEPT ![n] = [key |-> @.key, newest |-> s.t,
                                            state |-> @.state \cup {s}]],
     numbers |-> pane.numbers]

\* The three invariants about panes are one about each pane.
LEMMA PanesAreGood ==
    ASSUME TypeOK
    PROVE  NumbersMatch /\ StatesMatch <=> GoodPanes
  BY DEF TypeOK, NumbersMatch, StatesMatch, GoodPanes, GoodPane

\* A pane without groups is good, failed or not.
LEMMA NoGroupsGood ==
    ASSUME NEW e
    PROVE  GoodPane(EmptyPane, e) /\ GoodPane(FailedPane, e)
<1>1. <<>> \in Seq(Group) /\ DOMAIN <<>> = {}
  OBVIOUS
<1> QED
  BY <1>1 DEF GoodPane, EmptyPane, FailedPane

\* Adding the first sample of a series keeps the pane good.
LEMMA WithNewGood ==
    ASSUME NEW s \in Sample, s.series \in Selected, ~s.stale,
           NEW pane, GoodPane(pane, EndOf(s)), ~pane.failed,
           s.series \notin DOMAIN pane.numbers
    PROVE  /\ GoodPane(WithNew(pane, s), EndOf(s))
           /\ Len(WithNew(pane, s).groups) = Len(pane.groups) + 1
           /\ WithNew(pane, s).groups[Len(pane.groups) + 1]
                = [key |-> s.series, newest |-> s.t, state |-> {s}]
           /\ \A n \in DOMAIN pane.groups : WithNew(pane, s).groups[n] = pane.groups[n]
<1> DEFINE new == WithNew(pane, s)
           group == [key |-> s.series, newest |-> s.t, state |-> {s}]
<1>1. s.series \in Series /\ s.t \in Int
  BY PerSampleAssumption DEF Sample
<1>2. group \in Group
  BY <1>1 DEF Group
<1>3. pane.groups \in Seq(Group)
  BY DEF GoodPane
<1> DEFINE groups == pane.groups
<1> HIDE DEF groups, group
<1>4. groups \in Seq(Group)
  BY <1>3 DEF groups
<1>5. /\ Append(groups, group) \in Seq(Group)
      /\ Len(groups) \in Nat
      /\ Len(Append(groups, group)) = Len(groups) + 1
      /\ DOMAIN groups = 1..Len(groups)
      /\ DOMAIN Append(groups, group) = 1..Len(groups) + 1
      /\ Append(groups, group)[Len(groups) + 1] = group
      /\ \A n \in 1..Len(groups) : Append(groups, group)[n] = groups[n]
  BY <1>2, <1>4
<1>6. /\ new.groups = Append(groups, group)
      /\ new.failed = FALSE
      /\ new.numbers = [id \in DOMAIN pane.numbers \cup {s.series} |->
                           IF id = s.series THEN Len(groups) + 1 ELSE pane.numbers[id]]
  BY DEF WithNew, groups, group
<1>7. /\ group.key = s.series /\ group.newest = s.t /\ group.state = {s}
  BY DEF group
<1> HIDE DEF new
<1>8. /\ \A n \in DOMAIN new.groups :
            /\ new.groups[n].key \in DOMAIN new.numbers
            /\ new.numbers[new.groups[n].key] = n
      /\ \A id \in DOMAIN new.numbers :
            /\ new.numbers[id] \in DOMAIN new.groups
            /\ new.groups[new.numbers[id]].key = id
  <2>1. /\ \A n \in 1..Len(groups) :
              /\ groups[n].key \in DOMAIN pane.numbers
              /\ pane.numbers[groups[n].key] = n
        /\ \A id \in DOMAIN pane.numbers :
              /\ pane.numbers[id] \in 1..Len(groups)
              /\ groups[pane.numbers[id]].key = id
    BY <1>5 DEF GoodPane, groups
  <2>2. ASSUME NEW n \in 1..Len(groups) + 1
        PROVE  /\ new.groups[n].key \in DOMAIN new.numbers
               /\ new.numbers[new.groups[n].key] = n
    <3>1. CASE n = Len(groups) + 1
      BY <3>1, <1>5, <1>6, <1>7
    <3>2. CASE n \in 1..Len(groups)
      BY <3>2, <2>1, <1>5, <1>6
    <3> QED
      BY <3>1, <3>2, <1>5
  <2>3. ASSUME NEW id \in DOMAIN new.numbers
        PROVE  /\ new.numbers[id] \in 1..Len(groups) + 1
               /\ new.groups[new.numbers[id]].key = id
    <3>1. CASE id = s.series
      BY <3>1, <1>5, <1>6, <1>7
    <3>2. CASE id # s.series
      BY <3>2, <2>1, <1>5, <1>6
    <3> QED
      BY <3>1, <3>2
  <2> QED
    BY <2>2, <2>3, <1>5, <1>6
<1>9. \A n \in DOMAIN new.groups :
         /\ \A o \in new.groups[n].state :
               o.series = new.groups[n].key /\ EndOf(o) = EndOf(s)
               /\ o.t <= new.groups[n].newest
         /\ \E o \in new.groups[n].state : o.t = new.groups[n].newest
  <2> SUFFICES ASSUME NEW n \in 1..Len(groups) + 1
               PROVE  /\ \A o \in new.groups[n].state :
                            o.series = new.groups[n].key /\ EndOf(o) = EndOf(s)
                            /\ o.t <= new.groups[n].newest
                      /\ \E o \in new.groups[n].state : o.t = new.groups[n].newest
    BY <1>5, <1>6
  <2>1. CASE n = Len(groups) + 1
    BY <2>1, <1>1, <1>5, <1>6, <1>7
  <2>2. CASE n \in 1..Len(groups)
    BY <2>2, <1>5, <1>6 DEF GoodPane, groups
  <2> QED
    BY <2>1, <2>2, <1>5
<1>10. DOMAIN new.numbers \subseteq Series
  BY <1>1, <1>6 DEF GoodPane
<1>11. new.groups \in Seq(Group) /\ new.failed \in BOOLEAN /\ ~new.failed
  BY <1>5, <1>6
<1>12. GoodPane(new, EndOf(s))
  BY <1>8, <1>9, <1>10, <1>11 DEF GoodPane
<1>13. /\ Len(new.groups) = Len(groups) + 1
       /\ new.groups[Len(groups) + 1] = group
       /\ \A n \in DOMAIN groups : new.groups[n] = groups[n]
  BY <1>5, <1>6
<1> QED
  BY <1>12, <1>13 DEF new, groups, group

\* So does a later sample of a series that has a group.
LEMMA WithNextGood ==
    ASSUME NEW s \in Sample, s.series \in Selected, ~s.stale,
           NEW pane, GoodPane(pane, EndOf(s)),
           NEW n \in DOMAIN pane.groups,
           pane.groups[n].key = s.series,
           s.t > pane.groups[n].newest
    PROVE  /\ GoodPane(WithNext(pane, n, s), EndOf(s))
           /\ DOMAIN WithNext(pane, n, s).groups = DOMAIN pane.groups
           /\ WithNext(pane, n, s).groups[n]
                = [key |-> s.series, newest |-> s.t, state |-> pane.groups[n].state \cup {s}]
           /\ \A m \in DOMAIN pane.groups :
                 m # n => WithNext(pane, n, s).groups[m] = pane.groups[m]
<1> DEFINE new == WithNext(pane, n, s)
           groups == pane.groups
           group == [key |-> s.series, newest |-> s.t, state |-> groups[n].state \cup {s}]
<1>1. s.series \in Series /\ s.t \in Int
  BY PerSampleAssumption DEF Sample
<1>2. groups \in Seq(Group) /\ DOMAIN groups = 1..Len(groups)
  BY DEF GoodPane
<1>3. groups[n] \in Group
  BY <1>2
<1>4. group \in Group /\ groups[n].newest \in Int
  BY <1>1, <1>3 DEF Group
<1>5. /\ new.groups = [groups EXCEPT ![n] = group]
      /\ new.failed = FALSE
      /\ new.numbers = pane.numbers
  BY DEF WithNext
<1>6. /\ group.key = s.series /\ group.newest = s.t
      /\ group.state = groups[n].state \cup {s}
  OBVIOUS
<1>7. groups[n].key = s.series /\ s.t > groups[n].newest /\ n \in DOMAIN groups
  OBVIOUS
<1>8. /\ pane.failed \in BOOLEAN
      /\ DOMAIN pane.numbers \subseteq Series
      /\ \A m \in DOMAIN groups :
            /\ groups[m].key \in DOMAIN pane.numbers
            /\ pane.numbers[groups[m].key] = m
      /\ \A id \in DOMAIN pane.numbers :
            /\ pane.numbers[id] \in DOMAIN groups
            /\ groups[pane.numbers[id]].key = id
      /\ \A m \in DOMAIN groups :
            /\ \A o \in groups[m].state :
                  o.series = groups[m].key /\ EndOf(o) = EndOf(s)
                  /\ o.t <= groups[m].newest
            /\ \E o \in groups[m].state : o.t = groups[m].newest
  BY DEF GoodPane
<1> HIDE DEF new, group, groups
<1>9. /\ new.groups \in Seq(Group)
      /\ DOMAIN new.groups = DOMAIN groups
      /\ new.groups[n] = group
      /\ \A m \in DOMAIN groups : m # n => new.groups[m] = groups[m]
  BY <1>2, <1>4, <1>5, <1>7
<1>10. \A m \in DOMAIN groups : new.groups[m].key = groups[m].key
  BY <1>6, <1>7, <1>9
<1>11. ASSUME NEW m \in DOMAIN new.groups
       PROVE  /\ \A o \in new.groups[m].state :
                    o.series = new.groups[m].key /\ EndOf(o) = EndOf(s)
                    /\ o.t <= new.groups[m].newest
              /\ \E o \in new.groups[m].state : o.t = new.groups[m].newest
  <2>1. CASE m = n
    <3>1. \A o \in groups[n].state : o \in Sample
      BY <1>3 DEF Group
    <3>2. \A o \in groups[n].state : o.t \in Int
      BY <3>1, PerSampleAssumption DEF Sample
    <3> QED
      BY <2>1, <3>2, <1>1, <1>4, <1>6, <1>7, <1>8, <1>9
  <2>2. CASE m # n
    BY <2>2, <1>8, <1>9
  <2> QED
    BY <2>1, <2>2
<1>12. /\ new.failed \in BOOLEAN /\ ~new.failed
       /\ DOMAIN new.numbers \subseteq Series
       /\ new.numbers = pane.numbers
  BY <1>5, <1>8
<1>13. /\ \A m \in DOMAIN new.groups :
             /\ new.groups[m].key \in DOMAIN new.numbers
             /\ new.numbers[new.groups[m].key] = m
       /\ \A id \in DOMAIN new.numbers :
             /\ new.numbers[id] \in DOMAIN new.groups
             /\ new.groups[new.numbers[id]].key = id
  <2>1. DOMAIN new.groups = DOMAIN groups /\ new.numbers = pane.numbers
    BY <1>9, <1>12
  <2>2. ASSUME NEW m \in DOMAIN groups
        PROVE  /\ new.groups[m].key \in DOMAIN pane.numbers
               /\ pane.numbers[new.groups[m].key] = m
    <3>1. new.groups[m].key = groups[m].key
      BY <1>10
    <3> QED
      BY <3>1, <1>8
  <2>3. ASSUME NEW id \in DOMAIN pane.numbers
        PROVE  /\ pane.numbers[id] \in DOMAIN groups
               /\ new.groups[pane.numbers[id]].key = id
    <3>1. pane.numbers[id] \in DOMAIN groups /\ groups[pane.numbers[id]].key = id
      BY <1>8
    <3> QED
      BY <3>1, <1>10
  <2> QED
    BY <2>1, <2>2, <2>3
<1>14. GoodPane(new, EndOf(s))
  BY <1>9, <1>11, <1>12, <1>13 DEF GoodPane
<1>15. /\ DOMAIN new.groups = DOMAIN groups
       /\ new.groups[n] = [key |-> s.series, newest |-> s.t, state |-> groups[n].state \cup {s}]
       /\ \A m \in DOMAIN groups : m # n => new.groups[m] = groups[m]
  BY <1>9 DEF group
<1> QED
  BY <1>14, <1>15 DEF new, groups

----------------------------------------------------------------------------
(* The series of a sample.                                                 *)

\* The types of a sample, and its place in its pane.
LEMMA SampleFacts ==
    ASSUME NEW s \in Sample
    PROVE  /\ s.series \in Series /\ s.t \in Int
           /\ EndOf(s) \in Int
           /\ s.t <= EndOf(s)
           /\ EndOf(s) < s.t + PaneMs
           /\ KeepMs \in Nat
           /\ PaneMs <= KeepMs
<1>1. s.series \in Series /\ s.t \in Int /\ PaneMs \in Nat \ {0} /\ RetentionMs \in Nat
  BY PerSampleAssumption DEF Sample
<1> QED
  BY <1>1, PaneEndProperties DEF EndOf, KeepMs

\* The entry of the series of s: what it keeps of the one remembered.
LEMMA SeenFacts ==
    ASSUME TypeOK, PanesAhead, NEW s \in Sample
    PROVE  /\ Seen(s) \in Entry
           /\ Seen(s).selected = (s.series \in Selected)
           /\ s.t <= Seen(s).newest
           /\ s.series \in DOMAIN series =>
                 /\ Seen(s).pane = series[s.series].pane
                 /\ series[s.series].newest <= Seen(s).newest
           /\ s.series \notin DOMAIN series =>
                 /\ Seen(s).pane.number = 0
                 /\ Seen(s).newest = s.t
<1>1. s.series \in Series /\ s.t \in Int
  BY SampleFacts
<1>2. CASE s.series \in DOMAIN series
  <2> DEFINE old == series[s.series]
  <2>1. old \in Entry /\ old.selected = (s.series \in Selected)
    BY <1>2 DEF TypeOK, PanesAhead
  <2>2. Seen(s) = [old EXCEPT !.newest = Later(old.newest, s.t)]
    BY <1>2 DEF Seen
  <2>3. old.newest \in Int
    BY <2>1 DEF Entry
  <2>4. /\ Later(old.newest, s.t) \in Int
        /\ s.t <= Later(old.newest, s.t)
        /\ old.newest <= Later(old.newest, s.t)
    BY <1>1, <2>3 DEF Later
  <2> HIDE DEF old
  <2>5. /\ Seen(s) \in Entry
        /\ Seen(s).newest = Later(old.newest, s.t)
        /\ Seen(s).pane = old.pane
        /\ Seen(s).selected = old.selected
    BY <2>1, <2>2, <2>4 DEF Entry
  <2> QED
    BY <1>2, <2>1, <2>4, <2>5 DEF old
<1>3. CASE s.series \notin DOMAIN series
  <2>1. Seen(s) = [selected |-> s.series \in Selected, newest |-> s.t, pane |-> NoPane]
    BY <1>3 DEF Seen
  <2>2. (s.series \in Selected) \in BOOLEAN /\ NoPane \in [end : Int, number : Nat]
    BY DEF NoPane
  <2>3. Seen(s) \in Entry
    BY <1>1, <2>1, <2>2 DEF Entry
  <2>4. /\ Seen(s).selected = (s.series \in Selected)
        /\ Seen(s).newest = s.t
        /\ Seen(s).pane.number = 0
    BY <2>1 DEF NoPane
  <2> QED
    BY <1>1, <1>3, <2>3, <2>4
<1> QED
  BY <1>2, <1>3

\* Remembering a series: its entry, the other series', and the cells.
LEMMA RememberFacts ==
    ASSUME PerSampleInvariant, NEW s \in Sample, EndOf(s) > through,
           NEW p \in [end : Int, number : Nat], Remember(s, p)
    PROVE  /\ DOMAIN series' = DOMAIN series \cup {s.series}
           /\ series'[s.series].pane = p
           /\ s.t <= series'[s.series].newest
           /\ \A id \in DOMAIN series :
                 /\ id # s.series => series'[id] = series[id]
                 /\ series[id].newest <= series'[id].newest
           /\ \A id \in DOMAIN series' :
                 /\ series'[id] \in Entry
                 /\ series'[id].selected = (id \in Selected)
                 /\ series'[id].newest > through - KeepMs
           /\ DOMAIN cells' \subseteq DOMAIN series'
           /\ \A id \in DOMAIN cells' :
                 cells'[id] \in Int /\ cells'[id] <= series'[id].newest
<1>1. /\ s.series \in Series /\ s.t \in Int /\ EndOf(s) \in Int
      /\ EndOf(s) < s.t + PaneMs
      /\ KeepMs \in Nat /\ PaneMs <= KeepMs /\ PaneMs \in Nat
  BY SampleFacts, PerSampleAssumption
<1>2. /\ TypeOK /\ PanesAhead /\ NewestSeen /\ StateFollowsActiveSeries
      /\ through \in Int
  BY DEF PerSampleInvariant, TypeOK
<1> DEFINE seen == Seen(s)
           entry == [seen EXCEPT !.pane = p]
<1>3. /\ seen \in Entry
      /\ seen.selected = (s.series \in Selected)
      /\ s.t <= seen.newest
      /\ s.series \in DOMAIN series => series[s.series].newest <= seen.newest
  BY <1>2, SeenFacts
<1>4. series' = [id \in DOMAIN series \cup {s.series} |->
                    IF id = s.series THEN entry ELSE series[id]]
  BY DEF Remember
<1> HIDE DEF seen
<1>5. /\ entry \in Entry
      /\ entry.pane = p
      /\ entry.newest = seen.newest
      /\ entry.selected = seen.selected
      /\ seen.newest \in Int
  BY <1>3 DEF Entry
<1> HIDE DEF entry
<1>6. seen.newest > through - KeepMs
  <2> HIDE DEF KeepMs
  <2> QED
    BY <1>1, <1>2, <1>3, <1>5
<1>7. /\ DOMAIN series' = DOMAIN series \cup {s.series}
      /\ series'[s.series] = entry
      /\ \A id \in DOMAIN series : id # s.series => series'[id] = series[id]
  BY <1>4
<1>8. \A id \in DOMAIN series :
         /\ series[id] \in Entry
         /\ series[id].newest \in Int
         /\ series[id].selected = (id \in Selected)
         /\ series[id].newest > through - KeepMs
  BY <1>2 DEF TypeOK, PanesAhead, StateFollowsActiveSeries, Entry
<1>9. \A id \in DOMAIN series : series[id].newest <= series'[id].newest
  BY <1>3, <1>5, <1>7, <1>8
<1>10. \A id \in DOMAIN series' :
          /\ series'[id] \in Entry
          /\ series'[id].selected = (id \in Selected)
          /\ series'[id].newest > through - KeepMs
  <2> SUFFICES ASSUME NEW id \in DOMAIN series'
               PROVE  /\ series'[id] \in Entry
                      /\ series'[id].selected = (id \in Selected)
                      /\ series'[id].newest > through - KeepMs
    OBVIOUS
  <2>1. CASE id = s.series
    BY <2>1, <1>3, <1>5, <1>6, <1>7
  <2>2. CASE id # s.series
    BY <2>2, <1>7, <1>8
  <2> QED
    BY <2>1, <2>2
<1>11. /\ DOMAIN cells \subseteq DOMAIN series
       /\ \A id \in DOMAIN cells : cells[id] \in Int /\ cells[id] <= series[id].newest
  BY <1>2 DEF TypeOK, StateFollowsActiveSeries, NewestSeen
<1>12. /\ DOMAIN cells' \subseteq DOMAIN series'
       /\ \A id \in DOMAIN cells' :
             cells'[id] \in Int /\ cells'[id] <= series'[id].newest
  <2>1. CASE s.series \in DOMAIN series
    <3>1. cells' = cells
      BY <2>1 DEF Remember
    <3>2. \A id \in DOMAIN series' : series'[id].newest \in Int
      BY <1>10 DEF Entry
    <3>3. ASSUME NEW id \in DOMAIN cells
          PROVE  cells[id] <= series'[id].newest
      BY <1>7, <1>8, <1>9, <1>11, <3>2
    <3> QED
      BY <3>1, <3>3, <1>7, <1>11
  <2>2. CASE s.series \notin DOMAIN series
    <3>1. s.series \notin DOMAIN cells
      BY <2>2, <1>11
    <3>2. cells' = [id \in DOMAIN cells \cup {s.series} |->
                       IF id # s.series THEN cells[id] ELSE s.t]
      BY <2>2, <3>1 DEF Remember
    <3>3. ASSUME NEW id \in DOMAIN cells'
          PROVE  cells'[id] \in Int /\ cells'[id] <= series'[id].newest
      <4>1. CASE id = s.series
        BY <4>1, <3>2, <1>1, <1>3, <1>5, <1>7
      <4>2. CASE id # s.series
        BY <4>2, <3>2, <1>7, <1>11
      <4> QED
        BY <4>1, <4>2
    <3>4. DOMAIN cells' \subseteq DOMAIN series'
      BY <3>2, <1>7, <1>11
    <3> QED
      BY <3>3, <3>4
  <2> QED
    BY <2>1, <2>2
<1> QED
  BY <1>3, <1>5, <1>7, <1>9, <1>10, <1>12

----------------------------------------------------------------------------
(* The pane of a sample.                                                   *)

\* The pane a sample is of is good, open yet or not.
LEMMA PaneAtGood ==
    ASSUME PerSampleInvariant, NEW e
    PROVE  GoodPane(PaneAt(e), e)
<1>1. GoodPanes
  BY PanesAreGood DEF PerSampleInvariant
<1> QED
  BY <1>1, NoGroupsGood DEF PaneAt, GoodPanes

\* A series that is not new to an open pane has its group there.
LEMMA KnownGroup ==
    ASSUME PerSampleInvariant, NEW s \in Sample, EndOf(s) > through,
           ~PaneAt(EndOf(s)).failed, ~IsNew(s)
    PROVE  /\ EndOf(s) \in DOMAIN panes
           /\ PaneAt(EndOf(s)) = panes[EndOf(s)]
           /\ NumberOf(s) \in DOMAIN PaneAt(EndOf(s)).groups
           /\ NumberOf(s) \in Nat
           /\ NumberOf(s) # 0
           /\ GroupOf(s) = PaneAt(EndOf(s)).groups[NumberOf(s)]
           /\ GroupOf(s) \in Group
           /\ GroupOf(s).key = s.series
<1> DEFINE e == EndOf(s)
<1>1. /\ TypeOK /\ PanesAhead /\ NumbersMatch /\ CachedNumberIsItsGroup
  BY DEF PerSampleInvariant
<1>2. /\ e \in DOMAIN panes
      /\ NumberOf(s) \in DOMAIN panes[e].groups
      /\ panes[e].groups[NumberOf(s)].key = s.series
  <2>1. CASE HasCached(s)
    <3>1. Seen(s).pane.number # 0 /\ Seen(s).pane.end = e
      BY <2>1 DEF HasCached
    <3>2. s.series \in DOMAIN series /\ Seen(s).pane = series[s.series].pane
      BY <1>1, <3>1, SeenFacts
    <3>3. e \in DOMAIN panes
      BY <1>1, <3>1, <3>2 DEF PanesAhead
    <3>4. ~panes[e].failed /\ NumberOf(s) = series[s.series].pane.number
      BY <2>1, <3>2, <3>3 DEF PaneAt, NumberOf
    <3> QED
      BY <1>1, <3>1, <3>2, <3>3, <3>4 DEF CachedNumberIsItsGroup
  <2>2. CASE ~HasCached(s)
    <3>1. s.series \in DOMAIN PaneAt(e).numbers
      BY <2>2 DEF IsNew, InNumbers
    <3>2. e \in DOMAIN panes
      BY <3>1 DEF PaneAt, EmptyPane
    <3>3. PaneAt(e) = panes[e]
      BY <3>2 DEF PaneAt
    <3>4. NumberOf(s) = panes[e].numbers[s.series]
      BY <2>2, <3>3 DEF NumberOf
    <3> QED
      BY <1>1, <3>1, <3>2, <3>3, <3>4 DEF NumbersMatch
  <2> QED
    BY <2>1, <2>2
<1>3. PaneAt(e) = panes[e]
  BY <1>2 DEF PaneAt
<1>4. panes[e].groups \in Seq(Group)
  BY <1>1, <1>2 DEF TypeOK
<1>5. /\ NumberOf(s) \in Nat /\ NumberOf(s) # 0
      /\ panes[e].groups[NumberOf(s)] \in Group
  <2> DEFINE groups == panes[e].groups
  <2>1. groups \in Seq(Group) /\ NumberOf(s) \in DOMAIN groups
    BY <1>2, <1>4
  <2> HIDE DEF groups
  <2>2. /\ NumberOf(s) \in Nat /\ NumberOf(s) # 0
        /\ groups[NumberOf(s)] \in Group
    BY <2>1
  <2> QED
    BY <2>2 DEF groups
<1> QED
  BY <1>2, <1>3, <1>5 DEF GroupOf

\* A number that a series cached stays the number of its group while its
\* pane only grows.
Grows(new, old) ==
    \/ new.failed
    \/ /\ ~old.failed
       /\ \A n \in DOMAIN old.groups :
             /\ n \in DOMAIN new.groups
             /\ new.groups[n].key = old.groups[n].key

\* What an update does to the panes: the pane of s grows, if it is open.
UpdatesPane(s) ==
    /\ DOMAIN panes \subseteq DOMAIN panes'
    /\ DOMAIN panes' \subseteq DOMAIN panes \cup {EndOf(s)}
    /\ \A e \in DOMAIN panes : e # EndOf(s) => panes'[e] = panes[e]
    /\ EndOf(s) \in DOMAIN panes' =>
          /\ GoodPane(panes'[EndOf(s)], EndOf(s))
          /\ Grows(panes'[EndOf(s)], PaneAt(EndOf(s)))
          /\ \A n \in DOMAIN panes'[EndOf(s)].groups :
                LET group == panes'[EndOf(s)].groups[n]
                IN  /\ group.key \in DOMAIN series'
                    /\ group.newest <= series'[group.key].newest

\* The pane p that the series of s caches: the one it had, or its group's
\* in the pane of s.
CachesPane(s, p) ==
    \/ p = Seen(s).pane
    \/ /\ p.end = EndOf(s)
       /\ EndOf(s) \in DOMAIN panes'
       /\ ~panes'[EndOf(s)].failed =>
             /\ p.number \in DOMAIN panes'[EndOf(s)].groups
             /\ panes'[EndOf(s)].groups[p.number].key = s.series

\* The series of every group is remembered, and as new as the group.
LEMMA GroupsRemembered ==
    ASSUME PerSampleInvariant, NEW s \in Sample, EndOf(s) > through,
           NEW p \in [end : Int, number : Nat], Remember(s, p),
           NEW e \in DOMAIN panes, NEW n \in DOMAIN panes[e].groups
    PROVE  /\ panes[e].groups[n].key \in DOMAIN series'
           /\ panes[e].groups[n].newest <= series'[panes[e].groups[n].key].newest
<1> DEFINE groups == panes[e].groups
           group == groups[n]
<1>1. TypeOK /\ NewestSeen /\ StateFollowsActiveSeries
  BY DEF PerSampleInvariant
<1>2. group \in Group
  <2>1. groups \in Seq(Group) /\ n \in DOMAIN groups
    BY <1>1 DEF TypeOK
  <2> HIDE DEF groups
  <2> QED
    BY <2>1
<1>3. group.key \in Series /\ group.newest \in Int
  BY <1>2 DEF Group
<1>4. group.key \in DOMAIN series
  BY <1>1, <1>3 DEF StateFollowsActiveSeries, HasStateIn
<1>5. group.newest <= series[group.key].newest
  BY <1>1, <1>4 DEF NewestSeen
<1>6. /\ group.key \in DOMAIN series'
      /\ series[group.key].newest \in Int
      /\ series'[group.key].newest \in Int
      /\ series[group.key].newest <= series'[group.key].newest
  BY <1>1, <1>4, RememberFacts DEF TypeOK, Entry
<1> HIDE DEF group
<1>7. group.newest <= series'[group.key].newest
  BY <1>3, <1>5, <1>6
<1> QED
  BY <1>6, <1>7 DEF group

LEMMA UpdateKeeps ==
    ASSUME PerSampleInvariant, NEW s \in Sample, EndOf(s) > through,
           NEW p \in [end : Int, number : Nat], Remember(s, p),
           UpdatesPane(s), CachesPane(s, p),
           through' = through, outcome' \in {"taken", "duplicate"}
    PROVE  PerSampleInvariant'
<1> DEFINE end == EndOf(s)
<1>1. /\ TypeOK /\ PanesAhead /\ CachedNumberIsItsGroup /\ NewestSeen
      /\ StateFollowsActiveSeries /\ GoodPanes
  BY PanesAreGood DEF PerSampleInvariant
<1>2. /\ DOMAIN series' = DOMAIN series \cup {s.series}
      /\ series'[s.series].pane = p
      /\ \A id \in DOMAIN series :
            /\ id # s.series => series'[id] = series[id]
            /\ series[id].newest <= series'[id].newest
      /\ \A id \in DOMAIN series' :
            /\ series'[id] \in Entry
            /\ series'[id].selected = (id \in Selected)
            /\ series'[id].newest > through - KeepMs
      /\ DOMAIN cells' \subseteq DOMAIN series'
      /\ \A id \in DOMAIN cells' :
            cells'[id] \in Int /\ cells'[id] <= series'[id].newest
  BY RememberFacts
<1>3. s.series \in Series /\ end \in Int
  BY SampleFacts
<1>4. DOMAIN series' \subseteq Series
  BY <1>1, <1>2, <1>3 DEF TypeOK
<1>5. GoodPanes'
  <2> SUFFICES ASSUME NEW e \in DOMAIN panes' PROVE GoodPane(panes'[e], e)
    BY DEF GoodPanes, GoodPane, EndOf
  <2>1. CASE e = end
    BY <2>1 DEF UpdatesPane
  <2>2. CASE e # end
    BY <2>2, <1>1 DEF UpdatesPane, GoodPanes
  <2> QED
    BY <2>1, <2>2
<1>6. TypeOK'
  <2>1. \A e \in DOMAIN panes' :
           /\ panes'[e].failed \in BOOLEAN
           /\ panes'[e].groups \in Seq(Group)
           /\ DOMAIN panes'[e].numbers \subseteq Series
    BY <1>5 DEF GoodPanes, GoodPane
  <2>2. DOMAIN panes' \subseteq Int
    BY <1>1, <1>3 DEF TypeOK, UpdatesPane
  <2>3. DOMAIN cells' \subseteq Series
    BY <1>2, <1>4
  <2> QED
    BY <2>1, <2>2, <2>3, <1>1, <1>2, <1>4 DEF TypeOK
<1>7. (NumbersMatch /\ StatesMatch)'
  BY <1>5, <1>6, PanesAreGood, PTL
<1>8. PanesAhead'
  <2>1. \A e \in DOMAIN panes' : e > through
    BY <1>1 DEF PanesAhead, UpdatesPane
  <2>2. ASSUME NEW id \in DOMAIN series',
               series'[id].pane.number # 0, series'[id].pane.end > through
        PROVE  series'[id].pane.end \in DOMAIN panes'
    <3>1. CASE id # s.series
      BY <3>1, <2>2, <1>1, <1>2 DEF PanesAhead, UpdatesPane
    <3>2. CASE id = s.series /\ p = Seen(s).pane
      <4>1. s.series \in DOMAIN series /\ p = series[s.series].pane
        BY <3>2, <2>2, <1>1, <1>2, SeenFacts
      <4> QED
        BY <3>2, <4>1, <2>2, <1>1, <1>2 DEF PanesAhead, UpdatesPane
    <3>3. CASE id = s.series /\ p # Seen(s).pane
      BY <3>3, <1>2 DEF CachesPane
    <3> QED
      BY <3>1, <3>2, <3>3
  <2> QED
    BY <2>1, <2>2, <1>2 DEF PanesAhead
<1>9. CachedNumberIsItsGroup'
  <2> SUFFICES ASSUME NEW id \in DOMAIN series',
                      series'[id].pane.number # 0,
                      series'[id].pane.end \in DOMAIN panes',
                      ~panes'[series'[id].pane.end].failed
               PROVE  /\ series'[id].pane.number
                           \in DOMAIN panes'[series'[id].pane.end].groups
                      /\ panes'[series'[id].pane.end].groups[series'[id].pane.number].key
                           = id
    BY DEF CachedNumberIsItsGroup
  <2> DEFINE cached == series'[id].pane
  <2>1. CASE id \in DOMAIN series /\ cached = series[id].pane
    <3>1. cached.end > through
      BY <1>1 DEF UpdatesPane, PanesAhead
    <3>2. cached.end \in DOMAIN panes
      BY <2>1, <3>1, <1>1 DEF PanesAhead
    <3>3. CASE cached.end # end
      BY <2>1, <3>2, <3>3, <1>1 DEF CachedNumberIsItsGroup, UpdatesPane
    <3>4. CASE cached.end = end
      <4>1. /\ ~panes[end].failed
            /\ \A n \in DOMAIN panes[end].groups :
                  /\ n \in DOMAIN panes'[end].groups
                  /\ panes'[end].groups[n].key = panes[end].groups[n].key
        BY <3>2, <3>4 DEF UpdatesPane, Grows, PaneAt
      <4>2. /\ cached.number \in DOMAIN panes[end].groups
            /\ panes[end].groups[cached.number].key = id
        BY <2>1, <3>2, <3>4, <4>1, <1>1 DEF CachedNumberIsItsGroup
      <4> QED
        BY <3>4, <4>1, <4>2
    <3> QED
      BY <3>3, <3>4
  <2>2. CASE id = s.series /\ p # Seen(s).pane
    BY <2>2, <1>2 DEF CachesPane
  <2>3. CASE id = s.series /\ p = Seen(s).pane
    <3>1. s.series \in DOMAIN series /\ p = series[s.series].pane
      BY <2>3, <1>1, <1>2, SeenFacts
    <3> QED
      BY <2>1, <2>3, <3>1, <1>2
  <2>4. CASE id # s.series
    BY <2>1, <2>4, <1>2
  <2> QED
    BY <2>2, <2>3, <2>4
<1>10. ASSUME NEW e \in DOMAIN panes', NEW n \in DOMAIN panes'[e].groups
       PROVE  /\ panes'[e].groups[n].key \in DOMAIN series'
              /\ panes'[e].groups[n].newest
                   <= series'[panes'[e].groups[n].key].newest
  <2>1. CASE e = end
    BY <2>1 DEF UpdatesPane
  <2>2. CASE e # end
    <3>1. e \in DOMAIN panes /\ panes'[e] = panes[e]
      BY <2>2 DEF UpdatesPane
    <3> QED
      BY <3>1, GroupsRemembered
  <2> QED
    BY <2>1, <2>2
<1>11. NewestSeen'
  BY <1>2, <1>10 DEF NewestSeen
<1>12. StateFollowsActiveSeries'
  <2>1. \A e \in DOMAIN panes', id \in Series :
           (HasStateIn(id, e))' => id \in DOMAIN series'
    BY <1>10 DEF HasStateIn
  <2>2. \A id \in DOMAIN series' : series'[id].newest > through' - KeepMs
    BY <1>2
  <2> QED
    BY <1>2, <2>1, <2>2 DEF StateFollowsActiveSeries, KeepMs
<1> QED
  BY <1>6, <1>7, <1>8, <1>9, <1>11, <1>12 DEF PerSampleInvariant

----------------------------------------------------------------------------
(* Every step keeps the invariant.                                         *)

LEMMA InitKeeps == Init => PerSampleInvariant
<1> SUFFICES ASSUME Init PROVE PerSampleInvariant
  OBVIOUS
<1>1. /\ DOMAIN series = {} /\ DOMAIN cells = {} /\ DOMAIN panes = {}
      /\ outcome = "taken"
  BY DEF Init
<1>2. through \in Int
  <2>1. PICK t \in Times : through = PaneEnd(t, PaneMs)
    BY DEF Init, Ends
  <2> QED
    BY <2>1, PaneEndProperties, PerSampleAssumption
<1> QED
  BY <1>1, <1>2 DEF PerSampleInvariant, TypeOK, NumbersMatch, StatesMatch, PanesAhead,
                    CachedNumberIsItsGroup, NewestSeen, StateFollowsActiveSeries

LEMMA SamePane ==
    ASSUME PerSampleInvariant, NEW s \in Sample, EndOf(s) > through,
           NEW p \in [end : Int, number : Nat], Remember(s, p),
           panes' = panes
    PROVE  UpdatesPane(s)
<1>1. EndOf(s) \in DOMAIN panes => PaneAt(EndOf(s)) = panes[EndOf(s)]
  BY DEF PaneAt
<1> QED
  BY <1>1, PaneAtGood, GroupsRemembered DEF UpdatesPane, Grows

LEMMA SetPaneFacts ==
    ASSUME NEW e, NEW pane, SetPane(e, pane)
    PROVE  /\ DOMAIN panes' = DOMAIN panes \cup {e}
           /\ panes'[e] = pane
           /\ \A x \in DOMAIN panes : x # e => panes'[x] = panes[x]
  BY DEF SetPane

LEMMA FailedPaneUpdates ==
    ASSUME NEW s \in Sample, FailPane(EndOf(s))
    PROVE  UpdatesPane(s) /\ EndOf(s) \in DOMAIN panes' /\ panes'[EndOf(s)].failed
<1>1. SetPane(EndOf(s), FailedPane)
  BY DEF FailPane
<1>2. FailedPane.failed /\ FailedPane.groups = <<>> /\ DOMAIN <<>> = {}
  BY DEF FailedPane
<1>3. GoodPane(FailedPane, EndOf(s))
  BY NoGroupsGood
<1>4. /\ DOMAIN panes' = DOMAIN panes \cup {EndOf(s)}
      /\ panes'[EndOf(s)] = FailedPane
      /\ \A x \in DOMAIN panes : x # EndOf(s) => panes'[x] = panes[x]
  BY <1>1, SetPaneFacts
<1>5. Grows(panes'[EndOf(s)], PaneAt(EndOf(s)))
  BY <1>2, <1>4 DEF Grows
<1>6. DOMAIN panes'[EndOf(s)].groups = {}
  BY <1>2, <1>4
<1>7. UpdatesPane(s)
  BY <1>3, <1>4, <1>5, <1>6 DEF UpdatesPane
<1> QED
  BY <1>2, <1>4, <1>7

LEMMA TakeNewKeeps ==
    ASSUME PerSampleInvariant, NEW s \in Sample, EndOf(s) > through, TakeNew(s),
           through' = through, outcome' \in {"taken", "duplicate"}
    PROVE  PerSampleInvariant'
<1> DEFINE e == EndOf(s)
           pane == PaneAt(e)
           number == Len(pane.groups) + 1
           p == [end |-> e, number |-> number]
<1>1. GoodPane(pane, e)
  BY PaneAtGood
<1>2. /\ Accepts(s) /\ IsNew(s) /\ Remember(s, p)
      /\ SetPane(e, WithNew(pane, s))
  BY DEF TakeNew, WithNew
<1>3. ~s.stale /\ s.series \in Selected /\ ~pane.failed
  <2>1. Seen(s).selected = (s.series \in Selected)
    BY SeenFacts DEF PerSampleInvariant
  <2> QED
    BY <1>2, <2>1 DEF Accepts, IsStale
<1>4. s.series \notin DOMAIN pane.numbers
  BY <1>2 DEF IsNew, InNumbers
<1>5. /\ GoodPane(WithNew(pane, s), e)
      /\ Len(WithNew(pane, s).groups) = number
      /\ WithNew(pane, s).groups[number] = [key |-> s.series, newest |-> s.t, state |-> {s}]
      /\ \A n \in DOMAIN pane.groups : WithNew(pane, s).groups[n] = pane.groups[n]
  BY <1>1, <1>3, <1>4, WithNewGood
<1>6. /\ number \in Nat
      /\ DOMAIN pane.groups = 1..Len(pane.groups)
      /\ DOMAIN WithNew(pane, s).groups = 1..number
      /\ ~WithNew(pane, s).failed
  <2>1. pane.groups \in Seq(Group) /\ WithNew(pane, s).groups \in Seq(Group)
    BY <1>1, <1>5 DEF GoodPane
  <2>2. Len(pane.groups) \in Nat /\ DOMAIN pane.groups = 1..Len(pane.groups)
    BY <2>1
  <2>3. DOMAIN WithNew(pane, s).groups = 1..number
    BY <2>1, <1>5
  <2> QED
    BY <2>2, <2>3 DEF WithNew
<1>7. /\ DOMAIN panes' = DOMAIN panes \cup {e}
      /\ panes'[e] = WithNew(pane, s)
      /\ \A x \in DOMAIN panes : x # e => panes'[x] = panes[x]
  BY <1>2, SetPaneFacts
<1>8. p \in [end : Int, number : Nat]
  BY <1>6, SampleFacts
<1>9. s.series \in DOMAIN series' /\ s.t <= series'[s.series].newest
  BY <1>2, <1>8, RememberFacts
<1> HIDE DEF p, number
<1>10. ASSUME NEW n \in DOMAIN panes'[e].groups
       PROVE  /\ panes'[e].groups[n].key \in DOMAIN series'
              /\ panes'[e].groups[n].newest <= series'[panes'[e].groups[n].key].newest
  <2>1. CASE n = number
    BY <2>1, <1>5, <1>7, <1>9
  <2>2. CASE n # number
    <3>1. n \in DOMAIN pane.groups
      BY <2>2, <1>6, <1>7 DEF number
    <3>2. e \in DOMAIN panes /\ pane = panes[e]
      BY <3>1 DEF PaneAt, EmptyPane
    <3> QED
      BY <3>1, <3>2, <1>2, <1>5, <1>7, <1>8, GroupsRemembered
  <2> QED
    BY <2>1, <2>2
<1>11. UpdatesPane(s)
  <2>1. Grows(panes'[e], pane)
    BY <1>3, <1>5, <1>6, <1>7 DEF Grows, number
  <2> QED
    BY <2>1, <1>5, <1>7, <1>10 DEF UpdatesPane
<1>12. CachesPane(s, p)
  <2>1. p.end = e /\ p.number = number /\ number \in 1..number
    BY <1>6 DEF p, number
  <2>2. WithNew(pane, s).groups[number].key = s.series
    BY <1>5
  <2> QED
    BY <2>1, <2>2, <1>6, <1>7 DEF CachesPane
<1> QED
  BY <1>2, <1>8, <1>11, <1>12, UpdateKeeps

LEMMA TakeNextKeeps ==
    ASSUME PerSampleInvariant, NEW s \in Sample, EndOf(s) > through, TakeNext(s),
           through' = through, outcome' \in {"taken", "duplicate"}
    PROVE  PerSampleInvariant'
<1> DEFINE e == EndOf(s)
           pane == PaneAt(e)
           number == NumberOf(s)
           p == [end |-> e, number |-> number]
<1>1. /\ Accepts(s) /\ ~IsNew(s) /\ Remember(s, p)
      /\ s.t > GroupOf(s).newest
      /\ SetPane(e, WithNext(pane, number, s))
  BY DEF TakeNext, WithNext
<1>2. ~s.stale /\ s.series \in Selected /\ ~pane.failed
  <2>1. Seen(s).selected = (s.series \in Selected)
    BY SeenFacts DEF PerSampleInvariant
  <2> QED
    BY <1>1, <2>1 DEF Accepts, IsStale
<1>3. /\ e \in DOMAIN panes /\ pane = panes[e]
      /\ number \in DOMAIN pane.groups /\ number \in Nat
      /\ GroupOf(s) = pane.groups[number]
      /\ pane.groups[number].key = s.series
  BY <1>1, <1>2, KnownGroup
<1>4. /\ GoodPane(WithNext(pane, number, s), e)
      /\ DOMAIN WithNext(pane, number, s).groups = DOMAIN pane.groups
      /\ WithNext(pane, number, s).groups[number]
           = [key |-> s.series, newest |-> s.t,
              state |-> pane.groups[number].state \cup {s}]
      /\ \A m \in DOMAIN pane.groups :
            m # number => WithNext(pane, number, s).groups[m] = pane.groups[m]
  <2>1. GoodPane(pane, e) /\ s.t > pane.groups[number].newest
    BY <1>1, <1>3, PaneAtGood
  <2> HIDE DEF pane, number
  <2> QED
    BY <1>2, <1>3, <2>1, WithNextGood
<1>5. /\ DOMAIN panes' = DOMAIN panes \cup {e}
      /\ panes'[e] = WithNext(pane, number, s)
      /\ \A x \in DOMAIN panes : x # e => panes'[x] = panes[x]
  BY <1>1, SetPaneFacts
<1>6. p \in [end : Int, number : Nat]
  BY <1>3, SampleFacts
<1>7. s.series \in DOMAIN series' /\ s.t <= series'[s.series].newest
  BY <1>1, <1>6, RememberFacts
<1> HIDE DEF p, number
<1>8. ASSUME NEW n \in DOMAIN panes'[e].groups
      PROVE  /\ panes'[e].groups[n].key \in DOMAIN series'
             /\ panes'[e].groups[n].newest <= series'[panes'[e].groups[n].key].newest
             /\ panes'[e].groups[n].key = pane.groups[n].key
  <2>1. CASE n = number
    BY <2>1, <1>3, <1>4, <1>5, <1>7
  <2>2. CASE n # number
    <3>1. n \in DOMAIN panes[e].groups /\ panes'[e].groups[n] = panes[e].groups[n]
      BY <2>2, <1>3, <1>4, <1>5
    <3> QED
      BY <3>1, <1>1, <1>3, <1>6, GroupsRemembered
  <2> QED
    BY <2>1, <2>2
<1>9. UpdatesPane(s)
  <2>1. Grows(panes'[e], pane)
    BY <1>2, <1>4, <1>5, <1>8 DEF Grows
  <2> QED
    BY <2>1, <1>4, <1>5, <1>8 DEF UpdatesPane
<1>10. CachesPane(s, p)
  <2>1. p.end = e /\ p.number = number
    BY DEF p
  <2> QED
    BY <2>1, <1>3, <1>4, <1>5 DEF CachesPane
<1> QED
  BY <1>1, <1>6, <1>9, <1>10, UpdateKeeps

LEMMA UpdateKeepsInvariant ==
    ASSUME PerSampleInvariant, NEW s \in Sample, Update(s)
    PROVE  PerSampleInvariant'
<1>1. /\ EndOf(s) > through /\ through' = through
      /\ outcome' \in {"taken", "duplicate"}
  BY DEF Update
<1>2. /\ Seen(s) \in Entry
      /\ Seen(s).pane \in [end : Int, number : Nat]
  BY SeenFacts DEF PerSampleInvariant, Entry
<1>3. CASE IgnoreStale(s)
  <2>1. UNCHANGED <<series, cells, panes, through>>
    BY <1>1, <1>3 DEF IgnoreStale
  <2> QED
    BY <1>1, <2>1 DEF PerSampleInvariant, TypeOK, NumbersMatch, StatesMatch, PanesAhead,
                      CachedNumberIsItsGroup, NewestSeen, StateFollowsActiveSeries,
                      HasStateIn
<1>4. CASE IgnoreUnselected(s) \/ IgnoreFailed(s)
  <2>1. Remember(s, Seen(s).pane) /\ panes' = panes
    BY <1>4 DEF IgnoreUnselected, IgnoreFailed
  <2> QED
    BY <1>1, <1>2, <2>1, SamePane, UpdateKeeps DEF CachesPane
<1>5. CASE TakeNew(s)
  BY <1>1, <1>5, TakeNewKeeps
<1>6. CASE TakeNext(s)
  BY <1>1, <1>6, TakeNextKeeps
<1>7. CASE DropDuplicate(s)
  <2> DEFINE p == [end |-> EndOf(s), number |-> NumberOf(s)]
  <2>1. Accepts(s) /\ ~IsNew(s) /\ Remember(s, p) /\ panes' = panes
    BY <1>7 DEF DropDuplicate
  <2>2. /\ EndOf(s) \in DOMAIN panes
        /\ NumberOf(s) \in Nat
        /\ NumberOf(s) \in DOMAIN panes[EndOf(s)].groups
        /\ panes[EndOf(s)].groups[NumberOf(s)].key = s.series
    BY <1>1, <2>1, KnownGroup DEF Accepts
  <2>3. p \in [end : Int, number : Nat]
    BY <2>2, SampleFacts
  <2>4. CachesPane(s, p)
    <3>1. p.end = EndOf(s) /\ p.number = NumberOf(s)
      OBVIOUS
    <3> QED
      BY <2>1, <2>2, <3>1 DEF CachesPane
  <2> HIDE DEF p
  <2> QED
    BY <1>1, <2>1, <2>3, <2>4, SamePane, UpdateKeeps
<1>8. CASE FailToAdd(s)
  <2>1. FailPane(EndOf(s)) /\ Remember(s, Seen(s).pane)
    BY <1>8 DEF FailToAdd
  <2> QED
    BY <1>1, <1>2, <2>1, FailedPaneUpdates, UpdateKeeps DEF CachesPane
<1>9. CASE FailToUpdate(s)
  <2> DEFINE p == [end |-> EndOf(s),
                   number |-> IF IsNew(s) THEN Len(PaneAt(EndOf(s)).groups) + 1
                              ELSE NumberOf(s)]
  <2>1. Accepts(s) /\ FailPane(EndOf(s)) /\ Remember(s, p)
    BY <1>9 DEF FailToUpdate
  <2>2. Len(PaneAt(EndOf(s)).groups) + 1 \in Nat
    BY PaneAtGood DEF GoodPane
  <2>3. ~IsNew(s) => NumberOf(s) \in Nat
    BY <1>1, <2>1, KnownGroup DEF Accepts
  <2>4. p \in [end : Int, number : Nat]
    BY <2>2, <2>3, SampleFacts
  <2>5. CachesPane(s, p)
    BY <2>1, FailedPaneUpdates DEF CachesPane
  <2> HIDE DEF p
  <2> QED
    BY <1>1, <2>1, <2>4, <2>5, FailedPaneUpdates, UpdateKeeps
<1> QED
  BY <1>3, <1>4, <1>5, <1>6, <1>7, <1>8, <1>9 DEF Update

\* A series with a state in a pane after e was seen within a pane of e.
LEMMA StateIsRecent ==
    ASSUME PerSampleInvariant, NEW e \in DOMAIN panes, NEW n \in DOMAIN panes[e].groups
    PROVE  LET id == panes[e].groups[n].key
           IN  /\ id \in DOMAIN series
               /\ series[id].newest > e - PaneMs
<1> DEFINE groups == panes[e].groups
           group == groups[n]
<1>1. TypeOK /\ StatesMatch /\ NewestSeen /\ StateFollowsActiveSeries
  BY DEF PerSampleInvariant
<1>2. group \in Group
  <2>1. groups \in Seq(Group) /\ n \in DOMAIN groups
    BY <1>1 DEF TypeOK
  <2> HIDE DEF groups
  <2> QED
    BY <2>1
<1>3. group.key \in Series /\ group.newest \in Int /\ group.state \subseteq Sample
  BY <1>2 DEF Group
<1>4. group.key \in DOMAIN series
  BY <1>1, <1>3 DEF StateFollowsActiveSeries, HasStateIn
<1>5. PICK s \in group.state : s.t = group.newest /\ EndOf(s) = e
  BY <1>1 DEF StatesMatch
<1>6. s \in Sample /\ e < group.newest + PaneMs /\ e \in Int
  BY <1>3, <1>5, SampleFacts
<1>7. group.newest <= series[group.key].newest
  BY <1>1, <1>4 DEF NewestSeen
<1>8. series[group.key].newest \in Int /\ PaneMs \in Int
  BY <1>1, <1>4, PerSampleAssumption DEF TypeOK, Entry
<1> HIDE DEF group
<1>9. series[group.key].newest > e - PaneMs
  BY <1>3, <1>6, <1>7, <1>8
<1> QED
  BY <1>4, <1>9 DEF group

LEMMA CloseKeepsInvariant ==
    ASSUME PerSampleInvariant, NEW e \in Ends, Close(e)
    PROVE  PerSampleInvariant'
<1>1. /\ TypeOK /\ NumbersMatch /\ StatesMatch /\ PanesAhead /\ CachedNumberIsItsGroup
      /\ NewestSeen /\ StateFollowsActiveSeries
  BY DEF PerSampleInvariant
<1>2. /\ e \in Int /\ through \in Int /\ KeepMs \in Nat /\ PaneMs <= KeepMs /\ PaneMs \in Nat
  <2>1. PICK t \in Times : e = PaneEnd(t, PaneMs)
    BY DEF Ends
  <2>2. t \in Int /\ PaneMs \in Nat \ {0} /\ RetentionMs \in Nat
    BY PerSampleAssumption
  <2>3. e \in Int
    BY <2>1, <2>2, PaneEndProperties
  <2>4. through \in Int
    BY <1>1 DEF TypeOK
  <2> QED
    BY <2>2, <2>3, <2>4 DEF KeepMs
<1> HIDE DEF KeepMs
<1>3. /\ e > through /\ through' = e /\ outcome' = outcome
      /\ series' = [id \in {x \in DOMAIN series : series[x].newest > e - KeepMs} |->
                       series[id]]
      /\ cells' = [id \in {x \in DOMAIN cells : cells[x] > e - KeepMs} |-> cells[id]]
      /\ panes' = [x \in {y \in DOMAIN panes : y > e} |-> panes[x]]
  BY DEF Close, ForgetUnseen
<1>4. /\ \A id : id \in DOMAIN series' <=>
                    id \in DOMAIN series /\ series[id].newest > e - KeepMs
      /\ \A id \in DOMAIN series' : series'[id] = series[id]
  BY <1>3
<1>5. /\ \A id : id \in DOMAIN cells' <=> id \in DOMAIN cells /\ cells[id] > e - KeepMs
      /\ \A id \in DOMAIN cells' : cells'[id] = cells[id]
  BY <1>3
<1>6. /\ \A x : x \in DOMAIN panes' <=> x \in DOMAIN panes /\ x > e
      /\ \A x \in DOMAIN panes' : panes'[x] = panes[x]
  BY <1>3
<1>7. TypeOK'
  BY <1>1, <1>2, <1>3, <1>4, <1>5, <1>6 DEF TypeOK
<1>8. NumbersMatch' /\ StatesMatch'
  BY <1>1, <1>6 DEF NumbersMatch, StatesMatch, EndOf
<1>9. PanesAhead'
  <2>1. ASSUME NEW id \in DOMAIN series',
               series'[id].pane.number # 0, series'[id].pane.end > e
        PROVE  series'[id].pane.end \in DOMAIN panes'
    <3>1. id \in DOMAIN series /\ series'[id] = series[id] /\ series[id].pane.end \in Int
      BY <1>1, <1>4 DEF TypeOK, Entry
    <3>2. series[id].pane.end > through
      BY <2>1, <3>1, <1>2, <1>3
    <3> QED
      BY <2>1, <3>1, <3>2, <1>1, <1>6 DEF PanesAhead
  <2>2. \A id \in DOMAIN series' : series'[id].selected = (id \in Selected)
    BY <1>1, <1>4 DEF PanesAhead
  <2> QED
    BY <2>1, <2>2, <1>3, <1>6 DEF PanesAhead
<1>10. CachedNumberIsItsGroup'
  BY <1>1, <1>4, <1>6 DEF CachedNumberIsItsGroup
<1>11. NewestSeen'
  BY <1>1, <1>4, <1>5, <1>6 DEF NewestSeen
<1>12. StateFollowsActiveSeries'
  <2>1. \A id \in DOMAIN series' : series'[id].newest > through' - KeepMs
    BY <1>3, <1>4
  <2>2. ASSUME NEW x \in DOMAIN panes', NEW n \in DOMAIN panes'[x].groups
        PROVE  panes'[x].groups[n].key \in DOMAIN series'
    <3> DEFINE id == panes[x].groups[n].key
    <3>1. x \in DOMAIN panes /\ x > e /\ panes'[x] = panes[x] /\ x \in Int
      BY <1>1, <1>6 DEF TypeOK
    <3>2. id \in DOMAIN series /\ series[id].newest > x - PaneMs
      BY <3>1, StateIsRecent
    <3>3. series[id].newest \in Int
      BY <3>2, <1>1 DEF TypeOK, Entry
    <3> HIDE DEF id
    <3>4. id \in DOMAIN series'
      BY <3>1, <3>2, <3>3, <1>2, <1>4
    <3> QED
      BY <3>1, <3>4 DEF id
  <2>3. DOMAIN cells' \subseteq DOMAIN series'
    <3> SUFFICES ASSUME NEW id \in DOMAIN cells' PROVE id \in DOMAIN series'
      OBVIOUS
    <3>1. id \in DOMAIN cells /\ cells[id] > e - KeepMs /\ cells[id] \in Int
      BY <1>1, <1>5 DEF TypeOK
    <3>2. id \in DOMAIN series /\ cells[id] <= series[id].newest
      BY <3>1, <1>1 DEF StateFollowsActiveSeries, NewestSeen
    <3>3. series[id].newest \in Int
      BY <3>2, <1>1 DEF TypeOK, Entry
    <3> QED
      BY <3>1, <3>2, <3>3, <1>2, <1>4
  <2>4. \A x \in DOMAIN panes', id \in Series :
           HasStateIn(id, x)' => id \in DOMAIN series'
    BY <2>2 DEF HasStateIn
  <2> QED
    BY <2>1, <2>3, <2>4 DEF StateFollowsActiveSeries, KeepMs
<1> QED
  BY <1>7, <1>8, <1>9, <1>10, <1>11, <1>12 DEF PerSampleInvariant

\* The inductive invariant of the tables: numbers, groups and series agree,
\* in every state that updates and closing panes reach.
THEOREM PerSampleInvariantHolds == Spec => []PerSampleInvariant
<1>1. PerSampleInvariant /\ [Next]_vars => PerSampleInvariant'
  <2> SUFFICES ASSUME PerSampleInvariant, [Next]_vars PROVE PerSampleInvariant'
    OBVIOUS
  <2>1. CASE Next
    BY <2>1, UpdateKeepsInvariant, CloseKeepsInvariant DEF Next
  <2>2. CASE UNCHANGED vars
    BY <2>2 DEF vars, PerSampleInvariant, TypeOK, NumbersMatch, StatesMatch, PanesAhead,
                CachedNumberIsItsGroup, NewestSeen, StateFollowsActiveSeries, HasStateIn
  <2> QED
    BY <2>1, <2>2
<1> QED
  BY <1>1, InitKeeps, PTL DEF Spec

\* The types of the tables, and that a state holds only samples that count:
\* none of a series the Scan does not select, and no stale marker.
THEOREM PerSampleTypeCorrect == Spec => []TypeOK
<1>1. PerSampleInvariant => TypeOK
  BY DEF PerSampleInvariant
<1> QED
  BY <1>1, PerSampleInvariantHolds, PTL

\* Using the number a series cached, without asking the pane for it, never
\* gives a sample to another series' state (update, per_sample.rs).
THEOREM CachedNumbersAreValid == Spec => []CachedNumberIsItsGroup
<1>1. PerSampleInvariant => CachedNumberIsItsGroup
  BY DEF PerSampleInvariant
<1> QED
  BY <1>1, PerSampleInvariantHolds, PTL

\* Forgetting series when panes close bounds the memory by the active
\* series and forgets none with a state in an open pane (close,
\* per_sample.rs, and forget_unseen, raw_sample_window.rs).
THEOREM MemoryFollowsActiveSeries == Spec => []StateFollowsActiveSeries
<1>1. PerSampleInvariant => StateFollowsActiveSeries
  BY DEF PerSampleInvariant
<1> QED
  BY <1>1, PerSampleInvariantHolds, PTL

----------------------------------------------------------------------------
(* The tables implement SamplePanes.                                       *)

Holds(o) == /\ EndOf(o) \in DOMAIN panes
            /\ \E n \in DOMAIN panes[EndOf(o)].groups : o \in panes[EndOf(o)].groups[n].state

TakenAreHeld == \A o : o \in TakenSamples <=> Holds(o)

\* What has been taken, pane by pane.
LEMMA TakenIsHeld == PerSampleInvariant => TakenAreHeld
<1> SUFFICES ASSUME PerSampleInvariant, NEW o PROVE o \in TakenSamples <=> Holds(o)
  BY DEF TakenAreHeld
<1>1. NumbersMatch /\ StatesMatch
  BY DEF PerSampleInvariant
<1>2. ASSUME o \in TakenSamples PROVE Holds(o)
  <2>1. PICK e \in OpenEnds : o \in UNION StatesIn(e)
    BY <1>2 DEF TakenSamples
  <2>2. PICK n \in DOMAIN panes[e].groups : o \in panes[e].groups[n].state
    BY <2>1 DEF StatesIn
  <2>3. e \in DOMAIN panes
    BY <2>1 DEF OpenEnds
  <2>4. EndOf(o) = e
    BY <2>2, <2>3, <1>1 DEF StatesMatch
  <2> QED
    BY <2>2, <2>3, <2>4 DEF Holds
<1>3. ASSUME Holds(o) PROVE o \in TakenSamples
  <2> DEFINE e == EndOf(o)
  <2>1. PICK n \in DOMAIN panes[e].groups : o \in panes[e].groups[n].state
    BY <1>3 DEF Holds
  <2>2. e \in DOMAIN panes
    BY <1>3 DEF Holds
  <2>3. ~panes[e].failed
    <3>1. DOMAIN <<>> = {}
      OBVIOUS
    <3> QED
      BY <2>1, <2>2, <3>1, <1>1 DEF NumbersMatch
  <2>4. o \in UNION StatesIn(e) /\ e \in OpenEnds
    BY <2>1, <2>2, <2>3 DEF StatesIn, OpenEnds
  <2> QED
    BY <2>4 DEF TakenSamples
<1> QED
  BY <1>2, <1>3

\* Every sample taken is one of its series' group, the only one.
LEMMA HeldInItsGroup ==
    ASSUME PerSampleInvariant, NEW e \in DOMAIN panes,
           NEW n \in DOMAIN panes[e].groups, NEW m \in DOMAIN panes[e].groups,
           NEW o \in panes[e].groups[m].state,
           o.series = panes[e].groups[n].key
    PROVE  m = n
<1>1. NumbersMatch /\ StatesMatch
  BY DEF PerSampleInvariant
<1>2. panes[e].groups[m].key = panes[e].groups[n].key
  BY <1>1 DEF StatesMatch
<1>3. /\ panes[e].numbers[panes[e].groups[m].key] = m
      /\ panes[e].numbers[panes[e].groups[n].key] = n
  BY <1>1 DEF NumbersMatch
<1> QED
  BY <1>2, <1>3

\* Both specifications place samples and panes alike.
LEMMA SamePlaces ==
    /\ Panes!Sample = Sample
    /\ Panes!Ends = Ends
    /\ \A o : Panes!EndOf(o) = EndOf(o)
<1>1. \A o : Panes!EndOf(o) = EndOf(o)
  BY DEF Panes!EndOf, EndOf, Panes!PaneEnd, PaneEnd
<1>2. Panes!Ends = Ends
  BY DEF Panes!Ends, Ends, Panes!PaneEnd, PaneEnd
<1>3. Panes!Sample = Sample
  BY DEF Panes!Sample, Sample
<1> QED
  BY <1>1, <1>2, <1>3

\* The two forms of "this is not after the series' previous sample".
LEMMA NotAfterIsKnown ==
    ASSUME PerSampleInvariant, NEW s \in Sample, EndOf(s) > through,
           ~PaneAt(EndOf(s)).failed
    PROVE  Panes!NotAfterPrevious(s) <=> ~IsNew(s) /\ s.t <= GroupOf(s).newest
<1> DEFINE e == EndOf(s)
<1>1. NumbersMatch /\ StatesMatch /\ TypeOK
  BY DEF PerSampleInvariant
<1>2. \A o : Panes!EndOf(o) = EndOf(o)
  BY SamePlaces
<1>3. ASSUME Panes!NotAfterPrevious(s)
      PROVE  ~IsNew(s) /\ s.t <= GroupOf(s).newest
  <2>1. PICK o \in TakenSamples : o.series = s.series /\ EndOf(o) = e /\ s.t <= o.t
    BY <1>2, <1>3 DEF Panes!NotAfterPrevious
  <2>2. e \in DOMAIN panes
    BY <2>1, TakenIsHeld DEF TakenAreHeld, Holds
  <2>3. PICK m \in DOMAIN panes[e].groups : o \in panes[e].groups[m].state
    BY <2>1, TakenIsHeld DEF TakenAreHeld, Holds
  <2>4. panes[e].groups[m].key = s.series
    BY <2>1, <2>2, <2>3, <1>1 DEF StatesMatch
  <2>5. s.series \in DOMAIN panes[e].numbers
    BY <2>2, <2>3, <2>4, <1>1 DEF NumbersMatch
  <2>6. ~IsNew(s)
    BY <2>2, <2>5 DEF IsNew, InNumbers, PaneAt
  <2>7. /\ NumberOf(s) \in DOMAIN panes[e].groups
        /\ panes[e].groups[NumberOf(s)].key = s.series
        /\ GroupOf(s) = panes[e].groups[NumberOf(s)]
        /\ GroupOf(s) \in Group
    BY <2>2, <2>6, KnownGroup
  <2>8. m = NumberOf(s)
    BY <2>1, <2>2, <2>3, <2>7, HeldInItsGroup
  <2>9. o.t <= GroupOf(s).newest
    BY <2>2, <2>3, <2>7, <2>8, <1>1 DEF StatesMatch
  <2>10. o.t \in Int /\ s.t \in Int /\ GroupOf(s).newest \in Int
    <3>1. o \in Sample
      BY <2>3, <2>7, <2>8 DEF Group
    <3> QED
      BY <3>1, <2>7, SampleFacts DEF Group
  <2> QED
    BY <2>1, <2>6, <2>9, <2>10
<1>4. ASSUME ~IsNew(s), s.t <= GroupOf(s).newest
      PROVE  Panes!NotAfterPrevious(s)
  <2>1. /\ e \in DOMAIN panes
        /\ NumberOf(s) \in DOMAIN panes[e].groups
        /\ GroupOf(s) = panes[e].groups[NumberOf(s)]
        /\ GroupOf(s).key = s.series
    BY <1>4, KnownGroup
  <2>2. PICK o \in GroupOf(s).state : o.t = GroupOf(s).newest
    BY <2>1, <1>1 DEF StatesMatch
  <2>3. o.series = s.series /\ EndOf(o) = e
    BY <2>1, <2>2, <1>1 DEF StatesMatch
  <2>4. o \in TakenSamples
    BY <2>1, <2>2, <2>3, TakenIsHeld DEF TakenAreHeld, Holds
  <2> QED
    BY <1>2, <1>4, <2>2, <2>3, <2>4 DEF Panes!NotAfterPrevious
<1> QED
  BY <1>3, <1>4

\* What an accepted sample is to the abstract panes.
LEMMA AcceptedCounts ==
    ASSUME PerSampleInvariant, NEW s \in Sample, ~IsStale(s)
    PROVE  /\ Seen(s).selected <=> Panes!Counts(s)
           /\ PaneAt(EndOf(s)).failed <=> EndOf(s) \in FailedEnds
<1>1. Seen(s).selected = (s.series \in Selected)
  BY SeenFacts DEF PerSampleInvariant
<1>2. PaneAt(EndOf(s)).failed <=> EndOf(s) \in FailedEnds
  BY DEF PaneAt, EmptyPane, FailedEnds, OpenEnds
<1> QED
  BY <1>1, <1>2 DEF Panes!Counts, IsStale

\* Whatever is taken: the pane of s holds it and s, other panes the same.
LEMMA TakingAdds ==
    ASSUME PerSampleInvariant, PerSampleInvariant', NEW s \in Sample,
           NEW pane, SetPane(EndOf(s), pane), ~pane.failed,
           ~PaneAt(EndOf(s)).failed,
           \A o : (\E n \in DOMAIN pane.groups : o \in pane.groups[n].state)
                    <=> \/ o = s
                        \/ \E n \in DOMAIN PaneAt(EndOf(s)).groups :
                              o \in PaneAt(EndOf(s)).groups[n].state
    PROVE  TakenSamples' = TakenSamples \cup {s} /\ FailedEnds' = FailedEnds
<1> DEFINE e == EndOf(s)
<1>1. /\ DOMAIN panes' = DOMAIN panes \cup {e}
      /\ panes'[e] = pane
      /\ \A x \in DOMAIN panes : x # e => panes'[x] = panes[x]
  BY SetPaneFacts
<1>2. \A o : o \in TakenSamples <=> Holds(o)
  BY TakenIsHeld DEF TakenAreHeld
<1>3. \A o : o \in TakenSamples' <=> Holds(o)'
  <2>1. TakenAreHeld'
    BY TakenIsHeld, PTL
  <2> QED
    BY <2>1 DEF TakenAreHeld
<1>4. \A o : Holds(o)' <=> /\ EndOf(o) \in DOMAIN panes'
                           /\ \E n \in DOMAIN panes'[EndOf(o)].groups :
                                 o \in panes'[EndOf(o)].groups[n].state
  BY DEF Holds, EndOf
<1>5. DOMAIN EmptyPane.groups = {}
  BY DEF EmptyPane
<1>6. ASSUME NEW o PROVE Holds(o)' <=> Holds(o) \/ o = s
  <2>1. CASE EndOf(o) = e
    BY <2>1, <1>1, <1>4, <1>5 DEF Holds, PaneAt
  <2>2. CASE EndOf(o) # e
    BY <2>2, <1>1, <1>4 DEF Holds
  <2> QED
    BY <2>1, <2>2
<1>7. TakenSamples' = TakenSamples \cup {s}
  BY <1>2, <1>3, <1>6
<1>8. ~EmptyPane.failed
  BY DEF EmptyPane
<1>9. FailedEnds' = FailedEnds
  BY <1>1, <1>8 DEF FailedEnds, OpenEnds, PaneAt
<1> QED
  BY <1>7, <1>9

\* A pane that fails holds nothing, and no other pane changes.
LEMMA FailingBreaks ==
    ASSUME PerSampleInvariant, PerSampleInvariant', NEW s \in Sample, FailPane(EndOf(s))
    PROVE  /\ TakenSamples' = {o \in TakenSamples : EndOf(o) # EndOf(s)}
           /\ FailedEnds' = FailedEnds \cup {EndOf(s)}
<1> DEFINE e == EndOf(s)
<1>1. /\ DOMAIN panes' = DOMAIN panes \cup {e}
      /\ panes'[e] = FailedPane
      /\ \A x \in DOMAIN panes : x # e => panes'[x] = panes[x]
  BY SetPaneFacts DEF FailPane
<1>2. DOMAIN FailedPane.groups = {} /\ FailedPane.failed
  BY DEF FailedPane
<1>3. \A o : o \in TakenSamples <=> Holds(o)
  BY TakenIsHeld DEF TakenAreHeld
<1>4. \A o : o \in TakenSamples' <=> Holds(o)'
  <2>1. TakenAreHeld'
    BY TakenIsHeld, PTL
  <2> QED
    BY <2>1 DEF TakenAreHeld
<1>5. \A o : Holds(o)' <=> /\ EndOf(o) \in DOMAIN panes'
                           /\ \E n \in DOMAIN panes'[EndOf(o)].groups :
                                 o \in panes'[EndOf(o)].groups[n].state
  BY DEF Holds, EndOf
<1>6. ASSUME NEW o PROVE Holds(o)' <=> Holds(o) /\ EndOf(o) # e
  <2>1. CASE EndOf(o) = e
    BY <2>1, <1>1, <1>2, <1>5
  <2>2. CASE EndOf(o) # e
    BY <2>2, <1>1, <1>5 DEF Holds
  <2> QED
    BY <2>1, <2>2
<1>7. TakenSamples' = {o \in TakenSamples : EndOf(o) # e}
  BY <1>3, <1>4, <1>6
<1>8. FailedEnds' = FailedEnds \cup {e}
  BY <1>1, <1>2 DEF FailedEnds, OpenEnds
<1> QED
  BY <1>7, <1>8

LEMMA UpdateImplementsTake ==
    ASSUME PerSampleInvariant, PerSampleInvariant', NEW s \in Sample, Update(s)
    PROVE  Panes!Take(s)
<1> DEFINE e == EndOf(s)
           pane == PaneAt(e)
<1>1. e > through /\ UNCHANGED <<through, sealed>>
  BY DEF Update
<1>2. Panes!EndOf(s) = e /\ \A o : Panes!EndOf(o) = EndOf(o)
  BY SamePlaces
<1>3. ASSUME UNCHANGED panes
      PROVE  TakenSamples' = TakenSamples /\ FailedEnds' = FailedEnds
  BY <1>3 DEF TakenSamples, FailedEnds, OpenEnds, StatesIn
<1>4. ASSUME Accepts(s)
      PROVE  /\ Panes!Counts(s)
             /\ e \notin FailedEnds
             /\ ~pane.failed
             /\ Panes!NotAfterPrevious(s) <=> ~IsNew(s) /\ s.t <= GroupOf(s).newest
  <2>1. ~IsStale(s) /\ Seen(s).selected /\ ~pane.failed
    BY <1>4 DEF Accepts
  <2> QED
    BY <1>1, <2>1, AcceptedCounts, NotAfterIsKnown
<1>5. ASSUME ~IsNew(s), Accepts(s)
      PROVE  /\ s.t \in Int /\ GroupOf(s).newest \in Int
             /\ NumberOf(s) \in DOMAIN pane.groups
             /\ GroupOf(s) = pane.groups[NumberOf(s)]
             /\ GroupOf(s).key = s.series
  BY <1>1, <1>4, <1>5, KnownGroup, SampleFacts DEF Group
<1>6. ASSUME outcome' = "taken", IgnoreStale(s) \/ IgnoreUnselected(s) \/ IgnoreFailed(s)
      PROVE  Panes!Ignore(s)
  <2>1. UNCHANGED panes
    BY <1>6 DEF IgnoreStale, IgnoreUnselected, IgnoreFailed
  <2>2. ~Panes!Counts(s) \/ e \in FailedEnds
    <3>1. CASE IsStale(s)
      BY <3>1 DEF IsStale, Panes!Counts
    <3>2. CASE ~IsStale(s)
      BY <3>2, <1>6, AcceptedCounts DEF IgnoreStale, IgnoreUnselected, IgnoreFailed
    <3> QED
      BY <3>1, <3>2
  <2> QED
    BY <1>2, <1>3, <1>6, <2>1, <2>2 DEF Panes!Ignore
<1>7. ASSUME outcome' = "taken", TakeNew(s)
      PROVE  Panes!Add(s)
  <2>1. Accepts(s) /\ IsNew(s) /\ SetPane(e, WithNew(pane, s))
    BY <1>7 DEF TakeNew, WithNew
  <2>2. ~s.stale /\ s.series \in Selected /\ s.series \notin DOMAIN pane.numbers
    BY <1>4, <2>1 DEF Panes!Counts, IsNew, InNumbers
  <2>3. GoodPane(pane, e)
    BY PaneAtGood
  <2>4. pane.groups \in Seq(Group)
    BY <2>3 DEF GoodPane
  <2> HIDE DEF pane
  <2>5. /\ GoodPane(WithNew(pane, s), e)
        /\ Len(WithNew(pane, s).groups) = Len(pane.groups) + 1
        /\ WithNew(pane, s).groups[Len(pane.groups) + 1]
             = [key |-> s.series, newest |-> s.t, state |-> {s}]
        /\ \A n \in DOMAIN pane.groups : WithNew(pane, s).groups[n] = pane.groups[n]
    BY <1>4, <2>1, <2>2, <2>3, WithNewGood
  <2>6. WithNew(pane, s).groups \in Seq(Group)
    BY <2>5 DEF GoodPane
  <2>7. /\ Len(pane.groups) \in Nat
        /\ DOMAIN pane.groups = 1..Len(pane.groups)
        /\ DOMAIN WithNew(pane, s).groups = 1..Len(pane.groups) + 1
    BY <2>4, <2>5, <2>6
  <2>8. WithNew(pane, s).groups[Len(pane.groups) + 1].state = {s}
    BY <2>5
  <2>9. DOMAIN WithNew(pane, s).groups = DOMAIN pane.groups \cup {Len(pane.groups) + 1}
    BY <2>7
  <2>10. \A o : (\E n \in DOMAIN WithNew(pane, s).groups : o \in WithNew(pane, s).groups[n].state)
                  <=> o = s \/ \E n \in DOMAIN pane.groups : o \in pane.groups[n].state
    BY <2>5, <2>8, <2>9
  <2>11. ~WithNew(pane, s).failed
    BY DEF WithNew
  <2>12. TakenSamples' = TakenSamples \cup {s} /\ FailedEnds' = FailedEnds
    <3>1. ~PaneAt(EndOf(s)).failed
      BY <1>4, <2>1 DEF pane
    <3> QED
      BY <2>1, <2>10, <2>11, <3>1, TakingAdds DEF pane
  <2> QED
    BY <1>2, <1>4, <1>7, <2>1, <2>12 DEF Panes!Add
<1>8. ASSUME outcome' = "taken", TakeNext(s)
      PROVE  Panes!Add(s)
  <2> DEFINE number == NumberOf(s)
  <2>1. /\ Accepts(s) /\ ~IsNew(s) /\ s.t > GroupOf(s).newest
        /\ SetPane(e, WithNext(pane, number, s))
    BY <1>8 DEF TakeNext, WithNext
  <2>2. ~s.stale /\ s.series \in Selected
    BY <1>4, <2>1 DEF Panes!Counts
  <2>3. /\ GoodPane(pane, e) /\ number \in DOMAIN pane.groups
        /\ pane.groups[number].key = s.series
        /\ s.t > pane.groups[number].newest
    BY <1>5, <2>1, PaneAtGood
  <2> HIDE DEF pane, number
  <2>4. /\ DOMAIN WithNext(pane, number, s).groups = DOMAIN pane.groups
        /\ WithNext(pane, number, s).groups[number]
             = [key |-> s.series, newest |-> s.t,
                state |-> pane.groups[number].state \cup {s}]
        /\ \A m \in DOMAIN pane.groups :
              m # number => WithNext(pane, number, s).groups[m] = pane.groups[m]
    BY <2>2, <2>3, WithNextGood
  <2>5. WithNext(pane, number, s).groups[number].state = pane.groups[number].state \cup {s}
    BY <2>4
  <2>6. \A o : (\E n \in DOMAIN WithNext(pane, number, s).groups :
                   o \in WithNext(pane, number, s).groups[n].state)
                 <=> o = s \/ \E n \in DOMAIN pane.groups : o \in pane.groups[n].state
    BY <2>3, <2>4, <2>5
  <2>7. ~WithNext(pane, number, s).failed
    BY DEF WithNext
  <2>8. TakenSamples' = TakenSamples \cup {s} /\ FailedEnds' = FailedEnds
    <3>1. ~PaneAt(EndOf(s)).failed
      BY <1>4, <2>1 DEF pane
    <3> QED
      BY <2>1, <2>6, <2>7, <3>1, TakingAdds DEF pane
  <2>9. ~Panes!NotAfterPrevious(s)
    BY <1>4, <1>5, <2>1
  <2> QED
    BY <1>2, <1>4, <1>8, <2>1, <2>8, <2>9 DEF Panes!Add
<1>9. ASSUME outcome' = "duplicate", DropDuplicate(s)
      PROVE  Panes!Drop(s)
  <2>1. Accepts(s) /\ ~IsNew(s) /\ s.t <= GroupOf(s).newest /\ UNCHANGED panes
    BY <1>9 DEF DropDuplicate
  <2> QED
    BY <1>2, <1>3, <1>4, <1>9, <2>1 DEF Panes!Drop
<1>10. ASSUME outcome' = "taken", FailToAdd(s) \/ FailToUpdate(s)
       PROVE  Panes!Break(s)
  <2>1. Accepts(s) /\ FailPane(e) /\ (~IsNew(s) => s.t > GroupOf(s).newest)
    BY <1>10 DEF FailToAdd, FailToUpdate
  <2>2. ~Panes!NotAfterPrevious(s)
    BY <1>4, <1>5, <2>1
  <2>3. /\ TakenSamples' = {o \in TakenSamples : EndOf(o) # e}
        /\ FailedEnds' = FailedEnds \cup {e}
    BY <2>1, FailingBreaks
  <2>4. TakenSamples' = TakenSamples \ Panes!InPane(e)
    BY <1>2, <2>3 DEF Panes!InPane
  <2> QED
    BY <1>2, <1>4, <1>10, <2>1, <2>2, <2>3, <2>4 DEF Panes!Break
<1> QED
  BY <1>1, <1>2, <1>6, <1>7, <1>8, <1>9, <1>10 DEF Update, Panes!Take

\* The rows of a pane are one for each series with a sample in it, with all
\* of its samples.
LEMMA RowsAreTaken ==
    ASSUME PerSampleInvariant, NEW e, ~PaneAt(e).failed
    PROVE  RowsOfPane(PaneAt(e)) = Panes!RowsOf(Panes!InPane(e))
<1> DEFINE held == Panes!InPane(e)
<1>1. NumbersMatch /\ StatesMatch
  BY DEF PerSampleInvariant
<1>2. \A o : o \in held <=> Holds(o) /\ EndOf(o) = e
  BY TakenIsHeld, SamePlaces DEF TakenAreHeld, Panes!InPane
<1>3. CASE e \notin DOMAIN panes
  <2>1. \A o : o \notin held
    BY <1>2, <1>3 DEF Holds
  <2>2. DOMAIN PaneAt(e).groups = {}
    BY <1>3 DEF PaneAt, EmptyPane
  <2>3. RowsOfPane(PaneAt(e)) = {}
    BY <2>2 DEF RowsOfPane
  <2>4. Panes!RowsOf(held) = {}
    BY <2>1 DEF Panes!RowsOf
  <2> QED
    BY <2>3, <2>4
<1>4. CASE e \in DOMAIN panes
  <2> DEFINE groups == panes[e].groups
             Row(id) == [series |-> id, samples |-> {o \in held : o.series = id}]
  <2>1. \A o : o \in held <=> \E n \in DOMAIN groups : o \in groups[n].state
    <3>1. \A n \in DOMAIN groups : \A o \in groups[n].state : EndOf(o) = e
      BY <1>1, <1>4 DEF StatesMatch
    <3> QED
      BY <1>2, <1>4, <3>1 DEF Holds
  <2>2. \A n \in DOMAIN groups : \A o \in groups[n].state : o.series = groups[n].key
    BY <1>1, <1>4 DEF StatesMatch
  <2> HIDE DEF held
  <2>3. ASSUME NEW n \in DOMAIN groups
        PROVE  groups[n].state = {o \in held : o.series = groups[n].key}
    <3>1. ASSUME NEW o \in held, o.series = groups[n].key
          PROVE  o \in groups[n].state
      <4>1. PICK m \in DOMAIN groups : o \in groups[m].state
        BY <2>1
      <4>2. m = n
        BY <1>4, <3>1, <4>1, HeldInItsGroup
      <4> QED
        BY <4>1, <4>2
    <3> QED
      BY <2>1, <2>2, <3>1
  <2>4. RowsOfPane(PaneAt(e)) = {Row(groups[n].key) : n \in DOMAIN groups}
    <3>1. RowsOfPane(PaneAt(e))
            = {[series |-> groups[n].key, samples |-> groups[n].state] : n \in DOMAIN groups}
      BY <1>4 DEF RowsOfPane, PaneAt
    <3> HIDE DEF groups
    <3> QED
      BY <2>3, <3>1
  <2>5. Panes!RowsOf(held) = {Row(id) : id \in {o.series : o \in held}}
    BY DEF Panes!RowsOf
  <2>6. {groups[n].key : n \in DOMAIN groups} = {o.series : o \in held}
    <3>1. \A n \in DOMAIN groups : \E o \in held : o.series = groups[n].key
      <4>1. \A n \in DOMAIN groups : \E o \in groups[n].state : TRUE
        BY <1>1, <1>4 DEF StatesMatch
      <4> HIDE DEF groups
      <4> QED
        BY <4>1, <2>1, <2>2
    <3> HIDE DEF groups
    <3>2. \A o \in held : \E n \in DOMAIN groups : groups[n].key = o.series
      BY <2>1, <2>2
    <3> QED
      BY <3>1, <3>2
  <2> HIDE DEF groups, Row
  <2>7. {Row(groups[n].key) : n \in DOMAIN groups}
          = {Row(id) : id \in {groups[n].key : n \in DOMAIN groups}}
    OBVIOUS
  <2> QED
    BY <2>4, <2>5, <2>6, <2>7 DEF held
<1> QED
  BY <1>3, <1>4

LEMMA CloseImplementsClose ==
    ASSUME PerSampleInvariant, PerSampleInvariant', NEW e \in Ends, Close(e)
    PROVE  Panes!Close(e)
<1>1. /\ e > through /\ through' = e /\ UNCHANGED outcome
      /\ panes' = [x \in {y \in DOMAIN panes : y > e} |-> panes[x]]
  BY DEF Close
<1>2. /\ \A x : x \in DOMAIN panes' <=> x \in DOMAIN panes /\ x > e
      /\ \A x \in DOMAIN panes' : panes'[x] = panes[x]
  BY <1>1
<1>3. \A o : o \in TakenSamples <=> Holds(o)
  BY TakenIsHeld DEF TakenAreHeld
<1>4. \A o : o \in TakenSamples' <=> Holds(o)'
  <2>1. TakenAreHeld'
    BY TakenIsHeld, PTL
  <2> QED
    BY <2>1 DEF TakenAreHeld
<1>5. \A o : Holds(o)' <=> /\ EndOf(o) \in DOMAIN panes'
                           /\ \E n \in DOMAIN panes'[EndOf(o)].groups :
                                 o \in panes'[EndOf(o)].groups[n].state
  BY DEF Holds, EndOf
<1>6. \A o : Holds(o)' <=> Holds(o) /\ EndOf(o) > e
  BY <1>2, <1>5 DEF Holds
<1>7. TakenSamples' = {o \in TakenSamples : Panes!EndOf(o) > e}
  BY <1>3, <1>4, <1>6, SamePlaces
<1>8. FailedEnds' = {x \in FailedEnds : x > e}
  BY <1>2 DEF FailedEnds, OpenEnds
<1>9. \E pane \in {[failed |-> FALSE, rows |-> Panes!RowsOf(Panes!InPane(e))],
                   [failed |-> TRUE, rows |-> {}]} :
         /\ e \in FailedEnds => pane.failed
         /\ sealed' = [x \in DOMAIN sealed \cup {e} |-> IF x = e THEN pane ELSE sealed[x]]
  <2>1. CASE /\ ~PaneAt(e).failed
             /\ Seal(e, [failed |-> FALSE, rows |-> RowsOfPane(PaneAt(e))])
    <3>1. RowsOfPane(PaneAt(e)) = Panes!RowsOf(Panes!InPane(e))
      BY <2>1, RowsAreTaken
    <3>2. e \notin FailedEnds
      BY <2>1 DEF FailedEnds, OpenEnds, PaneAt
    <3> QED
      BY <2>1, <3>1, <3>2 DEF Seal
  <2>2. CASE Seal(e, [failed |-> TRUE, rows |-> {}])
    <3>1. [failed |-> TRUE, rows |-> {}].failed
      OBVIOUS
    <3> QED
      BY <2>2, <3>1 DEF Seal
  <2> QED
    BY <2>1, <2>2 DEF Close
<1> QED
  BY <1>1, <1>7, <1>8, <1>9 DEF Panes!Close

LEMMA InitImplementsInit == Init => Panes!Init
<1> SUFFICES ASSUME Init PROVE Panes!Init
  OBVIOUS
<1>1. /\ DOMAIN panes = {} /\ through \in Ends /\ outcome = "taken"
      /\ sealed = [e \in {} |-> {}]
  BY DEF Init
<1>2. OpenEnds = {} /\ FailedEnds = {}
  BY <1>1 DEF OpenEnds, FailedEnds
<1>3. TakenSamples = {}
  BY <1>2 DEF TakenSamples
<1> QED
  BY <1>1, <1>2, <1>3, SamePlaces DEF Panes!Init

\* The tables implement SamplePanes: whatever series are remembered and
\* whichever numbers they cached, each sample update takes is added once to
\* its series' state in its pane or dropped as not after the previous, and
\* close hands over one row per series with exactly its samples.
THEOREM TablesImplementPanes == Spec => ImplementsSamplePanes
<1>1. ASSUME PerSampleInvariant, PerSampleInvariant', [Next]_vars
      PROVE  [Panes!Next]_Panes!panesVars
  <2>1. CASE UNCHANGED vars
    BY <2>1 DEF vars, Panes!panesVars, TakenSamples, FailedEnds, OpenEnds, StatesIn
  <2>2. ASSUME NEW s \in Sample, Update(s) PROVE Panes!Next
    BY <1>1, <2>2, UpdateImplementsTake, SamePlaces DEF Panes!Next
  <2>3. ASSUME NEW e \in Ends, Close(e) PROVE Panes!Next
    BY <1>1, <2>3, CloseImplementsClose, SamePlaces DEF Panes!Next
  <2> QED
    BY <1>1, <2>1, <2>2, <2>3 DEF Next
<1> QED
  BY <1>1, InitImplementsInit, PerSampleInvariantHolds, PTL
     DEF Spec, ImplementsSamplePanes, Panes!Spec

=============================================================================
