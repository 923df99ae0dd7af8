-------------------------- MODULE SeriesIdsProofs --------------------------
(***************************************************************************)
(* Theorems about SeriesIds, for every set of label sets, of hashes and of *)
(* threads, and every number of ids.                                       *)
(***************************************************************************)
EXTENDS SeriesIds, SequenceTheorems, TLAPS

\* The invariant holds before the first call.
LEMMA InitInterner == Init => InternerInvariant
<1> SUFFICES ASSUME Init PROVE InternerInvariant
  OBVIOUS
<1> USE InternerAssumption DEF Init
<1>1. Len(series) = 0 /\ 1..Len(series) = {}
  OBVIOUS
<1>2. TypeOK
  <2>1. series \in Seq(LabelSets)
    BY EmptySeq
  <2>2. Len(series) <= MaxSeries
    BY <1>1
  <2> QED
    BY <2>1, <2>2, Zenon DEF TypeOK, Places
<1>3. LockHeld
  BY DEF LockHeld
<1>4. Listed
  BY <1>1 DEF Listed
<1>5. OneIdPerLabelSet
  BY <1>1 DEF OneIdPerLabelSet
<1>6. PoisonedWhenFull
  BY DEF PoisonedWhenFull
<1> QED
  BY <1>2, <1>3, <1>4, <1>5, <1>6 DEF InternerInvariant

\* The steps that append nothing keep the table's invariant.
LEMMA TableKept ==
  ASSUME InternerInvariant, UNCHANGED tableVars,
         \A t \in Threads : pc'[t] = "pushed" <=> pc[t] = "pushed",
         \A t \in Threads : pc[t] = "pushed" =>
             labels'[t] = labels[t] /\ t \in writers'
  PROVE  Listed' /\ OneIdPerLabelSet'
<1>1. OneIdPerLabelSet'
  BY DEF InternerInvariant, OneIdPerLabelSet, tableVars
<1>2. ASSUME NEW i, Pushed(i)
      PROVE  Pushed(i)'
  <2>1. PICK t \in writers : pc[t] = "pushed" /\ i = Len(series) /\ labels[t] = series[i]
    BY <1>2 DEF Pushed
  <2>2. t \in Threads
    BY DEF InternerInvariant, TypeOK
  <2> QED
    BY <2>1, <2>2 DEF Pushed, tableVars
<1>3. Listed'
  BY <1>2 DEF InternerInvariant, Listed, tableVars
<1> QED
  BY <1>1, <1>3

LEMMA CallKeeps ==
  ASSUME InternerInvariant, NEW t \in Threads, NEW l \in LabelSets, Call(t, l)
  PROVE  InternerInvariant'
<1>1. TypeOK'
  BY DEF InternerInvariant, TypeOK, Call, Goto, Places, tableVars, lockVars
<1>2. LockHeld'
  BY InternerAssumption
     DEF InternerInvariant, TypeOK, LockHeld, Call, Goto, tableVars, lockVars
<1>3. Listed' /\ OneIdPerLabelSet'
  <2>1. \A u \in Threads : pc'[u] = "pushed" <=> pc[u] = "pushed"
    BY DEF InternerInvariant, TypeOK, Call, Goto
  <2>2. \A u \in Threads : pc[u] = "pushed" => labels'[u] = labels[u] /\ u \in writers'
    BY DEF InternerInvariant, TypeOK, LockHeld, Call, Goto, lockVars
  <2> QED
    BY <2>1, <2>2, TableKept DEF Call
<1>4. PoisonedWhenFull'
  BY DEF InternerInvariant, PoisonedWhenFull, Call, tableVars, lockVars
<1> QED
  BY <1>1, <1>2, <1>3, <1>4 DEF InternerInvariant

\* A call ends by a panic on a poisoned lock, or because no id is left.
LEMMA PanicKeeps ==
  ASSUME InternerInvariant, NEW t \in Threads, PoisonedLock(t) \/ Overflow(t)
  PROVE  InternerInvariant'
<1>1. TypeOK'
  BY DEF InternerInvariant, TypeOK, PoisonedLock, Overflow, ReleaseWrite, Goto,
     Places, tableVars, lockVars
<1>2. LockHeld'
  BY DEF InternerInvariant, TypeOK, LockHeld, PoisonedLock, Overflow, ReleaseWrite,
     Goto, tableVars, lockVars
<1>3. Listed' /\ OneIdPerLabelSet'
  <2>1. \A u \in Threads : pc'[u] = "pushed" <=> pc[u] = "pushed"
    BY DEF InternerInvariant, TypeOK, PoisonedLock, Overflow, Goto
  <2>2. \A u \in Threads : pc[u] = "pushed" => labels'[u] = labels[u] /\ u \in writers'
    BY DEF InternerInvariant, TypeOK, LockHeld, PoisonedLock, Overflow,
       ReleaseWrite, Goto, lockVars
  <2> QED
    BY <2>1, <2>2, TableKept DEF PoisonedLock, Overflow
<1>4. PoisonedWhenFull'
  <2>1. Len(series) \in Nat /\ Len(series) <= MaxSeries
    BY DEF InternerInvariant, TypeOK
  <2>2. CASE PoisonedLock(t)
    BY <2>2 DEF InternerInvariant, PoisonedWhenFull, PoisonedLock, tableVars, lockVars
  <2>3. CASE Overflow(t)
    BY <2>1, <2>3, InternerAssumption DEF PoisonedWhenFull, Overflow, Full, tableVars
  <2> QED
    BY <2>2, <2>3
<1> QED
  BY <1>1, <1>2, <1>3, <1>4 DEF InternerInvariant

LEMMA LockKeeps ==
  ASSUME InternerInvariant, NEW t \in Threads, LockRead(t) \/ LockWrite(t)
  PROVE  InternerInvariant'
<1>1. TypeOK'
  BY DEF InternerInvariant, TypeOK, LockRead, LockWrite, Goto, Places, tableVars
<1>2. LockHeld'
  BY DEF InternerInvariant, TypeOK, LockHeld, LockRead, LockWrite, Goto, tableVars
<1>3. Listed' /\ OneIdPerLabelSet'
  <2>1. \A u \in Threads : pc'[u] = "pushed" <=> pc[u] = "pushed"
    BY DEF InternerInvariant, TypeOK, LockRead, LockWrite, Goto
  <2>2. \A u \in Threads : pc[u] = "pushed" => labels'[u] = labels[u] /\ u \in writers'
    BY DEF InternerInvariant, TypeOK, LockHeld, LockRead, LockWrite, Goto
  <2> QED
    BY <2>1, <2>2, TableKept DEF LockRead, LockWrite
<1>4. PoisonedWhenFull'
  BY DEF InternerInvariant, PoisonedWhenFull, LockRead, LockWrite, tableVars
<1> QED
  BY <1>1, <1>2, <1>3, <1>4 DEF InternerInvariant

\* What a lookup finds is an id that was given.
LEMMA FoundIsId ==
  ASSUME InternerInvariant, NEW l \in LabelSets, NEW id \in Found(l)
  PROVE  /\ id \in Id
         /\ id + 1 \in 1..Len(series)
         /\ series[id + 1] = l
  BY InternerAssumption
     DEF InternerInvariant, TypeOK, Listed, Found, Matches, Id

LEMMA LookUpKeeps ==
  ASSUME InternerInvariant, NEW t \in Threads, LookUp(t) \/ LookUpAgain(t)
  PROVE  InternerInvariant'
<1>0. labels[t] \in LabelSets
  BY InternerAssumption DEF InternerInvariant, TypeOK, LockHeld, LookUp, LookUpAgain
<1>1. TypeOK'
  <2>1. Found(labels[t]) \subseteq Id
    BY <1>0, FoundIsId
  <2> QED
    BY <2>1 DEF InternerInvariant, TypeOK, LookUp, LookUpAgain, FoundAgain, Return,
       ReleaseRead, ReleaseWrite, Goto, Places, tableVars
<1>2. LockHeld'
  BY InternerAssumption, <1>0
     DEF InternerInvariant, TypeOK, LockHeld, LookUp, LookUpAgain, Return,
         ReleaseRead, ReleaseWrite, Goto, tableVars
<1>3. Listed' /\ OneIdPerLabelSet'
  <2>1. \A u \in Threads : pc'[u] = "pushed" <=> pc[u] = "pushed"
    BY DEF InternerInvariant, TypeOK, LookUp, LookUpAgain, Return, Goto
  <2>2. \A u \in Threads : pc[u] = "pushed" => labels'[u] = labels[u] /\ u \in writers'
    BY DEF InternerInvariant, TypeOK, LockHeld, LookUp, LookUpAgain, Return,
       ReleaseWrite, Goto
  <2> QED
    BY <2>1, <2>2, TableKept DEF LookUp, LookUpAgain
<1>4. PoisonedWhenFull'
  BY DEF InternerInvariant, PoisonedWhenFull, LookUp, LookUpAgain, tableVars
<1> QED
  BY <1>1, <1>2, <1>3, <1>4 DEF InternerInvariant

\* A label set that is not found under the write lock is no series yet:
\* nobody else is between the two appends.
LEMMA NotFoundIsNew ==
  ASSUME InternerInvariant, NEW t \in Threads, pc[t] = "writing",
         Found(labels[t]) = {}, NEW i \in 1..Len(series)
  PROVE  series[i] # labels[t] /\ i - 1 \in byHash[Hash[series[i]]]
<1>1. ~Pushed(i)
  BY DEF InternerInvariant, TypeOK, LockHeld, Pushed
<1>2. i - 1 \in byHash[Hash[series[i]]]
  BY <1>1 DEF InternerInvariant, Listed
<1>3. (i - 1) + 1 = i
  OBVIOUS
<1> QED
  BY <1>2, <1>3 DEF Found, Matches

LEMMA PushSeriesKeeps ==
  ASSUME InternerInvariant, NEW t \in Threads, PushSeries(t)
  PROVE  InternerInvariant'
<1> USE InternerAssumption
<1>0. /\ labels[t] \in LabelSets
      /\ series \in Seq(LabelSets)
      /\ Len(series) \in Nat
      /\ Found(labels[t]) = {}
  BY DEF InternerInvariant, TypeOK, LockHeld, PushSeries, FoundAgain
<1>1. /\ series' = Append(series, labels[t])
      /\ series' \in Seq(LabelSets)
      /\ Len(series') = Len(series) + 1
      /\ \A i \in 1..Len(series) : series'[i] = series[i]
      /\ series'[Len(series) + 1] = labels[t]
  BY <1>0 DEF PushSeries
<1>2. TypeOK'
  BY <1>0, <1>1
     DEF InternerInvariant, TypeOK, PushSeries, Full, Goto, Places, lockVars
<1>3. LockHeld'
  BY DEF InternerInvariant, TypeOK, LockHeld, PushSeries, Goto, lockVars
<1>4. t \in writers /\ t \in writers' /\ pc'[t] = "pushed" /\ labels'[t] = labels[t]
  BY DEF InternerInvariant, TypeOK, LockHeld, PushSeries, Goto, lockVars
<1>5. Listed'
  <2>1. ASSUME NEW i \in 1..Len(series')
        PROVE  (i - 1 \in byHash[Hash[series[i]]] \/ Pushed(i))'
    <3>1. CASE i \in 1..Len(series)
      BY <3>1, <1>0, <1>1, NotFoundIsNew DEF PushSeries
    <3>2. CASE i = Len(series) + 1
      BY <3>2, <1>1, <1>4 DEF Pushed
    <3> QED
      BY <3>1, <3>2, <1>0, <1>1
  <2>2. ASSUME NEW h \in Hashes, NEW id \in byHash'[h]
        PROVE  (id + 1 \in 1..Len(series) /\ Hash[series[id + 1]] = h)'
    <3>1. id \in byHash[h] /\ id + 1 \in 1..Len(series) /\ Hash[series[id + 1]] = h
      BY <2>2 DEF InternerInvariant, Listed, PushSeries
    <3> QED
      BY <3>1, <1>0, <1>1
  <2>3. ASSUME NEW u \in Threads, pc'[u] = "pushed"
        PROVE  u = t
    BY <2>3, <1>4 DEF InternerInvariant, TypeOK, LockHeld, PushSeries, Goto
  <2>4. Len(series) \notin byHash[Hash[labels[t]]]
    BY <1>0 DEF InternerInvariant, Listed, TypeOK
  <2> QED
    BY <2>1, <2>2, <2>3, <2>4, <1>0, <1>1, <1>4 DEF Listed, PushSeries
<1>6. OneIdPerLabelSet'
  <2>1. \A i \in 1..Len(series) : series[i] # labels[t]
    BY <1>0, NotFoundIsNew DEF PushSeries
  <2>2. ASSUME NEW i \in 1..Len(series'), NEW j \in 1..Len(series'),
               series'[i] = series'[j]
        PROVE  i = j
    BY <2>1, <2>2, <1>0, <1>1 DEF InternerInvariant, OneIdPerLabelSet
  <2> QED
    BY <2>2 DEF OneIdPerLabelSet
<1>7. PoisonedWhenFull'
  BY <1>0 DEF InternerInvariant, TypeOK, PoisonedWhenFull, PushSeries, Full, lockVars
<1> QED
  BY <1>2, <1>3, <1>5, <1>6, <1>7 DEF InternerInvariant

LEMMA PushIdKeeps ==
  ASSUME InternerInvariant, NEW t \in Threads, PushId(t)
  PROVE  InternerInvariant'
<1> USE InternerAssumption
<1> DEFINE l == labels[t]
<1>0. /\ l \in LabelSets
      /\ Hash[l] \in Hashes
      /\ Len(series) \in Nat \ {0}
      /\ l = series[Len(series)]
      /\ t \in writers
  BY DEF InternerInvariant, TypeOK, LockHeld, Listed, PushId
<1>1. IdOfLast \in Id /\ IdOfLast + 1 = Len(series)
  BY <1>0 DEF InternerInvariant, TypeOK, IdOfLast, Id
<1>2. \A h \in Hashes :
          byHash'[h] = IF h = Hash[l] THEN byHash[h] \cup {IdOfLast} ELSE byHash[h]
  BY <1>0 DEF InternerInvariant, TypeOK, PushId
<1>3. TypeOK'
  BY <1>0, <1>1
     DEF InternerInvariant, TypeOK, PushId, Return, ReleaseWrite, Goto, Places
<1>4. LockHeld'
  BY <1>0 DEF InternerInvariant, TypeOK, LockHeld, PushId, Return, ReleaseWrite, Goto
<1>5. \A u \in Threads : pc'[u] # "pushed"
  BY <1>0 DEF InternerInvariant, TypeOK, LockHeld, PushId, Return, Goto
<1>6. Listed'
  <2>1. ASSUME NEW i \in 1..Len(series)
        PROVE  i - 1 \in byHash'[Hash[series[i]]]
    <3>1. Hash[series[i]] \in Hashes
      BY DEF InternerInvariant, TypeOK
    <3>2. CASE Pushed(i)
      BY <3>2, <1>0, <1>2 DEF Pushed, IdOfLast
    <3>3. CASE i - 1 \in byHash[Hash[series[i]]]
      BY <3>1, <3>3, <1>2
    <3> QED
      BY <3>2, <3>3 DEF InternerInvariant, Listed
  <2>2. ASSUME NEW h \in Hashes, NEW id \in byHash'[h]
        PROVE  id + 1 \in 1..Len(series) /\ Hash[series[id + 1]] = h
    <3>1. CASE id \in byHash[h]
      BY <3>1 DEF InternerInvariant, Listed
    <3>2. CASE id \notin byHash[h]
      <4>1. h = Hash[l] /\ id = IdOfLast
        BY <2>2, <3>2, <1>2
      <4> QED
        BY <4>1, <1>0, <1>1
    <3> QED
      BY <3>1, <3>2
  <2>3. series' = series
    BY DEF PushId
  <2> QED
    BY <2>1, <2>2, <2>3, <1>5 DEF Listed, Pushed
<1>7. OneIdPerLabelSet'
  BY DEF InternerInvariant, OneIdPerLabelSet, PushId
<1>8. PoisonedWhenFull'
  BY DEF InternerInvariant, PoisonedWhenFull, PushId
<1> QED
  BY <1>3, <1>4, <1>6, <1>7, <1>8 DEF InternerInvariant

\* Every step keeps the invariant.
LEMMA NextKeeps == InternerInvariant /\ [Next]_vars => InternerInvariant'
<1> SUFFICES ASSUME InternerInvariant, [Next]_vars PROVE InternerInvariant'
  OBVIOUS
<1>1. CASE UNCHANGED vars
  BY <1>1 DEF InternerInvariant, TypeOK, LockHeld, Listed, Pushed, OneIdPerLabelSet,
     PoisonedWhenFull, vars, tableVars, lockVars, callVars
<1>2. ASSUME NEW t \in Threads, NEW l \in LabelSets, Call(t, l)
      PROVE  InternerInvariant'
  BY <1>2, CallKeeps
<1>3. ASSUME NEW t \in Threads, Step(t)
      PROVE  InternerInvariant'
  BY <1>3, PanicKeeps, LockKeeps, LookUpKeeps, PushSeriesKeeps, PushIdKeeps DEF Step
<1> QED
  BY <1>1, <1>2, <1>3 DEF Next

\* The inductive invariant: who holds the lock, and that every series is
\* listed under its hash or about to be.
THEOREM InternerInvariantHolds == Spec => []InternerInvariant
  BY InitInterner, NextKeeps, PTL DEF Spec

\* The ids fit in a u32, as only the last thread to find none left panics.
THEOREM InternerTypeCorrect == Spec => []TypeOK
  BY InternerInvariantHolds, PTL DEF InternerInvariant

\* However many threads meet a label set for the first time at once, it is
\* given one id.
THEOREM LabelSetsHaveOneId == Spec => []OneIdPerLabelSet
  BY InternerInvariantHolds, PTL DEF InternerInvariant

----------------------------------------------------------------------------
(* The refinement.                                                         *)

\* The table of ids changes with the interner's tables only.
LEMMA GivenUnchanged ==
  ASSUME UNCHANGED tableVars
  PROVE  IdsGiven' = IdsGiven
<1>1. series' = series /\ byHash' = byHash
  BY DEF tableVars
<1> QED
  BY <1>1 DEF IdsGiven, Ids

\* An id is given when it is listed, and it is the label set's own.
IdsOwned ==
    /\ \A id \in Ids : /\ id \in Nat
                       /\ id + 1 \in 1..Len(series)
                       /\ series[id + 1] \in LabelSets
                       /\ series[id + 1] \in DOMAIN IdsGiven
                       /\ IdsGiven[series[id + 1]] = id
    /\ \A l \in DOMAIN IdsGiven : /\ IdsGiven[l] \in Ids
                                  /\ series[IdsGiven[l] + 1] = l
    /\ {IdsGiven[l] : l \in DOMAIN IdsGiven} = Ids

LEMMA GivenFacts == InternerInvariant => IdsOwned
<1> SUFFICES ASSUME InternerInvariant PROVE IdsOwned
  OBVIOUS
<1> USE InternerAssumption
<1>1. ASSUME NEW id \in Ids
      PROVE  /\ id \in Nat
             /\ id + 1 \in 1..Len(series)
             /\ series[id + 1] \in LabelSets
  BY DEF InternerInvariant, TypeOK, Listed, Ids, Id
<1>2. DOMAIN IdsGiven = {series[id + 1] : id \in Ids}
  BY DEF IdsGiven
<1>3. ASSUME NEW l \in DOMAIN IdsGiven
      PROVE  IdsGiven[l] \in Ids /\ series[IdsGiven[l] + 1] = l
  BY <1>2 DEF IdsGiven
<1>4. ASSUME NEW id \in Ids
      PROVE  series[id + 1] \in DOMAIN IdsGiven /\ IdsGiven[series[id + 1]] = id
  <2>1. series[id + 1] \in DOMAIN IdsGiven
    BY <1>2
  <2>2. PICK other \in Ids : /\ other = IdsGiven[series[id + 1]]
                             /\ series[other + 1] = series[id + 1]
    BY <2>1, <1>3
  <2>3. other + 1 = id + 1
    BY <2>2, <1>1 DEF InternerInvariant, OneIdPerLabelSet
  <2> QED
    BY <2>1, <2>2, <2>3, <1>1
<1>5. {IdsGiven[l] : l \in DOMAIN IdsGiven} = Ids
  BY <1>3, <1>4
<1> QED
  BY <1>1, <1>3, <1>4, <1>5 DEF IdsOwned

\* While nobody is between the two appends, the ids given are 0..n - 1.
IdsDense == (\A t \in Threads : pc[t] # "pushed") => Ids = 0..Len(series) - 1

LEMMA IdsAreDense == InternerInvariant => IdsDense
<1> SUFFICES ASSUME InternerInvariant, \A t \in Threads : pc[t] # "pushed"
             PROVE  Ids = 0..Len(series) - 1
  BY DEF IdsDense
<1> USE InternerAssumption
<1>1. Len(series) \in Nat
  BY DEF InternerInvariant, TypeOK
<1>2. ASSUME NEW id \in 0..Len(series) - 1
      PROVE  id \in Ids
  <2>1. id + 1 \in 1..Len(series) /\ (id + 1) - 1 = id
    BY <1>1
  <2>2. ~Pushed(id + 1)
    BY DEF InternerInvariant, TypeOK, Pushed
  <2>3. id \in byHash[Hash[series[id + 1]]]
    BY <2>1, <2>2 DEF InternerInvariant, Listed
  <2>4. Hash[series[id + 1]] \in Hashes
    BY <2>1 DEF InternerInvariant, TypeOK
  <2> QED
    BY <2>3, <2>4 DEF Ids
<1>3. ASSUME NEW id \in Ids
      PROVE  id \in 0..Len(series) - 1
  BY <1>1, GivenFacts DEF IdsOwned
<1> QED
  BY <1>2, <1>3

\* What a lookup finds is the id the label set was given.
LEMMA FoundIsGiven ==
  ASSUME InternerInvariant, NEW l \in LabelSets, NEW id \in Found(l)
  PROVE  l \in DOMAIN IdsGiven /\ IdsGiven[l] = id
<1>1. id \in Ids /\ series[id + 1] = l
  BY InternerAssumption DEF Found, Matches, Ids
<1> QED
  BY <1>1, GivenFacts DEF IdsOwned

LEMMA CallImplementsAsk ==
  ASSUME InternerInvariant, NEW t \in Threads, NEW l \in LabelSets, Call(t, l)
  PROVE  Abstract!Ask(t, l)
<1>1. IdsGiven' = IdsGiven
  BY GivenUnchanged DEF Call
<1>2. labels[t] = None
  BY DEF InternerInvariant, LockHeld, Call
<1> QED
  BY <1>1, <1>2 DEF Call, Abstract!Ask

LEMMA PanicImplementsPanic ==
  ASSUME InternerInvariant, NEW t \in Threads, PoisonedLock(t) \/ Overflow(t)
  PROVE  Abstract!Panic(t)
<1>1. IdsGiven' = IdsGiven
  BY GivenUnchanged DEF PoisonedLock, Overflow
<1>2. labels[t] # None
  BY DEF InternerInvariant, LockHeld, PoisonedLock, Overflow
<1>3. \A u \in Threads : pc[u] # "pushed"
  BY DEF InternerInvariant, TypeOK, LockHeld, PoisonedLock, Overflow
<1>4. Len(series) = MaxSeries
  BY InternerAssumption
     DEF InternerInvariant, TypeOK, PoisonedWhenFull, PoisonedLock, Overflow, Full
<1>5. Abstract!GivenBelow(MaxSeries)
  BY <1>3, <1>4, IdsAreDense, GivenFacts DEF IdsDense, IdsOwned, Abstract!GivenBelow, Abstract!Given
<1> QED
  BY <1>1, <1>2, <1>5 DEF PoisonedLock, Overflow, Abstract!Panic

LEMMA LookUpImplementsAnswer ==
  ASSUME InternerInvariant, NEW t \in Threads, LookUp(t) \/ LookUpAgain(t)
  PROVE  Abstract!Answer(t) \/ UNCHANGED Abstract!idVars
<1>1. IdsGiven' = IdsGiven
  BY GivenUnchanged DEF LookUp, LookUpAgain
<1>2. labels[t] \in LabelSets /\ labels[t] # None
  BY InternerAssumption DEF InternerInvariant, TypeOK, LockHeld, LookUp, LookUpAgain
<1>3. ASSUME NEW id \in Found(labels[t]), Return(t, id)
      PROVE  Abstract!Answer(t)
  <2>1. labels[t] \in DOMAIN IdsGiven /\ IdsGiven[labels[t]] = id
    BY <1>2, FoundIsGiven
  <2> QED
    BY <2>1, <1>1, <1>2, <1>3 DEF Return, Abstract!Answer, Abstract!Given
<1>4. CASE UNCHANGED <<labels, returned>>
  BY <1>1, <1>4 DEF Abstract!idVars
<1> QED
  BY <1>3, <1>4 DEF LookUp, LookUpAgain, FoundAgain

LEMMA PushSeriesIsStutter ==
  ASSUME InternerInvariant, NEW t \in Threads, PushSeries(t)
  PROVE  UNCHANGED Abstract!idVars
<1>1. Ids' = Ids
  BY DEF PushSeries, Ids
<1>2. \A id \in Ids : series'[id + 1] = series[id + 1]
  <2>1. series \in Seq(LabelSets) /\ labels[t] \in LabelSets
    BY InternerAssumption DEF InternerInvariant, TypeOK, LockHeld, PushSeries
  <2>2. \A i \in 1..Len(series) : series'[i] = series[i]
    BY <2>1 DEF PushSeries
  <2> QED
    BY <2>2, GivenFacts DEF IdsOwned
<1>3. IdsGiven' = IdsGiven
  <2>1. {series'[id + 1] : id \in Ids} = {series[id + 1] : id \in Ids}
    BY <1>2
  <2>2. ASSUME NEW l
        PROVE  (CHOOSE id \in Ids : series'[id + 1] = l)
               = (CHOOSE id \in Ids : series[id + 1] = l)
    BY <1>2
  <2>3. IdsGiven' = [l \in {series'[id + 1] : id \in Ids} |->
                       CHOOSE id \in Ids : series'[id + 1] = l]
    BY <1>1 DEF IdsGiven
  <2>4. IdsGiven = [l \in {series'[id + 1] : id \in Ids} |->
                       CHOOSE id \in Ids : series'[id + 1] = l]
    BY <2>1, <2>2, Zenon DEF IdsGiven
  <2> QED
    BY <2>3, <2>4
<1> QED
  BY <1>3 DEF PushSeries, Abstract!idVars

LEMMA PushIdImplementsAnswer ==
  ASSUME InternerInvariant, NEW t \in Threads, PushId(t)
  PROVE  Abstract!Answer(t)
<1> USE InternerAssumption
<1> DEFINE l == labels[t]
           n == Len(series) - 1
<1>1. /\ l \in LabelSets
      /\ Hash[l] \in Hashes
      /\ n \in 0..MaxSeries - 1
      /\ Len(series) = n + 1
      /\ series[n + 1] = l
      /\ n \notin byHash[Hash[l]]
  BY DEF InternerInvariant, TypeOK, LockHeld, Listed, PushId
<1>2. IdsOwned' /\ IdsDense'
  <2>1. InternerInvariant'
    BY PushIdKeeps
  <2>2. InternerInvariant' => IdsOwned' /\ IdsDense'
    BY GivenFacts, IdsAreDense, PTL
  <2> QED
    BY <2>1, <2>2
<1>3. Ids' = Ids \cup {n}
  <2>1. \A h \in Hashes :
            byHash'[h] = IF h = Hash[l] THEN byHash[h] \cup {n} ELSE byHash[h]
    BY <1>1 DEF InternerInvariant, TypeOK, PushId, IdOfLast
  <2>2. ASSUME NEW id \in Ids'
        PROVE  id \in Ids \cup {n}
    <3>1. PICK h \in Hashes : id \in byHash'[h]
      BY DEF Ids
    <3>2. id \in byHash[h] \/ id = n
      BY <3>1, <2>1
    <3> QED
      BY <3>2 DEF Ids
  <2>3. ASSUME NEW id \in Ids \cup {n}
        PROVE  id \in Ids'
    <3>1. PICK h \in Hashes : id \in byHash[h] \/ (h = Hash[l] /\ id = n)
      BY <1>1 DEF Ids
    <3>2. id \in byHash'[h]
      BY <3>1, <2>1
    <3> QED
      BY <3>2 DEF Ids
  <2> QED
    BY <2>2, <2>3
<1>4. series' = series
  BY DEF PushId
<1>5. Ids' = 0..n
  <2>1. \A u \in Threads : pc'[u] # "pushed"
    BY DEF InternerInvariant, TypeOK, LockHeld, PushId, Return, Goto
  <2>2. Ids' = 0..Len(series') - 1
    BY <2>1, <1>2 DEF IdsDense
  <2> QED
    BY <2>2, <1>4
<1>6. n \notin Ids
  <2>1. ASSUME NEW h \in Hashes, n \in byHash[h]
        PROVE  FALSE
    <3>1. Hash[series[n + 1]] = h
      BY <2>1 DEF InternerInvariant, Listed
    <3> QED
      BY <3>1, <2>1, <1>1
  <2> QED
    BY <2>1 DEF Ids
<1>7. Ids = 0..n - 1
  <2>1. Ids = (0..n) \ {n}
    BY <1>3, <1>5, <1>6
  <2>2. n \in Int
    BY <1>1
  <2> HIDE DEF n
  <2> QED
    BY <2>1, <2>2
<1>8. l \notin DOMAIN IdsGiven
  <2>1. SUFFICES ASSUME l \in DOMAIN IdsGiven PROVE FALSE
    OBVIOUS
  <2>2. PICK id \in Ids : series[id + 1] = l /\ id + 1 \in 1..Len(series)
    BY <2>1, GivenFacts DEF IdsOwned
  <2>3. id + 1 = n + 1
    BY <2>2, <1>1 DEF InternerInvariant, OneIdPerLabelSet
  <2> QED
    BY <2>2, <2>3, <1>1, <1>6, GivenFacts DEF IdsOwned
<1>9. DOMAIN IdsGiven' = DOMAIN IdsGiven \cup {l}
  <2>1. DOMAIN IdsGiven = {series[id + 1] : id \in Ids}
    BY DEF IdsGiven
  <2>2. DOMAIN IdsGiven' = {series[id + 1] : id \in Ids \cup {n}}
    BY <1>3, <1>4 DEF IdsGiven
  <2> QED
    BY <2>1, <2>2, <1>1
<1>10. /\ \A k \in DOMAIN IdsGiven : IdsGiven'[k] = IdsGiven[k]
       /\ IdsGiven'[l] = n
  <2>1. \A id \in Ids' : IdsGiven'[series[id + 1]] = id
    BY <1>2, <1>4 DEF IdsOwned
  <2>2. \A k \in DOMAIN IdsGiven : IdsGiven[k] \in Ids /\ series[IdsGiven[k] + 1] = k
    BY GivenFacts DEF IdsOwned
  <2> QED
    BY <2>1, <2>2, <1>1, <1>3
<1>11. IdsGiven' = [k \in DOMAIN IdsGiven \cup {l} |->
                      IF k \in DOMAIN IdsGiven THEN IdsGiven[k] ELSE n]
  <2>1. IdsGiven' = [k \in DOMAIN IdsGiven' |-> IdsGiven'[k]]
    BY DEF IdsGiven
  <2> QED
    BY <2>1, <1>8, <1>9, <1>10
<1>12. Abstract!GivenBelow(n)
  BY <1>7, GivenFacts DEF IdsOwned, Abstract!GivenBelow, Abstract!Given
<1>13. returned' = [returned EXCEPT ![t] = n] /\ labels' = [labels EXCEPT ![t] = None]
  BY DEF PushId, Return, IdOfLast
<1> QED
  BY <1>1, <1>8, <1>10, <1>11, <1>12, <1>13 DEF Abstract!Answer, Abstract!Given

LEMMA InitImplementsInit == Init => Abstract!Init
<1> SUFFICES ASSUME Init PROVE Abstract!Init
  OBVIOUS
<1>1. Ids = {}
  BY DEF Init, Ids
<1>2. IdsGiven = [l \in {} |-> 0]
  BY <1>1 DEF IdsGiven
<1> QED
  BY <1>2 DEF Init, Abstract!Init

LEMMA NextImplementsNext ==
  InternerInvariant /\ [Next]_vars => [Abstract!Next]_(Abstract!idVars)
<1> SUFFICES ASSUME InternerInvariant, [Next]_vars
             PROVE  Abstract!Next \/ UNCHANGED Abstract!idVars
  OBVIOUS
<1>1. CASE UNCHANGED vars
  BY <1>1, GivenUnchanged DEF vars, callVars, Abstract!idVars
<1>2. ASSUME NEW t \in Threads, NEW l \in LabelSets, Call(t, l)
      PROVE  Abstract!Next
  BY <1>2, CallImplementsAsk DEF Abstract!Next
<1>3. ASSUME NEW t \in Threads, Step(t)
      PROVE  Abstract!Next \/ UNCHANGED Abstract!idVars
  <2>1. CASE PoisonedLock(t) \/ Overflow(t)
    BY <2>1, PanicImplementsPanic DEF Abstract!Next
  <2>2. CASE LockRead(t) \/ LockWrite(t)
    BY <2>2, GivenUnchanged DEF LockRead, LockWrite, Abstract!idVars
  <2>3. CASE LookUp(t) \/ LookUpAgain(t)
    BY <2>3, LookUpImplementsAnswer DEF Abstract!Next
  <2>4. CASE PushSeries(t)
    BY <2>4, PushSeriesIsStutter
  <2>5. CASE PushId(t)
    BY <2>5, PushIdImplementsAnswer DEF Abstract!Next
  <2> QED
    BY <1>3, <2>1, <2>2, <2>3, <2>4, <2>5 DEF Step
<1> QED
  BY <1>1, <1>2, <1>3 DEF Next

\* A call of the interner, with its two locks and two lookups, is one step of
\* a table that never changes or forgets an id.
THEOREM InterningIsAtomic == Spec => ImplementsLabelIds
<1>1. InternerInvariant /\ [Next]_vars => [Abstract!Next]_(Abstract!idVars)
  BY NextImplementsNext
<1> QED
  BY <1>1, InternerInvariantHolds, InitImplementsInit, PTL
     DEF Spec, ImplementsLabelIds, Abstract!Spec

=============================================================================
