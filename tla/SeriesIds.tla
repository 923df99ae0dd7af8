------------------------------ MODULE SeriesIds ------------------------------
(***************************************************************************)
(* The series interner (series_ids.rs): a process-wide table from label    *)
(* sets to ids behind a readers-writer lock.  A thread looks its label set *)
(* up under the read lock, and only if it is not there takes the write     *)
(* lock, looks it up again, and appends it.  What is read under a lock is  *)
(* one step, as the lock lets nobody change it; the two appends are two.   *)
(*                                                                         *)
(* A label set is opaque: the code sorts the pairs by name first, and no   *)
(* caller passes one name twice.                                           *)
(***************************************************************************)
EXTENDS Integers, Sequences

CONSTANTS
    LabelSets,
    Hashes,
    Hash,       \* [LabelSets -> Hashes], with collisions
    Threads,    \* request handlers, the engine, query threads
    MaxSeries,  \* 2^32: an id is a u32
    None

ASSUME InternerAssumption ==
    /\ Hash \in [LabelSets -> Hashes]
    /\ MaxSeries \in Nat
    /\ None \notin LabelSets
    /\ None \notin Nat

VARIABLES
    series,     \* the series; the id of series[i] is i - 1
    byHash,     \* by hash: the ids of the label sets that hash to it
    readers,    \* the threads that hold the read lock
    writers,    \* the threads that hold the write lock
    poisoned,   \* a thread panicked while it held the write lock
    pc,         \* by thread: how far its call is
    labels,     \* by thread: the label set of its call, or None
    returned    \* by thread: the id its last call returned, or None

tableVars == <<series, byHash>>
lockVars == <<readers, writers, poisoned>>
callVars == <<pc, labels, returned>>
vars == <<tableVars, lockVars, callVars>>

Goto(t, place) == pc' = [pc EXCEPT ![t] = place]

\* (mutant) a hash collision is taken for the label set itself
MatchesHashOnly(l, id) == TRUE

\* Two label sets with one hash are told apart by their labels.
Matches(l, id) == series[id + 1] = l

Found(l) == {id \in byHash[Hash[l]] : Matches(l, id)}

Return(t, id) ==
    /\ returned' = [returned EXCEPT ![t] = id]
    /\ labels' = [labels EXCEPT ![t] = None]
    /\ Goto(t, "idle")

Call(t, l) ==
    /\ pc[t] = "idle"
    /\ labels' = [labels EXCEPT ![t] = l]
    /\ returned' = [returned EXCEPT ![t] = None]
    /\ Goto(t, "read")
    /\ UNCHANGED <<tableVars, lockVars>>

\* A poisoned lock is an error, and the expect on it panics.
PoisonedLock(t) ==
    /\ poisoned
    /\ \/ pc[t] = "read" /\ writers = {}
       \/ pc[t] = "write" /\ writers = {} /\ readers = {}
    /\ labels' = [labels EXCEPT ![t] = None]
    /\ Goto(t, "idle")
    /\ UNCHANGED <<tableVars, lockVars, returned>>

LockRead(t) ==
    /\ pc[t] = "read"
    /\ writers = {}
    /\ ~poisoned
    /\ readers' = readers \cup {t}
    /\ Goto(t, "reading")
    /\ UNCHANGED <<tableVars, writers, poisoned, labels, returned>>

\* (mutant) the read guard lives until the call returns
ReleaseReadLate(t) == UNCHANGED readers

\* The read guard is dropped at the end of its block.
ReleaseRead(t) == readers' = readers \ {t}

LookUp(t) ==
    /\ pc[t] = "reading"
    /\ IF Found(labels[t]) # {}
       THEN \E id \in Found(labels[t]) : Return(t, id)
       ELSE Goto(t, "write") /\ UNCHANGED <<labels, returned>>
    /\ ReleaseRead(t)
    /\ UNCHANGED <<tableVars, writers, poisoned>>

LockWrite(t) ==
    /\ pc[t] = "write"
    /\ readers = {} /\ writers = {}
    /\ ~poisoned
    /\ writers' = writers \cup {t}
    /\ Goto(t, "writing")
    /\ UNCHANGED <<tableVars, readers, poisoned, labels, returned>>

ReleaseWrite(t) == writers' = writers \ {t}

\* (mutant) what the first lookup missed is appended without a second one
FoundAgainNever(l) == {}

\* The lookup under the write lock: another thread may have been first.
FoundAgain(l) == Found(l)

LookUpAgain(t) ==
    /\ pc[t] = "writing"
    /\ \E id \in FoundAgain(labels[t]) : Return(t, id)
    /\ ReleaseWrite(t)
    /\ UNCHANGED <<tableVars, readers, poisoned>>

\* (mutant) one id more than a u32 holds
FullOffByOne == Len(series) > MaxSeries

Full == Len(series) >= MaxSeries

\* No id is left: the conversion to u32 panics under the write lock.
Overflow(t) ==
    /\ pc[t] = "writing"
    /\ FoundAgain(labels[t]) = {}
    /\ Full
    /\ poisoned' = TRUE
    /\ ReleaseWrite(t)
    /\ labels' = [labels EXCEPT ![t] = None]
    /\ Goto(t, "idle")
    /\ UNCHANGED <<tableVars, readers, returned>>

PushSeries(t) ==
    /\ pc[t] = "writing"
    /\ FoundAgain(labels[t]) = {}
    /\ ~Full
    /\ series' = Append(series, labels[t])
    /\ Goto(t, "pushed")
    /\ UNCHANGED <<byHash, lockVars, labels, returned>>

IdOfLast == Len(series) - 1

PushId(t) ==
    /\ pc[t] = "pushed"
    /\ byHash' = [byHash EXCEPT ![Hash[labels[t]]] = @ \cup {IdOfLast}]
    /\ Return(t, IdOfLast)
    /\ ReleaseWrite(t)
    /\ UNCHANGED <<series, readers, poisoned>>

Init ==
    /\ series = <<>>
    /\ byHash = [h \in Hashes |-> {}]
    /\ readers = {}
    /\ writers = {}
    /\ poisoned = FALSE
    /\ pc = [t \in Threads |-> "idle"]
    /\ labels = [t \in Threads |-> None]
    /\ returned = [t \in Threads |-> None]

Step(t) == \/ PoisonedLock(t)
           \/ LockRead(t)
           \/ LookUp(t)
           \/ LockWrite(t)
           \/ LookUpAgain(t)
           \/ Overflow(t)
           \/ PushSeries(t)
           \/ PushId(t)

Next == \E t \in Threads : Step(t) \/ \E l \in LabelSets : Call(t, l)

Spec == Init /\ [][Next]_vars

----------------------------------------------------------------------------
(* Properties.                                                             *)

Places == {"idle", "read", "reading", "write", "writing", "pushed"}

Id == 0..MaxSeries - 1

\* The type invariant: an id is a u32, the one that is returned when all but
\* one are given included.
TypeOK ==
    /\ series \in Seq(LabelSets)
    /\ Len(series) <= MaxSeries
    /\ byHash \in [Hashes -> SUBSET Id]
    /\ readers \subseteq Threads
    /\ writers \subseteq Threads
    /\ poisoned \in BOOLEAN
    /\ pc \in [Threads -> Places]
    /\ labels \in [Threads -> LabelSets \cup {None}]
    /\ returned \in [Threads -> Id \cup {None}]

\* No label set is given two ids, however the lookups of threads that meet
\* it for the first time interleave.
OneIdPerLabelSet ==
    \A i, j \in 1..Len(series) : series[i] = series[j] => i = j

(* What makes it inductive.                                                *)

\* The lock: at most one writer, and no reader beside it; who is where holds
\* what it needs.
LockHeld ==
    /\ \A t \in Threads : /\ t \in readers <=> pc[t] = "reading"
                          /\ t \in writers <=> pc[t] \in {"writing", "pushed"}
                          /\ pc[t] # "idle" <=> labels[t] # None
    /\ \A t, u \in Threads : t \in writers /\ u \in writers => t = u
    /\ writers # {} => readers = {}

\* A series that is appended and not listed yet is the last, and its writer
\* still holds the lock.
Pushed(i) ==
    \E t \in writers : /\ pc[t] = "pushed"
                       /\ i = Len(series)
                       /\ labels[t] = series[i]

\* Every series is listed under its hash, or just pushed; what is listed is a
\* series.
Listed ==
    /\ \A i \in 1..Len(series) :
          i - 1 \in byHash[Hash[series[i]]] \/ Pushed(i)
    /\ \A h \in Hashes : \A id \in byHash[h] :
          /\ id + 1 \in 1..Len(series)
          /\ Hash[series[id + 1]] = h
    /\ \A t \in Threads : pc[t] = "pushed" =>
          /\ Len(series) > 0
          /\ labels[t] = series[Len(series)]
          /\ Len(series) - 1 \notin byHash[Hash[labels[t]]]

\* The lock is poisoned only by the panic of a thread that found no id left.
PoisonedWhenFull == poisoned => Len(series) = MaxSeries

\* The inductive invariant.
InternerInvariant ==
    /\ TypeOK
    /\ LockHeld
    /\ Listed
    /\ PoisonedWhenFull
    /\ OneIdPerLabelSet

(* The abstract table, and the mapping to it.                              *)

Ids == UNION {byHash[h] : h \in Hashes}

\* The label sets that can be found, with their ids.
IdsGiven ==
    [l \in {series[id + 1] : id \in Ids} |-> CHOOSE id \in Ids : series[id + 1] = l]

Abstract == INSTANCE LabelIds
    WITH ids <- IdsGiven, asked <- labels, answer <- returned

\* Interning is atomic: every call returns the one id of its label set, known
\* before or next in order, and no id is ever changed or forgotten.
ImplementsLabelIds == Abstract!Spec

(* Liveness: a thread that can go on does.  With finitely many calls nobody *)
(* waits for the write lock behind an endless stream of readers.           *)

Fairness == \A t \in Threads : WF_vars(Step(t))
FairSpec == Spec /\ Fairness

\* Every call ends: no thread waits for a lock that it holds itself, or that
\* another one holds for ever.
EveryCallEnds == \A t \in Threads : pc[t] # "idle" ~> pc[t] = "idle"

=============================================================================
