------------------------------ MODULE LabelIds ------------------------------
(***************************************************************************)
(* What interning promises (series_ids.rs): each label set has one id,     *)
(* given once, dense from 0, and whoever interns it gets that id.  A call  *)
(* takes effect in one step.                                               *)
(***************************************************************************)
EXTENDS Integers

CONSTANTS
    LabelSets,
    Threads,
    MaxSeries,  \* 2^32: an id is a u32
    None

VARIABLES
    ids,        \* the ids given, by label set
    asked,      \* by thread: the label set it interns, or None
    answer      \* by thread: the id its last call returned, or None

idVars == <<ids, asked, answer>>

Given == DOMAIN ids

\* The ids given so far are 0..n - 1.
GivenBelow(n) == {ids[l] : l \in Given} = 0..n - 1

Ask(t, l) ==
    /\ asked[t] = None
    /\ asked' = [asked EXCEPT ![t] = l]
    /\ answer' = [answer EXCEPT ![t] = None]
    /\ UNCHANGED ids

Answer(t) ==
    /\ asked[t] # None
    /\ \/ asked[t] \in Given /\ UNCHANGED ids
       \/ /\ asked[t] \notin Given
          /\ \E n \in 0..MaxSeries - 1 :
                /\ GivenBelow(n)
                /\ ids' = [l \in Given \cup {asked[t]} |->
                              IF l \in Given THEN ids[l] ELSE n]
    /\ answer' = [answer EXCEPT ![t] = ids'[asked[t]]]
    /\ asked' = [asked EXCEPT ![t] = None]

\* The call panics, which happens only once all ids are given.
Panic(t) ==
    /\ asked[t] # None
    /\ GivenBelow(MaxSeries)
    /\ asked' = [asked EXCEPT ![t] = None]
    /\ UNCHANGED <<ids, answer>>

Init ==
    /\ ids = [l \in {} |-> 0]
    /\ asked = [t \in Threads |-> None]
    /\ answer = [t \in Threads |-> None]

Next == \E t \in Threads :
            \/ \E l \in LabelSets : Ask(t, l)
            \/ Answer(t)
            \/ Panic(t)

Spec == Init /\ [][Next]_idVars

=============================================================================
