------------------------------ MODULE StoredPanes ------------------------------
(***************************************************************************)
(* What the readers and writers of the summary store rely on (sds.rs): each *)
(* definition, a computation with its label constraints and pane width,    *)
(* has panes of its own, by the end they cover.  Nothing done to one       *)
(* definition is seen by another.                                          *)
(***************************************************************************)
EXTENDS Integers

CONSTANTS Keys, Ends, States, Nothing

VARIABLES
    panes,      \* by definition: its stored panes, from end to summary
    answer      \* what the last lookup found

vars == <<panes, answer>>

Init ==
    /\ panes = [k \in Keys |-> <<>>]
    /\ answer = Nothing

Put(k, e, s) ==
    /\ panes' = [panes EXCEPT ![k] =
                    [x \in DOMAIN @ \cup {e} |-> IF x = e THEN s ELSE @[x]]]
    /\ UNCHANGED answer

Look(k, e) ==
    /\ answer' = IF e \in DOMAIN panes[k] THEN panes[k][e] ELSE Nothing
    /\ UNCHANGED panes

\* The panes of definition k that end before `oldest' are dropped.
Drop(k, oldest) ==
    /\ panes' = [panes EXCEPT ![k] = [x \in {x \in DOMAIN @ : x >= oldest} |-> @[x]]]
    /\ UNCHANGED answer

Next ==
    \E k \in Keys, e \in Ends :
        \/ \E s \in States : Put(k, e, s)
        \/ Look(k, e)
        \/ Drop(k, e)

Spec == Init /\ [][Next]_vars

=============================================================================
