---------------------------- MODULE MCPerSample ----------------------------
(***************************************************************************)
(* A small instance of PerSample for TLC: two selected series and one that *)
(* is not, over three panes of width 2 after the first.                    *)
(***************************************************************************)
EXTENDS PerSample, FiniteSets

CONSTANTS MaxTaken,     \* samples that open panes hold
          MaxFailed,    \* panes, open or closed, that have failed
          MaxSealed,    \* closed panes remembered
          UnselectedTimes \* the times series that are not selected are seen at

\* The pane ending at 2 is the first; the one ending at 4 may take two
\* samples of a series.
MCTimes == {2, 3, 4, 5, 7}

MCNext == /\ Next
          /\ \A id \in DOMAIN series' \ Selected : series'[id].newest \in UnselectedTimes
          /\ Cardinality({e \in DOMAIN panes : panes[e].failed}')
             + Cardinality({e \in DOMAIN sealed : sealed[e].failed}') <= MaxFailed
          /\ Cardinality(DOMAIN sealed') <= MaxSealed
          /\ Cardinality(TakenSamples)' <= MaxTaken
MCSpec == Init /\ [][MCNext]_vars
=============================================================================
