---------------------------- MODULE MCSeriesIds ----------------------------
(***************************************************************************)
(* Small instances of SeriesIds for TLC: "a" and "b" collide.              *)
(***************************************************************************)
EXTENDS SeriesIds

CONSTANT MaxCalls       \* calls of one behaviour

VARIABLE calls          \* bound: how many calls began

MCHash == [l \in LabelSets |-> IF l = "c" THEN "h2" ELSE "h1"]

MCInit == Init /\ calls = 0
MCNext == \E t \in Threads :
              \/ Step(t) /\ UNCHANGED calls
              \/ /\ calls < MaxCalls
                 /\ calls' = calls + 1
                 /\ \E l \in LabelSets : Call(t, l)
MCSpec == MCInit /\ [][MCNext]_<<vars, calls>> /\ Fairness
=============================================================================
