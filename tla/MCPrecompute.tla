---------------------------- MODULE MCPrecompute ----------------------------
(***************************************************************************)
(* Two small instances of Precompute for TLC, one chosen in the initial    *)
(* state.  "two": one definition built per sample and one built per batch, *)
(* of different pane widths and retentions, over one metric, beside a      *)
(* metric that only a QueryRun definition reads and one nothing reads.     *)
(* "one": a single definition and a single series, over longer histories.  *)
(***************************************************************************)
EXTENDS Precompute

CONSTANTS Instances     \* the instances explored

VARIABLE instance       \* the one this behaviour is of

MCMetricOf == [x \in Series |->
    CASE x = "a1" -> "a" [] x = "b1" -> "b" [] x = "q" -> "q" [] OTHER -> "u"]
MCReads == [d \in Definitions |-> IF d = "single" THEN "b" ELSE "a"]
MCSelects == [d \in Definitions |-> {"a1", "b1"} \cap Series]
MCPaneMs == [d \in Definitions |-> IF d = "batch" THEN 3 ELSE 2]
\* A retention of whole panes, and ones that are not.
MCRetentionMs == [d \in Definitions |->
    CASE d = "ps" -> 2 [] d = "batch" -> 4 [] OTHER -> 3]
MCTimes == -1..7
MCClocks == {2, 6, 7}

Ingested == counted["unrouted"] + counted["future"] + counted["query_run_only"]
            + counted["late"] + counted["duplicate"] + counted["first_pane"]
            + counted["accepted"]

InstanceSeries == IF instance = "two" THEN {"a1", "q", "u"} ELSE {"b1"}
InstanceTimes == IF instance = "two" THEN 0..6 ELSE -1..7
InstanceClocks == IF instance = "two" THEN {2, 6} ELSE {2, 7}
MaxSamples == IF instance = "two" THEN 3 ELSE 4

\* Of a metric that only a QueryRun reads the time counts, and of one nothing
\* reads nothing does.
TakenSamples ==
    {s \in [series : InstanceSeries, t : InstanceTimes, stale : BOOLEAN] :
        /\ s.series \in {"q", "u"} => ~s.stale
        /\ s.series = "u" => s.t = 0}

MCInit == Init /\ instance \in Instances

MCNext ==
    /\ \/ \E now \in InstanceClocks : BeginIngest(now)
       \/ /\ Ingested < MaxSamples
          /\ \E s \in TakenSamples : TakeSample(s)
       \/ EndIngest
       \/ \E b \in InstanceTimes, now \in InstanceClocks : AdvanceWatermarkAt(b, now)
    /\ UNCHANGED instance

MCSpec == MCInit /\ [][MCNext]_<<vars, instance>>
=============================================================================
