---------------------------- MODULE MCQueryEngine ----------------------------
(***************************************************************************)
(* Small instances of QueryEngine for TLC, one chosen in the initial       *)
(* state.  "near" reads the summary that ends at the evaluation time,      *)
(* "far" the one a pane earlier, "both" reads both, "mixed" reads stored   *)
(* panes besides, and "pair" reads a summary of each of two definitions,   *)
(* which share a fetch node there.  "b" is in no pane but its metric is    *)
(* "q", the one the definitions built in a QueryRun read.                  *)
(***************************************************************************)
EXTENDS QueryEngine, TLC

CONSTANTS Instances         \* the instances explored

VARIABLE instance           \* the one this behaviour is of

MCMetricOf == [x \in Series |-> IF x = "a" THEN "a" ELSE "q"]
MCReads == [d \in Definitions |-> "a"]
MCSelects == [d \in Definitions |-> {"a"}]
MCPaneMs == [d \in Definitions |-> 2]
MCRetentionMs == [d \in Definitions |-> 4]
MCQueryRunReads == [d \in QueryRuns |-> "q"]
MCQueryRunPaneMs == [d \in QueryRuns |-> 2]
MCQueryRunRetentionMs == [d \in QueryRuns |-> IF d = "d" THEN 2 ELSE 0]
MCFetchNode == [x \in Queries |-> [d \in QueryRuns |-> IF x = "pair" THEN "d" ELSE d]]
MCKeysAfter == [d \in QueryRuns |-> IF d = "d" THEN 0 ELSE 1]
MCStoredInputs == [x \in Queries |->
    IF x = "mixed" THEN Definitions \X {0, 2} ELSE {}]
MCQueryRunInputs == [x \in Queries |->
    CASE x = "near" -> <<<<"d", 0>>>>
      [] x = "far" -> <<<<"d", 2>>>>
      [] x = "both" -> <<<<"d", 0>>, <<"d", 2>>>>
      [] x = "pair" -> <<<<"d", 0>>, <<"e", 0>>>>
      [] OTHER -> <<<<"d", 0>>>>]
MCSymmetry == Permutations(Clients)

\* An instance: the deliveries, the queries and the times they are evaluated
\* at, the series and times of samples and barriers, and the bounds: how many
\* evaluations run at once, and how many samples are ingested, samples
\* scraped, and summaries read.
Bounds ==
    [racing |-> [delivery |-> "prompt", queries |-> {"near", "far"}, at |-> {4, 6},
                 series |-> {"q"}, times |-> {2, 4, 6}, clock |-> 6,
                 running |-> 2, ingested |-> 0, scraped |-> 2, reads |-> 3],
     late |-> [delivery |-> "late", queries |-> {"near", "far"}, at |-> {4},
               series |-> {"q"}, times |-> {2, 4, 6}, clock |-> 6,
               running |-> 2, ingested |-> 0, scraped |-> 2, reads |-> 3],
     behind |-> [delivery |-> "forwarded", queries |-> {"near", "far"}, at |-> {4},
                 series |-> {"b", "q"}, times |-> {2, 4, 6}, clock |-> 6,
                 running |-> 1, ingested |-> 2, scraped |-> 2, reads |-> 2],
     both |-> [delivery |-> "prompt", queries |-> {"both"}, at |-> {4, 6},
               series |-> {"q"}, times |-> {2, 4, 6}, clock |-> 6,
               running |-> 2, ingested |-> 0, scraped |-> 2, reads |-> 4],
     pair |-> [delivery |-> "prompt", queries |-> {"pair"}, at |-> {4},
               series |-> {"q"}, times |-> {2, 4, 6}, clock |-> 6,
               running |-> 2, ingested |-> 0, scraped |-> 2, reads |-> 4],
     mixed |-> [delivery |-> "prompt", queries |-> {"mixed"}, at |-> {6},
                series |-> {"a", "q"}, times |-> {2, 4, 6, 8, 10}, clock |-> 10,
                running |-> 1, ingested |-> 2, scraped |-> 0, reads |-> 3],
     evicted |-> [delivery |-> "prompt", queries |-> {"near", "both"}, at |-> {2, 4, 6},
                  series |-> {"q"}, times |-> {2, 4, 6}, clock |-> 6,
                  running |-> 2, ingested |-> 0, scraped |-> 2, reads |-> 6]]

Ingested == counted["unrouted"] + counted["future"] + counted["query_run_only"]
            + counted["late"] + counted["duplicate"] + counted["first_pane"]
            + counted["accepted"]

InstanceSamples ==
    [series : Bounds[instance].series, t : Bounds[instance].times, stale : BOOLEAN]
Running == {c \in Clients : evaluation[c] # Idle}

Ingests ==
    \/ BeginIngest(Bounds[instance].clock)
    \/ /\ Ingested < Bounds[instance].ingested
       /\ \E s \in InstanceSamples : TakeSample(s)
    \/ EndIngest
    \/ \E b \in Bounds[instance].times : AdvanceWatermarkAt(b, Bounds[instance].clock)

Evaluates(c) ==
    \/ /\ Cardinality(Running) < Bounds[instance].running
       /\ \E query \in Bounds[instance].queries, at \in Bounds[instance].at :
             Prepare(c, query, at)
    \/ \E q \in QueryRuns : Fetch(c, q)
    \/ Abandon(c)
    \/ Evaluate(c)
    \/ EvaluateMisses(c)
    \/ EvaluateFails(c)

MCInit == QInit /\ instance \in Instances /\ delivery = Bounds[instance].delivery

MCNext ==
    /\ \/ Ingests /\ Forwarded /\ UNCHANGED <<queryVars, externalVars>>
       \/ /\ Cardinality(prometheus) < Bounds[instance].scraped
          /\ \E s \in InstanceSamples : Scrape(s)
       \/ \E c \in Clients : Evaluates(c)
    /\ qstats'.built + qstats'.reused <= Bounds[instance].reads
    /\ UNCHANGED instance

MCSpec == MCInit /\ [][MCNext]_<<allVars, instance>>
=============================================================================
