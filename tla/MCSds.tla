--------------------------------- MODULE MCSds ---------------------------------
(* Three families of plans, and plans whose definitions share an id.       *)
EXTENDS Sds

RawOutput == [node |-> 1, id |-> 1, labels |-> 1, boxes |-> 1, from |-> -1, to |-> 0,
              leftOpen |-> TRUE, windows |-> {11}, reads |-> {},
              built |-> "query_run", retention |-> 1]

Runs == {"ingestion_run", "query_run"}

\* Outputs of one to three definitions, in every order of the plan.
Mergeable(n, id) ==
    {[RawOutput EXCEPT !.node = n, !.id = id, !.windows = {10 + n},
                       !.built = b, !.retention = r] : b \in Runs, r \in {1, 2}}

Orders(a, b, c) == {<<a, b, c>>, <<a, c, b>>, <<b, a, c>>, <<b, c, a>>, <<c, a, b>>, <<c, b, a>>}

MergePlans ==
    {[outputs |-> s, queries |-> {{1}, {2, 3}}] : s \in
        UNION {Orders(a, b, [c EXCEPT !.from = w]) : a \in Mergeable(1, 1), b \in Mergeable(2, 1) \cup Mergeable(2, 2),
                               c \in Mergeable(3, 1), w \in {-1, -2}}}

\* Outputs that read each other: any graph of three definitions, and of two
\* definitions one of which has two outputs.
Reading(n) ==
    {[RawOutput EXCEPT !.node = n, !.id = i, !.built = b, !.reads = R] :
        i \in {n, 2}, b \in Runs, R \in SUBSET {1, 2, 3}}

GraphPlans ==
    {[outputs |-> <<a, b, c>>, queries |-> {{3}}] :
        a \in Reading(1), b \in Reading(2), c \in Reading(3)}

\* One output that cannot be read, or read from stored outputs only, or
\* whose width does not fit, after one that can.
Odd ==
    {[RawOutput EXCEPT !.node = 9],
     [RawOutput EXCEPT !.node = 2, !.boxes = 0],
     [RawOutput EXCEPT !.node = 2, !.boxes = 2],
     [RawOutput EXCEPT !.node = 2, !.from = 0],
     [RawOutput EXCEPT !.node = 2, !.leftOpen = FALSE],
     [RawOutput EXCEPT !.node = 2, !.windows = {12, 13}],
     [RawOutput EXCEPT !.node = 2, !.windows = {}],
     [RawOutput EXCEPT !.node = 2, !.windows = {}, !.reads = {1}],
     [RawOutput EXCEPT !.node = 2, !.windows = {}, !.reads = {1}, !.id = 2],
     [RawOutput EXCEPT !.node = 2, !.reads = {3}],
     [RawOutput EXCEPT !.node = 2, !.retention = 4]}
    \cup {[RawOutput EXCEPT !.node = 2, !.from = f, !.to = t] :
            f \in {-4, -3, -2}, t \in {1, 2, 3}}

OddPlans ==
    {[outputs |-> s, queries |-> {q}] :
        s \in UNION {{<<RawOutput, [o EXCEPT !.built = b]>>,
                      <<[o EXCEPT !.built = b], RawOutput>>} : o \in Odd, b \in Runs},
        q \in {{1}, {2}, {1, 2}}}

\* Definitions that share an id, with two widths and two label constraints.
SharedIdPlans ==
    {[outputs |-> <<RawOutput, [RawOutput EXCEPT !.node = 2, !.from = -2],
                    [RawOutput EXCEPT !.node = 3, !.from = f, !.labels = 2]>>,
      queries |-> {}] : f \in {-1, -2}}

MCPlans == MergePlans \cup GraphPlans \cup OddPlans \cup SharedIdPlans
=============================================================================
