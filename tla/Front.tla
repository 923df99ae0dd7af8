-------------------------------- MODULE Front --------------------------------
(***************************************************************************)
(* The HTTP front of the data plane for queries (lib.rs): an instant query *)
(* is prepared by the engine, its windows are fetched from Prometheus      *)
(* concurrently, and the engine evaluates it; a query the plan does not    *)
(* answer is forwarded to Prometheus or, with --no-forward, refused.       *)
(*                                                                         *)
(* Each request runs beside the others; what they share is the engine      *)
(* thread, which may stop, and Prometheus (external), which may answer a   *)
(* request, fail it, or never answer.  The summaries an evaluation reads   *)
(* are QueryEngine's.                                                      *)
(***************************************************************************)
EXTENDS Naturals, FiniteSets

CONSTANTS
    Requests,
    Windows,        \* the raw windows a planned query may read
    None

ASSUME NoneAssumption ==
    None \notin {"plan", "not_planned", "unsupported", "fetching", "evaluating",
                 "stopped", "no_query", "range"}

VARIABLES
    noForward,  \* the option --no-forward
    running,    \* whether the engine thread runs
    planned,    \* by request: whether it is an instant query the plan holds
    phase,      \* by request: where its handler is
    windows,    \* by request: the windows its query was prepared with
    fetched,    \* by request: the windows whose samples have arrived
    reason,     \* by request: why it is forwarded, when it has to say so
    answer,     \* by request: its response, or None
    failure,    \* by request: history, why the plan did not answer it
    received    \* by request: the forwarded queries Prometheus has received

requestVars == <<phase, windows, fetched, reason, answer, failure, received>>
vars == <<noForward, running, planned, requestVars>>

Answer == [status : {"success", "bad_data", "refused", "upstream", "bad_gateway"},
           execution : {"plan", "forwarded", "refused", None},
           reason : {"unsupported", "fetching", "evaluating", "stopped", None}]

Init ==
    /\ noForward \in BOOLEAN
    /\ running = TRUE
    /\ planned \in [Requests -> BOOLEAN]
    /\ phase = [r \in Requests |-> "none"]
    /\ windows = [r \in Requests |-> {}]
    /\ fetched = [r \in Requests |-> {}]
    /\ reason = [r \in Requests |-> None]
    /\ answer = [r \in Requests |-> None]
    /\ failure = [r \in Requests |-> None]
    /\ received = [r \in Requests |-> 0]

Goes(r, from, to) == phase[r] = from /\ phase' = [phase EXCEPT ![r] = to]

Respond(r, status, execution, why) ==
    /\ phase' = [phase EXCEPT ![r] = "answered"]
    /\ answer' = [answer EXCEPT ![r] =
          [status |-> status, execution |-> execution, reason |-> why]]

\* Sends the request to Prometheus; why becomes a header of the response.
Forward(r, why) ==
    /\ phase' = [phase EXCEPT ![r] = "forwarding"]
    /\ reason' = [reason EXCEPT ![r] = why]
    /\ received' = [received EXCEPT ![r] = @ + 1]
    /\ UNCHANGED answer

\* With --no-forward, the answer to a query the plan does not answer.
NotAnswered(r) ==
    /\ Respond(r, "refused", "refused", None)
    /\ UNCHANGED <<reason, received>>

\* (mutant) a query whose fetch failed is forwarded like an unplanned one
ReasonOfEngineOnly(why) == IF why \in {"not_planned", "fetching"} THEN None ELSE why

\* The response to a forwarded query says why, unless the engine said that
\* the query is not planned.
ReasonOf(why) == IF why = "not_planned" THEN None ELSE why

\* The plan does not answer the query, because of why.
Unanswered(r, why) ==
    /\ failure' = [failure EXCEPT ![r] = why]
    /\ IF noForward THEN NotAnswered(r) ELSE Forward(r, ReasonOf(why))

----------------------------------------------------------------------------
(* The requests.                                                           *)

\* An instant query is asked of the engine.
Query(r) ==
    /\ Goes(r, "none", "preparing")
    /\ UNCHANGED <<noForward, running, planned, windows, fetched, reason, answer, failure, received>>

QueryBad(r) ==
    /\ phase[r] = "none"
    /\ ~planned[r]
    /\ Respond(r, "bad_data", None, None)
    /\ UNCHANGED <<noForward, running, planned, windows, fetched, reason, failure, received>>

\* A request without a query parameter, and a range query, never reach the
\* engine.
PassOn(r, why) ==
    /\ phase[r] = "none"
    /\ ~planned[r]
    /\ failure' = [failure EXCEPT ![r] = why]
    /\ IF noForward THEN NotAnswered(r) ELSE Forward(r, None)
    /\ UNCHANGED <<noForward, running, planned, windows, fetched>>

----------------------------------------------------------------------------
(* answer: three parts, with an await between them.                        *)

\* The engine binds the windows of a planned query; a query without any goes
\* straight back to the engine.
Prepare(r) ==
    /\ running
    /\ phase[r] = "preparing"
    /\ planned[r]
    /\ \E W \in SUBSET Windows :
          /\ windows' = [windows EXCEPT ![r] = W]
          /\ phase' = [phase EXCEPT ![r] = IF W = {} THEN "evaluating" ELSE "fetching"]
    /\ UNCHANGED <<noForward, running, planned, fetched, reason, answer, failure, received>>

\* The query is not planned, or it cannot run or lacks a stored pane.
PrepareFails(r) ==
    /\ running
    /\ phase[r] = "preparing"
    /\ Unanswered(r, IF planned[r] THEN "unsupported" ELSE "not_planned")
    /\ UNCHANGED <<noForward, running, planned, windows, fetched>>

\* (mutant) the first window to arrive is enough
AnyArrived(r, w) == TRUE

\* try_join_all: the evaluation goes on when the last window has arrived.
AllArrived(r, w) == fetched[r] \cup {w} = windows[r]

FetchArrives(r, w) ==
    /\ phase[r] = "fetching"
    /\ w \in windows[r] \ fetched[r]
    /\ fetched' = [fetched EXCEPT ![r] = @ \cup {w}]
    /\ phase' = [phase EXCEPT ![r] = IF AllArrived(r, w) THEN "evaluating" ELSE @]
    /\ UNCHANGED <<noForward, running, planned, windows, reason, answer, failure, received>>

\* One fetch fails or times out: the others are dropped.
FetchFails(r) ==
    /\ phase[r] = "fetching"
    /\ Unanswered(r, "fetching")
    /\ UNCHANGED <<noForward, running, planned, windows, fetched>>

Evaluate(r) ==
    /\ running
    /\ phase[r] = "evaluating"
    /\ Respond(r, "success", "plan", None)
    /\ UNCHANGED <<noForward, running, planned, windows, fetched, reason, failure, received>>

EvaluateFails(r) ==
    /\ running
    /\ phase[r] = "evaluating"
    /\ Unanswered(r, "evaluating")
    /\ UNCHANGED <<noForward, running, planned, windows, fetched>>

\* (mutant) only a send to a stopped engine fails
LosesWhenSent(r) == phase[r] = "preparing"

\* An ask a stopped engine never replies to: its send failed, or its reply
\* sender was dropped with the queue.  Whether the query is planned was then
\* not asked, or not answered.
LosesReply(r) == phase[r] \in {"preparing", "evaluating"}

AskFails(r) ==
    /\ ~running
    /\ LosesReply(r)
    /\ Unanswered(r, "stopped")
    /\ UNCHANGED <<noForward, running, planned, windows, fetched>>

----------------------------------------------------------------------------
(* Forwarding.                                                             *)

\* Prometheus's status and body are the answer.
ForwardArrives(r) ==
    /\ phase[r] = "forwarding"
    /\ Respond(r, "upstream", "forwarded", reason[r])
    /\ UNCHANGED <<noForward, running, planned, windows, fetched, reason, failure, received>>

\* Sending the request or reading the response fails or times out.
ForwardFails(r) ==
    /\ phase[r] = "forwarding"
    /\ Respond(r, "bad_gateway", None, reason[r])
    /\ UNCHANGED <<noForward, running, planned, windows, fetched, reason, failure, received>>

\* The caller goes away: its handler is dropped where it waits.
CallerLeaves(r) ==
    /\ phase[r] \in {"preparing", "fetching", "evaluating", "forwarding"}
    /\ phase' = [phase EXCEPT ![r] = "gone"]
    /\ UNCHANGED <<noForward, running, planned, windows, fetched, reason, answer, failure, received>>

EngineStops ==
    /\ running
    /\ running' = FALSE
    /\ UNCHANGED <<noForward, planned, requestVars>>

Next ==
    \/ \E r \in Requests :
          \/ Query(r)
          \/ QueryBad(r)
          \/ PassOn(r, "no_query")
          \/ PassOn(r, "range")
          \/ Prepare(r)
          \/ PrepareFails(r)
          \/ \E w \in Windows : FetchArrives(r, w)
          \/ FetchFails(r)
          \/ Evaluate(r)
          \/ EvaluateFails(r)
          \/ AskFails(r)
          \/ ForwardArrives(r)
          \/ ForwardFails(r)
          \/ CallerLeaves(r)
    \/ EngineStops

\* The engine runs its queue, and its client's timeout ends every fetch and
\* every forwarded query, whatever Prometheus does.
Fairness ==
    \A r \in Requests :
        /\ WF_vars(Prepare(r) \/ PrepareFails(r))
        /\ WF_vars(Evaluate(r) \/ EvaluateFails(r))
        /\ WF_vars(AskFails(r))
        /\ WF_vars(FetchFails(r))
        /\ WF_vars(ForwardFails(r))

Spec == Init /\ [][Next]_vars /\ Fairness

----------------------------------------------------------------------------
(* Properties.                                                             *)

\* A window that is missing from an evaluation's samples would be read as an
\* empty one (query.rs, evaluate): whatever order fetches end in, fail or
\* time out, the plan answers only from every window it was prepared with.
PlanAnswersFromEveryWindow ==
    \A r \in Requests : answer[r] # None =>
        (answer[r].execution = "plan" => fetched[r] = windows[r])

\* Whichever part fails, Prometheus receives a query once, and never with
\* --no-forward.  The response to a planned query that was forwarded says at
\* which part the plan failed; the response to any other request says nothing,
\* but for one case: when the engine had stopped, the front does not know
\* whether the query is planned, and says "stopped" of every query.
ForwardedOnceSayingWhy ==
    \A r \in Requests :
        /\ received[r] <= IF noForward \/ failure[r] = None THEN 0 ELSE 1
        /\ answer[r] # None /\ received[r] = 1 =>
              answer[r].reason = IF planned[r] \/ failure[r] = "stopped"
                                 THEN failure[r] ELSE None

\* Every request is answered, even when the engine stops between the parts
\* of its evaluation or Prometheus never answers, unless its caller leaves.
EveryRequestAnswered ==
    \A r \in Requests :
        phase[r] # "none" ~> phase[r] = "gone" \/ answer[r] \in Answer

=============================================================================
