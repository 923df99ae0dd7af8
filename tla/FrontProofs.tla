------------------------------ MODULE FrontProofs ------------------------------
(***************************************************************************)
(* Proofs about the HTTP front, for any number of requests and windows.    *)
(***************************************************************************)
EXTENDS Front, TLAPS

Phases == {"none", "preparing", "fetching", "evaluating", "forwarding",
           "answered", "gone"}

Types ==
    /\ phase \in [Requests -> Phases]
    /\ DOMAIN windows = Requests /\ DOMAIN fetched = Requests
    /\ DOMAIN reason = Requests /\ DOMAIN answer = Requests
    /\ DOMAIN failure = Requests
    /\ received \in [Requests -> Nat]

\* What the response to r says, forwarded because of why.
Said(r, why) == IF planned[r] \/ why = "stopped" THEN why ELSE None

\* Before it is passed on or answered, nothing has happened to a request
\* that its response could show.
Pending(r) ==
    phase[r] \in {"none", "preparing", "fetching", "evaluating"} =>
        received[r] = 0 /\ answer[r] = None /\ failure[r] = None

\* A request is evaluated with the windows it was prepared with, and only a
\* planned one was prepared.
Parts(r) ==
    /\ phase[r] \in {"fetching", "evaluating"} => planned[r]
    /\ phase[r] \in {"none", "preparing"} => windows[r] = {} /\ fetched[r] = {}
    /\ phase[r] = "evaluating" => fetched[r] = windows[r]

Forwarding(r) ==
    phase[r] = "forwarding" => /\ received[r] = 1 /\ answer[r] = None
                               /\ reason[r] = Said(r, failure[r])

AnswerOK(r) == answer[r] # None =>
                   (answer[r].execution = "plan" => fetched[r] = windows[r])

ReceivedOK(r) ==
    /\ received[r] <= IF noForward \/ failure[r] = None THEN 0 ELSE 1
    /\ answer[r] # None /\ received[r] = 1 => answer[r].reason = Said(r, failure[r])

RequestOK(r) == /\ Pending(r) /\ Parts(r) /\ Forwarding(r)
                /\ AnswerOK(r) /\ ReceivedOK(r)

Inv == Types /\ \A r \in Requests : RequestOK(r)

USE DEF Phases

\* A request that no action touched stays as it was.
LEMMA Untouched ==
    ASSUME NEW r \in Requests, RequestOK(r), noForward' = noForward, planned' = planned,
           phase'[r] = phase[r], windows'[r] = windows[r], fetched'[r] = fetched[r],
           reason'[r] = reason[r], answer'[r] = answer[r], failure'[r] = failure[r],
           received'[r] = received[r]
    PROVE  RequestOK(r)'
  BY DEF RequestOK, Pending, Parts, Forwarding, AnswerOK, ReceivedOK, Said

\* Only request r changes.
Alone(r) == \A s \in Requests \ {r} :
    /\ phase'[s] = phase[s] /\ windows'[s] = windows[s] /\ fetched'[s] = fetched[s]
    /\ reason'[s] = reason[s] /\ answer'[s] = answer[s] /\ failure'[s] = failure[s]
    /\ received'[s] = received[s]

LEMMA UnansweredKeepsIt ==
    ASSUME NEW r \in Requests, Types, RequestOK(r), NEW why,
           \/ why \in {"unsupported", "fetching", "evaluating"} /\ planned[r]
           \/ why = "not_planned" /\ ~planned[r]
           \/ why = "stopped",
           phase[r] \in {"preparing", "fetching", "evaluating"},
           Unanswered(r, why), UNCHANGED <<noForward, planned, windows, fetched>>
    PROVE  Types' /\ RequestOK(r)' /\ Alone(r)
  <1>1. why # None
    BY NoneAssumption
  <1>2. received[r] = 0 /\ answer[r] = None /\ failure[r] = None
    BY DEF RequestOK, Pending
  <1>3. failure'[r] = why /\ failure' = [failure EXCEPT ![r] = why]
    BY DEF Unanswered, Types
  <1>4. CASE noForward
    <2>1. /\ Respond(r, "refused", "refused", None)
          /\ UNCHANGED <<reason, received>>
      BY <1>4 DEF Unanswered, NotAnswered
    <2>2. phase'[r] = "answered" /\ answer'[r].execution = "refused" /\ received'[r] = 0
      BY <2>1, <1>2 DEF Respond, Types
    <2>3. Types' /\ Alone(r)
      BY <2>1, <1>3 DEF Respond, Types, Alone
    <2> QED
      BY <2>2, <2>3 DEF RequestOK, Pending, Parts, Forwarding, AnswerOK, ReceivedOK
  <1>5. CASE ~noForward
    <2>1. Forward(r, ReasonOf(why))
      BY <1>5 DEF Unanswered
    <2>2. /\ phase'[r] = "forwarding" /\ answer'[r] = None /\ received'[r] = 1
          /\ reason'[r] = ReasonOf(why)
      BY <2>1, <1>2 DEF Forward, Types
    <2>3. ReasonOf(why) = Said(r, why)
      BY DEF ReasonOf, Said
    <2>4. Types' /\ Alone(r)
      BY <2>1, <1>3 DEF Forward, Types, Alone
    <2> QED
      BY <2>2, <2>3, <2>4, <1>1, <1>3, <1>5
      DEF RequestOK, Pending, Parts, Forwarding, AnswerOK, ReceivedOK, Said
  <1> QED
    BY <1>4, <1>5

LEMMA PassOnKeepsIt ==
    ASSUME NEW r \in Requests, Types, RequestOK(r), NEW why \in {"no_query", "range"},
           PassOn(r, why)
    PROVE  Types' /\ RequestOK(r)' /\ Alone(r)
  <1>1. why # None
    BY NoneAssumption
  <1>2. /\ received[r] = 0 /\ answer[r] = None /\ failure[r] = None
        /\ windows[r] = {} /\ fetched[r] = {}
    BY DEF RequestOK, Pending, Parts, PassOn
  <1>3. failure'[r] = why /\ failure' = [failure EXCEPT ![r] = why]
    BY DEF PassOn, Types
  <1>4. CASE noForward
    <2>1. /\ Respond(r, "refused", "refused", None)
          /\ UNCHANGED <<noForward, planned, reason, received, windows, fetched>>
      BY <1>4 DEF PassOn, NotAnswered
    <2>2. phase'[r] = "answered" /\ answer'[r].execution = "refused" /\ received'[r] = 0
      BY <2>1, <1>2 DEF Respond, Types
    <2>3. Types' /\ Alone(r)
      BY <2>1, <1>3 DEF Respond, Types, Alone
    <2> QED
      BY <2>1, <2>2, <2>3 DEF RequestOK, Pending, Parts, Forwarding, AnswerOK, ReceivedOK
  <1>5. CASE ~noForward
    <2>1. Forward(r, None) /\ UNCHANGED <<noForward, windows, fetched>>
      BY <1>5 DEF PassOn
    <2>2. /\ phase'[r] = "forwarding" /\ answer'[r] = None /\ received'[r] = 1
          /\ reason'[r] = None
      BY <2>1, <1>2 DEF Forward, Types
    <2>3. Said(r, why) = None /\ planned' = planned
      BY DEF Said, PassOn
    <2>4. Types' /\ Alone(r)
      BY <2>1, <1>3 DEF Forward, Types, Alone
    <2> QED
      BY <2>1, <2>2, <2>3, <2>4, <1>1, <1>3, <1>5
      DEF RequestOK, Pending, Parts, Forwarding, AnswerOK, ReceivedOK, Said
  <1> QED
    BY <1>4, <1>5

LEMMA InitOK == Init => Inv
  <1> SUFFICES ASSUME Init PROVE Types /\ \A r \in Requests : RequestOK(r)
    BY DEF Inv
  <1>1. Types
    BY DEF Init, Types
  <1>2. ASSUME NEW r \in Requests PROVE RequestOK(r)
    BY DEF Init, RequestOK, Pending, Parts, Forwarding, AnswerOK, ReceivedOK
  <1> QED
    BY <1>1, <1>2

\* The request an action is of keeps its part of the invariant, and no other
\* request changes.
LEMMA RequestStep ==
    ASSUME NEW r \in Requests, Types, RequestOK(r),
           \/ Query(r) \/ QueryBad(r) \/ PassOn(r, "no_query") \/ PassOn(r, "range")
           \/ Prepare(r) \/ PrepareFails(r)
           \/ \E w \in Windows : FetchArrives(r, w)
           \/ FetchFails(r) \/ Evaluate(r) \/ EvaluateFails(r) \/ AskFails(r)
           \/ ForwardArrives(r) \/ ForwardFails(r) \/ CallerLeaves(r)
    PROVE  Types' /\ RequestOK(r)' /\ Alone(r) /\ UNCHANGED <<noForward, planned>>
  <1> USE DEF RequestOK, Pending, Parts, Forwarding, AnswerOK, ReceivedOK, Said
  <1>1. CASE Query(r)
    BY <1>1 DEF Query, Goes, Types, Alone
  <1>2. CASE QueryBad(r)
    BY <1>2 DEF QueryBad, Respond, Types, Alone
  <1>3. CASE PassOn(r, "no_query") \/ PassOn(r, "range")
    BY <1>3, PassOnKeepsIt DEF PassOn
  <1>4. CASE Prepare(r)
    BY <1>4 DEF Prepare, Types, Alone
  <1>5. CASE PrepareFails(r)
    BY <1>5, UnansweredKeepsIt DEF PrepareFails
  <1>6. ASSUME NEW w \in Windows, FetchArrives(r, w)
        PROVE  Types' /\ RequestOK(r)' /\ Alone(r) /\ UNCHANGED <<noForward, planned>>
    <2>1. fetched'[r] = fetched[r] \cup {w}
      BY <1>6 DEF FetchArrives, Types
    <2>2. phase'[r] = IF AllArrived(r, w) THEN "evaluating" ELSE "fetching"
      BY <1>6 DEF FetchArrives, Types
    <2>3. phase'[r] = "evaluating" => fetched'[r] = windows'[r]
      BY <1>6, <2>1, <2>2 DEF FetchArrives, AllArrived
    <2>4. Types' /\ Alone(r) /\ UNCHANGED <<noForward, reason, answer, failure, received>>
      BY <1>6 DEF FetchArrives, Types, Alone
    <2> QED
      BY <1>6, <2>2, <2>3, <2>4 DEF FetchArrives
  <1>7. CASE FetchFails(r)
    BY <1>7, UnansweredKeepsIt DEF FetchFails
  <1>8. CASE Evaluate(r)
    BY <1>8 DEF Evaluate, Respond, Types, Alone
  <1>9. CASE EvaluateFails(r)
    BY <1>9, UnansweredKeepsIt DEF EvaluateFails
  <1>10. CASE AskFails(r)
    BY <1>10, UnansweredKeepsIt DEF AskFails, LosesReply
  <1>11. CASE ForwardArrives(r)
    BY <1>11 DEF ForwardArrives, Respond, Types, Alone
  <1>12. CASE ForwardFails(r)
    BY <1>12, NoneAssumption DEF ForwardFails, Respond, Types, Alone
  <1>13. CASE CallerLeaves(r)
    BY <1>13 DEF CallerLeaves, Types, Alone
  <1> QED
    BY <1>1, <1>2, <1>3, <1>4, <1>5, <1>6, <1>7, <1>8, <1>9, <1>10, <1>11, <1>12, <1>13

LEMMA StepOK == Inv /\ [Next]_vars => Inv'
  <1> SUFFICES ASSUME Inv, [Next]_vars PROVE Inv'
    OBVIOUS
  <1>1. CASE UNCHANGED requestVars /\ UNCHANGED <<noForward, planned>>
    <2>1. Types'
      BY <1>1 DEF Inv, Types, requestVars
    <2>2. ASSUME NEW s \in Requests PROVE RequestOK(s)'
      BY <1>1, Untouched DEF Inv, requestVars
    <2> QED
      BY <2>1, <2>2 DEF Inv
  <1>2. ASSUME NEW r \in Requests, Types' /\ RequestOK(r)' /\ Alone(r) /\ UNCHANGED <<noForward, planned>>
        PROVE  Inv'
    <2>1. ASSUME NEW s \in Requests \ {r} PROVE RequestOK(s)'
      BY <1>2, Untouched DEF Inv, Alone
    <2> QED
      BY <1>2, <2>1 DEF Inv
  <1>3. CASE EngineStops \/ UNCHANGED vars
    BY <1>1, <1>3 DEF EngineStops, vars, requestVars
  <1>4. CASE Next /\ ~EngineStops
    <2>1. PICK r \in Requests :
             \/ Query(r) \/ QueryBad(r) \/ PassOn(r, "no_query") \/ PassOn(r, "range")
             \/ Prepare(r) \/ PrepareFails(r)
             \/ \E w \in Windows : FetchArrives(r, w)
             \/ FetchFails(r) \/ Evaluate(r) \/ EvaluateFails(r) \/ AskFails(r)
             \/ ForwardArrives(r) \/ ForwardFails(r) \/ CallerLeaves(r)
      BY <1>4 DEF Next
    <2>2. Types /\ RequestOK(r)
      BY DEF Inv
    <2>3. Types' /\ RequestOK(r)' /\ Alone(r) /\ UNCHANGED <<noForward, planned>>
      BY <2>1, <2>2, RequestStep
    <2> QED
      BY <1>2, <2>3
  <1> QED
    BY <1>3, <1>4

\* The plan answers a query only from every window it was prepared with,
\* whatever fetches fail and whatever order they end in.
THEOREM EveryWindowIsRead == Spec => []PlanAnswersFromEveryWindow
  <1>1. Inv => PlanAnswersFromEveryWindow
    BY DEF Inv, RequestOK, AnswerOK, PlanAnswersFromEveryWindow
  <1> QED
    BY <1>1, InitOK, StepOK, PTL DEF Spec

\* A query is forwarded at most once, never with --no-forward; a planned one's
\* response says why, and of the others only those a stopped engine left
\* unanswered say that it had stopped.
THEOREM ForwardingIsOnceAndExplained == Spec => []ForwardedOnceSayingWhy
  <1>1. Inv => ForwardedOnceSayingWhy
    BY DEF Inv, RequestOK, ReceivedOK, Said, ForwardedOnceSayingWhy
  <1> QED
    BY <1>1, InitOK, StepOK, PTL DEF Spec

=============================================================================
