SPECIFICATION Spec
CONSTANTS
    Requests = {r1, r2}
    Windows = {w1, w2}
    None = None
INVARIANTS
    PlanAnswersFromEveryWindow
    ForwardedOnceSayingWhy
PROPERTY
    EveryRequestAnswered
CHECK_DEADLOCK FALSE
