SPECIFICATION WorkflowSpec
CONSTANTS
    Requests = {q1, q2}
    Nobody = Nobody
    NoHolder = NoHolder
    NoCandidate = NoCandidate
    Ordered = 2
    Targets = {1, 2}
    UseSidecar = TRUE
    DeskMoves = 1
    MaxActions = 7
    MaxGoal = 2
    Workers = {w1, w2}
    Intents = {i1}
    NoIntent = NoIntent
    Asks = {TRUE, FALSE}
    MaxRev = 13
    MaxRestarts = 2
CONSTRAINT Bounds
SYMMETRY Symmetry
INVARIANTS
    OneAtATime
    PlanFollowsReceipts
    DispatchedAtMostOnce
    CheckpointIsReal
CHECK_DEADLOCK FALSE
