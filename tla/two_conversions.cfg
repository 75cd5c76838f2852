SPECIFICATION Spec
CONSTANTS
    Actions = {"a1", "a2"}
    Runs = {"r1", "r2"}
    Requests = {p1, p2}
    DocNames = {"po", "n1", "n2"}
    Rows = {1, 2}
    RunOf <- OwnRuns
    TypeOf <- TwoReceipts
    SourceOf <- FromOrder
    ItemsOf <- Single
    InitialDocs <- SubmittedOrder
    MaxGoalVersion = 0
    ControllerMayCommit = FALSE
    DeskActs = FALSE
    NoName = NoName
    NoAction = NoAction
SYMMETRY RequestSymmetry
INVARIANTS
    NoOverConversion
    NoLockCycle
