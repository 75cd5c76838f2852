SPECIFICATION Spec
CONSTANTS
    Actions = {"a1", "a2"}
    Runs = {"r1"}
    Requests = {p1, p2}
    DocNames = {"po", "n1", "n2"}
    Rows = {1, 2}
    RunOf <- OneRun
    TypeOf <- TwoReceipts
    SourceOf <- FromOrder
    ItemsOf <- OwnRow
    InitialDocs <- SubmittedOrder
    MaxGoalVersion = 0
    ControllerMayCommit = FALSE
    DeskActs = FALSE
    NoName = NoName
    NoAction = NoAction
SYMMETRY RequestSymmetry
PROPERTIES
    NoWriteAfterCancel
