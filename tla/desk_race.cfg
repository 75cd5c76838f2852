SPECIFICATION Spec
CONSTANTS
    Actions = {"a1", "a2"}
    Runs = {"r1"}
    Requests = {p1, p2}
    DocNames = {"po", "n1", "n2", "n3"}
    Rows = {1}
    RunOf <- OneRun
    TypeOf <- DeskTypes
    SourceOf <- DeskSources
    ItemsOf <- Single
    InitialDocs <- DraftReceipt
    MaxGoalVersion = 1
    ControllerMayCommit = TRUE
    DeskActs = TRUE
    NoName = NoName
    NoAction = NoAction
CONSTRAINT OneAction
SYMMETRY RequestSymmetry
INVARIANTS
    LedgersAgree
    SuccessIsReal
    AtMostOneEffect
PROPERTIES
    SettledIsFrozen
