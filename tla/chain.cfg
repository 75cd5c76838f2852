SPECIFICATION Spec
CONSTANTS
    Actions = {"a1", "a2", "a3"}
    Runs = {"r1"}
    Requests = {p1, p2}
    DocNames = {"po", "n1"}
    Rows = {1}
    RunOf <- OneRun
    TypeOf <- ChainTypes
    SourceOf <- FromOrder
    ItemsOf <- Single
    InitialDocs <- DraftOrder
    MaxGoalVersion = 0
    ControllerMayCommit = FALSE
    DeskActs = FALSE
    NoName = NoName
    NoAction = NoAction
SYMMETRY RequestSymmetry
INVARIANTS
    NoLostEffect
    UncertainFreezesRun
PROPERTIES
    DependenciesFirst
