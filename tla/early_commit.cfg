SPECIFICATION Spec
CONSTANTS
    a1 = a1
    a2 = a2
    r1 = r1
    r2 = r2
    Actions = {a1}
    Runs = {r1}
    Requests = {p1, p2}
    Names = {1, 2}
    Shapes = {1, 2}
    RunOf <- OneRun
    ShapeOf <- SameShapes
    ItemOf <- SameItems
    HeaderOf <- SameItems
    RowLimit = 1
    DraftLimit = 2
    ManualShapes = {1, 2}
    NoName = NoName
    Desk = Desk
    NoAction = NoAction
    ControllerMayCommit = TRUE
SYMMETRY InstanceSymmetry
INVARIANTS
    AtMostOneWrite
    SuccessNamesOwnDraft
    ReconciledFailureIsReal
    AnswersAgree
PROPERTIES
    SettledIsFrozen
