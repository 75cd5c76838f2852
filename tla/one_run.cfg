SPECIFICATION Spec
CONSTANTS
    a1 = a1
    a2 = a2
    r1 = r1
    r2 = r2
    Actions = {a1, a2}
    Runs = {r1}
    Requests = {p1, p2}
    Names = {1, 2}
    Shapes = {1, 2}
    RunOf <- OneRun
    ShapeOf <- DifferentShapes
    ItemOf <- DifferentItems
    HeaderOf <- SameItems
    RowLimit = 2
    DraftLimit = 2
    ManualShapes = {}
    NoName = NoName
    Desk = Desk
    NoAction = NoAction
    ControllerMayCommit = FALSE
SYMMETRY InstanceSymmetry
INVARIANTS
    TypeOK
    LedgersAgree
    CancelledRunIsQuiet
    NoOrphanDraft
PROPERTIES
    WriteOnlyWhenAuthorised
    ImplementsGovernedWrite
