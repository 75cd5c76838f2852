SPECIFICATION DeskSpec
CONSTANTS
    Users = {"ann", "bob"}
    Initiator = "ann"
    Managers = {"bob"}
    Actions = {"d", "p"}
    TypeOf <- DraftAndSubmission
    KeyOf <- OwnKeys
    Calls = {c1, c2}
    Nobody = Nobody
    MaxLosses = 1
    MaxApprovals = 2
    MaxLoads = 2
    MaxClicks = 2
    Documents <- Saved
    Scope <- Readable
    Dialogs = {1, 2}
    Questions = {"q1", "q2"}
    MaxSubmits = 2
SYMMETRY CallSymmetry
INVARIANTS
    VerdictsStand
    PagesAreHonest
CHECK_DEADLOCK FALSE
