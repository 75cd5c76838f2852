SPECIFICATION AnalysisSpec
CONSTANTS
    Requests = {q1, q2, q3}
    Calls = {g1, g2}
    Modes = {"DETERMINISTIC", "AGENT", "PLAN_EXECUTE"}
    Faults = {"exception", "crash"}
    MaxStamp = 7
    Nobody = Nobody
    Ledgers <- MCLedgers
    Scopes = {0, 1}
    Goals = {{2}}
    PageSize = 1
    MaxOffset = 2
    MaxDocuments = 2
    MaxLines = 4
    MaxCurrentLines = 2
    MaxItems = 2
    MaxChanges = 1
SYMMETRY Symmetry
INVARIANTS
    RowsMatchState
    ReadsAreSound
    RowsAreTrue
PROPERTIES
    NeverRevived
CHECK_DEADLOCK FALSE
