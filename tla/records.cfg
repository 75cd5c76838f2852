CONSTANTS
  Ids = {1, 2, 3}
  Owners = {"buyer"}
  Managers = {m1}
  Contents = {a, b}
  Requests = {r1, r2}
  CoachRequests = {c1, c2}
  CoachAnswers <- Answers
  MemoryIds = {1, 2, 3}
  Drafts <- Proposed
  Reviewers = {r1, r2}
  MaxTime = 2
SYMMETRY Symmetry
CONSTRAINT Bounds
SPECIFICATION RecordsSpec
INVARIANTS MemorySucceeds CoachRecordsAreWhole StoreIsCurrent
PROPERTY DecisionStands
CHECK_DEADLOCK FALSE
