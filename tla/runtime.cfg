CONSTANTS
  Tools = {"stock", "demand"}
  Args = {"x", "y", "z"}
  Contents = {0, 4}
  MaxSteps = 3
  MaxCallsPerTool = 2
  NoProgressThreshold = 1
  MaxOutput = 2
  MaxTotalOutput = 5
  MaxCost = 5
  ContextBudget = 3
  Documents <- MCDocuments
  Fields = {"item", "qty"}
  Outputs <- MCOutputs
  Chunks = {"c1"}
  Roles = 2
  MaxModelCalls = 3
  MaxToolCalls = 4
SPECIFICATION RuntimeSpec
INVARIANTS BudgetsHold AppAcceptsAnswers AnswersAreGrounded ModelTextIsVouchedFor
PROPERTY AgentAlwaysEnds
