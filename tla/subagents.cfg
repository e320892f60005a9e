SPECIFICATION FairSpec
CONSTANTS
  w1 = w1
  MaxChild = 3
  Budget <- Budgets
  Waiter = {w1}
  Scenarios <- AllScenarios
  MaxCmds = 2
  MaxLife = 2
  MaxBuffer = 1
  MaxCompleted = 1
PROPERTY CallsAnswered
INVARIANTS TypeOK CompletionHeard NoOrphan NoStaleSummary LoopUnitsApart
CHECK_DEADLOCK FALSE
