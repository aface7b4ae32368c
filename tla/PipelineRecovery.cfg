SPECIFICATION FairSpec
CONSTANTS
  NStages = 3
  Edges <- Branch
  Condition <- BranchCondition
  Optional <- Second
  Operation <- NoStages
  Reads <- BranchReads
  Writes <- BranchWrites
  Budget <- BranchBudget
  Strategy <- BranchStrategy
  Session <- BranchSession
  Hitl = TRUE
  MaxConcurrent = 1
  Failures <- Mixed
  MaxCancels = 0
  MaxReruns = 0
  MaxCrashes = 1
  HasDeadline = FALSE
INVARIANTS
  AttemptsBounded
  RanOnSettledInputs
  SuccessIsFinalized

  
