SPECIFICATION Spec
CONSTANTS
  NStages = 2
  Edges <- Chain
  Condition <- ChainCondition
  Optional <- NoStages
  Operation <- NoStages
  Reads <- Unbound
  Writes <- Unbound
  Budget <- ChainBudget
  Strategy <- AllFresh
  Session <- AllFresh
  Hitl = FALSE
  MaxConcurrent = 1
  Failures <- Sticky
  MaxCancels = 1
  MaxReruns = 1
  MaxCrashes = 1
  HasDeadline = TRUE
INVARIANTS
  WithinConcurrency
  InFlightIsDriven
PROPERTIES
  NoUndeclaredTransition
