CONSTANTS
  Spaces = {w1}
  HasSetup = TRUE
  MaxMoves = 2
  MaxWork = 1
  MaxStarts = 3
  MaxFences = 4
  NRepos = 3
  Custom = {1}
  Adopted = {2}
  WithSetup = {2, 3}
  DependsOn <- MCDependsOn
  MaxSetupConcurrency = 2
  MaxDeaths = 1
  Variants <- MCVariants
  Writes <- MCWrites
  Reads <- MCReads
  MaxPushes = 1
  Calls = {1, 2}
  Versions = {1}
  Builds = {1, 2}
  Attempts = 2
SPECIFICATION MCSpec
INVARIANTS SetupIsExclusive CompositeReadyIsComplete  SelectedIsComplete
PROPERTIES WorkIsKept
CHECK_DEADLOCK FALSE
