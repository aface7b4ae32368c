SPECIFICATION FairSpec
CONSTANTS
  Kinds = {"approval", "integration", "verify", "publish", "command", "agent"}
  Required = 2
  MaxCrashes = 2
  MaxAttempts = 2
  MaxMoves = 2
INVARIANTS
  EffectsHappenOnce
  SettledTogether
PROPERTIES
  StoredAnswerDecides
  OperationSettles
CHECK_DEADLOCK FALSE
