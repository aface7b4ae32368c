SPECIFICATION MCSpec
CONSTANTS
  Questions = {q1}
  Resumes = {o1}
  MaxFaults = 1
  MaxCrashes = 1
  Daemons = {d1, d2}
  Old = Old
  Nil = Nil
  MaxClaimAttempts = 2
  Latest = 1

  
  
PROPERTIES
  AnswersReachTheEngine
  StartsSettle
CHECK_DEADLOCK FALSE
