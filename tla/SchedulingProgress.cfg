\* Fair executions of a queueing and a falling-back run.
CONSTANTS
  r1 = r1
  r2 = r2
  a1 = a1
  a2 = a2
  s1 = s1
  s2 = s2
  Runs = {r1, r2}
  Accounts = {a1, a2}
  MaxCand = 1
  AccountOf <- CrossedAccounts
  Compatible <- AllCompatible
  Policy <- QueueAndFallback
  Priority <- SecondFirst
  CapChoices = {1}
  Cancellable = {}
  Sweepers = {s1}
  Boot = s1
  Faults = {}
  LeaseTtl = 2
  MaxTime = 1
  MaxInstance = 1
  MaxRev = 3
SPECIFICATION FairSpec
PROPERTIES
  RunsSettle
CHECK_DEADLOCK FALSE
