\* A crash between the backend's start and its record.
CONSTANTS
  r1 = r1
  r2 = r2
  a1 = a1
  a2 = a2
  s1 = s1
  s2 = s2
  Runs = {r1, r2}
  Accounts = {a1}
  MaxCand = 0
  AccountOf <- OneAccount
  Compatible <- AllCompatible
  Policy <- QueuePolicy
  Priority <- SecondFirst
  CapChoices = {1}
  Cancellable = {}
  Sweepers = {s1}
  Boot = s1
  Faults = {"crash"}
  LeaseTtl = 2
  MaxTime = 2
  MaxInstance = 2
  MaxRev = 3
SPECIFICATION Spec
INVARIANTS
  CrashKeepsCapacity
CHECK_DEADLOCK FALSE
