\* A run that asks and a run that falls back; starts fail, leases run out.
CONSTANTS
  r1 = r1
  r2 = r2
  a1 = a1
  a2 = a2
  s1 = s1
  s2 = s2
  Runs = {r1, r2}
  Accounts = {a1, a2}
  MaxCand = 1
  AccountOf <- SharedPrimary
  Compatible <- AllCompatible
  Policy <- AskAndFallback
  Priority <- SecondFirst
  CapChoices = {1}
  Cancellable = {}
  Sweepers = {s1}
  Boot = s1
  Faults = {"setup", "lostStart", "late"}
  LeaseTtl = 1
  MaxTime = 1
  MaxInstance = 2
  MaxRev = 3
SPECIFICATION Spec
INVARIANTS
  OneLiveAttempt
  QueueMatchesSchedule
  OneLiveExecutionPerRun
CHECK_DEADLOCK FALSE
