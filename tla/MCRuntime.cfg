SPECIFICATION MCSpec
CONSTANTS
  None = None
  Taken = Taken
  Names = {f, g}
  Ops = {o1, o2, o3}
  MaxTries = 3
  Actions = {a1}
  Period <- MCPeriod
  MaxTime = 4
  MaxCrashes = 2
INVARIANTS
  EvaluationIsPure
  FirstRegistrationWins
  OneExecutor
  Attended
PROPERTIES
  CallsPerform
  PanicsOnlyInCall
  PromiseSpec
  WaitsEnd
CHECK_DEADLOCK FALSE
