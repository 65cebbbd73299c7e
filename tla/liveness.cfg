SPECIFICATION LivenessSpec
CONSTANTS
  Demands = {1}
  c1 = c1
  Capacities = {c1}
  ReportTries = 2
  MaxMoves = 0
  MaxRestarts = 0
  MaxCrashes = 1
  MaxFaults = 1
  MaxLapses = 0
  None = None
  QEvents = {e1, e2}
  QLanes = {l1, l2}
  QMaxClaims = 4
  QMaxRequests = 6
  QMaxFaults = 2
  SIntents = {i1, i2}
  SCommands = {a}
  SMaxPlanes = 2
  SMaxAborts = 1
  SMaxCrashes = 2
  SMaxDeaths = 1
  SNone = SNone
  KProcesses = {p, q, r}
  KMaxStarts = 2
  KMaxFaults = 1
  WMaxHead = 0
  WMaxIds = 1
  WMaxOps = 2
  WMaxFaults = 1
  WMaxRequests = 1
  NMaxOutput = 2
  NMaxInput = 2
PROPERTIES
  ClaimReturns
  QemuEventSettles
  SInstallResumes
  StaleLockTaken
  OperationsEnd
  NClientEnds
CHECK_DEADLOCK FALSE
