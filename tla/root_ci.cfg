SPECIFICATION Spec
CONSTANTS
  Demands = {1, 2}
  c1 = c1
  Capacities = {c1}
  ReportTries = 2
  MaxMoves = 1
  MaxRestarts = 1
  MaxCrashes = 1
  MaxFaults = 1
  MaxLapses = 1
  None = None
CONSTRAINT
  ThreeFaults
INVARIANTS
  StartupIntegrity
  ClaimIsJournaled
  RunFenced
  EndsOneWay
PROPERTIES
  RunsOnce
