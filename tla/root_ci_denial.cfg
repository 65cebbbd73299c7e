SPECIFICATION FairSpec
CONSTANTS
  Demands = {1, 2}
  c1 = c1
  Capacities = {c1}
  ReportTries = 2
  MaxMoves = 1
  MaxRestarts = 0
  MaxCrashes = 0
  MaxFaults = 0
  MaxLapses = 0
  None = None
PROPERTY
  RootMovementDeniesReport
