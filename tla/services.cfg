SPECIFICATION ServicesSpec
CONSTANTS
  Demands = {1, 2}
  c1 = c1
  c2 = c2
  Capacities = {c1, c2}
  ReportTries = 2
  MaxMoves = 0
  MaxRestarts = 0
  MaxCrashes = 1
  MaxFaults = 0
  MaxLapses = 0
  None = None
  QEvents = {e1, e2}
  QLanes = {l1, l2}
  QMaxClaims = 2
  QMaxRequests = 4
  QMaxFaults = 1
  DEvents = {1, 2}
  DHeadOf <- HeadsOfEvents
  DMaxHead = 1
  DWindow = 2
  DRound = 2
  DLease = 2
  DMaxPlanes = 2
  DMaxFaults = 1
  AReviews = {1}
  ALanes = {l1}
  AMaxClaims = 2
  AMaxEpochs = 2
  AMaxFaults = 1
  TReaders = {r1, r2}
  TWriters = {w}
  TCandidates = {c}
  TOperations = 2
  TCapacity = 1
  TMaxRequests = 2
  FMaxRecords = 2
  FMaxSaves = 3
  FMaxFaults = 2
  FMaxCrashes = 1
SYMMETRY
  CapacitySymmetry
INVARIANTS
  SingleOccupancy
  QemuOneWay
  DDemandsFollowRoot
  AOneWay
  TStorageQuiet
  FAnswersAreTrue
  FRestartAccepts
PROPERTIES
  APromotedOnEvidence
  TBackendOnLiveLease
CHECK_DEADLOCK FALSE
