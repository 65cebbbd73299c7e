SPECIFICATION HostsSpec
CONSTANTS
  SIntents = {i1, i2}
  SCommands = {a, b}
  SMaxPlanes = 2
  SMaxAborts = 1
  SMaxCrashes = 1
  SMaxDeaths = 1
  SNone = SNone
  KProcesses = {p, q, r}
  KMaxStarts = 2
  KMaxFaults = 2
  WMaxHead = 1
  WMaxIds = 2
  WMaxOps = 3
  WMaxFaults = 1
  WMaxRequests = 1
  CMaxGenerations = 3
  CInputs = {i1, i2}
  CMaxRuns = 4
  CMaxFaults = 2
  UHttp = "h"
  UTcp = "k"
  URequests <- UrlRequests
  UPolicies = {1, 2}
  UGuarded = {2}
  UMaxIds = 2
  UMaxStarts = 2
  UMaxEdits = 1
  UMaxMoves = 1
  UMaxFaults = 1
  IPlugins = {m, x}
  IRequired = {m}
  IMaxBuilds = 3
  IMaxRuns = 3
  IMaxFaults = 2
  PCallers = {a, b}
  PConfigs = {f, g}
  PPids = {1, 2}
  PMaxStarts = 3
  PMaxBoots = 2
  PMaxFaults = 2
  PNone = PNone
  GServices = {s, t}
  GPorts = {1}
  GAuthorities = {x, y}
  GCallers = {a, b}
  GMaxGateways = 2
  GMaxUrls = 2
  GMaxFaults = 2
  GNone = GNone
  NMaxOutput = 2
  NMaxInput = 2
INVARIANTS
  SRecordsBacked
  LockExclusive
  StateIsTrue
  UNoStrayFlow
  IRuntimeSurvives
  GRoutesExclusive
  NSuccessMeansDelivered
  EntryIsCurrent
PROPERTIES
  PForeignUntouched
  DiscardIsFinal
CHECK_DEADLOCK FALSE
