CONSTANTS
  c0 = c0
  c1 = c1
  c2 = c2
  alice = alice
  bob = bob
  None = None
  Commits = {c0, c1}
  Imported = c0
  Ancestor <- Chain
  Proposals = {p1}
  Reviewers = {alice, bob}
  RequiredReviewers <- PathRules
  Requests = {q1, q2}
  Jobs = {}
  QemuJobs = {}
  Planned = {c1}
  MaxAttempts = 0
  Retries = 1
  MaxCrashes = 1
  MaxFaults = 2
  DEvents = {1, 2, 3}
  DHeadOf <- HeadsOfEvents
  DMaxHead = 1
  DWindow = 3
  DRound = 1
  DLease = 3
  DMaxPlanes = 1
  DMaxFaults = 1
SPECIFICATION DecisionsSpec
INVARIANTS
  OneActiveApproval
PROPERTIES
  RecoveryResolvesIntent
  AcceptedPushIsReviewed
  DNewestDelivered
