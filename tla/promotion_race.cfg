CONSTANTS
  c0 = c0
  c1 = c1
  c2 = c2
  alice = alice
  bob = bob
  None = None
  Commits = {c0, c1, c2}
  Imported = c0
  Ancestor <- Fork
  Proposals = {p1, p2}
  Reviewers = {alice}
  RequiredReviewers <- OnlyAlice
  Requests = {q1}
  Jobs = {}
  QemuJobs = {}
  Planned = {c1, c2}
  MaxAttempts = 1
  Retries = 1
  MaxCrashes = 1
  MaxFaults = 1
SPECIFICATION Spec
PROPERTIES
ImplementsProtectedHead ReadyMeansReviewed
