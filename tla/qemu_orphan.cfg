SPECIFICATION QemuSpec
CONSTANTS
  QEvents = {e1, e2}
  QLanes = {l1}
  QMaxClaims = 4
  QMaxRequests = 6
  QMaxFaults = 2
INVARIANT
  QemuSupersededIsStale
CHECK_DEADLOCK FALSE
