SPECIFICATION UrlSpec
CONSTANTS
  UHttp = "h"
  UTcp = "k"
  URequests <- TcpRequest
  UPolicies = {1, 2}
  UGuarded = {2}
  UMaxIds = 2
  UMaxStarts = 2
  UMaxEdits = 0
  UMaxMoves = 0
  UMaxFaults = 0
PROPERTY
  UStartRestores
CHECK_DEADLOCK FALSE
