SPECIFICATION TransportSpec
CONSTANTS
  TReaders = {r1}
  TWriters = {w}
  TCandidates = {c}
  TOperations = 2
  TCapacity = 1
  TMaxRequests = 2
PROPERTY
  TCandidateBackendUnexpired
CHECK_DEADLOCK FALSE
