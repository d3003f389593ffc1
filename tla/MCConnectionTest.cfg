\* Application as main runs it: the default index, list lengths that are
\* empty, usable or over TryGetServerInfo's limit, the code's ten tries
CONSTANTS
  ReqIds = {r1, r2}
  ServerCounts <- MCServerCounts
  Indices <- AppIndices
  MaxTries <- MCMaxTries
SPECIFICATION Spec
\* main returns once Update reports STOP: the program ends there
CHECK_DEADLOCK FALSE
INVARIANTS
  TypeOK
  AtMostOneRequest
  ResponseRecorded
  NoUpdaterOutlivesServer
PROPERTIES
  SearchRefinement
