\* the context start result decides whether SEARCHING can proceed
CONSTANTS
  ReqIds = {r1, r2}
  ServerCounts <- MCServerCounts
  Indices <- AppIndices
  MaxTries <- ShortTries
SPECIFICATION Spec
\* main returns once Update reports STOP: the program ends there
CHECK_DEADLOCK FALSE
PROPERTIES
  SearchingSettles
