\* an answer with error < 0 while Application is RUNNING
CONSTANTS
  ReqIds = {r1, r2}
  ServerCounts <- UsableCounts
  Indices <- AppIndices
  MaxTries <- ShortTries
SPECIFICATION Spec
\* main returns once Update reports STOP: the program ends there
CHECK_DEADLOCK FALSE
PROPERTIES
  RunningSettles
