CONSTANTS
  Idle = Idle
  Running = Running
  Paused = Paused
  Stopped = Stopped
  Failed = Failed
  Outside = Outside
  Start = Start
  Pause = Pause
  Resume = Resume
  Finish = Finish
  Reset = Reset
  Abort = Abort
  Null = Null
  Empty = Empty
  Types = {Idle, Running, Paused, Stopped, Failed, Outside}
  Events = {Start, Pause, Resume, Finish, Reset, Abort}
  Catalog <- JobCatalog
  Tables <- JobTablesInCatalog
  Throwing <- MCThrowing
  Size <- MCSize
  Align <- MCAlign

SPECIFICATION Spec

PROPERTIES
  EngineRefinement
