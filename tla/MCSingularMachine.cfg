CONSTANTS
  Idle = Idle
  Running = Running
  Paused = Paused
  Stopped = Stopped
  Failed = Failed
  Outside = Outside
  Start = Start
  Pause = Pause
  Resume = Resume
  Finish = Finish
  Reset = Reset
  Abort = Abort
  Null = Null
  Empty = Empty
  Types = {Idle, Running, Paused, Stopped, Failed, Outside}
  Events = {Start, Finish}
  Catalog <- SmallCatalog
  Tables <- SmallTables
  Throwing <- MCThrowing
  Size <- MCSize
  Align <- MCAlign

SPECIFICATION Spec

INVARIANTS
  TypeOK
