SPECIFICATION MutexSpec
CONSTANTS
  a = a
  b = b
  c = c
  idle = idle
  sys = sys
  mutex = mutex
  NULL = NULL
  Never = Never
  Task <- MCTask3
  UserTask <- MCUserTask3
  Idle <- idle
  Object <- MCObject
  SysBlock <- sys
  Mutex <- mutex
  MaxPrio = 2
  UserPrio = {0, 1}
  Timeslice = 1
  Wrap = 8
  Calls = {"create", "mutexLock", "mutexUnlock", "destroy", "yield"}
  Delays = {1}
  Careless = FALSE
  MaxNest = 0
  NestLimit = 200
  MaxMissed = 0
  Recursive = TRUE
  MaxRecursive = 2
  MaxHold = 2
  LockTimeOuts <- MCTimeOuts
SYMMETRY MCSymmetry3
INVARIANTS
  NoWaiterForgotten
  OwnerHolds
  PriorityRestored
CONSTRAINT MCBounds
