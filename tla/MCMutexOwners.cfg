SPECIFICATION MutexSpec
CONSTANTS
  a = a
  b = b
  c = c
  idle = idle
  sys = sys
  mutex = mutex
  NULL = NULL
  Never = Never
  Task <- MCTask
  UserTask <- MCUserTask
  Idle <- idle
  Object <- MCObject
  SysBlock <- sys
  Mutex <- mutex
  MaxPrio = 1
  UserPrio = {0}
  Timeslice = 1
  Wrap = 8
  Calls = {"mutexLock", "mutexUnlock"}
  Delays = {1}
  Careless = FALSE
  MaxNest = 0
  NestLimit = 200
  MaxMissed = 0
  Recursive = TRUE
  MaxRecursive = 2
  MaxHold = 2
  LockTimeOuts <- MCTimeOuts
SYMMETRY MCSymmetry
INVARIANTS
  MutualExclusion
