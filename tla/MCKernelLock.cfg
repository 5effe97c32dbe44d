SPECIFICATION Spec
CONSTANTS
  a = a
  b = b
  c = c
  idle = idle
  sys = sys
  NULL = NULL
  Never = Never
  Task <- MCTask
  UserTask <- MCUserTask
  Idle <- idle
  Object <- MCObject
  SysBlock <- sys
  MaxPrio = 1
  UserPrio = {0}
  Timeslice = 1
  Wrap = 8
  Calls = {"lock", "unlock", "delay", "suspend", "resume", "exit"}
  Delays = {1}
  Careless = TRUE
  MaxNest = 2
  NestLimit = 200
  MaxMissed = 0
SYMMETRY MCSymmetry
INVARIANTS
  TypeOK
  LockExcludes
CHECK_DEADLOCK FALSE
