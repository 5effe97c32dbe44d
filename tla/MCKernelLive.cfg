SPECIFICATION FairSpec
CONSTANTS
  a = a
  b = b
  c = c
  idle = idle
  sys = sys
  NULL = NULL
  Never = Never
  Task <- MCTask
  UserTask <- MCUserTask
  Idle <- idle
  Object <- MCObject
  SysBlock <- sys
  MaxPrio = 2
  UserPrio = {0, 1}
  Timeslice = 1
  Wrap = 8
  Calls = {"delay", "yield", "wake", "suspend", "resume", "exit"}
  Delays = {1, 2}
  Careless = FALSE
  MaxNest = 0
  NestLimit = 200
  MaxMissed = 1
INVARIANTS
  RoundRobinPosition
  NoFault
PROPERTIES
  DelayEnds
  RoundRobin
