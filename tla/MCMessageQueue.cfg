SPECIFICATION MqSpec
CONSTANTS
  a = a
  b = b
  idle = idle
  sys = sys
  queue = queue
  m1 = m1
  m2 = m2
  NULL = NULL
  Never = Never
  Task <- MCTask
  UserTask <- MCUserTask
  Idle <- idle
  Object <- MCObject
  SysBlock <- sys
  MaxPrio = 2
  UserPrio = {0, 1}
  Timeslice = 1
  Wrap = 8
  Calls = {"mqSend", "mqReceive", "mqClear", "post", "delay"}
  Delays = {1}
  Careless = FALSE
  MaxNest = 0
  NestLimit = 200
  MaxMissed = 0
  Queue <- queue
  Capacity = 2
  Message = {m1, m2}
  TimeOuts <- MCTimeOuts
  MaxPosts = 1
  Disciplines <- MCDisciplines
SYMMETRY MCSymmetry
INVARIANTS
  MqTypeOK
  NoLostWakeup
  NoFault
PROPERTIES
  IsBoundedQueue
