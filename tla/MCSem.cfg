SPECIFICATION SemFairSpec
CONSTANTS
  a = a
  b = b
  idle = idle
  sys = sys
  sem = sem
  NULL = NULL
  Never = Never
  Task <- MCTask
  UserTask <- MCUserTask
  Idle <- idle
  Object <- MCObject
  SysBlock <- sys
  MaxPrio = 2
  UserPrio = {0, 1}
  Timeslice = 0
  Wrap = 8
  Calls = {"take", "release", "post"}
  Delays = {1}
  Careless = FALSE
  MaxNest = 0
  NestLimit = 200
  MaxMissed = 0
  InitValue = 0
  MaxValue = 1
  MaxPosts = 1
  Sem <- sem
  TimeOuts <- MCTimeOuts
INVARIANTS
  NoIdleToken
PROPERTIES
  IsCountingSemaphore
  PostsPublished
  LimitedWaitEnds
  NeverTimesOut
