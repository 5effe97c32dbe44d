SPECIFICATION FairSpec
CONSTANTS
  Num = 1
  Tick = 2
  Wrap = 43
  Life = 86
  Precision = 24
  Periods = {1, 5}
  Slack = 5
INVARIANTS
  OneShotOnce
PROPERTIES
  FiresNotEarly
  TimersFire
