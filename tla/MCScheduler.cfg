CONSTANTS
  Proc = {m, p, q}
  Main = m
  NULL = NULL
  Delay = {1, 4}
  MaxTime = 3
  TimeMod = 4
  MaxTries = 2
  NDEBUG = TRUE
SPECIFICATION SchedFairSpec
INVARIANTS SchedTypeOK Placement
PROPERTIES SleepNotEarly ReadyRuns SleeperWakes
