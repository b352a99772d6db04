CONSTANTS
  m = m
  p1 = p1
  p2 = p2
  c1 = c1
  Proc = {m, p1, p2}
  Main = m
  NULL = NULL
  Delay = {1}
  MaxTime = 2
  TimeMod = 100
  MaxTries = 5
  NDEBUG = TRUE
  Chans = {c1}
  Data = {v}
  Menu <- AltWithTimeout
  Comp = {a}
  Uses <- Roles
  MaxCalls <- Budget
  MaxSetBacks = 1
SPECIFICATION ProxcFairSpec
INVARIANTS OnlyProgramsDeadlock ClosedUnused FreedUnlinked
PROPERTIES ProxcKeepsScheduler ComesToRest
