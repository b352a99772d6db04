CONSTANTS
  p1 = p1
  p2 = p2
  c1 = c1
  c2 = c2
  Proc = {m, p1, p2}
  Main = m
  NULL = NULL
  Delay = {}
  MaxTime = 2
  TimeMod = 100
  MaxTries = 5
  NDEBUG = TRUE
  Chans = {}
  Data = {v}
  Menu <- TwoTimers
SPECIFICATION AltFairSpec
PROPERTY TimeoutFires
