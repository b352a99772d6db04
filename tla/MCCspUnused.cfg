CONSTANTS
  Proc = {m, p, q}
  Main = m
  NULL = NULL
  Delay = {}
  MaxTime = 0
  TimeMod = 100
  MaxTries = 5
  NDEBUG = TRUE
  Comp = {a, b}
SPECIFICATION CspSpec
INVARIANT NoAbort
