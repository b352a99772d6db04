CONSTANTS
  Proc = {m, p, q}
  Main = m
  NULL = NULL
  Delay = {}
  MaxTime = 0
  TimeMod = 100
  MaxTries = 5
  NDEBUG = TRUE
  Chans = {c, d}
  Data = {v, w}
SPECIFICATION ChanSpec
SYMMETRY Symmetric
INVARIANTS ChanTypeOK EndQSound
PROPERTIES KeepsScheduler ImplementsRendezvous
