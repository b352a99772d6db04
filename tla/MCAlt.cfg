CONSTANTS
  p1 = p1
  p2 = p2
  c1 = c1
  c2 = c2
  Proc = {m, p1, p2}
  Main = m
  NULL = NULL
  Delay = {}
  MaxTime = 2
  TimeMod = 100
  MaxTries = 5
  NDEBUG = TRUE
  Chans = {c1, c2}
  Data = {v}
  Menu <- OneAlt
SPECIFICATION AltFairSpec
INVARIANTS AltTypeOK EndQSound AltQSound WokenByAccept TimerArmed TimersAllocated
PROPERTIES KeepsScheduler AltImplementsRendezvous TimeoutFires
