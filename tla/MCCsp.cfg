CONSTANTS
  Proc = {m, p, q, r}
  Main = m
  NULL = NULL
  Delay = {}
  MaxTime = 0
  TimeMod = 100
  MaxTries = 5
  NDEBUG = TRUE
  Comp = {a, b}
SPECIFICATION CspSpec
SYMMETRY Symmetric
INVARIANTS CspTypeOK StartsWhatIsDue CountsChildren JoinsItsTree ParentsAllocated
PROPERTY CspKeepsScheduler
