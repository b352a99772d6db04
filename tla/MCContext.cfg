CONSTANTS
  Proc = {p, q}
  Sched = Sched
  NULL = NULL
  Garbage = Garbage
  StackSize = 8
  PageSize = 2
  Code = {f, g}
  Val = {v}
  ArgLists <- SomeArgs
  ARGS_N = 2
SYMMETRY Symmetric
SPECIFICATION ContextSpec
INVARIANTS OverflowStops ArgsArrive
PROPERTIES ImplementsCoroutines EntersMain
