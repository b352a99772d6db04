CONSTANTS
  Heads = {h1, h2}
  Elem = {e1, e2, e3}
  NULL = NULL
  Garbage = Garbage
SYMMETRY Symmetric
SPECIFICATION TailQSpec
INVARIANTS LinksValid WalksAgree
PROPERTY ImplementsLists
