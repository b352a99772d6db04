CONSTANTS
  Node = {1, 2, 3, 4, 5, 6, 7}
  NULL = NULL
  Time <- AskInPairs
  MaxTries = 1
SPECIFICATION TreeSpec
INVARIANTS LinksAgree Ordered Balanced
PROPERTY ImplementsTimerSet
