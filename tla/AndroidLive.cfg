SPECIFICATION FairSpec
CONSTANTS
  Tasks = {a, b}
  MaxCalls = 2
PROPERTY StatusSettles
CHECK_DEADLOCK FALSE
