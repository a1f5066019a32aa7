SPECIFICATION FairSpec
CONSTANTS
  Tasks = {a}
  MaxCalls = 1
PROPERTY AlertArrives
CHECK_DEADLOCK FALSE
