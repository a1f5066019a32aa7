SPECIFICATION FairSpec
CONSTANTS
  Threads = {t1, t2}
  Paths = {p1, p2}
  MaxCalls = 2
INVARIANT RunsWhatWasAsked
PROPERTY StatusSettles
CHECK_DEADLOCK FALSE
