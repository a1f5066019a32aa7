SPECIFICATION Spec
CONSTANTS
  Threads = {t1, t2}
  Paths = {p1}
  MaxCalls = 3
SYMMETRY Symmetry
INVARIANTS
  NoSilentWedge
  StatusExcludes
  StatusIsTrue
  CrashNeedsOverlap
  LastMessageIsTrue
PROPERTY ImplementsLifecycle
CHECK_DEADLOCK FALSE
