SPECIFICATION Spec
CONSTANTS
  Tasks = {a, b}
  MaxCalls = 3
SYMMETRY Symmetry
INVARIANTS
  TypeOK
  AppIsTold
  StatusExcludes
  StatusIsTrue
CHECK_DEADLOCK FALSE
