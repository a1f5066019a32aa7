SPECIFICATION Spec
CONSTANTS
  Tasks = {a, b}
  Profiles = {p, q}
  MaxEvents = 4
SYMMETRY Symmetry
INVARIANT SessionIsRemembered
CHECK_DEADLOCK FALSE
