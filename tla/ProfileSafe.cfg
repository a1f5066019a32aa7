SPECIFICATION Spec
CONSTANTS
  short = short
  long = long
  Urls = {short, long}
  Like <- LikeTable
  Ids = {p, q}
  Tasks = {a, b}
  MaxEvents = 3
SYMMETRY Symmetry
INVARIANTS
  TypeOK
  RowHasFile
  FileIsWhole
  InfoOfFile
  OneActive
  ActiveIsKept
  DeletedStaysDeleted
CHECK_DEADLOCK FALSE
