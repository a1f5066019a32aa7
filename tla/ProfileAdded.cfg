SPECIFICATION Spec
CONSTANTS
  short = short
  long = long
  Urls = {short, long}
  Like <- LikeTable
  Ids = {p, q}
  Tasks = {a}
  MaxEvents = 3
INVARIANT AddedUrlIsThere
CHECK_DEADLOCK FALSE
