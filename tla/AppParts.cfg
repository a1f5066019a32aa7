SPECIFICATION MCSpec
CONSTANTS
  Runtimes <- MCRuntimes
  Ports <- MCPorts
  MaxSessions = 2
  Streams = {"outbounds"}
  Links = {x, y}
  NoLink = none
  MaxLaunches = 2
  MaxTries = 3
  MaxClients = 3
  Readers = {r1, r2}
  Cap = 2
  MaxLines = 3
  Networks = {n1, n2}
  NoNetwork = null
  MaxCores = 2
  MaxCallbacks = 1
  Profiles = {p1, p2}
  Interval = 3
  Wanted = 5
  MaxRun = 1
INVARIANTS
  NoNilCall
  ClientPerStream
  StreamIsLive
  LifeTimes
  ClientsAreKnown
  LinesComeOnce
  CoreHasNetwork
  UpdatesComeInTime
PROPERTIES
  StatsArrive
  LinkIsShown
CHECK_DEADLOCK FALSE
