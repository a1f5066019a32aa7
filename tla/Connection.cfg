SPECIFICATION FairSpec
CONSTANTS
  Tasks = {a, b}
  Profiles = {p, q}
  MaxEvents = 3
INVARIANTS
  AppShowsCore
  RunsActiveProfile
  OptionsAreWhole
  FailedConnectLeavesDown
  OffMeansOff
PROPERTY SwitchingEnds
CHECK_DEADLOCK FALSE
