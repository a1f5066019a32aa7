SPECIFICATION Spec
CONSTANTS
  Geoip = {ip, ip2}
  Geosite = {site}
  defaultGeoip = ip
  defaultGeosite = site
  Tasks = {a, b}
  MaxVersion = 2
  MaxCalls = 4
SYMMETRY Symmetry
INVARIANTS
  OneActive
  ConnectHasFiles
  FileIsWhole
  VersionIsInFile
CHECK_DEADLOCK FALSE
