SPECIFICATION LifeSpec
CONSTANTS
  Ids = {"e1", "e2"}
  Containers = {"c1", "c2"}
  Names = {"web", "web-c1", "web-c2"}
  ExposureNames = {"x"}
  IPs = {"ip1", "ip2"}
  Descriptors = {}
  Ports = {1}
  HostLabel <- MCHostLabel
  MaxTTL = 1
  MaxTime = 0
  IdOf <- PairIds
  BaseName <- PairNames
  Suffixed <- MCSuffixed
  BodyOf <- SilentAnswers
  NoIP = "no ip"
  Assignable <- OwnAddress
  MaxEvents = 1
  MaxFailures = 0
  MaxLoads = 1
INVARIANTS
  LifeTypeOK
  ListenersNeverLeak
PROPERTIES
  RetiredByOwnPass
  StopIsFinal
  StopReleases
  Converges
