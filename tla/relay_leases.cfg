SPECIFICATION RelaySpec
CONSTANTS
  Ids = {"e1", "e2"}
  Containers = {"c1", "c2"}
  Names = {"web", "web-c1", "web-c2"}
  ExposureNames = {"x"}
  IPs = {"ip1"}
  Descriptors = {"d1", "d2"}
  Ports = {1}
  HostLabel <- MCHostLabel
  MaxTTL = 1
  MaxTime = 1
  IdOf <- PairIds
  BaseName <- PairNames
  Suffixed <- MCSuffixed
  BodyOf <- PairAnswers
  NoIP = "no ip"
  Assignable <- AnyAddress
  MaxEvents = 3
  MaxFailures = 0
  Clients = {"p"}
  Operations = {"expose", "list"}
  TTLs = {9}
  DefaultTTL = 1
  NoId = "no id"
  Proxies = {"h"}
  Hosts = {"web--x"}
  Protocols = {"http"}
  NoTarget = "no target"
INVARIANTS
  LabelsUnique
  ExposureReachesOwner
PROPERTIES
  ExposuresAreLeases
