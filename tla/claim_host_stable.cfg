SPECIFICATION RelaySpec
CONSTANTS
  Ids = {"e1", "e2"}
  Containers = {"c1", "c2"}
  Names = {"web", "web-c1", "web-c2"}
  ExposureNames = {"x"}
  IPs = {"ip1", "ip2"}
  Descriptors = {"d1", "d2"}
  Ports = {1}
  HostLabel <- MCHostLabel
  MaxTTL = 2
  MaxTime = 0
  IdOf <- PairIds
  BaseName <- PairNames
  Suffixed <- MCSuffixed
  BodyOf <- PairAnswers
  NoIP = "no ip"
  Assignable <- AnyAddress
  MaxEvents = 2
  MaxFailures = 0
  Clients = {"p"}
  Operations = {}
  TTLs = {1}
  DefaultTTL = 1
  NoId = "no id"
  Proxies = {}
  Hosts = {"web", "web--x"}
  Protocols = {}
  NoTarget = "no target"
PROPERTIES
  HostStable
