SPECIFICATION RelaySpec
CONSTANTS
  Ids = {"e1", "e2"}
  Containers = {"c1", "c2"}
  Names = {"web", "api", "web-c1", "api-c2"}
  ExposureNames = {"x"}
  IPs = {"ip1", "ip2"}
  Descriptors = {}
  Ports = {1}
  HostLabel <- MCHostLabel
  MaxTTL = 2
  MaxTime = 0
  IdOf <- PairIds
  BaseName <- ApartNames
  Suffixed <- MCSuffixed
  BodyOf <- SilentAnswers
  NoIP = "no ip"
  Assignable <- AnyAddress
  MaxEvents = 2
  MaxFailures = 1
  Clients = {"p", "q"}
  Operations = {"status", "forget"}
  TTLs = {1}
  DefaultTTL = 1
  NoId = "no id"
  Proxies = {}
  Hosts = {"web", "web--x"}
  Protocols = {}
  NoTarget = "no target"
PROPERTIES
  KeepsSyncing
  RelayOnlyUnlistedRetired
