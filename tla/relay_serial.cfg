SPECIFICATION RelaySpec
CONSTANTS
  Ids = {"e1"}
  Containers = {"c1"}
  Names = {"web", "web-c1"}
  ExposureNames = {"x"}
  IPs = {"ip1"}
  Descriptors = {"d1"}
  Ports = {1}
  HostLabel <- MCHostLabel
  MaxTTL = 2
  MaxTime = 1
  IdOf <- OneId
  BaseName <- OneName
  Suffixed <- MCSuffixed
  BodyOf <- OneAnswer
  NoIP = "no ip"
  Assignable <- AnyAddress
  MaxEvents = 3
  MaxFailures = 1
  Clients = {"p"}
  Operations = {"status", "connect", "forget", "list", "expose", "unexpose"}
  TTLs <- MCTTLs
  DefaultTTL = 1
  NoId = "no id"
  Proxies = {}
  Hosts = {"web", "web--x"}
  Protocols = {}
  NoTarget = "no target"
INVARIANTS
  RelayTypeOK
  ExposureOwned
  ReplyKeepsId
PROPERTIES
  LifetimeBounded
  LiveExposureKept
