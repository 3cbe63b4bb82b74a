SPECIFICATION RelaySpec
CONSTANTS
  Ids = {"e1"}
  Containers = {"c1"}
  Names = {"web", "web-c1"}
  ExposureNames = {"x"}
  IPs = {"ip1"}
  Descriptors = {"d1"}
  Ports = {1}
  HostLabel <- MCHostLabel
  MaxTTL = 2
  MaxTime = 0
  IdOf <- OneId
  BaseName <- OneName
  Suffixed <- MCSuffixed
  BodyOf <- OneAnswer
  NoIP = "no ip"
  Assignable <- AnyAddress
  MaxEvents = 1
  MaxFailures = 0
  Clients = {"p", "q"}
  Operations = {"forget", "expose"}
  TTLs = {1}
  DefaultTTL = 1
  NoId = "no id"
  Proxies = {}
  Hosts = {"web", "web--x"}
  Protocols = {}
  NoTarget = "no target"
INVARIANTS
  ForeignKey
