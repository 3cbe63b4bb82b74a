SPECIFICATION Spec
CONSTANTS
  Ids = {"e1", "e2"}
  Containers = {"c1", "c2", "c3"}
  Names = {"web", "web-c1", "web-c2", "web-c3"}
  ExposureNames = {"x"}
  IPs = {"ip1", "ip2"}
  Descriptors = {"d1", "d2"}
  Ports = {1}
  HostLabel <- MCHostLabel
  MaxTTL = 1
  MaxTime = 0
  IdOf <- RebuiltIds
  BaseName <- RebuiltNames
  Suffixed <- MCSuffixed
  BodyOf <- RebuiltAnswers
  NoIP = "no ip"
  Assignable <- AnyAddress
  MaxEvents = 4
  MaxFailures = 1
INVARIANTS
  TypeOK
  RowMatchesContainer
  PassNamesDistinct
PROPERTIES
  OnlyUnlistedRetired
  PassesSync
  Converges
  NamesSettle
