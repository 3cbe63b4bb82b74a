SPECIFICATION SupSpec
CONSTANTS
  Pids = {1, 2, 3, 4}
  NoPid = NoPid
  MaxBackoff = 3
INVARIANTS
  SupTypeOK
  OneSupervisor
PROPERTIES
  ServerComesBack
