SPECIFICATION MountSpec
CONSTANTS
  Segments = {"home", "data", "mnt", "code", "work", "lib", "host", "old", "x", "y", "z", "out"}
  NoSource = NoSource
  Relay = relay
  d1 = d1
  d2 = d2
  Devcontainers = {d1, d2}
  Tables <- MCTables
  MountsRoot <- MCMountsRoot
  Wishes <- MCWishes
  Escaping <- MCEscaping
  Nowhere = Nowhere
  MaxErrors = 1
INVARIANTS
  MountTypeOK
  MatchesShowFile
  AnswerIsComplete
  RelayIsFound
