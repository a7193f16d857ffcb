SPECIFICATION Spec
CONSTANTS
  a = a
  b = b
  c = c
  Ids = {a, b, c}
  NoServer = NoServer
  Initial <- MCInitial
  Spare = 0
  Wanted = {a}
  Latencies = {80}
  Concurrency = 1
  FlapLimit = 1
  MaxEdits = 1
INVARIANTS NobodyLeftBehind
PROPERTIES   FlowDecides
