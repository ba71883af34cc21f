CONSTANTS
  Callers = {c1, c2}
  None = None
  Skew = 2
  MinCache = 2
  DefaultTTL = 6
  Latency = 1
  Lives = {1, 3, 8}
  Offsets <- MCOffsets
  MaxTime = 10
SPECIFICATION AuthSpec
INVARIANTS ServedAlive
PROPERTIES GrantRate
SYMMETRY Symmetry
