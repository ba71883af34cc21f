CONSTANTS
  Actions = {a1, a2}
  Records = {r1, r2}
  Policies = {p1}
  Sensors = {q1, q2}
  Stills = {f1}
  Chunks = {k1, k2}
  None = None
  History = 1
  MaxCalls = 2
  MaxRetries = 1
SPECIFICATION Spec
INVARIANTS TypeOK VerdictIsFinal FedWhileAwaited
PROPERTIES NextResolves RatesStand
SYMMETRY Symmetry
CHECK_DEADLOCK FALSE
