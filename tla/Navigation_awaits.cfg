CONSTANTS
  Starts = {s1, s2}
  Cancels = {c1}
  Polls = {p1}
  Remembers = {m1}
  Deletes = {d1}
  Awaits = {a1, a2}
  None = None
  History = 2
  MaxDown = 2
  MaxSends = 3
  MaxPresses = 0
SPECIFICATION Spec
INVARIANTS TypeOK NoOrphan AwaitTruthful
SYMMETRY Symmetry
CHECK_DEADLOCK FALSE
