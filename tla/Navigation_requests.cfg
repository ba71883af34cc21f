CONSTANTS
  Starts = {s1, s2}
  Cancels = {c1}
  Polls = {}
  Remembers = {m1}
  Deletes = {}
  Awaits = {}
  None = None
  History = 6
  MaxDown = 1
  MaxSends = 4
  MaxPresses = 1
SPECIFICATION Spec
PROPERTIES Promise
SYMMETRY Symmetry
CHECK_DEADLOCK FALSE
