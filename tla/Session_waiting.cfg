CONSTANTS
  MaxOffers = 1
  MaxOpens = 2
  MaxStarts = 2
  WaitTicks = 2
  IceFrom = {}
  Modes = {"wan"}
SPECIFICATION FairSpec
INVARIANTS WaitWatched
PROPERTIES WaitingEnds
CHECK_DEADLOCK FALSE
