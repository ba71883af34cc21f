CONSTANTS
  MaxOffers = 2
  MaxOpens = 1
  MaxStarts = 2
  WaitTicks = 0
  IceFrom = {2}
  Modes = {"wan", "lan"}
SPECIFICATION Spec
INVARIANTS NoStrayPeer ConnectedTracksPeer CandidateReaches LinkTold CleanStop
PROPERTIES LiveSessionRidesOut
CHECK_DEADLOCK FALSE
