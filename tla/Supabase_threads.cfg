CONSTANTS
  MaxConnects = 2
  MaxFaults = 2
SPECIFICATION FairSpec
INVARIANTS TypeOK NoSocketLeft RefreshAfterJoin
PROPERTIES HandlersKnow ThreadsEnd Rejoins
CHECK_DEADLOCK FALSE
