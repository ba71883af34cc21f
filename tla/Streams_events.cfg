CONSTANTS
  h1 = h1
  h2 = h2
  c1 = c1
  c2 = c2
  Queues = {q1}
  Handles = {h1, h2}
  Callback <- OwnCallback
  Async = {c2}
  MaxSize = 2
  None = None
  MaxFrames = 3
  MaxStarts = 2
SPECIFICATION FairSpec
INVARIANTS TypeOK NobodySkipped Freshest OneMore
PROPERTIES StreamsEnd
CHECK_DEADLOCK FALSE
