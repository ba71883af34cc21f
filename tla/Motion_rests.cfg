CONSTANTS
  Drives = {"drive"}
  Loops = {l1}
  Scripts = {s1}
  Halters = {h1}
  Duration = 1
  TStop = 1
  MaxDrops = 1
  Strict = TRUE
  Targets = FALSE
SPECIFICATION FairSpec
PROPERTIES StopRests
CHECK_DEADLOCK FALSE
