CONSTANTS
  Drives = {"drive"}
  Loops = {l1}
  Scripts = {s1}
  Halters = {h1}
  Duration = 1
  TStop = 2
  MaxDrops = 1
  Strict = TRUE
  Targets = TRUE
SPECIFICATION Spec
INVARIANTS TypeOK KeepAlive AtRestUnfed StopJogSilences
CHECK_DEADLOCK FALSE
