CONSTANT MaxCmds = 2
SPECIFICATION FairSpec
INVARIANTS ConfirmedLatched ReportEndsWait
PROPERTIES LatchConfirmed
