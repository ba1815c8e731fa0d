\* Two operations take less than a polling period; one kill, at any point.
CONSTANTS
  DELAY_STORMAN = 3
  SEND_TICKS = 1
  MaxOp = 1
  MaxCmds = 2
  MaxRestarts = 1
SPECIFICATION FairSpec
INVARIANTS TypeOK OwnAnswer HandleClosed
PROPERTIES NoLateAnswer ShellReturns RequestServed
