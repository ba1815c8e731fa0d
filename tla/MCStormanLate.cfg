\* An operation may outlast the polling period.
CONSTANTS
  DELAY_STORMAN = 1
  SEND_TICKS = 1
  MaxOp = 2
  MaxCmds = 2
  MaxRestarts = 0
SPECIFICATION Spec
INVARIANTS OwnAnswer
