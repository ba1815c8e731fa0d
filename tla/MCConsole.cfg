\* A task and a command post; the poll task may print with shell_print, as it
\* does when the link changes.
CONSTANTS
  PRINT_QUEUE_DEPTH = 1
  PRINT_TICKS = 2
  DELAY_CLI = 1
  Posters <- OnePoster
  Printers <- PollTask
  MaxMsg = 2
  MaxKeys = 2
  MaxPrints = 1
SPECIFICATION FairSpec
INVARIANTS TypeOK NotInterleaved
PROPERTIES PrintedWholeAlone IsQueue LostOnlyIfHeld AllShown PromptReturns
CHECK_DEADLOCK FALSE
