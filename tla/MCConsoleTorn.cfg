\* shell_print of the cli task and of the poll task at once.
CONSTANTS
  PRINT_QUEUE_DEPTH = 1
  PRINT_TICKS = 2
  DELAY_CLI = 1
  Posters <- OnePoster
  Printers <- PollTask
  MaxMsg = 2
  MaxKeys = 2
  MaxPrints = 2
SPECIFICATION Spec
PROPERTY PrintedWhole
CHECK_DEADLOCK FALSE
