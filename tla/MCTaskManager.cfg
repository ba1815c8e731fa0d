\* Commands are typed more slowly than the task manager polls, or pasted.
CONSTANTS
  DELAY_TASKMAN = 2
  SEND_TICKS = 1
  KickTicks = 1
  WATCHDOG_DELAY = 3
  Paces <- BothPaces
  Targets <- SomeServices
  MaxCmds = 3
SPECIFICATION FairSpec
INVARIANTS TypeOK NoDanglingHandle NoRequestDropped ForcedIsFinal
PROPERTIES NoSpuriousReset RebootHappens SuspendComesTrue
