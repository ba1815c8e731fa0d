\* The task manager itself was suspended or killed before reboot.
CONSTANTS
  DELAY_TASKMAN = 1
  SEND_TICKS = 1
  KickTicks = 1
  WATCHDOG_DELAY = 3
  Paces <- SlowPace
  Targets <- Reboots
  MaxCmds = 2
SPECIFICATION FairSpec
PROPERTIES RebootHappens
