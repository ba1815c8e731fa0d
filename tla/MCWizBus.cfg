\* Two w5500 init commands, in either mode each, against the poll task; a third
\* would find no DMA channel.
CONSTANTS
  Regs <- TwoRegs
  Vals <- Bits
  Volatile <- LinkOnly
  Blank <- Zeroes
  ShellOps <- Shell
  PollOps <- Poll
  SetupOp <- Setup
  CHANNELS = 4
  MaxInits = 3
SPECIFICATION FairSpec
INVARIANTS TypeOK LeavesNoTrace PollWaits
PROPERTIES IsRegisters NoPanic AccessEnds
CHECK_DEADLOCK FALSE
