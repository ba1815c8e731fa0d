\* The shell's dhcp_start sends while the poll task runs.
CONSTANTS
  RX_RING = 6
  TX_RING = 4
  PTR = 12
  ETHERNET_MTU = 3
  MIN_FRAME = 2
  Lens <- ShortAndLong
  MaxRx = 1
  MaxTx = 2
SPECIFICATION FairSpec
INVARIANT OneInLwip
CHECK_DEADLOCK FALSE
