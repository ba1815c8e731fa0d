\* w5500 lwip up to twice; positions wrap around; every frame fits pack, a longer one
\* is what MCMacRawOverflow.cfg is about.
CONSTANTS
  RX_RING = 6
  TX_RING = 4
  PTR = 12
  ETHERNET_MTU = 3
  MIN_FRAME = 2
  Lens <- ShortAndLong
  MaxRx = 3
  MaxTx = 2
SPECIFICATION FairSpec
INVARIANT TypeOK
PROPERTIES IsLink Drained SendReturns
CHECK_DEADLOCK FALSE
