\* The longest frame is longer than the buffer it is read into.
CONSTANTS
  RX_RING = 6
  TX_RING = 4
  PTR = 12
  ETHERNET_MTU = 2
  MIN_FRAME = 2
  Lens <- ShortAndLong
  MaxRx = 1
  MaxTx = 1
SPECIFICATION Spec
INVARIANT FrameFits
CHECK_DEADLOCK FALSE
