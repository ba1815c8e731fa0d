\* Three packets and a text, or two and two; queues of one item.
CONSTANTS
  RX_BUFSIZE = 4
  TX_BUFSIZE = 3
  BUF_IN_SIZE = 3
  USB0_RX_QUEUE_DEPTH = 1
  USB0_TX_QUEUE_DEPTH = 1
  Packets <- SomePackets
  Lengths <- SomeLengths
  MaxPackets = 3
  MaxTexts = 2
  MaxInputs = 4
SPECIFICATION FairSpec
INVARIANTS TypeOK
PROPERTIES RxIsPipe TxIsPipe TextsArrive InputRead
