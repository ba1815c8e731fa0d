\* Bytes of three values: a carry can happen twice.
CONSTANTS
  BASE = 3
  MaxGrow = 4
SPECIFICATION FairSpec
PROPERTIES ReadsAValue ReadEnds
