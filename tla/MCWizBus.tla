------------------------------ MODULE MCWizBus ------------------------------
(* Instance of WizBus for TLC.                                             *)
EXTENDS WizBus

Op(fn, reg, val) == [fn |-> fn, reg |-> reg, val |-> val]

\* The link status, which the poll task reads and the PHY changes, and a buffer.
TwoRegs  == {"PHYCFGR", "buffer"}
Bits     == {0, 1}
LinkOnly == {"PHYCFGR"}
Zeroes   == [r \in TwoRegs |-> 0]
Shell    == {Op("READ_BUF", "buffer", 0), Op("WRITE", "buffer", 1)}
Poll     == {Op("READ", "PHYCFGR", 0), Op("WRITE_BUF", "buffer", 1)}
Setup    == Op("WRITE", "buffer", 0)
=============================================================================
