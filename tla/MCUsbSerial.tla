---------------------------- MODULE MCUsbSerial ----------------------------
(* An instance of UsbSerial for TLC.                                       *)
EXTENDS UsbSerial

\* Without and with a terminator, almost as long as the FIFO, and as long.
SomePackets == {<<"c">>, <<"c", "nul">>, <<"c", "c", "c">>, <<"c", "c", "c", "c">>}
\* With room for the terminator, and without.
SomeLengths == {2, 3}
=============================================================================
