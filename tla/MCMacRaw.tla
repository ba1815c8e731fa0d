------------------------------ MODULE MCMacRaw ------------------------------
(* Instances of MacRaw for TLC.                                            *)
EXTENDS MacRaw

\* Frames of two lengths: the shorter one is padded when it is sent.
ShortAndLong == {1, 3}
=============================================================================
