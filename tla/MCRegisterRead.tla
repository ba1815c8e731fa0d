--------------------------- MODULE MCRegisterRead ---------------------------
(* Instance of RegisterRead for TLC.                                       *)
EXTENDS RegisterRead
=============================================================================
