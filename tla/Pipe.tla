-------------------------------- MODULE Pipe --------------------------------
(***************************************************************************)
(* A stream of bytes: what has been put in comes out once and in order.    *)
(* Once broken, nothing is promised.                                       *)
(***************************************************************************)
EXTENDS Naturals, Sequences, SequencesExt

VARIABLES pending, arrived, broken

Put == IsStrictPrefix(pending, pending') /\ UNCHANGED arrived
Get == \E n \in 1 .. Len(pending) :
         /\ arrived' = arrived \o SubSeq(pending, 1, n)
         /\ pending' = SubSeq(pending, n + 1, Len(pending))

PipeSpec == /\ pending = <<>> /\ arrived = <<>>
            /\ [][broken' \/ Put \/ Get]_<<pending, arrived>>
=============================================================================
