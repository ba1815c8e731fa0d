----------------------------- MODULE FrameLink -----------------------------
(***************************************************************************)
(* What the Ethernet driver promises lwIP: the frames that the chip has    *)
(* room for are handed up whole and in order, unless there is no buffer    *)
(* for one; the frames lwIP asks to send go out whole and in order, padded *)
(* to the minimal length, unless the chip gives one up.  Once broken,      *)
(* nothing is promised.                                                    *)
(***************************************************************************)
EXTENDS Naturals, Sequences

CONSTANTS Frames,    \* what can be received or sent: sequences of bytes
          Padding,   \* the byte that netif_output pads with
          MIN_FRAME  \* the length it pads to

VARIABLES rxq, delivered,  \* frames in the chip, frames handed to lwIP
          txq, wire,       \* frames lwIP wants sent, frames sent
          broken

Padded(f) == IF Len(f) >= MIN_FRAME THEN f
             ELSE [k \in 1 .. MIN_FRAME |-> IF k <= Len(f) THEN f[k] ELSE Padding]

LinkInit == rxq = <<>> /\ delivered = <<>> /\ txq = <<>> /\ wire = <<>>

Arrive(f) == rxq' = Append(rxq, f) /\ UNCHANGED <<delivered, txq, wire>>
Deliver ==
  /\ rxq # <<>> /\ rxq' = Tail(rxq)
  /\ delivered' = Append(delivered, Head(rxq)) /\ UNCHANGED <<txq, wire>>
Lose == rxq # <<>> /\ rxq' = Tail(rxq) /\ UNCHANGED <<delivered, txq, wire>>

Submit(f) == txq' = Append(txq, f) /\ UNCHANGED <<rxq, delivered, wire>>
Transmit ==
  /\ txq # <<>> /\ txq' = Tail(txq)
  /\ wire' = Append(wire, Padded(Head(txq))) /\ UNCHANGED <<rxq, delivered>>
GiveUp == txq # <<>> /\ txq' = Tail(txq) /\ UNCHANGED <<rxq, delivered, wire>>

LinkNext == \/ broken'
            \/ \E f \in Frames : Arrive(f) \/ Submit(f)
            \/ Deliver \/ Lose \/ Transmit \/ GiveUp
LinkSpec == LinkInit /\ [][LinkNext]_<<rxq, delivered, txq, wire>>
=============================================================================
