---------------------------- MODULE RegisterRead ----------------------------
(***************************************************************************)
(* getSn_RX_RSR (w5500.c): reading a 16-bit register of the chip one byte  *)
(* at a time, while frames arrive and the chip adds to it.  The function   *)
(* reads the register twice until both readings agree, and does not read   *)
(* it again when the first reading is zero.  Only the task that calls it   *)
(* takes frames out, between two calls, and the register never wraps.      *)
(***************************************************************************)
EXTENDS Naturals

CONSTANTS BASE,    \* number of values of a byte
          MaxGrow  \* bound: how often a frame arrives

ASSUME RegisterReadConstants == BASE \in Nat \ {0} /\ MaxGrow \in Nat

VARIABLES reg,        \* Sn_RX_RSR
          pc,         \* the caller
          val, val1,  \* the variables of getSn_RX_RSR
          result,     \* what it returned last
          ngrow,      \* frames so far
          held        \* history: the values of the register since the call

vars == <<reg, pc, val, val1, result, ngrow, held>>
-----------------------------------------------------------------------------
Byte == 0 .. BASE - 1
Word == [hi : Byte, lo : Byte]
Zero == [hi |-> 0, lo |-> 0]

\* w = byte, and w = (w << 8) + byte.
FromByte(byte) == [hi |-> 0, lo |-> byte]
Shifted(w, byte) == [hi |-> w.lo, lo |-> byte]

Less(v, w) == v.hi < w.hi \/ (v.hi = w.hi /\ v.lo < w.lo)

Init == /\ reg = Zero /\ pc = "idle" /\ val = Zero /\ val1 = Zero /\ result = Zero
        /\ ngrow = 0 /\ held = {}

\* A frame arrives.
Grow == /\ ngrow < MaxGrow /\ ngrow' = ngrow + 1
        /\ \E w \in Word : Less(reg, w) /\ reg' = w /\ held' = held \cup {w}
        /\ UNCHANGED <<pc, val, val1, result>>

\* The caller has taken frames out.
Acknowledge == /\ pc = "idle"
               /\ \E w \in Word : Less(w, reg) /\ reg' = w
               /\ UNCHANGED <<pc, val, val1, result, ngrow, held>>
-----------------------------------------------------------------------------
Call == /\ pc = "idle" /\ pc' = "hi1"
        /\ val' = Zero /\ val1' = Zero /\ held' = {reg}
        /\ UNCHANGED <<reg, result, ngrow>>

High1 == /\ pc = "hi1" /\ pc' = "lo1"
         /\ val1' = FromByte(reg.hi)
         /\ UNCHANGED <<reg, val, result, ngrow, held>>

\* MUTANT: the first reading is taken for good.
Low1Only == /\ pc = "lo1"
            /\ val1' = Shifted(val1, reg.lo)
            /\ pc' = "test" /\ val' = val1'
            /\ UNCHANGED <<reg, result, ngrow, held>>

Low1 == /\ pc = "lo1"
        /\ val1' = Shifted(val1, reg.lo)
        /\ pc' = IF val1' # Zero THEN "hi2" ELSE "test"
        /\ UNCHANGED <<reg, val, result, ngrow, held>>

High2 == /\ pc = "hi2" /\ pc' = "lo2"
         /\ val' = FromByte(reg.hi)
         /\ UNCHANGED <<reg, val1, result, ngrow, held>>

Low2 == /\ pc = "lo2" /\ pc' = "test"
        /\ val' = Shifted(val, reg.lo)
        /\ UNCHANGED <<reg, val1, result, ngrow, held>>

\* MUTANT: the first reading stays outside the loop.
RepeatSecond == /\ pc = "test"
                /\ IF val = val1 THEN pc' = "idle" /\ result' = val
                   ELSE pc' = "hi2" /\ UNCHANGED result
                /\ UNCHANGED <<reg, val, val1, ngrow, held>>

\* while (val != val1)
Test == /\ pc = "test"
        /\ IF val = val1 THEN pc' = "idle" /\ result' = val
           ELSE pc' = "hi1" /\ UNCHANGED result
        /\ UNCHANGED <<reg, val, val1, ngrow, held>>

Read == High1 \/ Low1 \/ High2 \/ Low2 \/ Test

Next == Grow \/ Acknowledge \/ Call \/ Read

Spec == Init /\ [][Next]_vars

\* The poll task runs on.
FairSpec == Spec /\ WF_vars(Read)
-----------------------------------------------------------------------------
TypeOK == /\ reg \in Word /\ val \in Word /\ val1 \in Word /\ result \in Word
          /\ pc \in {"idle", "hi1", "lo1", "hi2", "lo2", "test"}
          /\ ngrow \in 0 .. MaxGrow /\ held \subseteq Word

\* What getSn_RX_RSR returns is a value that the register had during the call, or
\* zero: two bytes of two different values are not put together to a third (the
\* loop of w5500.c:217-226).  A zero may be such a mixture; the caller then finds
\* nothing and asks again.
ReadsAValue ==
  [][pc = "test" /\ pc' = "idle" => result' \in held \cup {Zero}]_vars

\* Once no more frames arrive the call returns: the zero that skips the second
\* reading is never left facing an older second reading (w5500.c:221).
ReadEnds == (pc # "idle") ~> (pc = "idle")
=============================================================================
