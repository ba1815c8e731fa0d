------------------------- MODULE RegisterReadProofs -------------------------
(* Theorems about RegisterRead, for bytes of any size.                     *)
EXTENDS RegisterRead, TLAPS

LEMMA WordTypes ==
  /\ Zero \in Word
  /\ \A b \in Byte : FromByte(b) \in Word /\ FromByte(b).lo = b
  /\ \A w \in Word, b \in Byte : /\ Shifted(w, b) \in Word
                                 /\ Shifted(w, b).hi = w.lo /\ Shifted(w, b).lo = b
  /\ \A w \in Word : /\ w.hi \in Byte /\ w.lo \in Byte
                     /\ w = [hi |-> w.hi, lo |-> w.lo]
  BY RegisterReadConstants DEF Zero, FromByte, Shifted, Word, Byte

LEMMA TypeInit == Init => TypeOK
  BY WordTypes, RegisterReadConstants DEF Init, TypeOK

LEMMA TypeStep == TypeOK /\ [Next]_vars => TypeOK'
  <1> SUFFICES ASSUME TypeOK, [Next]_vars PROVE TypeOK'
    OBVIOUS
  <1>t. /\ reg.hi \in Byte /\ reg.lo \in Byte /\ Zero \in Word
        /\ FromByte(reg.hi) \in Word
        /\ Shifted(val, reg.lo) \in Word /\ Shifted(val1, reg.lo) \in Word
    BY WordTypes DEF TypeOK
  <1>1. CASE Grow
    BY <1>1, RegisterReadConstants DEF Grow, TypeOK
  <1>2. CASE Acknowledge
    BY <1>2 DEF Acknowledge, TypeOK
  <1>3. CASE Call
    BY <1>3, <1>t DEF Call, TypeOK
  <1>4. CASE Read
    BY <1>4, <1>t DEF Read, High1, Low1, High2, Low2, Test, TypeOK
  <1>5. CASE UNCHANGED vars
    BY <1>5 DEF vars, TypeOK
  <1> QED
    BY <1>1, <1>2, <1>3, <1>4, <1>5 DEF Next

\* The types of RegisterRead, TypeOK.
THEOREM RegisterTypes == Spec => []TypeOK
  BY TypeInit, TypeStep, PTL DEF Spec

-----------------------------------------------------------------------------
(* The first reading is a value of the register, or its high byte is       *)
(* outdated by now, so that the second reading will differ from it.        *)

ReadInv ==
  /\ pc # "idle" => reg \in held
  /\ pc = "lo1"  => val1.lo <= reg.hi
  /\ pc = "hi2"  => val1 \in held \/ val1.hi < reg.hi
  /\ pc = "lo2"  => val1 \in held \/ val1.hi < val.lo
  /\ pc = "test" => val1 \in held \/ val1 = Zero \/ val1.hi < val.hi

LEMMA ReadInit == Init => ReadInv
  BY DEF Init, ReadInv

LEMMA ReadStep == TypeOK /\ ReadInv /\ [Next]_vars => ReadInv'
  <1> SUFFICES ASSUME TypeOK, ReadInv, [Next]_vars PROVE ReadInv'
    OBVIOUS
  <1>t. /\ reg.hi \in Nat /\ reg.lo \in Nat /\ reg.hi \in Byte /\ reg.lo \in Byte
        /\ val1.lo \in Nat /\ val1.hi \in Nat
        /\ reg = [hi |-> reg.hi, lo |-> reg.lo]
    BY WordTypes DEF TypeOK, Byte
  <1>1. CASE Grow
    <2>1. PICK w \in Word : Less(reg, w) /\ reg' = w /\ held' = held \cup {w}
      BY <1>1 DEF Grow
    <2>2. reg.hi <= w.hi /\ w.hi \in Nat
      <3>1. w.hi \in Byte
        BY WordTypes
      <3>2. w.hi \in Nat
        BY <3>1 DEF Byte
      <3> QED
        BY <1>t, <2>1, <3>2 DEF Less
    <2>3. UNCHANGED <<pc, val, val1>>
      BY <1>1 DEF Grow
    <2> QED
      BY <1>t, <2>1, <2>2, <2>3 DEF ReadInv
  <1>2. CASE Acknowledge
    BY <1>2 DEF Acknowledge, ReadInv
  <1>3. CASE Call
    BY <1>3 DEF Call, ReadInv
  <1>4. CASE High1
    <2>1. val1' = FromByte(reg.hi) /\ pc' = "lo1" /\ UNCHANGED <<reg, held>> /\ pc = "hi1"
      BY <1>4 DEF High1
    <2>2. val1'.lo = reg.hi
      BY <1>t, <2>1, WordTypes
    <2> QED
      BY <1>t, <2>1, <2>2 DEF ReadInv
  <1>5. CASE Low1
    <2>1. /\ val1' = Shifted(val1, reg.lo) /\ UNCHANGED <<reg, val, held>> /\ pc = "lo1"
          /\ pc' = "hi2" \/ (pc' = "test" /\ val1' = Zero)
      BY <1>5 DEF Low1
    <2>2. val1' = [hi |-> val1.lo, lo |-> reg.lo]
      BY <2>1 DEF Shifted
    <2>3. reg \in held /\ val1.lo <= reg.hi
      BY <2>1 DEF ReadInv
    <2>4. val1' \in held \/ val1'.hi < reg.hi
      <3>1. CASE val1.lo = reg.hi
        BY <1>t, <2>2, <2>3, <3>1
      <3>2. CASE val1.lo < reg.hi
        BY <2>2, <3>2
      <3> QED
        BY <1>t, <2>3, <3>1, <3>2
    <2> QED
      BY <2>1, <2>3, <2>4 DEF ReadInv
  <1>6. CASE High2
    <2>1. val' = FromByte(reg.hi) /\ pc' = "lo2" /\ UNCHANGED <<reg, val1, held>> /\ pc = "hi2"
      BY <1>6 DEF High2
    <2>2. val'.lo = reg.hi
      BY <1>t, <2>1, WordTypes
    <2> QED
      BY <2>1, <2>2 DEF ReadInv
  <1>7. CASE Low2
    <2>1. /\ val' = Shifted(val, reg.lo) /\ pc' = "test" /\ UNCHANGED <<reg, val1, held>>
          /\ pc = "lo2"
      BY <1>7 DEF Low2
    <2>2. val'.hi = val.lo
      BY <2>1 DEF Shifted
    <2> QED
      BY <2>1, <2>2 DEF ReadInv
  <1>8. CASE Test
    <2>1. pc' \in {"idle", "hi1"} /\ UNCHANGED <<reg, held>> /\ pc = "test"
      BY <1>8 DEF Test
    <2> QED
      BY <2>1 DEF ReadInv
  <1>9. CASE UNCHANGED vars
    BY <1>9 DEF vars, ReadInv
  <1> QED
    BY <1>1, <1>2, <1>3, <1>4, <1>5, <1>6, <1>7, <1>8, <1>9 DEF Next, Read

\* getSn_RX_RSR returns a value that the register had during the call, or zero,
\* however often the register grows and whatever the size of a byte.
THEOREM NoTornValue == Spec => ReadsAValue
  <1>1. TypeOK /\ ReadInv /\ [Next]_vars
          => [pc = "test" /\ pc' = "idle" => result' \in held \cup {Zero}]_vars
    <2> SUFFICES ASSUME TypeOK, ReadInv, [Next]_vars, pc = "test", pc' = "idle"
                 PROVE  result' \in held \cup {Zero}
      OBVIOUS
    <2>1. Test
      BY DEF Next, Grow, Acknowledge, Call, Read, High1, Low1, High2, Low2, vars
    <2>2. val = val1 /\ result' = val1
      BY <2>1 DEF Test
    <2>3. val.hi \in Nat
      BY WordTypes DEF TypeOK, Byte
    <2> QED
      BY <2>2, <2>3 DEF ReadInv
  <1> QED
    BY TypeInit, TypeStep, ReadInit, ReadStep, <1>1, PTL DEF Spec, ReadsAValue
=============================================================================
