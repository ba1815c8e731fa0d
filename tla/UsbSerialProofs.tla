-------------------------- MODULE UsbSerialProofs --------------------------
(* Theorems about UsbSerial, for every value of its constants.             *)
EXTENDS UsbSerial, SequenceTheorems, WellFoundedInduction, TLAPS

-----------------------------------------------------------------------------
(* Induction, with a set in the place of the formula.                      *)

LEMMA SetInduction ==
  ASSUME NEW S, 0 \in S, \A n \in Nat : n \in S => n + 1 \in S
  PROVE  Nat \subseteq S
  <1> DEFINE T == {n \in Nat : n \notin S}
             R == OpToRel(<, Nat)
  <1> SUFFICES ASSUME T # {} PROVE FALSE
    OBVIOUS
  <1>1. IsWellFoundedOn(R, Nat)
    BY NatLessThanWellFounded
  <1>2. PICK x \in T : \A y \in T : <<y, x>> \notin R
    <2> HIDE DEF R
    <2> QED
      BY <1>1, WFMin
  <1>3. \A y \in T : ~ (y < x)
    BY <1>2 DEF OpToRel
  <1>4. x # 0 /\ x - 1 \in T
    OBVIOUS
  <1> QED
    BY <1>3, <1>4

\* The least element of a set of numbers.
LEMMA MinOf ==
  ASSUME NEW S \in SUBSET Nat, S # {}
  PROVE  Min(S) \in S /\ \A n \in S : Min(S) <= n
  <1> DEFINE R == OpToRel(<, Nat)
  <1>1. IsWellFoundedOn(R, Nat)
    BY NatLessThanWellFounded
  <1>2. PICK x \in S : \A y \in S : <<y, x>> \notin R
    <2> HIDE DEF R
    <2> QED
      BY <1>1, WFMin
  <1>3. x \in Nat /\ \A y \in S : y \in Nat /\ ~ (y < x)
    BY <1>2 DEF OpToRel
  <1>4. \A y \in S : x <= y
    BY <1>3
  <1> QED
    BY <1>4 DEF Min

-----------------------------------------------------------------------------
(* FlattenSeq, the items of a queue one after the other.                   *)

LEMMA UpTo ==
  ASSUME NEW S, NEW k \in Nat, 1 \in S, \A n \in 1 .. k - 1 : n \in S => n + 1 \in S
  PROVE  1 .. k \subseteq S
  <1> DEFINE T == {n \in Nat : n \in 1 .. k => n \in S}
  <1>1. 0 \in T
    OBVIOUS
  <1>2. \A n \in Nat : n \in T => n + 1 \in T
    OBVIOUS
  <1>3. Nat \subseteq T
    <2> HIDE DEF T
    <2> QED
      BY <1>1, <1>2, SetInduction
  <1> QED
    BY <1>3

IsFlat(f, q) ==
  f = [i \in 1 .. Len(q) |-> IF i = 1 THEN q[i] ELSE f[i - 1] \o q[i]]

LEMMA FlatExists ==
  ASSUME NEW D, NEW q \in Seq(Seq(D))
  PROVE  \E f : IsFlat(f, q)
  <1> DEFINE S == {n \in Nat : \A p \in Seq(Seq(D)) : Len(p) = n => \E f : IsFlat(f, p)}
  <1>1. 0 \in S
    <2> SUFFICES ASSUME NEW p \in Seq(Seq(D)), Len(p) = 0 PROVE \E f : IsFlat(f, p)
      OBVIOUS
    <2>1. IsFlat([i \in {} |-> 0], p)
      BY DEF IsFlat
    <2> QED
      BY <2>1
  <1>2. ASSUME NEW n \in Nat, n \in S PROVE n + 1 \in S
    <2> SUFFICES ASSUME NEW p \in Seq(Seq(D)), Len(p) = n + 1 PROVE \E f : IsFlat(f, p)
      OBVIOUS
    <2> DEFINE r == SubSeq(p, 1, n)
    <2>1. r \in Seq(Seq(D)) /\ Len(r) = n /\ \A i \in 1 .. n : r[i] = p[i]
      OBVIOUS
    <2> HIDE DEF r
    <2>2. PICK g : IsFlat(g, r)
      BY <1>2, <2>1
    <2> DEFINE f == [i \in 1 .. n + 1 |->
                       IF i <= n THEN g[i] ELSE IF i = 1 THEN p[i] ELSE g[i - 1] \o p[i]]
    <2>3. \A i \in 1 .. n : g[i] = IF i = 1 THEN p[i] ELSE g[i - 1] \o p[i]
      BY <2>1, <2>2 DEF IsFlat
    <2>4. \A i \in 1 .. n + 1 : f[i] = IF i = 1 THEN p[i] ELSE f[i - 1] \o p[i]
      BY <2>3
    <2>5. f = [i \in 1 .. n + 1 |-> f[i]]
      OBVIOUS
    <2> HIDE DEF f
    <2>6. IsFlat(f, p)
      BY <2>4, <2>5 DEF IsFlat
    <2> QED
      BY <2>6
  <1>3. Len(q) \in S
    <2> HIDE DEF S
    <2> QED
      BY <1>1, <1>2, SetInduction
  <1> QED
    BY <1>3

\* What the items up to each one are together.
Joins(f, q) ==
  f[1] = q[1] /\ \A n \in 1 .. Len(q) - 1 : f[n + 1] = f[n] \o q[n + 1]

LEMMA FlatOf ==
  ASSUME NEW D, NEW q \in Seq(Seq(D)), q # <<>>
  PROVE  \E f : Joins(f, q) /\ FlattenSeq(q) = f[Len(q)]
  <1> DEFINE f == CHOOSE f : IsFlat(f, q)
  <1>1. IsFlat(f, q)
    BY FlatExists
  <1>2. FlattenSeq(q) = f[Len(q)]
    BY DEF FlattenSeq, IsFlat
  <1> HIDE DEF f
  <1>3. \A i \in 1 .. Len(q) : f[i] = IF i = 1 THEN q[i] ELSE f[i - 1] \o q[i]
    BY <1>1 DEF IsFlat
  <1>4. f[1] = q[1]
    BY <1>3
  <1>5. ASSUME NEW n \in 1 .. Len(q) - 1 PROVE f[n + 1] = f[n] \o q[n + 1]
    <2>1. n + 1 \in 1 .. Len(q) /\ n + 1 # 1 /\ (n + 1) - 1 = n
      OBVIOUS
    <2> QED
      BY <1>3, <2>1
  <1>6. Joins(f, q)
    BY <1>4, <1>5 DEF Joins
  <1> QED
    BY <1>2, <1>6

LEMMA FlatTypes ==
  ASSUME NEW D, NEW q \in Seq(Seq(D))
  PROVE  FlattenSeq(q) \in Seq(D)
  <1>1. CASE q = <<>>
    BY <1>1 DEF FlattenSeq
  <1>2. CASE q # <<>>
    <2>0. Len(q) \in Nat \ {0}
      BY <1>2
    <2>1. PICK f : Joins(f, q) /\ FlattenSeq(q) = f[Len(q)]
      BY <1>2, FlatOf
    <2> DEFINE S == {n \in Nat : f[n] \in Seq(D)}
    <2>2. 1 \in S
      BY <2>0, <2>1 DEF Joins
    <2>3. ASSUME NEW n \in 1 .. Len(q) - 1, n \in S PROVE n + 1 \in S
      <3>1. n + 1 \in 1 .. Len(q) /\ n + 1 \in Nat
        BY <2>0
      <3>2. f[n] \in Seq(D) /\ q[n + 1] \in Seq(D)
        BY <2>3, <3>1
      <3>3. f[n + 1] = f[n] \o q[n + 1]
        BY <2>1 DEF Joins
      <3>4. f[n + 1] \in Seq(D)
        BY <3>2, <3>3
      <3> QED
        BY <3>1, <3>4
    <2>4. 1 .. Len(q) \subseteq S
      <3> HIDE DEF S
      <3> QED
        BY <2>0, <2>2, <2>3, UpTo
    <2> QED
      BY <2>0, <2>1, <2>4
  <1> QED
    BY <1>1, <1>2

LEMMA FlatAppend ==
  ASSUME NEW D, NEW q \in Seq(Seq(D)), NEW s \in Seq(D)
  PROVE  FlattenSeq(Append(q, s)) = FlattenSeq(q) \o s
  <1> DEFINE p == Append(q, s)
  <1>1. p \in Seq(Seq(D)) /\ p # <<>> /\ Len(p) = Len(q) + 1 /\ Len(q) \in Nat
    BY AppendProperties
  <1>0. p[Len(q) + 1] = s
    OBVIOUS
  <1>2. \A i \in 1 .. Len(q) : p[i] = q[i]
    OBVIOUS
  <1> HIDE DEF p
  <1>3. PICK g : Joins(g, p) /\ FlattenSeq(p) = g[Len(p)]
    BY <1>1, FlatOf
  <1>4. CASE q = <<>>
    <2>1. FlattenSeq(p) = s
      BY <1>0, <1>1, <1>3, <1>4 DEF Joins
    <2>2. FlattenSeq(q) \o s = s
      BY <1>4 DEF FlattenSeq
    <2> QED
      BY <2>1, <2>2 DEF p
  <1>5. CASE q # <<>>
    <2>0. Len(q) \in Nat \ {0}
      BY <1>5
    <2>1. PICK f : Joins(f, q) /\ FlattenSeq(q) = f[Len(q)]
      BY <1>5, FlatOf
    <2> DEFINE S == {n \in Nat : g[n] = f[n]}
    <2>2. 1 \in S
      BY <1>2, <1>3, <2>0, <2>1 DEF Joins
    <2>3. ASSUME NEW n \in 1 .. Len(q) - 1, n \in S PROVE n + 1 \in S
      <3>1. n \in 1 .. Len(p) - 1 /\ n + 1 \in 1 .. Len(q)
        BY <1>1, <2>0
      <3>2. g[n + 1] = g[n] \o p[n + 1] /\ f[n + 1] = f[n] \o q[n + 1]
        BY <1>3, <2>1, <3>1 DEF Joins
      <3>3. g[n] = f[n] /\ p[n + 1] = q[n + 1]
        BY <1>2, <2>3, <3>1
      <3>4. g[n + 1] = f[n + 1]
        BY <3>2, <3>3
      <3> QED
        BY <3>1, <3>4
    <2>4. 1 .. Len(q) \subseteq S
      <3> HIDE DEF S
      <3> QED
        BY <2>0, <2>2, <2>3, UpTo
    <2>5. g[Len(q) + 1] = g[Len(q)] \o p[Len(q) + 1]
      <3>1. Len(q) \in 1 .. Len(p) - 1
        BY <1>1, <2>0
      <3> QED
        BY <1>3, <3>1 DEF Joins
    <2>6. g[Len(q)] = f[Len(q)]
      BY <2>0, <2>4
    <2> QED
      BY <1>0, <1>1, <1>3, <2>1, <2>5, <2>6 DEF p
  <1> QED
    BY <1>4, <1>5

LEMMA FlatHead ==
  ASSUME NEW D, NEW q \in Seq(Seq(D)), q # <<>>
  PROVE  FlattenSeq(q) = Head(q) \o FlattenSeq(Tail(q))
  <1> DEFINE r == Tail(q)
  <1>1. /\ r \in Seq(Seq(D)) /\ Len(r) = Len(q) - 1 /\ Head(q) \in Seq(D) /\ Head(q) = q[1]
        /\ Len(q) \in Nat \ {0} /\ Len(r) \in Nat
    OBVIOUS
  <1>2. \A i \in 1 .. Len(r) : r[i] = q[i + 1] /\ r[i] \in Seq(D)
    OBVIOUS
  <1> HIDE DEF r
  <1>3. PICK f : Joins(f, q) /\ FlattenSeq(q) = f[Len(q)]
    BY FlatOf
  <1>4. CASE r = <<>>
    <2>1. FlattenSeq(r) = <<>> /\ Len(q) = 1
      BY <1>1, <1>4 DEF FlattenSeq
    <2> QED
      BY <1>1, <1>3, <2>1 DEF r, Joins
  <1>5. CASE r # <<>>
    <2>0. Len(r) \in Nat \ {0}
      BY <1>1, <1>5, EmptySeq
    <2>1. PICK g : Joins(g, r) /\ FlattenSeq(r) = g[Len(r)]
      BY <1>1, <1>5, FlatOf
    <2> DEFINE h == Head(q)
    <2>2. h \in Seq(D) /\ f[1] = h /\ q # <<>>
      BY <1>1, <1>3 DEF Joins
    <2>3. \A a, b, c \in Seq(D) : (a \o b) \o c = a \o (b \o c)
      BY ConcatAssociative, SMTT(30)
    <2> HIDE DEF h
    <2> DEFINE S == {n \in Nat : g[n] \in Seq(D) /\ f[n + 1] = h \o g[n]}
    <2>4. 1 \in S
      <3>1. g[1] = q[1 + 1] /\ g[1] \in Seq(D)
        BY <1>2, <2>0, <2>1 DEF Joins
      <3>2. 1 \in 1 .. Len(q) - 1
        BY <1>1, <2>0
      <3>3. f[1 + 1] = f[1] \o q[1 + 1]
        BY <1>3, <3>2 DEF Joins
      <3>4. f[1 + 1] = h \o g[1]
        BY <2>2, <3>1, <3>3
      <3> QED
        BY <3>1, <3>4
    <2>5. ASSUME NEW n \in 1 .. Len(r) - 1, n \in S PROVE n + 1 \in S
      <3>1. n + 1 \in 1 .. Len(q) - 1 /\ n + 1 \in 1 .. Len(r)
        BY <1>1, <2>0
      <3>2. f[(n + 1) + 1] = f[n + 1] \o q[(n + 1) + 1]
        BY <1>3, <3>1 DEF Joins
      <3>3. g[n + 1] = g[n] \o r[n + 1]
        BY <2>1 DEF Joins
      <3>4. r[n + 1] = q[(n + 1) + 1] /\ r[n + 1] \in Seq(D)
        BY <1>2, <3>1
      <3>5. g[n] \in Seq(D) /\ f[n + 1] = h \o g[n]
        BY <2>5
      <3>6. f[(n + 1) + 1] = (h \o g[n]) \o r[n + 1]
        BY <3>2, <3>4, <3>5
      <3>7. (h \o g[n]) \o r[n + 1] = h \o (g[n] \o r[n + 1])
        BY <2>2, <2>3, <3>4, <3>5
      <3>8. f[(n + 1) + 1] = h \o g[n + 1]
        BY <3>3, <3>6, <3>7
      <3>9. g[n + 1] \in Seq(D)
        BY <3>3, <3>4, <3>5
      <3> QED
        BY <2>0, <3>1, <3>8, <3>9
    <2>6. Len(r) \in S
      <3> HIDE DEF S
      <3>1. 1 .. Len(r) \subseteq S
        BY <2>0, <2>4, <2>5, UpTo
      <3> QED
        BY <2>0, <3>1
    <2>7. f[Len(r) + 1] = h \o g[Len(r)] /\ Len(r) + 1 = Len(q)
      BY <1>1, <2>6
    <2> QED
      BY <1>3, <2>1, <2>7 DEF r, h
  <1> QED
    BY <1>4, <1>5

-----------------------------------------------------------------------------
(* Type correctness.                                                       *)

\* The bytes counted in n of at most m items of at most b bytes.
LEMMA Counted ==
  ASSUME NEW n \in Nat, NEW m \in Nat, n < m, NEW b \in Nat,
         NEW x \in Nat, x <= n * b, NEW l \in 0 .. b
  PROVE  x + l \in Nat /\ x + l <= (n + 1) * b /\ x + l <= m * b
  <1>1. (n + 1) * b = n * b + b /\ n * b \in Nat
    OBVIOUS
  <1>2. m * b = (n + 1) * b + (m - n - 1) * b
    OBVIOUS
  <1>3. (m - n - 1) * b >= 0 /\ (m - n - 1) * b \in Int /\ m * b \in Int
    OBVIOUS
  <1> QED
    BY <1>1, <1>2, <1>3

LEMMA Products ==
  /\ MaxPackets * RX_BUFSIZE \in Nat /\ MaxTexts * BUF_IN_SIZE \in Nat
  /\ \A n \in Nat : \/ n <= MaxPackets * RX_BUFSIZE
                    \/ n <= RX_BUFSIZE
                    \/ n <= MaxTexts * BUF_IN_SIZE
                    => n \in Byte
  /\ NUL \in Byte /\ Byte \subseteq Nat
  <1>1. MaxPackets \in Nat /\ RX_BUFSIZE \in Nat /\ MaxTexts \in Nat /\ BUF_IN_SIZE \in Nat
    BY UsbConstants
  <1>2. MaxPackets * RX_BUFSIZE \in Nat /\ MaxTexts * BUF_IN_SIZE \in Nat
    BY <1>1
  <1>3. (MaxPackets + 1) * RX_BUFSIZE = MaxPackets * RX_BUFSIZE + RX_BUFSIZE
    BY <1>1
  <1> HIDE DEF Byte
  <1>4. Byte = 0 .. MaxPackets * RX_BUFSIZE + RX_BUFSIZE + MaxTexts * BUF_IN_SIZE
    BY <1>3 DEF Byte
  <1> QED
    BY <1>1, <1>2, <1>4 DEF NUL

\* The numbers of the characters so far stay below the bytes that fit the packets and
\* texts so far.
CountInv == nin <= npacket * RX_BUFSIZE /\ nout <= ntext * BUF_IN_SIZE

TypeInv == TypeOK /\ CountInv

LEMMA UpToNulTypes ==
  ASSUME NEW s \in Seq(Byte)
  PROVE  UpToNul(s) \in Seq(Byte)
  <1> DEFINE Nuls == {i \in DOMAIN s : s[i] = NUL}
  <1>1. CASE Nuls = {}
    BY <1>1 DEF UpToNul
  <1>2. CASE Nuls # {}
    <2>1. Nuls \in SUBSET Nat
      OBVIOUS
    <2>2. Min(Nuls) \in Nuls
      BY <1>2, <2>1, MinOf
    <2>3. Min(Nuls) \in 1 .. Len(s)
      BY <2>2
    <2> HIDE DEF Nuls
    <2>4. \A m \in 1 .. Len(s) : SubSeq(s, 1, m - 1) \in Seq(Byte)
      OBVIOUS
    <2>5. SubSeq(s, 1, Min(Nuls) - 1) \in Seq(Byte)
      BY <2>3, <2>4
    <2> QED
      BY <1>2, <2>5 DEF UpToNul, Nuls
  <1> QED
    BY <1>1, <1>2

\* What usb_write_bytes moves.
LEMMA MinOfTwo ==
  ASSUME NEW m \in Nat, NEW n \in Nat
  PROVE  Min({m, n}) \in Nat /\ Min({m, n}) <= m /\ Min({m, n}) <= n
  BY MinOf

\* What strlen reads behind tx_buffer: the low byte of rx_pos if it is not zero.
LEMMA BehindTypes ==
  ASSUME TypeInv
  PROVE  /\ Behind \in Seq(Byte) /\ Len(Behind) = 2
         /\ UpToNul(Behind) \in Seq(Byte) /\ Len(UpToNul(Behind)) <= 1
  <1>1. Len(rx_buffer) \in Nat /\ Len(rx_buffer) <= RX_BUFSIZE /\ RX_BUFSIZE \in Nat
    BY UsbConstants DEF TypeInv, TypeOK
  <1>2. Len(rx_buffer) \in Byte /\ NUL \in Byte
    BY <1>1, Products
  <1>3. Behind \in Seq(Byte) /\ Len(Behind) = 2 /\ Behind[2] = NUL /\ DOMAIN Behind = 1 .. 2
    BY <1>2 DEF Behind
  <1> DEFINE s == Behind
             Nuls == {i \in DOMAIN s : s[i] = NUL}
  <1>4. Nuls \in SUBSET Nat /\ 2 \in Nuls /\ Nuls # {} /\ Nuls \subseteq 1 .. 2
    BY <1>3
  <1>5. Min(Nuls) \in 1 .. 2
    BY <1>4, MinOf
  <1>6. UpToNul(s) = SubSeq(s, 1, Min(Nuls) - 1)
    BY <1>4 DEF UpToNul
  <1> DEFINE m == Min(Nuls)
  <1>7. Len(SubSeq(s, 1, m - 1)) = m - 1
    <2>1. s \in Seq(Byte) /\ Len(s) = 2 /\ m \in 1 .. 2
      BY <1>3, <1>5
    <2> HIDE DEF s, m
    <2> QED
      BY <2>1
  <1>8. Len(UpToNul(s)) <= 1
    BY <1>5, <1>6, <1>7
  <1> QED
    BY <1>3, <1>8, UpToNulTypes

\* What usb_write_bytes hands to TinyUSB has tx_pos bytes; while strlen has not left
\* tx_buffer they are those of tx_buffer.
LEMMA OutgoingTypes ==
  ASSUME TypeInv
  PROVE  /\ Outgoing \in Seq(Byte) /\ Len(Outgoing) = Len(tx_buffer)
         /\ ~stray => Outgoing = tx_buffer
         /\ Len(tx_buffer) \in Nat /\ Len(tx_buffer) <= TX_BUFSIZE + 2
         /\ Taken \in 0 .. Len(tx_buffer) /\ Taken <= TX_BUFSIZE - Len(tx_fifo)
  <1>1. /\ tx_buffer \in Seq(Byte) /\ Len(tx_buffer) \in Nat /\ TX_BUFSIZE \in Nat
        /\ Len(tx_fifo) \in Nat /\ Len(tx_fifo) <= TX_BUFSIZE
    BY UsbConstants DEF TypeInv, TypeOK
  <1>2. Len(tx_buffer) <= TX_BUFSIZE + 2 /\ (~stray => Len(tx_buffer) <= TX_BUFSIZE)
    BY <1>1 DEF TypeInv, TypeOK
  <1>3. Taken \in 0 .. Len(tx_buffer) /\ Taken <= TX_BUFSIZE - Len(tx_fifo)
    <2>1. TX_BUFSIZE - Len(tx_fifo) \in Nat
      BY <1>1
    <2> QED
      BY <1>1, <2>1, MinOfTwo DEF Taken
  <1>4. CASE Len(tx_buffer) <= TX_BUFSIZE
    BY <1>1, <1>2, <1>3, <1>4 DEF Outgoing
  <1>5. CASE ~(Len(tx_buffer) <= TX_BUFSIZE)
    <2> DEFINE front == SubSeq(tx_buffer, 1, TX_BUFSIZE)
               behind == Behind
    <2>1. front \in Seq(Byte) /\ Len(front) = TX_BUFSIZE
      BY <1>1, <1>5
    <2>2. behind \in Seq(Byte) /\ Len(behind) = 2
      BY BehindTypes
    <2>3. Outgoing = SubSeq(front \o behind, 1, Len(tx_buffer))
      BY <1>5 DEF Outgoing
    <2> HIDE DEF front, behind
    <2>4. front \o behind \in Seq(Byte) /\ Len(front \o behind) = TX_BUFSIZE + 2
      BY <1>1, <2>1, <2>2, ConcatProperties
    <2> DEFINE all == front \o behind
    <2>5. all \in Seq(Byte) /\ Len(all) = TX_BUFSIZE + 2
      BY <2>4
    <2>6. Outgoing = SubSeq(all, 1, Len(tx_buffer))
      BY <2>3
    <2> HIDE DEF all
    <2> QED
      BY <1>1, <1>2, <1>3, <1>5, <2>5, <2>6
  <1> QED
    BY <1>4, <1>5

LEMMA TypeInit == Init => TypeInv
  <1> SUFFICES ASSUME Init PROVE TypeInv
    OBVIOUS
  <1>1. 0 * RX_BUFSIZE = 0 /\ 0 * BUF_IN_SIZE = 0 /\ 0 \in Byte
    BY UsbConstants, Products DEF NUL
  <1>2. CountInv
    BY UsbConstants, <1>1 DEF Init, CountInv
  <1>3. /\ usb0_rx_queue \in Seq(Seq(Byte)) /\ Len(usb0_rx_queue) <= USB0_RX_QUEUE_DEPTH
        /\ \A i \in DOMAIN usb0_rx_queue : Len(usb0_rx_queue[i]) <= RX_BUFSIZE
        /\ usb0_tx_queue \in Seq(Seq(Byte)) /\ Len(usb0_tx_queue) <= USB0_TX_QUEUE_DEPTH
        /\ \A i \in DOMAIN usb0_tx_queue : Len(usb0_tx_queue[i]) <= TX_BUFSIZE
    <2>1. usb0_rx_queue = <<>> /\ usb0_tx_queue = <<>> /\ DOMAIN usb0_rx_queue = {}
          /\ DOMAIN usb0_tx_queue = {}
      BY DEF Init
    <2> QED
      BY UsbConstants, <2>1
  <1>4. /\ rx_fifo \in Seq(Byte) /\ Len(rx_fifo) <= RX_BUFSIZE
        /\ rx_buffer \in Seq(Byte) /\ Len(rx_buffer) < RX_BUFSIZE
        /\ tx_buffer \in Seq(Byte) /\ Len(tx_buffer) <= TX_BUFSIZE
        /\ tx_fifo \in Seq(Byte) /\ Len(tx_fifo) <= TX_BUFSIZE
        /\ usb_rx_data \in Seq(Byte) /\ data \in Seq(Byte)
        /\ shown \in Seq(Byte) /\ host \in Seq(Byte)
    BY UsbConstants DEF Init
  <1>5. /\ conn \in BOOLEAN /\ overrun \in BOOLEAN /\ hidden \in BOOLEAN
        /\ stray = FALSE /\ usb \in {"tud_task", "write", "post", "fetch"} /\ cli \in {"prompt", "cat", "echo"}
    BY DEF Init
  <1>6. /\ npacket \in 0 .. MaxPackets /\ ntext \in 0 .. MaxTexts
        /\ nin \in Byte /\ nout \in Byte
    BY UsbConstants, <1>1 DEF Init
  <1>7. TypeOK
    BY <1>3, <1>4, <1>5, <1>6 DEF TypeOK
  <1> QED
    BY <1>2, <1>7 DEF TypeInv

LEMMA HostTypes ==
  ASSUME TypeInv, HostOpen \/ HostTake \/ \E p \in Packets : HostSend(p)
  PROVE  TypeInv'
  <1>1. CASE HostOpen
    <2>1. conn' \in BOOLEAN
      BY <1>1 DEF HostOpen
    <2> QED
      BY <1>1, <2>1 DEF HostOpen, TypeInv, TypeOK, CountInv, rxVars, txVars, cliVars, counts
  <1>2. CASE HostTake
    <2>1. /\ tx_fifo' \in Seq(Byte) /\ Len(tx_fifo') <= TX_BUFSIZE
          /\ host' \in Seq(Byte)
      <3>1. /\ tx_fifo \in Seq(Byte) /\ Len(tx_fifo) <= TX_BUFSIZE /\ TX_BUFSIZE \in Nat
            /\ tx_fifo # <<>> /\ host \in Seq(Byte)
        BY <1>2, UsbConstants DEF HostTake, TypeInv, TypeOK
      <3>2. /\ Tail(tx_fifo) \in Seq(Byte) /\ Len(Tail(tx_fifo)) <= TX_BUFSIZE
            /\ Head(tx_fifo) \in Byte
        BY <3>1, HeadTailProperties
      <3> QED
        BY <1>2, <3>1, <3>2 DEF HostTake
    <2> QED
      BY <1>2, <2>1 DEF HostTake, TypeInv, TypeOK, CountInv, rxVars, cliVars, counts
  <1>3. ASSUME NEW p \in Packets, HostSend(p) PROVE TypeInv'
    <2>1. /\ p \in Seq({"c", "nul"}) /\ Len(p) \in 1 .. RX_BUFSIZE /\ RX_BUFSIZE \in Nat
          /\ MaxPackets \in Nat
      BY UsbConstants
    <2>2. npacket \in Nat /\ npacket < MaxPackets /\ nin \in Nat /\ nin <= npacket * RX_BUFSIZE
      BY <1>3, Products DEF HostSend, TypeInv, TypeOK, CountInv
    <2>3. /\ nin + Len(p) <= (npacket + 1) * RX_BUFSIZE
          /\ nin + Len(p) \in Nat /\ nin + Len(p) <= MaxPackets * RX_BUFSIZE
      BY <2>1, <2>2, Counted
    <2>4. \A i \in 0 .. nin + Len(p) : i \in Byte
      BY <2>3, Products
    <2>5. DOMAIN p = 1 .. Len(p) /\ \A i \in DOMAIN p : nin + i \in 0 .. nin + Len(p)
      BY <2>1, <2>2
    <2>6. /\ rx_fifo' = [i \in 1 .. Len(p) |-> IF p[i] = "nul" THEN NUL ELSE nin + i]
          /\ npacket' = npacket + 1 /\ nin' = nin + Len(p)
          /\ UNCHANGED <<conn, rx_buffer, usb0_rx_queue, txVars, usb, cliVars, ntext, nout,
                         host, overrun, hidden, stray>>
      BY <1>3, <2>5 DEF HostSend
    <2>7. rx_fifo' \in Seq(Byte) /\ Len(rx_fifo') = Len(p)
      BY <2>1, <2>4, <2>5, <2>6, Products
    <2>8. npacket' \in 0 .. MaxPackets /\ nin' \in Byte
      BY <2>1, <2>2, <2>3, <2>4, <2>6
    <2>9. CountInv'
      BY <2>3, <2>6 DEF TypeInv, CountInv, cliVars
    <2> QED
      BY <2>1, <2>6, <2>7, <2>8, <2>9 DEF TypeInv, TypeOK, txVars, cliVars
  <1> QED
    BY <1>1, <1>2, <1>3

LEMMA UsbTypes ==
  ASSUME TypeInv, UsbTask
  PROVE  TypeInv'
  <1>0. /\ rx_fifo \in Seq(Byte) /\ rx_buffer \in Seq(Byte) /\ Len(rx_buffer) < RX_BUFSIZE
        /\ tx_fifo \in Seq(Byte) /\ tx_buffer \in Seq(Byte) /\ Len(tx_fifo) <= TX_BUFSIZE
        /\ RX_BUFSIZE \in Nat /\ TX_BUFSIZE \in Nat /\ NUL \in Byte
    BY UsbConstants, Products DEF TypeInv, TypeOK
  <1>1. CASE Transfer
    <2>1. /\ rx_fifo' \in Seq(Byte) /\ Len(rx_fifo') <= Len(rx_fifo)
          /\ rx_buffer' \in Seq(Byte) /\ Len(rx_buffer') < RX_BUFSIZE
      <3>1. CASE UNCHANGED <<rx_buffer, rx_fifo>>
        BY <1>0, <3>1
      <3>2. CASE /\ Len(rx_buffer) + Len(rx_fifo) < RX_BUFSIZE
                 /\ rx_buffer' = rx_buffer \o rx_fifo /\ rx_fifo' = <<>>
        BY <1>0, <3>2, ConcatProperties
      <3> QED
        BY <1>1, <3>1, <3>2 DEF Transfer, Read
    <2>2. hidden' \in BOOLEAN
      BY <1>1 DEF Transfer, NulWithin, TypeInv, TypeOK
    <2> QED
      BY <1>0, <1>1, <2>1, <2>2 DEF Transfer, TypeInv, TypeOK, CountInv, txVars, cliVars, counts
  <1>2. CASE Write
    <2> DEFINE left == SubSeq(Outgoing, 1, Taken)
               right == SubSeq(Outgoing, Taken + 1, Len(tx_buffer))
    <2>1. /\ left \in Seq(Byte) /\ Len(left) = Taken /\ Taken \in Nat
          /\ right \in Seq(Byte) /\ Len(right) = Len(tx_buffer) - Taken
          /\ Len(tx_buffer) \in Nat /\ Len(right) <= Len(tx_buffer)
          /\ Taken <= TX_BUFSIZE - Len(tx_fifo)
      <3> DEFINE out == Outgoing
                 taken == Taken
      <3>1. /\ out \in Seq(Byte) /\ Len(out) = Len(tx_buffer) /\ taken \in 0 .. Len(tx_buffer)
            /\ Len(tx_buffer) \in Nat /\ taken <= TX_BUFSIZE - Len(tx_fifo)
        BY OutgoingTypes
      <3> HIDE DEF out, taken
      <3>2. SubSeq(out, 1, taken) \in Seq(Byte) /\ Len(SubSeq(out, 1, taken)) = taken
        BY <3>1
      <3>3. /\ SubSeq(out, taken + 1, Len(tx_buffer)) \in Seq(Byte)
            /\ Len(SubSeq(out, taken + 1, Len(tx_buffer))) = Len(tx_buffer) - taken
        BY <3>1
      <3>4. taken \in Nat /\ Len(tx_buffer) - taken <= Len(tx_buffer)
        BY <3>1
      <3> QED
        BY <3>1, <3>2, <3>3, <3>4 DEF out, taken
    <2>2. \/ UNCHANGED <<tx_fifo, tx_buffer, rx_buffer>>
          \/ /\ tx_fifo' = tx_fifo \o left /\ tx_buffer' = right
             /\ rx_buffer' \in {rx_buffer, <<>>}
      BY <1>2 DEF Write, Move
    <2> HIDE DEF left, right
    <2>3. /\ tx_fifo' \in Seq(Byte) /\ Len(tx_fifo') <= TX_BUFSIZE
          /\ tx_buffer' \in Seq(Byte) /\ Len(tx_buffer') <= Len(tx_buffer)
          /\ rx_buffer' \in Seq(Byte) /\ Len(rx_buffer') < RX_BUFSIZE
      <3>1. CASE UNCHANGED <<tx_fifo, tx_buffer, rx_buffer>>
        BY <1>0, <2>1, <3>1
      <3>2. CASE /\ tx_fifo' = tx_fifo \o left /\ tx_buffer' = right
                 /\ rx_buffer' \in {rx_buffer, <<>>}
        <4>1. tx_fifo \o left \in Seq(Byte) /\ Len(tx_fifo \o left) = Len(tx_fifo) + Len(left)
          BY <1>0, <2>1, ConcatProperties
        <4>2. Len(tx_fifo) \in Nat /\ Len(<<>>) = 0 /\ Len(rx_buffer) \in Nat
          BY <1>0
        <4>3. rx_buffer' \in Seq(Byte) /\ Len(rx_buffer') < RX_BUFSIZE
          <5>1. CASE rx_buffer' = rx_buffer
            BY <1>0, <5>1
          <5>2. CASE rx_buffer' = <<>>
            <6>1. <<>> \in Seq(Byte) /\ Len(<<>>) < RX_BUFSIZE
              BY <1>0, <4>2
            <6> QED
              BY <5>2, <6>1
          <5> QED
            BY <3>2, <5>1, <5>2
        <4> QED
          BY <1>0, <2>1, <3>2, <4>1, <4>2, <4>3
      <3> QED
        BY <2>2, <3>1, <3>2
    <2>4. stray' = stray /\ usb' = "post"
          /\ UNCHANGED <<conn, rx_fifo, usb0_rx_queue, usb0_tx_queue, cliVars, counts, host,
                         overrun, hidden>>
      BY <1>2 DEF Write
    <2>5. Len(tx_buffer') <= IF stray' THEN TX_BUFSIZE + 2 ELSE TX_BUFSIZE
      <3>1. Len(tx_buffer) <= IF stray THEN TX_BUFSIZE + 2 ELSE TX_BUFSIZE
        BY DEF TypeInv, TypeOK
      <3>2. Len(tx_buffer') \in Nat /\ Len(tx_buffer) \in Nat
        BY <2>1, <2>3
      <3> QED
        BY <1>0, <2>3, <2>4, <3>1, <3>2
    <2> QED
      BY <2>3, <2>4, <2>5 DEF TypeInv, TypeOK, CountInv, cliVars, counts
  <1>3. CASE Post /\ rx_buffer # <<>>
    <2> DEFINE item == IF Last(rx_buffer) = NUL THEN rx_buffer ELSE Append(rx_buffer, NUL)
    <2>1. /\ Len(usb0_rx_queue) < USB0_RX_QUEUE_DEPTH
          /\ usb0_rx_queue' = Append(usb0_rx_queue, item) /\ rx_buffer' = <<>> /\ usb' = "fetch"
          /\ UNCHANGED <<conn, rx_fifo, txVars, cliVars, counts, host, overrun, hidden, stray>>
      BY <1>3 DEF Post
    <2>2. item \in Seq(Byte) /\ Len(item) <= RX_BUFSIZE
      BY <1>0
    <2> HIDE DEF item
    <2>3. usb0_rx_queue \in Seq(Seq(Byte)) /\ usb0_rx_queue' \in Seq(Seq(Byte))
      BY <2>1, <2>2 DEF TypeInv, TypeOK
    <2>4. Len(usb0_rx_queue') = Len(usb0_rx_queue) + 1
      BY <2>1, <2>2, <2>3, AppendProperties
    <2>5. \A i \in 1 .. Len(usb0_rx_queue') : Len(usb0_rx_queue'[i]) <= RX_BUFSIZE
      <3>1. \A i \in 1 .. Len(usb0_rx_queue) : Len(usb0_rx_queue[i]) <= RX_BUFSIZE
        BY <2>3 DEF TypeInv, TypeOK
      <3> QED
        BY <2>1, <2>2, <2>3, <2>4, <3>1, AppendProperties, SMTT(30)
    <2>6. Len(usb0_rx_queue') <= USB0_RX_QUEUE_DEPTH
      BY UsbConstants, <2>1, <2>3, <2>4
    <2>7. \A i \in DOMAIN usb0_rx_queue' : Len(usb0_rx_queue'[i]) <= RX_BUFSIZE
      BY <2>3, <2>5
    <2>8. rx_buffer' \in Seq(Byte) /\ Len(rx_buffer') < RX_BUFSIZE
      BY <1>0, UsbConstants, <2>1, EmptySeq
    <2>9. conn' \in BOOLEAN /\ overrun' \in BOOLEAN /\ hidden' \in BOOLEAN
          /\ stray' = stray
      BY <2>1 DEF TypeInv, TypeOK
    <2>10. /\ rx_fifo' = rx_fifo /\ UNCHANGED txVars /\ UNCHANGED cliVars /\ UNCHANGED counts
           /\ host' = host /\ usb' = "fetch"
      BY <2>1
    <2> QED
      BY <2>3, <2>6, <2>7, <2>8, <2>9, <2>10
         DEF TypeInv, TypeOK, CountInv, txVars, cliVars, counts
  <1>4. CASE PostTimeout \/ (Post /\ rx_buffer = <<>>)
    BY <1>4 DEF PostTimeout, Post, TypeInv, TypeOK, CountInv, rxVars, txVars, cliVars, counts
  <1>5. CASE Fetch
    <2> DEFINE item == Head(usb0_tx_queue)
               queue == Tail(usb0_tx_queue)
               bound == IF stray' THEN TX_BUFSIZE + 2 ELSE TX_BUFSIZE
    <2>1. /\ usb0_tx_queue \in Seq(Seq(Byte)) /\ Len(usb0_tx_queue) <= USB0_TX_QUEUE_DEPTH
          /\ \A i \in 1 .. Len(usb0_tx_queue) : Len(usb0_tx_queue[i]) <= TX_BUFSIZE
      BY DEF TypeInv, TypeOK
    <2>2. ASSUME usb0_tx_queue # <<>>
          PROVE  /\ queue \in Seq(Seq(Byte))
                 /\ Len(queue) <= USB0_TX_QUEUE_DEPTH
                 /\ \A i \in DOMAIN queue : Len(queue[i]) <= TX_BUFSIZE
                 /\ item \in Seq(Byte) /\ Len(item) <= TX_BUFSIZE
      BY UsbConstants, <2>1, <2>2, HeadTailProperties
    <2>3. \/ UNCHANGED <<tx_buffer, usb0_tx_queue, stray>>
          \/ /\ usb0_tx_queue # <<>> /\ tx_buffer' = Terminated(item)
             /\ usb0_tx_queue' = queue /\ stray' = (stray \/ Last(item) # NUL)
      BY <1>5 DEF Fetch
    <2> HIDE DEF item, queue
    <2>4. /\ tx_buffer' \in Seq(Byte) /\ Len(tx_buffer') <= bound /\ stray' \in BOOLEAN
          /\ usb0_tx_queue' \in Seq(Seq(Byte)) /\ Len(usb0_tx_queue') <= USB0_TX_QUEUE_DEPTH
          /\ \A i \in DOMAIN usb0_tx_queue' : Len(usb0_tx_queue'[i]) <= TX_BUFSIZE
      <3>1. CASE UNCHANGED <<tx_buffer, usb0_tx_queue, stray>>
        <4>1. stray \in BOOLEAN /\ Len(tx_buffer) <= IF stray THEN TX_BUFSIZE + 2 ELSE TX_BUFSIZE
          BY DEF TypeInv, TypeOK
        <4> QED
          BY <1>0, <2>1, <3>1, <4>1
      <3>2. CASE /\ usb0_tx_queue # <<>> /\ tx_buffer' = Terminated(item)
                 /\ usb0_tx_queue' = queue /\ stray' = (stray \/ Last(item) # NUL)
        <4>1. stray \in BOOLEAN
          BY DEF TypeInv, TypeOK
        <4>2. item \in Seq(Byte) /\ Len(item) <= TX_BUFSIZE /\ Len(item) \in Nat
          BY <2>2, <3>2
        <4>3. CASE Last(item) = NUL
          <5>1. tx_buffer' = item /\ stray' = stray
            BY <3>2, <4>1, <4>3 DEF Terminated
          <5> QED
            BY <1>0, <2>2, <3>2, <4>1, <4>2, <5>1
        <4>4. CASE Last(item) # NUL
          <5> DEFINE more == Append(UpToNul(Behind), NUL)
          <5>1. more \in Seq(Byte) /\ Len(more) <= 2 /\ Len(more) \in Nat
            <6>1. UpToNul(Behind) \in Seq(Byte) /\ Len(UpToNul(Behind)) <= 1
              BY BehindTypes
            <6> QED
              BY <1>0, <6>1
          <5>2. tx_buffer' = item \o more /\ stray' = TRUE
            BY <3>2, <4>4 DEF Terminated
          <5> HIDE DEF more
          <5>3. item \o more \in Seq(Byte) /\ Len(item \o more) = Len(item) + Len(more)
            BY <4>2, <5>1, ConcatProperties
          <5>4. tx_buffer' \in Seq(Byte) /\ Len(tx_buffer') <= bound
            BY <1>0, <4>2, <5>1, <5>2, <5>3
          <5> QED
            BY <2>2, <3>2, <5>2, <5>4
        <4> QED
          BY <4>3, <4>4
      <3> QED
        BY <2>3, <3>1, <3>2
    <2> QED
      BY <1>5, <2>4 DEF Fetch, TypeInv, TypeOK, CountInv, rxVars, cliVars, counts
  <1> QED
    BY <1>1, <1>2, <1>3, <1>4, <1>5 DEF UsbTask

\* What usb_data_put hands to the queue.
LEMMA ItemTypes ==
  ASSUME data \in Seq(Byte)
  PROVE  Item \in Seq(Byte) /\ Item # <<>> /\ Len(Item) <= TX_BUFSIZE
  <1>1. TX_BUFSIZE \in Nat \ {0} /\ NUL \in Byte /\ Len(data) \in Nat
    BY UsbConstants, Products
  <1>2. CASE Len(data) < TX_BUFSIZE
    BY <1>1, <1>2 DEF Item
  <1>3. CASE ~(Len(data) < TX_BUFSIZE)
    <2> DEFINE item == SubSeq(data, 1, TX_BUFSIZE)
    <2>1. Item = item
      BY <1>3 DEF Item
    <2>2. item \in Seq(Byte) /\ Len(item) = TX_BUFSIZE
      BY <1>1, <1>3
    <2> HIDE DEF item
    <2>3. item # <<>>
      BY <1>1, <2>2
    <2> QED
      BY <1>1, <2>1, <2>2, <2>3
  <1> QED
    BY <1>2, <1>3

LEMMA CliTypes ==
  ASSUME TypeInv, Cat \/ Command \/ \E length \in Lengths : Echo(length)
  PROVE  TypeInv'
  <1>0. /\ usb_rx_data \in Seq(Byte) /\ data \in Seq(Byte) /\ shown \in Seq(Byte)
        /\ BUF_IN_SIZE \in Nat /\ TX_BUFSIZE \in Nat \ {0} /\ NUL \in Byte
        /\ MaxTexts \in Nat /\ <<>> \in Seq(Byte)
    BY UsbConstants, Products DEF TypeInv, TypeOK, CountInv
  <1>1. CASE Cat
    BY <1>1 DEF Cat, TypeInv, TypeOK, CountInv, rxVars, txVars, counts
  <1>2. CASE CatGet
    <2>1. /\ usb0_rx_queue \in Seq(Seq(Byte)) /\ Len(usb0_rx_queue) <= USB0_RX_QUEUE_DEPTH
          /\ USB0_RX_QUEUE_DEPTH \in Nat /\ usb0_rx_queue # <<>>
          /\ \A i \in 1 .. Len(usb0_rx_queue) : Len(usb0_rx_queue[i]) <= RX_BUFSIZE
      <3>1. usb0_rx_queue # <<>> /\ USB0_RX_QUEUE_DEPTH \in Nat
        BY <1>2, UsbConstants DEF CatGet
      <3> QED
        BY <3>1, SMTT(30) DEF TypeInv, TypeOK
    <2>2. /\ Tail(usb0_rx_queue) \in Seq(Seq(Byte))
          /\ Len(Tail(usb0_rx_queue)) <= USB0_RX_QUEUE_DEPTH
          /\ \A i \in DOMAIN Tail(usb0_rx_queue) : Len(Tail(usb0_rx_queue)[i]) <= RX_BUFSIZE
          /\ Head(usb0_rx_queue) \in Seq(Byte)
      BY <2>1, HeadTailProperties
    <2>3. UpToNul(Head(usb0_rx_queue)) \in Seq(Byte)
      BY <2>2, UpToNulTypes
    <2>4. usb_rx_data' \in Seq(Byte)
      BY <1>0, <1>2, <2>3 DEF CatGet
    <2>5. overrun' \in BOOLEAN
      BY <1>2 DEF CatGet, TypeInv, TypeOK
    <2> QED
      BY <1>2, <2>2, <2>4, <2>5 DEF CatGet, TypeInv, TypeOK, CountInv, txVars, counts
  <1>3. CASE CatEnd
    <2>1. shown' \in Seq(Byte) /\ usb_rx_data' \in Seq(Byte)
      BY <1>0, <1>3 DEF CatEnd
    <2> QED
      BY <1>3, <2>1 DEF CatEnd, TypeInv, TypeOK, CountInv, rxVars, txVars, counts
  <1>4. ASSUME NEW length \in Lengths, Echo(length) PROVE TypeInv'
    <2>1. length \in 1 .. BUF_IN_SIZE /\ length \in 0 .. BUF_IN_SIZE /\ BUF_IN_SIZE \in Nat
      BY UsbConstants
    <2>2. ntext \in Nat /\ ntext < MaxTexts /\ nout \in Nat /\ nout <= ntext * BUF_IN_SIZE
      BY <1>4, Products DEF Echo, TypeInv, TypeOK, CountInv
    <2>3. /\ nout + length <= (ntext + 1) * BUF_IN_SIZE
          /\ nout + length \in Nat /\ nout + length <= MaxTexts * BUF_IN_SIZE
      BY <1>0, <2>1, <2>2, Counted
    <2>4. \A i \in 0 .. nout + length : i \in Byte
      BY <2>3, Products
    <2>5. /\ data' = [i \in 1 .. length |-> nout + i] /\ cli' = "echo"
          /\ ntext' = ntext + 1 /\ nout' = nout + length
          /\ UNCHANGED <<conn, rxVars, txVars, usb, usb_rx_data, npacket, nin, shown, host,
                         overrun, hidden, stray>>
      BY <1>4 DEF Echo
    <2>6. \A i \in 1 .. length : nout + i \in 0 .. nout + length
      BY <2>1, <2>2
    <2>7. data' \in Seq(Byte) /\ Len(data') = length
      BY <2>1, <2>4, <2>5, <2>6
    <2>8. ntext' \in 0 .. MaxTexts /\ nout' \in Byte
      BY <1>0, <2>2, <2>3, <2>4, <2>5
    <2>9. CountInv'
      BY <2>1, <2>3, <2>5, <2>7 DEF TypeInv, CountInv
    <2> QED
      BY <2>5, <2>7, <2>8, <2>9 DEF TypeInv, TypeOK, rxVars, txVars
  <1>5. CASE EchoPut
    <2> DEFINE item == Item
    <2>1. item \in Seq(Byte) /\ Len(item) <= TX_BUFSIZE
      BY ItemTypes DEF TypeInv, TypeOK
    <2>2. /\ usb0_tx_queue' = Append(usb0_tx_queue, item) /\ data' = <<>> /\ cli' = "prompt"
          /\ Len(usb0_tx_queue) < USB0_TX_QUEUE_DEPTH
          /\ UNCHANGED <<conn, rxVars, tx_buffer, tx_fifo, usb, usb_rx_data, counts, shown, host,
                         overrun, hidden, stray>>
      BY <1>5 DEF EchoPut
    <2> HIDE DEF item
    <2>3. usb0_tx_queue \in Seq(Seq(Byte)) /\ usb0_tx_queue' \in Seq(Seq(Byte))
      BY <2>1, <2>2 DEF TypeInv, TypeOK
    <2>4. Len(usb0_tx_queue') = Len(usb0_tx_queue) + 1
      BY <2>1, <2>2, <2>3, AppendProperties
    <2>5. \A i \in 1 .. Len(usb0_tx_queue') : Len(usb0_tx_queue'[i]) <= TX_BUFSIZE
      <3>1. \A i \in 1 .. Len(usb0_tx_queue) : Len(usb0_tx_queue[i]) <= TX_BUFSIZE
        BY <2>3 DEF TypeInv, TypeOK
      <3> QED
        BY <2>1, <2>2, <2>3, <2>4, <3>1, AppendProperties, SMTT(30)
    <2>6. Len(usb0_tx_queue') <= USB0_TX_QUEUE_DEPTH
      BY UsbConstants, <2>2, <2>3, <2>4
    <2>7. \A i \in DOMAIN usb0_tx_queue' : Len(usb0_tx_queue'[i]) <= TX_BUFSIZE
      BY <2>3, <2>5
    <2>8. CountInv'
      BY <1>0, <2>2 DEF TypeInv, CountInv, counts
    <2> QED
      BY <1>0, <2>2, <2>3, <2>6, <2>7, <2>8 DEF TypeInv, TypeOK, rxVars, counts
  <1>6. CASE EchoTimeout
    <2>1. CountInv'
      BY <1>0, <1>6 DEF EchoTimeout, TypeInv, CountInv, counts
    <2> QED
      BY <1>0, <1>6, <2>1 DEF EchoTimeout, TypeInv, TypeOK, rxVars, txVars, counts
  <1> QED
    BY <1>1, <1>2, <1>3, <1>4, <1>5, <1>6 DEF Command

LEMMA TypeStep == TypeInv /\ [Next]_vars => TypeInv'
  <1> SUFFICES ASSUME TypeInv, [Next]_vars PROVE TypeInv'
    OBVIOUS
  <1>1. CASE UNCHANGED vars
    BY <1>1 DEF vars, TypeInv, TypeOK, CountInv, rxVars, txVars, cliVars, counts
  <1>2. CASE Next
    BY <1>2, HostTypes, UsbTypes, CliTypes DEF Next
  <1> QED
    BY <1>1, <1>2

LEMMA TypeInvariant == Spec => []TypeInv
  BY TypeInit, TypeStep, PTL DEF Spec

\* The types of the serial port, TypeOK: for buffers and queues of any size, packets of up
\* to the FIFO's size and texts of any length, no buffer of received bytes, no FIFO and no
\* queued item is ever longer than its array, with the terminator that Post adds; nor does
\* tx_pos leave tx_buffer before strlen has, and then by no more than the two bytes of
\* rx_pos behind it.
THEOREM UsbSerialTypes == Spec => []TypeOK
  <1>1. TypeInv => TypeOK
    BY DEF TypeInv
  <1> QED
    BY TypeInvariant, <1>1, PTL

-----------------------------------------------------------------------------
(* What the host gets is what echo has queued.                             *)

LEMMA Assoc == \A a, b, c \in Seq(Byte) : (a \o b) \o c = a \o (b \o c)
  <1> SUFFICES ASSUME NEW a, NEW b, NEW c, a \in Seq(Byte), b \in Seq(Byte), c \in Seq(Byte)
               PROVE  (a \o b) \o c = a \o (b \o c)
    OBVIOUS
  <1> QED
    BY ConcatAssociative, SMTT(30)

\* More at the end of what is pending, or its beginning taken away.
LEMMA Longer ==
  ASSUME NEW a \in Seq(Byte), NEW b \in Seq(Byte), b # <<>>
  PROVE  IsStrictPrefix(a, a \o b)
  <1>1. Len(a) \in Nat /\ Len(b) \in Nat \ {0} /\ Len(a \o b) = Len(a) + Len(b)
    BY ConcatProperties
  <1>2. SubSeq(a \o b, 1, Len(a)) = a /\ SubSeq(a, 1, Len(a)) = a
    <2>1. a \o b \in Seq(Byte) /\ \A i \in 1 .. Len(a) : (a \o b)[i] = a[i]
      OBVIOUS
    <2> QED
      BY <2>1
  <1>3. a # a \o b
    BY <1>1
  <1>4. Len(a) <= Len(a \o b)
    BY <1>1
  <1> QED
    BY <1>2, <1>3, <1>4 DEF IsStrictPrefix, IsPrefix

LEMMA Shorter ==
  ASSUME NEW a \in Seq(Byte), NEW b \in Seq(Byte)
  PROVE  /\ SubSeq(a \o b, 1, Len(a)) = a
         /\ SubSeq(a \o b, Len(a) + 1, Len(a \o b)) = b
         /\ Len(a) <= Len(a \o b) /\ Len(a) \in Nat /\ Len(a \o b) \in Nat
  <1>1. /\ a \o b \in Seq(Byte) /\ Len(a \o b) = Len(a) + Len(b)
        /\ \A i \in 1 .. Len(a) : (a \o b)[i] = a[i]
        /\ \A i \in 1 .. Len(b) : (a \o b)[Len(a) + i] = b[i]
    OBVIOUS
  <1>2. SubSeq(a \o b, 1, Len(a)) = a
    BY <1>1
  <1>3. SubSeq(a \o b, Len(a) + 1, Len(a \o b)) = b
    BY <1>1
  <1> QED
    BY <1>1, <1>2, <1>3

LEMMA TxStep ==
  ASSUME TypeInv, [Next]_vars, ~stray'
  PROVE  [TxPipe!Put \/ TxPipe!Get]_<<toHost, host>>
  <1> DEFINE flat == FlattenSeq(usb0_tx_queue)
  <1>0. /\ usb0_tx_queue \in Seq(Seq(Byte)) /\ tx_fifo \in Seq(Byte) /\ tx_buffer \in Seq(Byte)
        /\ flat \in Seq(Byte) /\ data \in Seq(Byte) /\ NUL \in Byte /\ host \in Seq(Byte)
    BY FlatTypes, Products DEF TypeInv, TypeOK
  <1>1. toHost = (tx_fifo \o tx_buffer) \o flat /\ toHost = tx_fifo \o (tx_buffer \o flat)
    <2>1. \A y, z \in Seq(Byte) : (tx_fifo \o y) \o z = tx_fifo \o (y \o z)
      BY <1>0, Assoc, Zenon
    <2>2. \A z \in Seq(Byte) : (tx_fifo \o tx_buffer) \o z = tx_fifo \o (tx_buffer \o z)
      BY <1>0, <2>1, Zenon
    <2>3. (tx_fifo \o tx_buffer) \o flat = tx_fifo \o (tx_buffer \o flat)
      <3> HIDE DEF flat
      <3> QED
        BY <1>0, <2>2, Zenon
    <2> QED
      BY <2>3 DEF toHost
  <1> HIDE DEF flat
  <1>2. CASE HostTake
    <2> DEFINE first == <<Head(tx_fifo)>>
               rest == Tail(tx_fifo) \o (tx_buffer \o flat)
    <2>1. /\ tx_fifo # <<>> /\ tx_fifo' = Tail(tx_fifo) /\ host' = host \o first
          /\ UNCHANGED <<usb0_tx_queue, tx_buffer>>
      BY <1>0, <1>2 DEF HostTake
    <2>2. /\ first \in Seq(Byte) /\ Tail(tx_fifo) \in Seq(Byte) /\ tx_fifo = first \o Tail(tx_fifo)
          /\ Len(first) = 1
      BY <1>0, <2>1
    <2>3. toHost' = rest
      <3> DEFINE behind == Tail(tx_fifo)
      <3>1. behind \in Seq(Byte)
        BY <2>2
      <3> HIDE DEF behind
      <3>2. \A y, z \in Seq(Byte) : (behind \o y) \o z = behind \o (y \o z)
        BY <3>1, Assoc, Zenon
      <3>3. (behind \o tx_buffer) \o flat = behind \o (tx_buffer \o flat)
        BY <1>0, <3>2, Zenon
      <3> QED
        BY <2>1, <3>3 DEF behind, toHost, flat
    <2>4. rest \in Seq(Byte) /\ tx_buffer \o flat \in Seq(Byte)
      BY <1>0, <2>2
    <2> HIDE DEF first
    <2>5. toHost = first \o rest
      <3>1. (first \o Tail(tx_fifo)) \o (tx_buffer \o flat)
              = first \o (Tail(tx_fifo) \o (tx_buffer \o flat))
        BY <2>2, <2>4, Assoc
      <3> QED
        BY <1>1, <2>2, <3>1
    <2> HIDE DEF rest
    <2>6. /\ SubSeq(toHost, 1, 1) = first /\ SubSeq(toHost, 1 + 1, Len(toHost)) = rest
          /\ 1 \in 1 .. Len(toHost)
      <3>1. /\ SubSeq(first \o rest, 1, Len(first)) = first
            /\ SubSeq(first \o rest, Len(first) + 1, Len(first \o rest)) = rest
            /\ Len(first) <= Len(first \o rest) /\ Len(first \o rest) \in Nat
        BY <2>2, <2>4, Shorter
      <3> QED
        BY <2>2, <2>5, <3>1
    <2>7. TxPipe!Get
      BY <2>1, <2>3, <2>6 DEF TxPipe!Get
    <2> QED
      BY <2>7
  <1>3. CASE Write
    <2> DEFINE count == Taken
    <2>1. ~stray
      BY <1>3 DEF Write
    <2>2. Outgoing = tx_buffer /\ count \in Nat /\ count <= Len(tx_buffer)
      BY <2>1, OutgoingTypes
    <2>3. \/ UNCHANGED <<tx_fifo, tx_buffer>>
          \/ /\ tx_fifo' = tx_fifo \o SubSeq(tx_buffer, 1, count)
             /\ tx_buffer' = SubSeq(tx_buffer, count + 1, Len(tx_buffer))
      BY <1>3, <2>2 DEF Write, Move
    <2> HIDE DEF count
    <2>4. tx_fifo' \o tx_buffer' = tx_fifo \o tx_buffer
      <3> DEFINE left == SubSeq(tx_buffer, 1, count)
                 right == SubSeq(tx_buffer, count + 1, Len(tx_buffer))
      <3>1. left \in Seq(Byte) /\ right \in Seq(Byte)
        BY <1>0, <2>2
      <3>2. left \o right = tx_buffer
        <4>1. 1 \in 1 .. Len(tx_buffer) + 1 /\ count \in 1 - 1 .. Len(tx_buffer)
              /\ Len(tx_buffer) \in count .. Len(tx_buffer)
          BY <1>0, <2>2
        <4>2. left \o right = SubSeq(tx_buffer, 1, Len(tx_buffer))
          BY <1>0, <4>1, ConcatAdjacentSubSeq
        <4> QED
          BY <1>0, <4>2, SubSeqFull
      <3> HIDE DEF left, right
      <3>3. (tx_fifo \o left) \o right = tx_fifo \o (left \o right)
        <4>1. tx_fifo \in Seq(Byte)
          BY <1>0
        <4> QED
          BY <3>1, <4>1, Assoc, ZenonT(30)
      <3> QED
        BY <2>3, <3>2, <3>3 DEF left, right
    <2> QED
      BY <1>3, <2>4 DEF toHost, Write
  <1>4. CASE Fetch
    <2>1. CASE UNCHANGED <<tx_buffer, usb0_tx_queue>>
      BY <1>4, <2>1 DEF Fetch, toHost
    <2>2. CASE /\ usb0_tx_queue # <<>> /\ tx_buffer = <<>>
               /\ tx_buffer' = Head(usb0_tx_queue) /\ usb0_tx_queue' = Tail(usb0_tx_queue)
      <3>1. /\ Head(usb0_tx_queue) \in Seq(Byte) /\ FlattenSeq(Tail(usb0_tx_queue)) \in Seq(Byte)
            /\ flat = Head(usb0_tx_queue) \o FlattenSeq(Tail(usb0_tx_queue))
        <4>1. Head(usb0_tx_queue) \in Seq(Byte) /\ Tail(usb0_tx_queue) \in Seq(Seq(Byte))
          BY <1>0, <2>2, HeadTailProperties
        <4> QED
          BY <1>0, <2>2, <4>1, FlatTypes, FlatHead DEF flat
      <3>2. toHost = tx_fifo \o flat
        BY <1>0, <1>1, <2>2
      <3>3. toHost' = (tx_fifo \o Head(usb0_tx_queue)) \o FlattenSeq(Tail(usb0_tx_queue))
        BY <1>4, <2>2 DEF Fetch, toHost
      <3>4. (tx_fifo \o Head(usb0_tx_queue)) \o FlattenSeq(Tail(usb0_tx_queue))
              = tx_fifo \o (Head(usb0_tx_queue) \o FlattenSeq(Tail(usb0_tx_queue)))
        <4> DEFINE first == Head(usb0_tx_queue)
                   rest == FlattenSeq(Tail(usb0_tx_queue))
        <4>1. first \in Seq(Byte) /\ rest \in Seq(Byte)
          BY <3>1
        <4> HIDE DEF first, rest
        <4>2. (tx_fifo \o first) \o rest = tx_fifo \o (first \o rest)
          <5>1. tx_fifo \in Seq(Byte)
            BY <1>0
          <5> QED
            BY <4>1, <5>1, Assoc, ZenonT(30)
        <4> QED
          BY <4>2 DEF first, rest
      <3>5. toHost' = toHost
        BY <3>1, <3>2, <3>3, <3>4
      <3> QED
        BY <1>4, <3>5 DEF Fetch
    <2> QED
      <3>1. \/ UNCHANGED <<tx_buffer, usb0_tx_queue>>
            \/ /\ usb0_tx_queue # <<>> /\ tx_buffer = <<>>
               /\ tx_buffer' = Terminated(Head(usb0_tx_queue))
               /\ usb0_tx_queue' = Tail(usb0_tx_queue) /\ Last(Head(usb0_tx_queue)) = NUL
        BY <1>4 DEF Fetch
      <3> QED
        BY <2>1, <2>2, <3>1 DEF Terminated
  <1>5. CASE EchoPut
    <2> DEFINE item == Item
    <2>1. item \in Seq(Byte) /\ item # <<>>
      BY <1>0, ItemTypes
    <2>2. /\ usb0_tx_queue' = Append(usb0_tx_queue, item)
          /\ UNCHANGED <<tx_buffer, tx_fifo, host>>
      BY <1>5 DEF EchoPut
    <2> HIDE DEF item
    <2>3. FlattenSeq(usb0_tx_queue') = flat \o item
      BY <1>0, <2>1, <2>2, FlatAppend DEF flat
    <2>4. toHost' = (tx_fifo \o tx_buffer) \o (flat \o item)
      BY <2>2, <2>3 DEF toHost
    <2>5. tx_fifo \o tx_buffer \in Seq(Byte) /\ toHost \in Seq(Byte)
      BY <1>0, <1>1
    <2>6. (tx_fifo \o tx_buffer) \o (flat \o item) = ((tx_fifo \o tx_buffer) \o flat) \o item
      <3> DEFINE front == tx_fifo \o tx_buffer
      <3>1. front \in Seq(Byte)
        BY <2>5
      <3> HIDE DEF front
      <3>2. \A y, z \in Seq(Byte) : (front \o y) \o z = front \o (y \o z)
        BY <3>1, Assoc, Zenon
      <3>3. (front \o flat) \o item = front \o (flat \o item)
        BY <1>0, <2>1, <3>2, Zenon
      <3> QED
        BY <3>3 DEF front
    <2>7. toHost' = toHost \o item
      BY <1>1, <2>4, <2>6
    <2>8. IsStrictPrefix(toHost, toHost \o item)
      BY <2>1, <2>5, Longer
    <2>9. TxPipe!Put
      BY <2>2, <2>7, <2>8
         DEF TxPipe!Put, TxPipe!IsStrictPrefix, TxPipe!IsPrefix, IsStrictPrefix, IsPrefix
    <2> QED
      BY <2>9
  <1>6. CASE ~HostTake /\ ~Write /\ ~Fetch /\ ~EchoPut
    <2>1. UNCHANGED <<tx_fifo, tx_buffer, usb0_tx_queue, host>>
      BY <1>6 DEF Next, HostOpen, HostSend, UsbTask, Transfer, Post, PostTimeout, Cat, Command, CatGet,
         CatEnd, Echo, EchoTimeout, vars, txVars
    <2> QED
      BY <2>1 DEF toHost
  <1> QED
    BY <1>2, <1>3, <1>4, <1>5, <1>6

\* TxIsPipe: whatever the sizes of the buffers and queues, the texts and the moments at
\* which the port is opened and closed, the host gets the texts whole and in order, until
\* one that leaves no room for its terminator has been fetched.
THEOREM TextsReachTheHost == Spec => TxIsPipe
  <1>1. Init => toHost = <<>> /\ host = <<>>
    <2>1. FlattenSeq(<<>>) = <<>>
      BY DEF FlattenSeq
    <2> QED
      BY <2>1 DEF Init, toHost
  <1>2. TypeInv /\ [Next]_vars => [stray' \/ TxPipe!Put \/ TxPipe!Get]_<<toHost, host>>
    BY TxStep
  <1> QED
    BY TypeInvariant, <1>1, <1>2, PTL DEF Spec, TxIsPipe, TxPipe!PipeSpec

-----------------------------------------------------------------------------
(* TextOf, the characters among some bytes.                                *)

IsTextOf(f, s) ==
  f = [i \in 0 .. Len(s) |->
         IF i = 0 THEN <<>> ELSE IF isText(s[i]) THEN Append(f[i - 1], s[i]) ELSE f[i - 1]]

LEMMA TextExists ==
  ASSUME NEW s \in Seq(Byte)
  PROVE  \E f : IsTextOf(f, s)
  <1> DEFINE S == {n \in Nat : \A p \in Seq(Byte) : Len(p) = n => \E f : IsTextOf(f, p)}
  <1>1. 0 \in S
    <2> SUFFICES ASSUME NEW p \in Seq(Byte), Len(p) = 0 PROVE \E f : IsTextOf(f, p)
      OBVIOUS
    <2> DEFINE f == [i \in {0} |-> <<>>]
    <2>1. f = [i \in 0 .. 0 |-> IF i = 0 THEN <<>>
                                ELSE IF isText(p[i]) THEN Append(f[i - 1], p[i]) ELSE f[i - 1]]
      OBVIOUS
    <2> HIDE DEF f
    <2>2. IsTextOf(f, p)
      BY <2>1 DEF IsTextOf
    <2> QED
      BY <2>2
  <1>2. ASSUME NEW n \in Nat, n \in S PROVE n + 1 \in S
    <2> SUFFICES ASSUME NEW p \in Seq(Byte), Len(p) = n + 1 PROVE \E f : IsTextOf(f, p)
      OBVIOUS
    <2> DEFINE r == SubSeq(p, 1, n)
    <2>1. r \in Seq(Byte) /\ Len(r) = n /\ \A i \in 1 .. n : r[i] = p[i]
      OBVIOUS
    <2> HIDE DEF r
    <2>2. PICK g : IsTextOf(g, r)
      BY <1>2, <2>1
    <2> DEFINE next == IF isText(p[n + 1]) THEN Append(g[n], p[n + 1]) ELSE g[n]
               f == [i \in 0 .. n + 1 |-> IF i <= n THEN g[i] ELSE next]
    <2>3. \A i \in 0 .. n : g[i] = IF i = 0 THEN <<>>
                                   ELSE IF isText(p[i]) THEN Append(g[i - 1], p[i]) ELSE g[i - 1]
      <3>1. \A i \in 0 .. n : g[i] = IF i = 0 THEN <<>>
                                     ELSE IF isText(r[i]) THEN Append(g[i - 1], r[i]) ELSE g[i - 1]
        BY <2>1, <2>2 DEF IsTextOf
      <3>2. \A i \in 0 .. n : i # 0 => r[i] = p[i]
        BY <2>1
      <3> QED
        BY <3>1, <3>2
    <2>4. \A i \in 0 .. n + 1 : f[i] = IF i = 0 THEN <<>>
                                       ELSE IF isText(p[i]) THEN Append(f[i - 1], p[i]) ELSE f[i - 1]
      <3>1. \A i \in 0 .. n : f[i] = g[i]
        OBVIOUS
      <3>2. f[n + 1] = next
        OBVIOUS
      <3> HIDE DEF f, next
      <3>3. ASSUME NEW i \in 0 .. n
            PROVE  f[i] = IF i = 0 THEN <<>>
                          ELSE IF isText(p[i]) THEN Append(f[i - 1], p[i]) ELSE f[i - 1]
        <4>1. f[i] = g[i] /\ (i # 0 => f[i - 1] = g[i - 1])
          BY <3>1
        <4> QED
          BY <2>3, <4>1
      <3>4. f[n + 1] = IF isText(p[n + 1]) THEN Append(f[n], p[n + 1]) ELSE f[n]
        BY <3>1, <3>2 DEF next
      <3>5. \A i \in 0 .. n + 1 : i \in 0 .. n \/ (i = n + 1 /\ i - 1 = n /\ i # 0)
        OBVIOUS
      <3> QED
        BY <3>3, <3>4, <3>5
    <2>5. f = [i \in 0 .. n + 1 |-> f[i]]
      OBVIOUS
    <2> HIDE DEF f
    <2>6. IsTextOf(f, p)
      BY <2>4, <2>5 DEF IsTextOf
    <2> QED
      BY <2>6
  <1>3. Len(s) \in S
    <2> HIDE DEF S
    <2> QED
      BY <1>1, <1>2, SetInduction
  <1> QED
    BY <1>3

\* What the characters among the first bytes are.
Picks(f, s) ==
  /\ f[0] = <<>>
  /\ \A n \in 0 .. Len(s) - 1 :
       f[n + 1] = IF isText(s[n + 1]) THEN Append(f[n], s[n + 1]) ELSE f[n]

LEMMA TextWith ==
  ASSUME NEW s \in Seq(Byte)
  PROVE  \E f : Picks(f, s) /\ TextOf(s) = f[Len(s)]
  <1> DEFINE f == CHOOSE f : IsTextOf(f, s)
  <1>1. IsTextOf(f, s)
    BY TextExists
  <1>2. TextOf(s) = f[Len(s)]
    BY DEF TextOf, IsTextOf
  <1> HIDE DEF f
  <1>3. \A i \in 0 .. Len(s) :
          f[i] = IF i = 0 THEN <<>>
                 ELSE IF isText(s[i]) THEN Append(f[i - 1], s[i]) ELSE f[i - 1]
    BY <1>1 DEF IsTextOf
  <1>4. f[0] = <<>>
    BY <1>3
  <1>5. ASSUME NEW n \in 0 .. Len(s) - 1
        PROVE  f[n + 1] = IF isText(s[n + 1]) THEN Append(f[n], s[n + 1]) ELSE f[n]
    <2>1. n + 1 \in 0 .. Len(s) /\ n + 1 # 0 /\ (n + 1) - 1 = n
      OBVIOUS
    <2> QED
      BY <1>3, <2>1
  <1>6. Picks(f, s)
    BY <1>4, <1>5 DEF Picks
  <1> QED
    BY <1>2, <1>6

LEMMA TextEmpty == TextOf(<<>>) = <<>>
  <1>1. PICK f : Picks(f, <<>>) /\ TextOf(<<>>) = f[Len(<<>>)]
    <2>1. <<>> \in Seq(Byte)
      OBVIOUS
    <2> QED
      BY <2>1, TextWith
  <1> QED
    BY <1>1 DEF Picks

LEMMA TextAppend ==
  ASSUME NEW s \in Seq(Byte), NEW b \in Byte
  PROVE  TextOf(Append(s, b)) = IF isText(b) THEN Append(TextOf(s), b) ELSE TextOf(s)
  <1> DEFINE t == Append(s, b)
  <1>1. /\ t \in Seq(Byte) /\ Len(t) = Len(s) + 1 /\ t[Len(s) + 1] = b /\ Len(s) \in Nat
        /\ \A i \in 1 .. Len(s) : t[i] = s[i]
    BY AppendProperties
  <1> HIDE DEF t
  <1>2. PICK f : Picks(f, s) /\ TextOf(s) = f[Len(s)]
    BY TextWith
  <1>3. PICK g : Picks(g, t) /\ TextOf(t) = g[Len(t)]
    BY <1>1, TextWith
  <1> DEFINE S == {n \in Nat : n <= Len(s) => g[n] = f[n]}
  <1>4. 0 \in S
    BY <1>2, <1>3 DEF Picks
  <1>5. ASSUME NEW n \in Nat, n \in S PROVE n + 1 \in S
    <2> SUFFICES ASSUME n + 1 <= Len(s) PROVE g[n + 1] = f[n + 1]
      OBVIOUS
    <2>1. n \in 0 .. Len(s) - 1 /\ n \in 0 .. Len(t) - 1 /\ n + 1 \in 1 .. Len(s) /\ n <= Len(s)
      BY <1>1
    <2>2. g[n] = f[n] /\ t[n + 1] = s[n + 1]
      BY <1>1, <1>5, <2>1
    <2>3. f[n + 1] = IF isText(s[n + 1]) THEN Append(f[n], s[n + 1]) ELSE f[n]
      BY <1>2, <2>1 DEF Picks
    <2>4. g[n + 1] = IF isText(t[n + 1]) THEN Append(g[n], t[n + 1]) ELSE g[n]
      BY <1>3, <2>1 DEF Picks
    <2> QED
      BY <2>2, <2>3, <2>4
  <1>6. g[Len(s)] = f[Len(s)]
    <2>1. Nat \subseteq S
      <3> HIDE DEF S
      <3> QED
        BY <1>4, <1>5, SetInduction
    <2> QED
      BY <1>1, <2>1
  <1>7. g[Len(s) + 1] = IF isText(b) THEN Append(g[Len(s)], b) ELSE g[Len(s)]
    <2>1. Len(s) \in 0 .. Len(t) - 1
      BY <1>1
    <2> QED
      BY <1>1, <1>3, <2>1 DEF Picks
  <1> QED
    BY <1>1, <1>2, <1>3, <1>6, <1>7 DEF t

\* Induction on the last byte.
LEMMA BytesInduction ==
  ASSUME NEW S, <<>> \in S, \A r \in Seq(Byte), b \in Byte : r \in S => Append(r, b) \in S
  PROVE  Seq(Byte) \subseteq S
  <1> DEFINE T == {n \in Nat : \A s \in Seq(Byte) : Len(s) = n => s \in S}
  <1>1. 0 \in T
    OBVIOUS
  <1>2. ASSUME NEW n \in Nat, n \in T PROVE n + 1 \in T
    <2> SUFFICES ASSUME NEW s \in Seq(Byte), Len(s) = n + 1 PROVE s \in S
      OBVIOUS
    <2> DEFINE r == SubSeq(s, 1, n)
    <2>1. r \in Seq(Byte) /\ Len(r) = n /\ s[n + 1] \in Byte
      OBVIOUS
    <2>2. s = Append(r, s[n + 1])
      OBVIOUS
    <2> HIDE DEF r
    <2>3. r \in S
      BY <1>2, <2>1
    <2>4. Append(r, s[n + 1]) \in S
      BY <2>1, <2>3
    <2> QED
      BY <2>2, <2>4
  <1>3. Nat \subseteq T
    <2> HIDE DEF T
    <2> QED
      BY <1>1, <1>2, SetInduction
  <1> QED
    BY <1>3

LEMMA TextTypes == \A s \in Seq(Byte) : TextOf(s) \in Seq(Byte)
  <1> DEFINE S == {s \in Seq(Byte) : TextOf(s) \in Seq(Byte)}
  <1>1. <<>> \in S
    <2>0. <<>> \in Seq(Byte)
      OBVIOUS
    <2>1. <<>> \in Seq(Byte) /\ TextOf(<<>>) \in Seq(Byte)
      BY <2>0, TextEmpty
    <2> QED
      BY <2>1
  <1>2. ASSUME NEW r \in Seq(Byte), NEW b \in Byte, r \in S PROVE Append(r, b) \in S
    <2>1. TextOf(r) \in Seq(Byte) /\ Append(r, b) \in Seq(Byte)
      BY <1>2
    <2>2. Append(TextOf(r), b) \in Seq(Byte)
      BY <2>1
    <2> QED
      BY <2>1, <2>2, TextAppend
  <1> HIDE DEF S
  <1>3. Seq(Byte) \subseteq S
    BY <1>1, <1>2, BytesInduction
  <1> QED
    BY <1>3 DEF S

LEMMA TextConcat ==
  ASSUME NEW a \in Seq(Byte)
  PROVE  \A b \in Seq(Byte) : TextOf(a \o b) = TextOf(a) \o TextOf(b)
  <1> DEFINE S == {b \in Seq(Byte) : TextOf(a \o b) = TextOf(a) \o TextOf(b)}
  <1>0. TextOf(a) \in Seq(Byte)
    BY TextTypes
  <1>1. <<>> \in S
    <2>1. a \o <<>> = a /\ TextOf(a) \o <<>> = TextOf(a) /\ <<>> \in Seq(Byte)
      BY <1>0
    <2>2. TextOf(a \o <<>>) = TextOf(a) \o TextOf(<<>>)
      BY <2>1, TextEmpty
    <2> QED
      BY <2>1, <2>2
  <1>2. ASSUME NEW r \in Seq(Byte), NEW b \in Byte, r \in S PROVE Append(r, b) \in S
    <2> DEFINE front == a \o r
    <2>1. /\ front \in Seq(Byte) /\ a \o Append(r, b) = Append(front, b)
          /\ TextOf(r) \in Seq(Byte) /\ Append(r, b) \in Seq(Byte)
      BY TextTypes
    <2>2. TextOf(front) = TextOf(a) \o TextOf(r)
      BY <1>2
    <2> HIDE DEF front
    <2>3. TextOf(Append(front, b)) = IF isText(b) THEN Append(TextOf(front), b) ELSE TextOf(front)
      BY <2>1, TextAppend
    <2>4. TextOf(Append(r, b)) = IF isText(b) THEN Append(TextOf(r), b) ELSE TextOf(r)
      BY TextAppend
    <2>5. Append(TextOf(a) \o TextOf(r), b) = TextOf(a) \o Append(TextOf(r), b)
      <3>1. ASSUME NEW x \in Seq(Byte), NEW y \in Seq(Byte)
            PROVE  Append(x \o y, b) = x \o Append(y, b)
        <4>1. /\ x \o y \in Seq(Byte) /\ <<b>> \in Seq(Byte)
              /\ \A z \in Seq(Byte) : Append(z, b) = z \o <<b>>
          OBVIOUS
        <4>2. (x \o y) \o <<b>> = x \o (y \o <<b>>)
          BY <4>1, Assoc
        <4> QED
          BY <4>1, <4>2
      <3> QED
        BY <1>0, <2>1, <3>1
    <2>6. TextOf(a \o Append(r, b)) = TextOf(a) \o TextOf(Append(r, b))
      BY <2>1, <2>2, <2>3, <2>4, <2>5
    <2> QED
      BY <2>1, <2>6
  <1> HIDE DEF S
  <1>3. Seq(Byte) \subseteq S
    BY <1>1, <1>2, BytesInduction
  <1> QED
    BY <1>3 DEF S

LEMMA TextAll ==
  \A s \in Seq(Byte) : (\A i \in 1 .. Len(s) : isText(s[i])) => TextOf(s) = s
  <1> DEFINE S == {s \in Seq(Byte) : (\A i \in 1 .. Len(s) : isText(s[i])) => TextOf(s) = s}
  <1>1. <<>> \in S
    BY TextEmpty
  <1>2. ASSUME NEW r \in Seq(Byte), NEW b \in Byte, r \in S PROVE Append(r, b) \in S
    <2> DEFINE s == Append(r, b)
    <2>1. /\ s \in Seq(Byte) /\ Len(s) = Len(r) + 1 /\ Len(r) \in Nat /\ s[Len(r) + 1] = b
          /\ \A i \in 1 .. Len(r) : s[i] = r[i]
      BY AppendProperties
    <2>2. TextOf(s) = IF isText(b) THEN Append(TextOf(r), b) ELSE TextOf(r)
      BY TextAppend
    <2>3. (\A i \in 1 .. Len(s) : isText(s[i])) => isText(b) /\ \A i \in 1 .. Len(r) : isText(r[i])
      <3> HIDE DEF s
      <3>1. Len(r) + 1 \in 1 .. Len(s) /\ \A i \in 1 .. Len(r) : i \in 1 .. Len(s)
        BY <2>1
      <3> QED
        BY <2>1, <3>1
    <2>4. (\A i \in 1 .. Len(s) : isText(s[i])) => TextOf(s) = s
      BY <1>2, <2>2, <2>3
    <2> QED
      BY <2>1, <2>4
  <1> HIDE DEF S
  <1>3. Seq(Byte) \subseteq S
    BY <1>1, <1>2, BytesInduction
  <1> QED
    BY <1>3 DEF S

\* Of an item in which nothing is behind a terminator, the string is all its text.
LEMMA TextOfItem ==
  ASSUME NEW s \in Seq(Byte), ~NulWithin(s)
  PROVE  UpToNul(s) = TextOf(s)
  <1> DEFINE Nuls == {i \in DOMAIN s : s[i] = NUL}
  <1>0. Len(s) \in Nat /\ DOMAIN s = 1 .. Len(s)
    OBVIOUS
  <1>1. CASE Nuls = {}
    <2>1. \A i \in 1 .. Len(s) : isText(s[i])
      BY <1>1 DEF isText
    <2> QED
      BY <1>1, <2>1, TextAll DEF UpToNul
  <1>2. CASE Nuls # {}
    <2>1. Nuls = {Len(s)}
      BY <1>0, <1>2 DEF NulWithin
    <2>2. Min(Nuls) = Len(s)
      <3>1. Nuls \in SUBSET Nat
        BY <1>0
      <3> HIDE DEF Nuls
      <3> QED
        BY <1>2, <2>1, <3>1, MinOf
    <2>3. s[Len(s)] = NUL /\ Len(s) \in 1 .. Len(s)
      BY <1>0, <2>1
    <2> DEFINE r == SubSeq(s, 1, Len(s) - 1)
    <2>4. r \in Seq(Byte) /\ Len(r) = Len(s) - 1 /\ \A i \in 1 .. Len(r) : r[i] = s[i]
      BY <1>0, <2>3
    <2>5. s = Append(r, NUL)
      BY <2>3
    <2>6. \A i \in 1 .. Len(r) : isText(r[i])
      BY <1>0, <2>4 DEF NulWithin, isText
    <2>7. UpToNul(s) = r
      BY <1>2, <2>2 DEF UpToNul
    <2> HIDE DEF r
    <2>8. TextOf(r) = r
      BY <2>4, <2>6, TextAll
    <2>9. TextOf(Append(r, NUL)) = TextOf(r)
      BY <2>4, Products, TextAppend DEF isText
    <2> QED
      BY <2>5, <2>7, <2>8, <2>9
  <1> QED
    BY <1>1, <1>2

-----------------------------------------------------------------------------
(* What cat shows is what the host has sent.                               *)

\* Nothing is behind a terminator, as long as nothing has been read there; between two
\* commands cat has nothing in hand.
RxInv ==
  /\ ~hidden => /\ ~NulWithin(rx_buffer)
                /\ \A i \in DOMAIN usb0_rx_queue : ~NulWithin(usb0_rx_queue[i])
  /\ cli # "cat" => usb_rx_data = <<>>

LEMMA RxInvStep ==
  ASSUME TypeInv, RxInv, [Next]_vars
  PROVE  RxInv'
  <1>0. /\ usb0_rx_queue \in Seq(Seq(Byte)) /\ rx_buffer \in Seq(Byte) /\ NUL \in Byte
    BY Products DEF TypeInv, TypeOK
  <1>1. CASE Transfer
    BY <1>1 DEF Transfer, RxInv, cliVars
  <1>2. CASE Post /\ rx_buffer # <<>>
    <2> DEFINE item == IF Last(rx_buffer) = NUL THEN rx_buffer ELSE Append(rx_buffer, NUL)
    <2>1. /\ usb0_rx_queue' = Append(usb0_rx_queue, item) /\ rx_buffer' = <<>>
          /\ UNCHANGED <<hidden, cli, usb_rx_data>>
      BY <1>2 DEF Post, cliVars
    <2>2. item \in Seq(Byte)
      BY <1>0
    <2>3. ~NulWithin(rx_buffer) => ~NulWithin(item)
      <3>1. CASE Last(rx_buffer) = NUL
        BY <3>1
      <3>2. CASE Last(rx_buffer) # NUL
        <4>1. /\ item = Append(rx_buffer, NUL) /\ Len(item) - 1 = Len(rx_buffer)
              /\ Len(rx_buffer) \in Nat
              /\ \A i \in 1 .. Len(rx_buffer) : item[i] = rx_buffer[i]
          BY <1>0, <3>2
        <4>2. rx_buffer[Len(rx_buffer)] # NUL
          BY <3>2 DEF Last
        <4> HIDE DEF item
        <4>3. ASSUME NEW i \in 1 .. Len(rx_buffer), item[i] = NUL
              PROVE  i \in 1 .. Len(rx_buffer) - 1 /\ rx_buffer[i] = NUL
          BY <4>1, <4>2, <4>3
        <4> QED
          BY <4>1, <4>3 DEF NulWithin
      <3> QED
        BY <3>1, <3>2
    <2> HIDE DEF item
    <2>4. /\ Len(usb0_rx_queue') = Len(usb0_rx_queue) + 1 /\ Len(usb0_rx_queue) \in Nat
          /\ usb0_rx_queue'[Len(usb0_rx_queue) + 1] = item
          /\ \A i \in 1 .. Len(usb0_rx_queue) : usb0_rx_queue'[i] = usb0_rx_queue[i]
          /\ DOMAIN usb0_rx_queue' = 1 .. Len(usb0_rx_queue')
          /\ DOMAIN usb0_rx_queue = 1 .. Len(usb0_rx_queue)
      BY <1>0, <2>1, <2>2, AppendProperties
    <2>5. ~NulWithin(rx_buffer)'
      BY <2>1 DEF NulWithin
    <2>6. ~hidden => \A i \in DOMAIN usb0_rx_queue' : ~NulWithin(usb0_rx_queue'[i])
      BY <2>3, <2>4 DEF RxInv
    <2> QED
      BY <2>1, <2>5, <2>6 DEF RxInv
  <1>3. CASE CatGet
    <2>1. /\ usb0_rx_queue # <<>> /\ usb0_rx_queue' = Tail(usb0_rx_queue) /\ cli' = "cat"
          /\ UNCHANGED <<rx_buffer, hidden>>
      BY <1>3 DEF CatGet
    <2>2. /\ Len(usb0_rx_queue) \in Nat /\ DOMAIN usb0_rx_queue = 1 .. Len(usb0_rx_queue)
          /\ Tail(usb0_rx_queue) \in Seq(Seq(Byte))
          /\ Len(Tail(usb0_rx_queue)) = Len(usb0_rx_queue) - 1
          /\ \A i \in 1 .. Len(Tail(usb0_rx_queue)) : Tail(usb0_rx_queue)[i] = usb0_rx_queue[i + 1]
      BY <1>0, <2>1, HeadTailProperties
    <2>3. \A i \in DOMAIN usb0_rx_queue' : \E j \in DOMAIN usb0_rx_queue :
            usb0_rx_queue'[i] = usb0_rx_queue[j]
      BY <2>1, <2>2
    <2> QED
      BY <2>1, <2>3 DEF RxInv
  <1>4. CASE Cat \/ CatEnd
    BY <1>4 DEF Cat, CatEnd, RxInv, rxVars
  <1>5. CASE (Post /\ rx_buffer = <<>>) \/ PostTimeout \/ Fetch
    BY <1>5 DEF Post, PostTimeout, Fetch, RxInv, rxVars, cliVars
  <1>6. CASE HostOpen \/ HostTake \/ \E p \in Packets : HostSend(p)
    BY <1>6 DEF HostOpen, HostTake, HostSend, RxInv, rxVars, cliVars
  <1>7. CASE EchoPut \/ EchoTimeout \/ \E length \in Lengths : Echo(length)
    BY <1>7 DEF EchoPut, EchoTimeout, Echo, RxInv, rxVars
  <1>8. CASE UNCHANGED vars
    BY <1>8 DEF vars, RxInv, rxVars, cliVars
  <1>9. CASE Write
    <2>1. /\ UNCHANGED <<usb0_rx_queue, hidden, cli, usb_rx_data>>
          /\ rx_buffer' \in {rx_buffer, <<>>}
      BY <1>9 DEF Write, Move, cliVars
    <2>2. ~NulWithin(<<>>)
      BY DEF NulWithin
    <2>3. ~NulWithin(rx_buffer) => ~NulWithin(rx_buffer')
      BY <2>1, <2>2
    <2> QED
      BY <2>1, <2>3 DEF RxInv, NulWithin
  <1> QED
    BY <1>1, <1>2, <1>3, <1>4, <1>5, <1>6, <1>7, <1>8, <1>9 DEF Next, UsbTask, Command

LEMMA TextOfThree ==
  ASSUME NEW a \in Seq(Byte), NEW b \in Seq(Byte), NEW c \in Seq(Byte)
  PROVE  /\ TextOf((a \o b) \o c) = (TextOf(a) \o TextOf(b)) \o TextOf(c)
         /\ TextOf((a \o b) \o c) = TextOf(a) \o (TextOf(b) \o TextOf(c))
  <1>1. a \o b \in Seq(Byte) /\ TextOf(a \o b) = TextOf(a) \o TextOf(b)
    BY TextConcat
  <1>2. TextOf((a \o b) \o c) = TextOf(a \o b) \o TextOf(c)
    BY <1>1, TextConcat
  <1> DEFINE d == TextOf(a)
             e == TextOf(b)
             f == TextOf(c)
  <1>3. d \in Seq(Byte) /\ e \in Seq(Byte) /\ f \in Seq(Byte)
    BY TextTypes
  <1> HIDE DEF d, e, f
  <1>4. \A y, z \in Seq(Byte) : (d \o y) \o z = d \o (y \o z)
    BY <1>3, Assoc, Zenon
  <1>5. \A z \in Seq(Byte) : (d \o e) \o z = d \o (e \o z)
    BY <1>3, <1>4, Zenon
  <1>6. (d \o e) \o f = d \o (e \o f)
    BY <1>3, <1>5, Zenon
  <1> QED
    BY <1>1, <1>2, <1>6 DEF d, e, f

LEMMA RxTypes ==
  ASSUME TypeInv
  PROVE  /\ usb0_rx_queue \in Seq(Seq(Byte)) /\ FlattenSeq(usb0_rx_queue) \in Seq(Byte)
         /\ rx_buffer \in Seq(Byte) /\ rx_fifo \in Seq(Byte) /\ usb_rx_data \in Seq(Byte)
         /\ shown \in Seq(Byte)
  BY FlatTypes DEF TypeInv, TypeOK

\* A packet is put in at the end.
LEMMA RxSend ==
  ASSUME TypeInv, TypeInv', NEW p \in Packets, HostSend(p)
  PROVE  [RxPipe!Put]_<<fromHost, shown>>
  <1> DEFINE front == FlattenSeq(usb0_rx_queue) \o rx_buffer
             old == usb_rx_data \o TextOf(front)
             new == TextOf(rx_fifo')
  <1>1. rx_fifo = <<>> /\ UNCHANGED <<rx_buffer, usb0_rx_queue, usb_rx_data, shown>>
    BY DEF HostSend, cliVars
  <1>2. front \in Seq(Byte) /\ rx_fifo' \in Seq(Byte)
    BY RxTypes DEF TypeInv, TypeOK
  <1>3. fromHost = usb_rx_data \o TextOf(front \o rx_fifo) /\ front \o rx_fifo = front
    BY <1>1, <1>2 DEF fromHost
  <1>4. fromHost' = usb_rx_data \o TextOf(front \o rx_fifo')
    BY <1>1 DEF fromHost
  <1> HIDE DEF front
  <1>5. /\ TextOf(front \o rx_fifo') = TextOf(front) \o new
        /\ TextOf(front) \in Seq(Byte) /\ new \in Seq(Byte) /\ old \in Seq(Byte)
    <2>1. TextOf(front) \in Seq(Byte) /\ new \in Seq(Byte)
      BY <1>2, TextTypes
    <2>2. TextOf(front \o rx_fifo') = TextOf(front) \o new
      BY <1>2, TextConcat
    <2> QED
      BY <2>1, <2>2, RxTypes
  <1> HIDE DEF new
  <1>6. (usb_rx_data \o TextOf(front)) \o new = usb_rx_data \o (TextOf(front) \o new)
    <2> DEFINE text == TextOf(front)
    <2>1. text \in Seq(Byte) /\ new \in Seq(Byte) /\ usb_rx_data \in Seq(Byte)
      BY <1>5, RxTypes
    <2> HIDE DEF text
    <2>2. (usb_rx_data \o text) \o new = usb_rx_data \o (text \o new)
      BY <2>1, Assoc
    <2> QED
      BY <2>2 DEF text
  <1>7. fromHost = old /\ fromHost' = old \o new
    BY <1>3, <1>4, <1>5, <1>6
  <1> HIDE DEF old
  <1>8. CASE new = <<>>
    BY <1>1, <1>5, <1>7, <1>8
  <1>9. CASE new # <<>>
    <2>1. IsStrictPrefix(old, old \o new)
      BY <1>5, <1>9, Longer
    <2> QED
      BY <1>1, <1>7, <2>1
         DEF RxPipe!Put, RxPipe!IsStrictPrefix, RxPipe!IsPrefix, IsStrictPrefix, IsPrefix
  <1> QED
    BY <1>8, <1>9

\* usb_write_bytes leaves the received bytes alone, unless strlen has left tx_buffer.
LEMMA RxWrite ==
  ASSUME TypeInv, Write, ~stray
  PROVE  UNCHANGED <<fromHost, shown>>
  <1> DEFINE out == Outgoing
             taken == Taken
  <1>1. /\ out \in Seq(Byte) /\ Len(out) = Len(tx_buffer) /\ taken \in 0 .. Len(tx_buffer)
        /\ Len(tx_buffer) \in Nat /\ Len(tx_buffer) <= TX_BUFSIZE /\ TX_BUFSIZE \in Nat
    BY OutgoingTypes, UsbConstants DEF TypeInv, TypeOK
  <1>2. \/ UNCHANGED rx_buffer
        \/ /\ tx_buffer' = SubSeq(out, taken + 1, Len(tx_buffer))
           /\ rx_buffer' = IF Len(tx_buffer') > TX_BUFSIZE THEN <<>> ELSE rx_buffer
    BY DEF Write, Move
  <1> HIDE DEF out, taken
  <1>3. Len(SubSeq(out, taken + 1, Len(tx_buffer))) = Len(tx_buffer) - taken
    BY <1>1
  <1>4. UNCHANGED rx_buffer
    BY <1>1, <1>2, <1>3
  <1> QED
    BY <1>4 DEF Write, fromHost, cliVars

\* usb_read_bytes moves bytes on.
LEMMA RxTransfer ==
  ASSUME TypeInv, Transfer
  PROVE  UNCHANGED <<fromHost, shown>>
  <1> DEFINE flat == FlattenSeq(usb0_rx_queue)
  <1>1. UNCHANGED <<usb0_rx_queue, usb_rx_data, shown>>
    BY DEF Transfer, cliVars
  <1>2. flat \in Seq(Byte) /\ rx_buffer \in Seq(Byte) /\ rx_fifo \in Seq(Byte)
    BY RxTypes
  <1>3. CASE rx_buffer' = rx_buffer \o rx_fifo /\ rx_fifo' = <<>>
    <2> HIDE DEF flat
    <2>1. (flat \o rx_buffer) \o rx_fifo = flat \o (rx_buffer \o rx_fifo)
      BY <1>2, Assoc
    <2>2. flat \o (rx_buffer \o rx_fifo) \in Seq(Byte)
      BY <1>2
    <2>3. (flat \o rx_buffer') \o rx_fifo' = (flat \o rx_buffer) \o rx_fifo
      BY <1>3, <2>1, <2>2
    <2> QED
      BY <1>1, <2>3 DEF fromHost, flat
  <1>4. CASE UNCHANGED <<rx_buffer, rx_fifo>>
    BY <1>1, <1>4 DEF fromHost
  <1> QED
    BY <1>3, <1>4 DEF Transfer, Read

\* The terminator that Post adds is no character.
LEMMA RxPost ==
  ASSUME TypeInv, Post
  PROVE  UNCHANGED <<fromHost, shown>>
  <1> DEFINE flat == FlattenSeq(usb0_rx_queue)
             item == IF Last(rx_buffer) = NUL THEN rx_buffer ELSE Append(rx_buffer, NUL)
  <1>1. UNCHANGED <<rx_fifo, usb_rx_data, shown>>
    BY DEF Post, cliVars
  <1>2. flat \in Seq(Byte) /\ rx_buffer \in Seq(Byte) /\ rx_fifo \in Seq(Byte) /\ NUL \in Byte
    BY RxTypes, Products
  <1>3. CASE usb0_rx_queue' = Append(usb0_rx_queue, item) /\ rx_buffer' = <<>>
    <2>1. item \in Seq(Byte) /\ TextOf(item) = TextOf(rx_buffer)
      BY <1>2, TextAppend DEF isText
    <2> HIDE DEF item
    <2>2. FlattenSeq(usb0_rx_queue') = flat \o item
      BY <1>3, <2>1, FlatAppend, RxTypes
    <2> HIDE DEF flat
    <2>3. (flat \o item) \o <<>> = flat \o item
      BY <1>2, <2>1
    <2>4. TextOf((flat \o item) \o rx_fifo) = TextOf((flat \o rx_buffer) \o rx_fifo)
      <3>1. TextOf((flat \o item) \o rx_fifo) = (TextOf(flat) \o TextOf(item)) \o TextOf(rx_fifo)
        BY <1>2, <2>1, TextOfThree
      <3>2. TextOf((flat \o rx_buffer) \o rx_fifo)
              = (TextOf(flat) \o TextOf(rx_buffer)) \o TextOf(rx_fifo)
        BY <1>2, TextOfThree
      <3> QED
        BY <2>1, <3>1, <3>2
    <2>5. fromHost' = usb_rx_data \o TextOf(((flat \o item) \o <<>>) \o rx_fifo)
      BY <1>1, <1>3, <2>2 DEF fromHost
    <2>6. fromHost = usb_rx_data \o TextOf((flat \o rx_buffer) \o rx_fifo)
      BY DEF fromHost, flat
    <2> QED
      BY <1>1, <2>3, <2>4, <2>5, <2>6
  <1>4. CASE UNCHANGED <<usb0_rx_queue, rx_buffer>>
    BY <1>1, <1>4 DEF fromHost
  <1> QED
    BY <1>3, <1>4 DEF Post

\* cat takes the whole text of an item, if it is the first.
LEMMA RxCatGet ==
  ASSUME TypeInv, RxInv, CatGet, ~hidden, ~overrun'
  PROVE  UNCHANGED <<fromHost, shown>>
  <1> DEFINE first == Head(usb0_rx_queue)
             rest == FlattenSeq(Tail(usb0_rx_queue))
  <1>1. /\ usb0_rx_queue # <<>> /\ usb0_rx_queue' = Tail(usb0_rx_queue) /\ usb_rx_data = <<>>
        /\ usb_rx_data' = usb_rx_data \o UpToNul(first)
        /\ UNCHANGED <<rx_fifo, rx_buffer, shown>>
    BY DEF CatGet
  <1>2. /\ first \in Seq(Byte) /\ rest \in Seq(Byte) /\ rx_buffer \in Seq(Byte)
        /\ rx_fifo \in Seq(Byte) /\ FlattenSeq(usb0_rx_queue) = first \o rest
    <2>1. Tail(usb0_rx_queue) \in Seq(Seq(Byte)) /\ Head(usb0_rx_queue) \in Seq(Byte)
      BY <1>1, RxTypes, HeadTailProperties
    <2> QED
      BY <1>1, <2>1, FlatTypes, FlatHead, RxTypes
  <1>3. ~NulWithin(first)
    <2>1. 1 \in DOMAIN usb0_rx_queue /\ first = usb0_rx_queue[1]
      BY <1>1, RxTypes
    <2> QED
      BY <2>1 DEF RxInv
  <1>4. fromHost = usb_rx_data \o TextOf(((first \o rest) \o rx_buffer) \o rx_fifo)
    BY <1>2 DEF fromHost
  <1>5. fromHost' = (usb_rx_data \o UpToNul(first)) \o TextOf((rest \o rx_buffer) \o rx_fifo)
    BY <1>1 DEF fromHost
  <1> HIDE DEF first, rest
  <1>6. UpToNul(first) = TextOf(first) /\ TextOf(first) \in Seq(Byte)
    BY <1>2, <1>3, TextOfItem, TextTypes
  <1> DEFINE tail == (rest \o rx_buffer) \o rx_fifo
  <1>7. ((first \o rest) \o rx_buffer) \o rx_fifo = first \o tail
    <2>1. (first \o rest) \o rx_buffer = first \o (rest \o rx_buffer)
      BY <1>2, Assoc
    <2>2. rest \o rx_buffer \in Seq(Byte)
      BY <1>2
    <2> DEFINE middle == rest \o rx_buffer
    <2> HIDE DEF middle
    <2>3. (first \o middle) \o rx_fifo = first \o (middle \o rx_fifo)
      <3>1. middle \in Seq(Byte)
        BY <2>2 DEF middle
      <3>2. \A y, z \in Seq(Byte) : (first \o y) \o z = first \o (y \o z)
        BY <1>2, Assoc, Zenon
      <3>3. \A z \in Seq(Byte) : (first \o middle) \o z = first \o (middle \o z)
        BY <3>1, <3>2, Zenon
      <3> QED
        BY <1>2, <3>3, Zenon
    <2> QED
      BY <2>1, <2>3 DEF middle
  <1>8. tail \in Seq(Byte)
    BY <1>2
  <1> HIDE DEF tail
  <1>9. TextOf(first \o tail) = TextOf(first) \o TextOf(tail) /\ TextOf(tail) \in Seq(Byte)
    BY <1>2, <1>8, TextConcat, TextTypes
  <1>10. <<>> \o (TextOf(first) \o TextOf(tail)) = (<<>> \o TextOf(first)) \o TextOf(tail)
    <2>1. TextOf(first) \o TextOf(tail) \in Seq(Byte)
      BY <1>6, <1>9
    <2> QED
      BY <1>6, <2>1, ConcatEmptySeq
  <1> QED
    BY <1>1, <1>4, <1>5, <1>6, <1>7, <1>9, <1>10 DEF tail

\* shell_print shows all that cat has in hand.
LEMMA RxCatEnd ==
  ASSUME TypeInv, CatEnd
  PROVE  [RxPipe!Get]_<<fromHost, shown>>
  <1> DEFINE tail == TextOf(FlattenSeq(usb0_rx_queue) \o rx_buffer \o rx_fifo)
  <1>1. /\ shown' = shown \o usb_rx_data /\ usb_rx_data' = <<>>
        /\ UNCHANGED <<usb0_rx_queue, rx_buffer, rx_fifo>>
    BY DEF CatEnd, rxVars
  <1>2. tail \in Seq(Byte) /\ usb_rx_data \in Seq(Byte) /\ shown \in Seq(Byte)
    <2>1. FlattenSeq(usb0_rx_queue) \o rx_buffer \o rx_fifo \in Seq(Byte)
      BY RxTypes
    <2> QED
      BY <2>1, RxTypes, TextTypes
  <1>3. fromHost = usb_rx_data \o tail /\ fromHost' = <<>> \o tail
    BY <1>1 DEF fromHost
  <1> HIDE DEF tail
  <1>4. fromHost' = tail
    BY <1>2, <1>3
  <1>5. CASE usb_rx_data = <<>>
    BY <1>1, <1>2, <1>3, <1>5
  <1>6. CASE usb_rx_data # <<>>
    <2>1. /\ SubSeq(fromHost, 1, Len(usb_rx_data)) = usb_rx_data
          /\ SubSeq(fromHost, Len(usb_rx_data) + 1, Len(fromHost)) = tail
          /\ Len(usb_rx_data) <= Len(fromHost) /\ Len(fromHost) \in Nat
          /\ Len(usb_rx_data) \in Nat
      BY <1>2, <1>3, Shorter
    <2>2. Len(usb_rx_data) \in 1 .. Len(fromHost)
      BY <1>2, <1>6, <2>1
    <2> QED
      BY <1>1, <1>4, <2>1, <2>2 DEF RxPipe!Get
  <1> QED
    BY <1>5, <1>6

LEMMA RxStep ==
  ASSUME TypeInv, RxInv, [Next]_vars
  PROVE  [(overrun \/ hidden \/ stray)' \/ RxPipe!Put \/ RxPipe!Get]_<<fromHost, shown>>
  <1> SUFFICES ASSUME ~overrun', ~hidden', ~stray'
               PROVE  [RxPipe!Put \/ RxPipe!Get]_<<fromHost, shown>>
    OBVIOUS
  <1>0. TypeInv'
    BY TypeStep
  <1>1. ASSUME NEW p \in Packets, HostSend(p) PROVE [RxPipe!Put]_<<fromHost, shown>>
    BY <1>0, <1>1, RxSend
  <1>2. CASE Transfer
    BY <1>2, RxTransfer
  <1>3. CASE Post
    BY <1>3, RxPost
  <1>4. CASE CatGet
    <2>1. ~hidden
      BY <1>4 DEF CatGet
    <2> QED
      BY <1>4, <2>1, RxCatGet
  <1>5. CASE CatEnd
    BY <1>5, RxCatEnd
  <1>6. CASE Cat
    <2>1. usb_rx_data' = usb_rx_data /\ UNCHANGED <<rxVars, shown>>
      BY <1>6 DEF Cat, RxInv
    <2> QED
      BY <2>1 DEF fromHost, rxVars
  <1>7. CASE \/ HostOpen \/ HostTake \/ PostTimeout \/ Fetch \/ EchoPut \/ EchoTimeout
             \/ (\E length \in Lengths : Echo(length)) \/ UNCHANGED vars
    <2>1. UNCHANGED <<rx_fifo, rx_buffer, usb0_rx_queue, usb_rx_data, shown>>
      BY <1>7 DEF HostOpen, HostTake, PostTimeout, Fetch, EchoPut, EchoTimeout, Echo, vars,
         rxVars, cliVars
    <2> QED
      BY <2>1 DEF fromHost
  <1>8. CASE Write
    <2>1. ~stray
      BY <1>8 DEF Write
    <2> QED
      BY <1>8, <2>1, RxWrite
  <1> QED
    BY <1>1, <1>2, <1>3, <1>4, <1>5, <1>6, <1>7, <1>8 DEF Next, UsbTask, Command

\* RxIsPipe: whatever the sizes of the buffers and the queue, the packets and the moments
\* at which they come, cat shows each character once and in order, until a byte is read
\* behind a terminator, cat runs over its buffer or strlen leaves tx_buffer.
THEOREM CatShowsTheInput == Spec => RxIsPipe
  <1>1. Init => RxInv
    BY DEF Init, RxInv, NulWithin
  <1>2. Init => fromHost = <<>> /\ shown = <<>>
    <2>1. FlattenSeq(<<>>) = <<>> /\ (<<>> \o <<>>) \o <<>> = <<>> /\ <<>> \o <<>> = <<>>
      BY DEF FlattenSeq
    <2> QED
      BY <2>1, TextEmpty DEF Init, fromHost
  <1>3. Spec => []RxInv
    BY TypeInvariant, <1>1, RxInvStep, PTL DEF Spec
  <1>4. TypeInv /\ RxInv /\ [Next]_vars
          => [(overrun \/ hidden \/ stray)' \/ RxPipe!Put \/ RxPipe!Get]_<<fromHost, shown>>
    BY RxStep
  <1> QED
    BY TypeInvariant, <1>2, <1>3, <1>4, PTL DEF Spec, RxIsPipe, RxPipe!PipeSpec
=============================================================================
