---------------------------- MODULE MacRawProofs ----------------------------
(* Theorems about MacRaw, for every value of its constants.  Inv is the    *)
(* inductive invariant: RxInv places the frames that wait in the receive   *)
(* ring, PollInv says what the poll task has read of the first of them,    *)
(* and TxInv where the frame that is being sent is, as long as no two      *)
(* tasks send at once.                                                     *)
EXTENDS MacRaw, SequenceTheorems, TLAPS

-----------------------------------------------------------------------------
(* Positions that wrap around.                                             *)

LEMMA ModIs ==
  ASSUME NEW x \in Int, NEW m \in Nat, m > 0, NEW r \in 0 .. m - 1,
         \E q \in Int : x = m * q + r
  PROVE  x % m = r
  <1> PICK q \in Int : x = m * q + r
    OBVIOUS
  <1> DEFINE d == x \div m
             e == x % m
  <1>1. d \in Int /\ e \in 0 .. m - 1 /\ x = m * d + e
    OBVIOUS
  <1> HIDE DEF d, e
  <1>2. m * (d - q) = r - e
    BY <1>1
  <1>3. CASE d - q >= 1
    <2>1. m * (d - q) >= m
      BY <1>1, <1>3
    <2> QED
      BY <1>1, <1>2, <2>1
  <1>4. CASE d - q <= -1
    <2>1. m * (d - q) <= -m
      BY <1>1, <1>4
    <2> QED
      BY <1>1, <1>2, <2>1
  <1>5. CASE d = q
    BY <1>1, <1>5 DEF e
  <1> QED
    BY <1>1, <1>3, <1>4, <1>5

\* Every number is a multiple and a remainder.
LEMMA ModOf ==
  ASSUME NEW x \in Int, NEW m \in Nat, m > 0
  PROVE  x % m \in 0 .. m - 1 /\ \E q \in Int : x = m * q + (x % m)
  <1> DEFINE d == x \div m
             e == x % m
  <1>1. d \in Int /\ e \in 0 .. m - 1 /\ x = m * d + e
    OBVIOUS
  <1> HIDE DEF d, e
  <1>2. e \in 0 .. m - 1 /\ \E q \in Int : x = m * q + e
    BY <1>1
  <1> QED
    BY <1>2 DEF e

LEMMA ModSmall ==
  ASSUME NEW m \in Nat, m > 0, NEW x \in 0 .. m - 1
  PROVE  x % m = x
  <1>1. x = m * 0 + x
    OBVIOUS
  <1> QED
    BY <1>1, ModIs

\* What differs by a multiple has the same remainder.
LEMMA ModSame ==
  ASSUME NEW x \in Int, NEW y \in Int, NEW m \in Nat, m > 0,
         \E q \in Int : x = m * q + y
  PROVE  x % m = y % m
  <1> PICK q \in Int : x = m * q + y
    OBVIOUS
  <1>1. PICK a \in Int : y = m * a + (y % m)
    BY ModOf
  <1> DEFINE r == y % m
  <1>2. r \in 0 .. m - 1
    BY ModOf
  <1> HIDE DEF r
  <1> DEFINE b == q + a
  <1>3. b \in Int /\ x = m * b + r
    BY <1>1, <1>2 DEF r
  <1> HIDE DEF b
  <1>4. x % m = r
    BY <1>2, <1>3, ModIs
  <1> QED
    BY <1>4 DEF r

LEMMA ModAdd ==
  ASSUME NEW x \in Int, NEW y \in Int, NEW m \in Nat, m > 0
  PROVE  ((x % m) + y) % m = (x + y) % m
  <1> DEFINE r == x % m
  <1>1. PICK a \in Int : x = m * a + r
    BY ModOf
  <1>2. r \in Int
    BY ModOf
  <1> HIDE DEF r
  <1> DEFINE s == x + y
             t == r + y
  <1>3. s \in Int /\ t \in Int /\ s = m * a + t
    BY <1>1, <1>2
  <1> HIDE DEF s, t
  <1>4. s % m = t % m
    BY <1>3, ModSame
  <1> QED
    BY <1>4 DEF r, s, t

LEMMA ModSub ==
  ASSUME NEW x \in Int, NEW y \in Int, NEW m \in Nat, m > 0
  PROVE  ((x % m) - (y % m)) % m = (x - y) % m
  <1> DEFINE r == x % m
             u == y % m
  <1>1. PICK a \in Int : x = m * a + r
    BY ModOf
  <1>2. PICK b \in Int : y = m * b + u
    BY ModOf
  <1>3. r \in Int /\ u \in Int
    BY ModOf
  <1> HIDE DEF r, u
  <1> DEFINE c == a - b
             s == x - y
             t == r - u
  <1>4. c \in Int /\ s \in Int /\ t \in Int /\ s = m * c + t
    BY <1>1, <1>2, <1>3
  <1> HIDE DEF c, s, t
  <1>5. s % m = t % m
    BY <1>4, ModSame
  <1> QED
    BY <1>5 DEF r, u, s, t

\* A position of a counter that counts whole turns of a ring.
LEMMA ModMod ==
  ASSUME NEW x \in Int, NEW n \in Nat, n > 0, NEW m \in Nat, m > 0, n % m = 0
  PROVE  (x % n) % m = x % m
  <1> DEFINE r == x % n
  <1>1. PICK a \in Int : x = n * a + r
    BY ModOf
  <1>2. PICK b \in Int : n = m * b
    <2>1. PICK b \in Int : n = m * b + (n % m)
      BY ModOf
    <2> QED
      BY <2>1
  <1>3. r \in Int
    BY ModOf
  <1> HIDE DEF r
  <1>4. x = m * (b * a) + r
    BY <1>1, <1>2, <1>3
  <1> DEFINE c == b * a
  <1>5. c \in Int /\ x = m * c + r
    BY <1>4
  <1> HIDE DEF c
  <1>6. x % m = r % m
    BY <1>3, <1>5, ModSame
  <1> QED
    BY <1>6 DEF r
-----------------------------------------------------------------------------
(* Frames and rings.                                                       *)

LEMMA Products ==
  ASSUME NEW A, NEW B, NEW C, NEW a \in A, NEW b \in B, NEW c \in C
  PROVE  <<a, b, c>> \in A \X B \X C
  OBVIOUS

LEMMA FrameFacts ==
  ASSUME NEW f \in Frames
  PROVE  /\ f \in Seq(Bytes) /\ Len(f) \in Lens /\ Len(f) \in Nat \ {0}
         /\ HEAD + Len(f) <= RX_RING /\ Len(f) <= TX_RING
  <1>1. PICK id \in 1 .. MaxRx + MaxTx, l \in Lens : f = Frame(id, l)
    BY DEF Frames
  <1>2. l \in Nat \ {0} /\ HEAD + l <= RX_RING /\ l <= TX_RING /\ l <= PTR
    BY MacRawConstants DEF HEAD
  <1>3. \A k \in 1 .. l : <<id, l, k>> \in Bytes
    BY MacRawConstants, <1>2 DEF Bytes, HEAD
  <1>4. f \in Seq(Bytes) /\ Len(f) = l
    BY <1>1, <1>2, <1>3 DEF Frame
  <1> QED
    BY <1>2, <1>4

LEMMA StoredFacts ==
  ASSUME NEW f \in Frames
  PROVE  /\ Stored(f) \in Seq(Bytes) /\ Len(Stored(f)) = HEAD + Len(f)
         /\ Stored(f)[1][2] = Len(f) /\ Stored(f)[1][3] = 1 - HEAD
         /\ \A k \in 1 .. Len(f) : Stored(f)[HEAD + k] = f[k]
  <1> DEFINE two == [k \in 1 .. HEAD |-> <<f[1][1], Len(f), k - HEAD>>]
  <1>1. f \in Seq(Bytes) /\ Len(f) \in Nat \ {0} /\ HEAD + Len(f) <= RX_RING
    BY FrameFacts
  <1>2. f[1] \in Bytes
    BY <1>1
  <1>3. f[1][1] \in 0 .. MaxRx + MaxTx
    BY <1>2 DEF Bytes
  <1>4. \A k \in 1 .. HEAD : <<f[1][1], Len(f), k - HEAD>> \in Bytes
    <2>1. Len(f) \in 0 .. PTR
      BY MacRawConstants, <1>1 DEF HEAD
    <2>2. \A k \in 1 .. HEAD : k - HEAD \in 1 - HEAD .. PTR
      BY MacRawConstants, <1>1 DEF HEAD
    <2> QED
      BY <1>3, <2>1, <2>2, Products DEF Bytes
  <1>5. two \in Seq(Bytes) /\ Len(two) = HEAD /\ two[1] = <<f[1][1], Len(f), 1 - HEAD>>
    BY <1>4 DEF HEAD
  <1> HIDE DEF two
  <1>6. Stored(f) = two \o f
    BY DEF Stored, two
  <1>7. /\ two \o f \in Seq(Bytes) /\ Len(two \o f) = HEAD + Len(f)
        /\ \A i \in 1 .. HEAD + Len(f) :
             (two \o f)[i] = IF i <= HEAD THEN two[i] ELSE f[i - HEAD]
    BY <1>1, <1>5, ConcatProperties
  <1>8. (two \o f)[1] = two[1]
    BY <1>1, <1>7 DEF HEAD
  <1>9. ASSUME NEW k \in 1 .. Len(f) PROVE (two \o f)[HEAD + k] = f[k]
    BY <1>1, <1>7 DEF HEAD
  <1> QED
    BY <1>5, <1>6, <1>7, <1>8, <1>9

LEMMA PaddedFacts ==
  ASSUME NEW f \in Frames
  PROVE  Link!Padded(f) \in Seq(Bytes) /\ Len(Link!Padded(f)) \in 1 .. TX_RING
  <1>1. f \in Seq(Bytes) /\ Len(f) \in Nat \ {0} /\ Len(f) <= TX_RING
    BY FrameFacts
  <1>2. Padding \in Bytes
    BY MacRawConstants DEF Padding, Bytes, HEAD
  <1>3. CASE Len(f) >= MIN_FRAME
    BY <1>1, <1>3 DEF Link!Padded
  <1>4. CASE ~ (Len(f) >= MIN_FRAME)
    <2> DEFINE g == [k \in 1 .. MIN_FRAME |-> IF k <= Len(f) THEN f[k] ELSE Padding]
    <2>1. MIN_FRAME \in 1 .. TX_RING
      BY MacRawConstants, <1>1, <1>4
    <2>2. g \in Seq(Bytes) /\ Len(g) = MIN_FRAME
      BY <1>1, <1>2, <2>1
    <2>3. Link!Padded(f) = g
      BY <1>4 DEF Link!Padded
    <2> QED
      BY <2>1, <2>2, <2>3
  <1> QED
    BY <1>3, <1>4

\* The place in a ring of what lies k behind a position.
LEMMA RingIndex ==
  ASSUME NEW p \in Int, NEW k \in Int, NEW m \in Nat, m > 0, PTR > 0, PTR % m = 0
  PROVE  ((p % PTR) + k) % m = (p + k) % m
  <1> DEFINE r == p % PTR
  <1>1. PTR \in Nat
    BY MacRawConstants
  <1>2. r \in Int
    BY <1>1, ModOf
  <1>3. r % m = p % m
    BY <1>1, ModMod
  <1> HIDE DEF r
  <1>4. (r + k) % m = ((r % m) + k) % m
    BY <1>2, ModAdd
  <1>5. (p + k) % m = ((p % m) + k) % m
    BY ModAdd
  <1> QED
    BY <1>3, <1>4, <1>5 DEF r

\* The distance of two positions.
LEMMA MinusIs ==
  ASSUME NEW p \in Int, NEW q \in Int, q - p \in 0 .. PTR - 1
  PROVE  Minus(q % PTR, p % PTR) = q - p
  <1>1. PTR \in Nat /\ PTR > 0
    BY MacRawConstants
  <1>2. ((q % PTR) - (p % PTR)) % PTR = (q - p) % PTR
    BY <1>1, ModSub
  <1>3. (q - p) % PTR = q - p
    BY <1>1, ModSmall
  <1> QED
    BY <1>2, <1>3 DEF Minus

LEMMA PlusIs ==
  ASSUME NEW p \in Int, NEW n \in Int
  PROVE  Plus(p % PTR, n) = (p + n) % PTR
  <1>1. PTR \in Nat /\ PTR > 0
    BY MacRawConstants
  <1> QED
    BY <1>1, ModAdd DEF Plus

\* The ring mem2 is the ring mem after bytes were written from place w on, which is
\* counted without wrapping around: they are there, and nothing else has changed.
Follows(mem2, mem, m, w, bytes) ==
  /\ \A d \in 0 .. Len(bytes) - 1 : mem2[(w + d) % m] = bytes[d + 1]
  /\ \A x \in Int : x - w \in Len(bytes) - m .. -1 => mem2[x % m] = mem[x % m]

LEMMA WrittenFollows ==
  ASSUME NEW mem, NEW m \in Nat, m > 0, PTR > 0, PTR % m = 0, NEW w \in Int, NEW bytes,
         Len(bytes) \in 0 .. m, NEW p, p = w % PTR
  PROVE  Follows(Written(mem, m, p, bytes), mem, m, w, bytes)
  <1> DEFINE n == Len(bytes)
             mem2 == Written(mem, m, p, bytes)
  <1>1. n \in 0 .. m /\ n \in Nat
    OBVIOUS
  <1>2. ASSUME NEW x \in Int, NEW d \in 0 .. m - 1, (x - w) % m = d
        PROVE  mem2[x % m] = IF d + 1 <= n THEN bytes[d + 1] ELSE mem[x % m]
    <2> DEFINE i == x % m
               y == -p
    <2>1. i \in 0 .. m - 1
      BY ModOf
    <2>2. p \in Int /\ p % m = w % m
      BY MacRawConstants, ModOf, ModMod
    <2>3. ((x % m) + y) % m = (x + y) % m
      <3>1. y \in Int
        BY <2>2
      <3> QED
        BY <3>1, ModAdd
    <2>t. (x % m) + y = i - p /\ x + y = x - p
      BY <2>1, <2>2
    <2>4. ((x % m) - (p % m)) % m = (x - p) % m
      BY <2>2, ModSub
    <2>5. ((x % m) - (w % m)) % m = (x - w) % m
      BY ModSub
    <2>6. (i - p) % m = d
      BY <1>2, <2>2, <2>3, <2>4, <2>5, <2>t
    <2> HIDE DEF i
    <2>7. mem2[i] = IF d + 1 <= n THEN bytes[d + 1] ELSE mem[i]
      BY <2>1, <2>6 DEF Written
    <2> QED
      BY <2>7 DEF i
  <1> HIDE DEF n, mem2
  <1>3. ASSUME NEW d \in 0 .. n - 1 PROVE mem2[(w + d) % m] = bytes[d + 1]
    <2> DEFINE x == w + d
    <2>1. x - w = d /\ x \in Int /\ d \in 0 .. m - 1 /\ d + 1 <= n
      BY <1>1
    <2>2. d % m = d
      BY <2>1, ModSmall
    <2> HIDE DEF x
    <2>3. (x - w) % m = d
      BY <2>1, <2>2
    <2>4. mem2[x % m] = bytes[d + 1]
      BY <1>2, <2>1, <2>3
    <2> QED
      BY <2>4 DEF x
  <1>4. ASSUME NEW x \in Int, x - w \in n - m .. -1 PROVE mem2[x % m] = mem[x % m]
    <2> DEFINE z == x - w
               y == z + m
    <2>1. z \in Int /\ y \in n .. m - 1 /\ y \in 0 .. m - 1 /\ z = m * (-1) + y
      BY <1>1, <1>4
    <2>2. (x - w) % m = y
      <3> HIDE DEF y, z
      <3>1. z % m = y
        BY <2>1, ModIs
      <3> QED
        BY <3>1 DEF z
    <2> HIDE DEF y, z
    <2> QED
      BY <1>1, <1>2, <2>1, <2>2
  <1> QED
    BY <1>3, <1>4 DEF Follows, n, mem2

-----------------------------------------------------------------------------
(* The receive ring.  st are the places of the waiting frames, counted     *)
(* without wrapping around, and the place of the next one.                 *)

Starts(q, st) ==
  /\ st \in [1 .. Len(q) + 1 -> Nat]
  /\ \A i \in 1 .. Len(q) : st[i + 1] = st[i] + HEAD + Len(q[i])
  /\ \A i \in 1 .. Len(q) + 1 : st[i] <= st[Len(q) + 1]

\* Behind the acknowledged place a there is no more than fits the ring, and what there is
\* of the frames is in its place.
Stores(mem, q, st, a) ==
  /\ a \in Nat /\ a <= st[Len(q) + 1] /\ st[Len(q) + 1] <= a + RX_RING
  /\ \A i \in 1 .. Len(q) : \A k \in 1 .. HEAD + Len(q[i]) :
       st[i] + k - 1 >= a => mem[(st[i] + k - 1) % RX_RING] = Stored(q[i])[k]

LEMMA StoresLater ==
  ASSUME NEW q \in Seq(Frames), NEW st, NEW a, NEW b, NEW mem,
         Starts(q, st), Stores(mem, q, st, a), b \in Nat, a <= b, b <= st[Len(q) + 1]
  PROVE  Stores(mem, q, st, b)
  <1>1. Len(q) \in Nat
    OBVIOUS
  <1>2. RX_RING \in Nat /\ a \in Nat /\ st[Len(q) + 1] \in Nat
    BY MacRawConstants, <1>1 DEF Starts, Stores
  <1>3. st[Len(q) + 1] <= b + RX_RING
    BY <1>2 DEF Stores
  <1>4. ASSUME NEW i \in 1 .. Len(q), NEW k \in 1 .. HEAD + Len(q[i]), st[i] + k - 1 >= b
        PROVE  mem[(st[i] + k - 1) % RX_RING] = Stored(q[i])[k]
    <2>1. q[i] \in Frames
      OBVIOUS
    <2>2. Len(q[i]) \in Nat
      BY <2>1, FrameFacts
    <2>3. st[i] \in Nat
      BY <1>1 DEF Starts
    <2>4. st[i] + k - 1 >= a
      BY <1>2, <1>4, <2>2, <2>3 DEF HEAD
    <2> QED
      BY <1>4, <2>4 DEF Stores
  <1> QED
    BY <1>3, <1>4 DEF Stores

\* The chip stores one more frame.
LEMMA StoresMore ==
  ASSUME NEW q \in Seq(Frames), NEW st, NEW a \in Nat, NEW mem, NEW f \in Frames,
         Starts(q, st), Stores(mem, q, st, a), NEW w \in Nat, w = st[Len(q) + 1],
         w + HEAD + Len(f) <= a + RX_RING
  PROVE  \E next :
           /\ Starts(Append(q, f), next)
           /\ Stores(Written(mem, RX_RING, w % PTR, Stored(f)), Append(q, f), next, a)
           /\ next[Len(q) + 2] = w + HEAD + Len(f)
           /\ \A i \in 1 .. Len(q) + 1 : next[i] = st[i]
  <1> DEFINE n == Len(q)
             z == w + HEAD + Len(f)
             next == [i \in 1 .. n + 2 |-> IF i <= n + 1 THEN st[i] ELSE z]
             more == Append(q, f)
             bytes == Stored(f)
             b == Len(bytes)
             mem2 == Written(mem, RX_RING, w % PTR, bytes)
  <1>0. n \in Nat /\ Len(f) \in Nat \ {0}
    BY FrameFacts
  <1>1. /\ n \in Nat /\ w \in Nat /\ Len(f) \in Nat \ {0} /\ z \in Nat /\ a \in Nat
        /\ \A i \in 1 .. n + 1 : st[i] \in Nat /\ st[i] <= w
    <2>2. \A i \in 1 .. n + 1 : st[i] \in Nat /\ st[i] <= w
      BY <1>0 DEF Starts
    <2> QED
      BY <1>0, <2>2 DEF HEAD
  <1>2. /\ more \in Seq(Frames) /\ Len(more) = n + 1 /\ more[n + 1] = f
        /\ \A i \in 1 .. n : more[i] = q[i]
    BY AppendProperties
  <1>3. RX_RING \in Nat /\ RX_RING > 0 /\ PTR > 0 /\ PTR % RX_RING = 0
    BY MacRawConstants
  <1>4. b = HEAD + Len(f) /\ b \in 0 .. RX_RING /\ b \in Nat /\ z = w + b
    <2>1. b = HEAD + Len(f) /\ HEAD + Len(f) <= RX_RING
      BY FrameFacts, StoredFacts
    <2> QED
      BY <1>0, <1>3, <2>1, SMTT(30) DEF HEAD
  <1>5. \A i \in 1 .. n : q[i] \in Frames /\ Len(q[i]) \in Nat
    BY FrameFacts
  <1>t. mem2 = Written(mem, RX_RING, w % PTR, bytes) /\ Len(bytes) = b
    OBVIOUS
  <1>v. Follows(mem2, mem, RX_RING, w, bytes)
    <2> DEFINE p == w % PTR
    <2>1. Len(bytes) \in 0 .. RX_RING /\ mem2 = Written(mem, RX_RING, p, bytes) /\ w \in Int
      BY <1>4, <1>t
    <2> HIDE DEF mem2, bytes, z, n
    <2> QED
      BY <1>3, <2>1, WrittenFollows
  <1>u. /\ \A d \in 0 .. b - 1 : mem2[(w + d) % RX_RING] = bytes[d + 1]
        /\ \A x \in Int : x - w \in b - RX_RING .. -1 => mem2[x % RX_RING] = mem[x % RX_RING]
    BY <1>v DEF Follows
  <1> HIDE DEF more, mem2, bytes, b
  <1>6. Starts(more, next)
    <2>1. next \in [1 .. Len(more) + 1 -> Nat]
      BY <1>1, <1>2
    <2>2. ASSUME NEW i \in 1 .. Len(more)
          PROVE  next[i + 1] = next[i] + HEAD + Len(more[i])
      <3>1. CASE i = n + 1
        BY <1>1, <1>2, <3>1
      <3>2. CASE i \in 1 .. n
        <4>1. next[i + 1] = st[i + 1] /\ next[i] = st[i] /\ more[i] = q[i]
          BY <1>1, <1>2, <3>2
        <4> QED
          BY <3>2, <4>1 DEF Starts
      <3> QED
        BY <1>1, <1>2, <3>1, <3>2
    <2>3. \A i \in 1 .. Len(more) + 1 : next[i] <= next[Len(more) + 1]
      BY <1>1, <1>2 DEF HEAD
    <2> QED
      BY <2>1, <2>2, <2>3 DEF Starts
  <1>7. Stores(mem2, more, next, a)
    <2>1. next[Len(more) + 1] = z
      BY <1>1, <1>2
    <2>2. a <= z /\ z <= a + RX_RING
      BY <1>1, <1>3 DEF Stores, HEAD
    <2>3. ASSUME NEW i \in 1 .. Len(more), NEW k \in 1 .. HEAD + Len(more[i]),
                 next[i] + k - 1 >= a
          PROVE  mem2[(next[i] + k - 1) % RX_RING] = Stored(more[i])[k]
      <3> DEFINE x == next[i] + k - 1
      <3>1. CASE i = n + 1
        <4>1. next[i] = w /\ more[i] = f /\ k \in 1 .. HEAD + Len(f)
          BY <1>1, <1>2, <3>1
        <4> HIDE DEF next
        <4> DEFINE j == k - 1
        <4>2. x = w + j /\ j \in 0 .. b - 1 /\ j + 1 = k
          BY <1>1, <1>4, <4>1 DEF HEAD
        <4> HIDE DEF x, j
        <4>5. mem2[x % RX_RING] = bytes[k]
          BY <1>u, <4>2
        <4> QED
          BY <4>1, <4>5 DEF x, bytes
      <3>2. CASE i \in 1 .. n
        <4>1. next[i] = st[i] /\ more[i] = q[i] /\ k \in 1 .. HEAD + Len(q[i])
          BY <1>1, <1>2, <3>2
        <4>2. st[i + 1] = st[i] + HEAD + Len(q[i]) /\ st[i + 1] <= w /\ st[i] \in Nat
          BY <1>1, <3>2 DEF Starts
        <4> DEFINE s == st[i]
                   l == Len(q[i])
                   j == k - 1
        <4> HIDE DEF next
        <4>3. /\ x = s + j /\ s \in Nat /\ l \in Nat /\ s + HEAD + l <= w /\ j \in 0 .. HEAD + l - 1
              /\ x >= a
          BY <1>1, <1>5, <2>3, <3>2, <4>1, <4>2 DEF HEAD
        <4> HIDE DEF x, s, l, j
        <4>4. x \in Int /\ x - w \in b - RX_RING .. -1
          <5>1. x \in Int /\ x < w /\ a <= x
            BY <4>3 DEF HEAD
          <5>2. w + b <= a + RX_RING
            <6> HIDE DEF z
            <6> QED
              BY <1>4, <2>2
          <5> QED
            BY <1>3, <1>4, <5>1, <5>2, SMTT(30)
        <4>5. mem2[x % RX_RING] = mem[x % RX_RING]
          BY <1>u, <4>4
        <4>6. mem[x % RX_RING] = Stored(q[i])[k]
          BY <3>2, <4>1, <4>3 DEF Stores, x, s
        <4> QED
          BY <4>1, <4>5, <4>6 DEF x
      <3> QED
        BY <1>1, <1>2, <3>1, <3>2
    <2> HIDE DEF z, next
    <2> QED
      BY <1>1, <2>1, <2>2, <2>3 DEF Stores
  <1>8. next[n + 2] = z /\ \A i \in 1 .. n + 1 : next[i] = st[i]
    BY <1>1
  <1> QED
    BY <1>6, <1>7, <1>8 DEF more, mem2, bytes

\* The first frame is taken away.
LEMMA StoresRest ==
  ASSUME NEW q \in Seq(Frames), NEW st, NEW a, NEW mem, q # <<>>,
         Starts(q, st), Stores(mem, q, st, a)
  PROVE  \E next :
           /\ Starts(Tail(q), next) /\ Stores(mem, Tail(q), next, a)
           /\ next[1] = st[2] /\ next[Len(Tail(q)) + 1] = st[Len(q) + 1]
  <1> DEFINE n == Len(q)
             next == [i \in 1 .. n |-> st[i + 1]]
             rest == Tail(q)
  <1>1. n \in Nat \ {0}
    BY EmptySeq
  <1>2. rest \in Seq(Frames) /\ Len(rest) = n - 1 /\ \A i \in 1 .. n - 1 : rest[i] = q[i + 1]
    BY HeadTailProperties
  <1> HIDE DEF rest
  <1>3. st \in [1 .. n + 1 -> Nat]
    BY DEF Starts
  <1>4. next \in [1 .. Len(rest) + 1 -> Nat] /\ next[Len(rest) + 1] = st[n + 1]
    BY <1>1, <1>2, <1>3
  <1>5. Starts(rest, next)
    <2>1. ASSUME NEW i \in 1 .. Len(rest)
          PROVE  next[i + 1] = next[i] + HEAD + Len(rest[i])
      <3>1. i + 1 \in 1 .. n /\ i \in 1 .. n - 1
        BY <1>1, <1>2
      <3>2. next[i + 1] = st[(i + 1) + 1] /\ next[i] = st[i + 1] /\ rest[i] = q[i + 1]
        BY <1>1, <1>2, <3>1
      <3> QED
        BY <3>1, <3>2 DEF Starts
    <2>2. \A i \in 1 .. Len(rest) + 1 : next[i] <= next[Len(rest) + 1]
      BY <1>1, <1>2, <1>4 DEF Starts
    <2> HIDE DEF next
    <2> QED
      BY <1>4, <2>1, <2>2 DEF Starts
  <1>6. Stores(mem, rest, next, a)
    <2>1. ASSUME NEW i \in 1 .. Len(rest), NEW k \in 1 .. HEAD + Len(rest[i]),
                 next[i] + k - 1 >= a
          PROVE  mem[(next[i] + k - 1) % RX_RING] = Stored(rest[i])[k]
      <3>1. next[i] = st[i + 1] /\ rest[i] = q[i + 1] /\ i + 1 \in 1 .. Len(q)
        BY <1>1, <1>2
      <3> HIDE DEF next
      <3> QED
        BY <2>1, <3>1 DEF Stores
    <2> HIDE DEF next
    <2> QED
      BY <1>4, <2>1 DEF Stores
  <1>7. next[1] = st[2]
    BY <1>1
  <1> HIDE DEF next
  <1> QED
    BY <1>4, <1>5, <1>6, <1>7 DEF rest
-----------------------------------------------------------------------------
(* The poll task and the ring.                                             *)

\* The place acknowledged and the place read up to, by the step the poll task is at.
Acked(pc, st) == IF pc \in {"body", "ackbody"} THEN st[1] + HEAD
                 ELSE IF pc = "input" THEN st[2] ELSE st[1]
ReadUpTo(pc, st) == IF pc \in {"ackhead", "body"} THEN st[1] + HEAD
                    ELSE IF pc \in {"ackbody", "input"} THEN st[2] ELSE st[1]

Ring(st) ==
  /\ Starts(rxq, st) /\ Stores(rx_mem, rxq, st, Acked(ppc, st))
  /\ rx_wr = st[Len(rxq) + 1] % PTR /\ rx_ack = Acked(ppc, st) % PTR
  /\ rx_rd = ReadUpTo(ppc, st) % PTR

RxInv == \E st : Ring(st)

\* The poll task reads the first frame that waits, and never skips one.
PollInv ==
  /\ ppc # "ackskip"
  /\ ppc \in {"head", "ackhead", "body", "ackbody", "input"} => rxq # <<>>
  /\ ppc \in {"head", "ackhead", "body"} => len >= Len(rxq[1])
  /\ ppc \in {"ackhead", "body", "ackbody", "input"} => head = Len(rxq[1])
  /\ ppc \in {"ackbody", "input"} => pack = rxq[1]
  /\ longest \in Lens \cup {0}

rxAll == <<rxChip, rxTask, rxq>>

LEMMA RingFacts ==
  ASSUME TypeOK, PollInv, NEW st, Ring(st)
  PROVE  /\ rxq \in Seq(Frames) /\ Len(rxq) \in Nat /\ st[1] \in Nat /\ st[Len(rxq) + 1] \in Nat
         /\ st[1] <= st[Len(rxq) + 1]
         /\ Acked(ppc, st) \in Nat /\ Acked(ppc, st) <= st[Len(rxq) + 1]
         /\ RX_RSR = st[Len(rxq) + 1] - Acked(ppc, st)
         /\ rxq # <<>> =>
              /\ Len(rxq) >= 1 /\ rxq[1] \in Frames /\ Len(rxq[1]) \in Nat \ {0}
              /\ st[2] = st[1] + HEAD + Len(rxq[1]) /\ st[2] <= st[Len(rxq) + 1]
         /\ rxq = <<>> => st[Len(rxq) + 1] = st[1]
  <1> DEFINE n == Len(rxq)
             a == Acked(ppc, st)
             w == st[n + 1]
  <1>1. rxq \in Seq(Frames) /\ n \in Nat
    BY DEF TypeOK
  <1>2. st[1] \in Nat /\ w \in Nat /\ st[1] <= w
    BY <1>1 DEF Ring, Starts
  <1>3. a \in Nat /\ a <= w /\ w <= a + RX_RING
    BY DEF Ring, Stores
  <1>4. RX_RSR = w - a
    <2>1. w - a \in 0 .. PTR - 1 /\ w \in Int /\ a \in Int
      BY MacRawConstants, <1>2, <1>3
    <2>2. rx_wr = w % PTR /\ rx_ack = a % PTR
      BY DEF Ring
    <2> HIDE DEF w, a
    <2> QED
      BY <2>1, <2>2, MinusIs DEF RX_RSR
  <1>5. ASSUME rxq # <<>>
        PROVE  /\ n >= 1 /\ rxq[1] \in Frames /\ Len(rxq[1]) \in Nat \ {0}
               /\ st[2] = st[1] + HEAD + Len(rxq[1]) /\ st[2] <= w
    <2>1. n \in Nat \ {0} /\ 1 \in 1 .. n /\ 2 \in 1 .. n + 1
      BY <1>1, <1>5, EmptySeq
    <2>2. rxq[1] \in Frames
      BY <1>1, <2>1
    <2>3. Len(rxq[1]) \in Nat \ {0}
      BY <2>2, FrameFacts
    <2>4. st[1 + 1] = st[1] + HEAD + Len(rxq[1]) /\ st[2] <= w
      BY <2>1 DEF Ring, Starts
    <2> QED
      BY <2>1, <2>2, <2>3, <2>4
  <1>6. rxq = <<>> => w = st[1]
    BY EmptySeq
  <1> HIDE DEF a, w
  <1> QED
    BY <1>1, <1>2, <1>3, <1>4, <1>5, <1>6 DEF a, w

\* A step of the poll task that moves it on to the place its next step supposes.
LEMMA RingMoves ==
  ASSUME TypeOK, PollInv, NEW st, Ring(st), UNCHANGED <<rx_mem, rx_wr, rxq>>,
         rx_ack' = Acked(ppc', st) % PTR, rx_rd' = ReadUpTo(ppc', st) % PTR,
         Acked(ppc, st) <= Acked(ppc', st), Acked(ppc', st) <= st[Len(rxq) + 1],
         Acked(ppc', st) \in Nat
  PROVE  RxInv'
  <1> DEFINE b == Acked(ppc', st)
             a == Acked(ppc, st)
  <1>1. rxq \in Seq(Frames) /\ Starts(rxq, st) /\ Stores(rx_mem, rxq, st, a)
    BY DEF TypeOK, Ring
  <1>2. b \in Nat /\ a <= b /\ b <= st[Len(rxq) + 1]
    OBVIOUS
  <1> HIDE DEF a, b
  <1>3. Stores(rx_mem, rxq, st, b)
    BY <1>1, <1>2, StoresLater
  <1>4. Starts(rxq', st) /\ Stores(rx_mem', rxq', st, b)
    BY <1>1, <1>3
  <1>5. rx_wr' = st[Len(rxq') + 1] % PTR
    BY DEF Ring
  <1>6. Ring(st)'
    BY <1>4, <1>5 DEF Ring, b
  <1> QED
    BY <1>6 DEF RxInv

\* The bytes of the first frame that are not acknowledged yet are read as stored.
LEMMA ReadIs ==
  ASSUME TypeOK, PollInv, NEW st, Ring(st), rxq # <<>>,
         NEW j \in Nat, NEW k \in Nat, k >= 1, j + k <= HEAD + Len(rxq[1]),
         Acked(ppc, st) <= st[1] + j, NEW pos, pos = (st[1] + j) % PTR
  PROVE  rx_mem[(pos + k - 1) % RX_RING] = Stored(rxq[1])[j + k]
  <1> DEFINE p == st[1] + j
             i == k - 1
             c == j + k
             x == p + i
             a == Acked(ppc, st)
  <1>1. /\ Len(rxq) \in Nat /\ Len(rxq) >= 1 /\ st[1] \in Nat /\ Len(rxq[1]) \in Nat
        /\ a \in Nat
    BY RingFacts
  <1>2. p \in Int /\ i \in Int /\ i >= 0 /\ c \in 1 .. HEAD + Len(rxq[1]) /\ c \in Nat
    BY <1>1 DEF HEAD
  <1>3. x = st[1] + c - 1 /\ x >= a
    BY <1>1, <1>2
  <1>4. RX_RING \in Nat /\ RX_RING > 0 /\ PTR > 0 /\ PTR % RX_RING = 0
    BY MacRawConstants
  <1>5. rx_mem[(st[1] + c - 1) % RX_RING] = Stored(rxq[1])[c]
    <2>1. 1 \in 1 .. Len(rxq)
      BY <1>1
    <2> HIDE DEF c, x
    <2>2. st[1] + c - 1 >= a
      BY <1>3
    <2> QED
      BY <1>2, <2>1, <2>2 DEF Ring, Stores
  <1>6. (pos + i) % RX_RING = x % RX_RING
    <2>1. ((p % PTR) + i) % RX_RING = (p + i) % RX_RING
      <3> HIDE DEF p, i
      <3> QED
        BY <1>2, <1>4, RingIndex
    <2> QED
      BY <2>1
  <1>7. pos + k - 1 = pos + i
    <2>1. pos \in Int
      <3>1. p % PTR \in 0 .. PTR - 1
        <4> HIDE DEF p
        <4> QED
          BY MacRawConstants, <1>2, <1>4, ModOf
      <3> QED
        BY <3>1
    <2> QED
      BY <2>1
  <1> QED
    BY <1>3, <1>5, <1>6, <1>7

LEMMA PollRead ==
  ASSUME TypeOK, PollInv, RxInv, ReadHead \/ ReadBody
  PROVE  PollInv' /\ RxInv'
  <1>1. PICK st : Ring(st)
    BY DEF RxInv
  <1>2. rxq # <<>> /\ ppc \in {"head", "body"}
    BY DEF ReadHead, ReadBody, PollInv
  <1> DEFINE f == rxq[1]
             w == st[Len(rxq) + 1]
  <1>3. /\ f \in Frames /\ Len(f) \in Nat \ {0} /\ st[1] \in Nat /\ st[2] \in Nat
        /\ w \in Nat /\ st[2] = st[1] + HEAD + Len(f) /\ st[2] <= w
        /\ Acked(ppc, st) <= w
    BY <1>1, <1>2, RingFacts DEF HEAD
  <1>4. /\ Stored(f)[1][2] = Len(f) /\ Stored(f)[1][3] = 1 - HEAD
        /\ \A k \in 1 .. Len(f) : Stored(f)[HEAD + k] = f[k]
    BY <1>3, StoredFacts
  <1>5. CASE ReadHead
    <2>1. rx_rd = st[1] % PTR /\ Acked(ppc, st) = st[1]
      BY <1>1, <1>5 DEF ReadHead, Ring, Acked, ReadUpTo
    <2>2. ReadFrom(rx_mem, RX_RING, rx_rd, HEAD)[1] = Stored(f)[1]
      <3>1. 1 \in 1 .. HEAD
        BY DEF HEAD
      <3>2. rx_mem[(rx_rd + 1 - 1) % RX_RING] = Stored(f)[0 + 1]
        <4>1. rx_rd = (st[1] + 0) % PTR /\ Acked(ppc, st) <= st[1] + 0
              /\ 0 + 1 <= HEAD + Len(rxq[1])
          BY <1>3, <2>1 DEF HEAD
        <4> QED
          BY <1>1, <1>2, <4>1, ReadIs
      <3> QED
        BY <3>1, <3>2 DEF ReadFrom
    <2>3. head' = Len(f)
      BY <1>4, <1>5, <2>2 DEF ReadHead, PackLen
    <2>4. rx_rd' = (st[1] + HEAD) % PTR
      <3>1. st[1] \in Int /\ HEAD \in Int
        BY <1>3 DEF HEAD
      <3> QED
        BY <1>5, <2>1, <3>1, PlusIs DEF ReadHead, Advance
    <2>5. PollInv'
      BY <1>2, <1>5, <2>3 DEF PollInv, ReadHead
    <2>6. RxInv'
      <3>1. UNCHANGED <<rx_mem, rx_wr, rxq, rx_ack>> /\ ppc' = "ackhead"
        BY <1>5 DEF ReadHead, rxChip
      <3>2. Acked(ppc', st) = st[1] /\ ReadUpTo(ppc', st) = st[1] + HEAD
        BY <3>1 DEF Acked, ReadUpTo
      <3>3. rx_ack = Acked(ppc, st) % PTR
        BY <1>1 DEF Ring
      <3> QED
        BY <1>1, <1>3, <2>1, <2>4, <3>1, <3>2, <3>3, RingMoves
    <2> QED
      BY <2>5, <2>6
  <1>6. CASE ReadBody
    <2>1. /\ rx_rd = (st[1] + HEAD) % PTR /\ Acked(ppc, st) = st[1] + HEAD
          /\ head = Len(f) /\ len >= Len(f)
      BY <1>1, <1>6 DEF ReadBody, Ring, Acked, ReadUpTo, PollInv
    <2>2. ~ (head > len)
      BY <1>3, <2>1 DEF TypeOK
    <2>3. /\ ppc' = "ackbody" /\ pack' = ReadFrom(rx_mem, RX_RING, rx_rd, head)
          /\ longest' \in {head, longest}
          /\ UNCHANGED <<rx_mem, rx_wr, rxq, rx_ack, len, head>>
      BY <1>6, <2>2 DEF ReadBody, rxChip
    <2>4. pack' = f
      <3>1. ASSUME NEW k \in 1 .. Len(f)
            PROVE  rx_mem[(rx_rd + k - 1) % RX_RING] = f[k]
        <4>1. HEAD \in Nat /\ k \in Nat /\ k >= 1 /\ HEAD + k <= HEAD + Len(rxq[1])
              /\ Acked(ppc, st) <= st[1] + HEAD
          BY <1>3, <2>1 DEF HEAD
        <4>2. rx_mem[(rx_rd + k - 1) % RX_RING] = Stored(f)[HEAD + k]
          BY <1>1, <1>2, <2>1, <4>1, ReadIs
        <4> QED
          BY <1>4, <4>2
      <3>2. f = [k \in 1 .. Len(f) |-> f[k]]
        <4>1. f \in Seq(Bytes)
          BY <1>3, FrameFacts
        <4> QED
          BY <4>1
      <3> QED
        BY <2>1, <2>3, <3>1, <3>2 DEF ReadFrom
    <2>5. PollInv'
      <3>1. Len(f) \in Lens
        BY <1>3, FrameFacts
      <3> QED
        BY <1>2, <2>1, <2>3, <2>4, <3>1 DEF PollInv
    <2>6. rx_rd' = st[2] % PTR
      <3>1. st[1] + HEAD \in Int /\ Len(f) \in Int /\ st[2] = (st[1] + HEAD) + Len(f)
        BY <1>3 DEF HEAD
      <3>2. rx_rd' = Plus(rx_rd, Len(f))
        BY <1>6, <2>1 DEF ReadBody, Advance
      <3> DEFINE p == st[1] + HEAD
      <3> HIDE DEF p
      <3>3. Plus(p % PTR, Len(f)) = (p + Len(f)) % PTR
        BY <3>1, PlusIs DEF p
      <3> QED
        BY <2>1, <3>1, <3>2, <3>3 DEF p
    <2>7. RxInv'
      <3>1. Acked(ppc', st) = st[1] + HEAD /\ ReadUpTo(ppc', st) = st[2]
        BY <2>3 DEF Acked, ReadUpTo
      <3>2. rx_ack = Acked(ppc, st) % PTR
        BY <1>1 DEF Ring
      <3>3. st[1] + HEAD \in Nat
        BY <1>3 DEF HEAD
      <3> QED
        BY <1>1, <1>3, <2>1, <2>3, <2>6, <3>1, <3>2, <3>3, RingMoves
    <2> QED
      BY <2>5, <2>7
  <1> QED
    BY <1>5, <1>6

LEMMA PollMoves ==
  ASSUME TypeOK, PollInv, RxInv, Turn \/ Look \/ AckHead \/ AckBody \/ TurnEnd
  PROVE  PollInv' /\ RxInv'
  <1>1. PICK st : Ring(st)
    BY DEF RxInv
  <1> DEFINE w == st[Len(rxq) + 1]
  <1>2. st[1] \in Nat /\ st[1] <= w /\ Acked(ppc, st) \in Nat /\ Acked(ppc, st) <= w
    BY <1>1, RingFacts
  <1>3. UNCHANGED <<rx_mem, rx_wr, rxq, rx_rd>>
    BY DEF Turn, Look, AckHead, AckBody, TurnEnd, rxChip
  <1>4. rx_ack = Acked(ppc, st) % PTR /\ rx_rd = ReadUpTo(ppc, st) % PTR
    BY <1>1 DEF Ring
  <1>5. CASE Turn \/ TurnEnd
    <2>1. /\ ppc \in {"idle", "timers"} /\ ppc' \in {"look", "idle"}
          /\ UNCHANGED <<rx_ack, longest>>
      BY <1>5 DEF Turn, TurnEnd, rxChip
    <2>2. PollInv'
      BY <1>3, <2>1 DEF PollInv
    <2>3. /\ Acked(ppc, st) = st[1] /\ ReadUpTo(ppc, st) = st[1]
          /\ Acked(ppc', st) = st[1] /\ ReadUpTo(ppc', st) = st[1]
      BY <2>1 DEF Acked, ReadUpTo
    <2> QED
      BY <1>1, <1>2, <1>3, <1>4, <2>1, <2>2, <2>3, RingMoves
  <1>6. CASE Look
    <2>1. /\ ppc = "look" /\ ppc' = IF RX_RSR > 0 THEN "head" ELSE "timers"
          /\ len' = RX_RSR /\ UNCHANGED <<rx_ack, head, pack, longest>>
      BY <1>6 DEF Look, rxChip
    <2>2. /\ Acked(ppc, st) = st[1] /\ ReadUpTo(ppc, st) = st[1]
          /\ Acked(ppc', st) = st[1] /\ ReadUpTo(ppc', st) = st[1]
      BY <2>1 DEF Acked, ReadUpTo
    <2>3. RX_RSR = w - st[1]
      BY <1>1, <2>2, RingFacts
    <2>4. ASSUME RX_RSR > 0 PROVE rxq # <<>> /\ len' >= Len(rxq[1])
      <3>1. rxq # <<>>
        BY <1>1, <1>2, <2>3, <2>4, RingFacts
      <3>2. Len(rxq[1]) \in Nat /\ st[2] = st[1] + HEAD + Len(rxq[1]) /\ st[2] <= w /\ w \in Nat
        BY <1>1, <3>1, RingFacts
      <3> QED
        BY <1>2, <2>1, <2>3, <3>1, <3>2 DEF HEAD
    <2>5. PollInv'
      BY <1>3, <2>1, <2>4 DEF PollInv
    <2> QED
      BY <1>1, <1>2, <1>3, <1>4, <2>1, <2>2, <2>5, RingMoves
  <1>7. CASE AckHead
    <2>1. /\ ppc = "ackhead" /\ ppc' = "body" /\ rx_ack' = rx_rd
          /\ UNCHANGED <<len, head, pack, longest>>
      BY <1>7 DEF AckHead
    <2>2. /\ Acked(ppc, st) = st[1] /\ ReadUpTo(ppc, st) = st[1] + HEAD
          /\ Acked(ppc', st) = st[1] + HEAD /\ ReadUpTo(ppc', st) = st[1] + HEAD
      BY <2>1 DEF Acked, ReadUpTo
    <2>3. rxq # <<>>
      BY <2>1 DEF PollInv
    <2>4. st[1] <= st[1] + HEAD /\ st[1] + HEAD <= w /\ st[1] + HEAD \in Nat
      <3>1. Len(rxq[1]) \in Nat /\ st[2] = st[1] + HEAD + Len(rxq[1]) /\ st[2] <= w /\ w \in Nat
        BY <1>1, <2>3, RingFacts
      <3> QED
        BY <1>2, <3>1 DEF HEAD
    <2>5. PollInv'
      BY <1>3, <2>1, <2>3 DEF PollInv
    <2> QED
      BY <1>1, <1>3, <1>4, <2>1, <2>2, <2>4, <2>5, RingMoves
  <1>8. CASE AckBody
    <2>1. /\ ppc = "ackbody" /\ ppc' = "input" /\ rx_ack' = rx_rd
          /\ UNCHANGED <<len, head, pack, longest>>
      BY <1>8 DEF AckBody, PollInv
    <2>2. /\ Acked(ppc, st) = st[1] + HEAD /\ ReadUpTo(ppc, st) = st[2]
          /\ Acked(ppc', st) = st[2] /\ ReadUpTo(ppc', st) = st[2]
      BY <2>1 DEF Acked, ReadUpTo
    <2>3. rxq # <<>>
      BY <2>1 DEF PollInv
    <2>4. st[1] + HEAD <= st[2] /\ st[2] <= w /\ st[2] \in Nat
      <3>1. Len(rxq[1]) \in Nat /\ st[2] = st[1] + HEAD + Len(rxq[1]) /\ st[2] <= w /\ w \in Nat
        BY <1>1, <2>3, RingFacts
      <3> QED
        BY <1>2, <3>1 DEF HEAD
    <2>5. PollInv'
      BY <1>3, <2>1, <2>3 DEF PollInv
    <2> QED
      BY <1>1, <1>3, <1>4, <2>1, <2>2, <2>4, <2>5, RingMoves
  <1> QED
    BY <1>5, <1>6, <1>7, <1>8

LEMMA InputStep ==
  ASSUME TypeOK, PollInv, RxInv, Input
  PROVE  PollInv' /\ RxInv'
  <1>1. PICK st : Ring(st)
    BY DEF RxInv
  <1>2. /\ ppc = "input" /\ ppc' = "timers" /\ rxq # <<>> /\ rxq' = Tail(rxq)
        /\ UNCHANGED <<rx_mem, rx_wr, rx_ack, rx_rd, longest>>
    BY DEF Input, PollInv, rxChip
  <1>3. Acked(ppc, st) = st[2] /\ ReadUpTo(ppc, st) = st[2]
    BY <1>2 DEF Acked, ReadUpTo
  <1>4. /\ rxq \in Seq(Frames) /\ Starts(rxq, st) /\ Stores(rx_mem, rxq, st, st[2])
        /\ rx_wr = st[Len(rxq) + 1] % PTR /\ rx_ack = st[2] % PTR /\ rx_rd = st[2] % PTR
    BY <1>1, <1>3 DEF TypeOK, Ring
  <1>5. PICK next :
          /\ Starts(Tail(rxq), next) /\ Stores(rx_mem, Tail(rxq), next, st[2])
          /\ next[1] = st[2] /\ next[Len(Tail(rxq)) + 1] = st[Len(rxq) + 1]
    BY <1>2, <1>4, StoresRest
  <1>6. Acked(ppc', next) = st[2] /\ ReadUpTo(ppc', next) = st[2]
    BY <1>2, <1>5 DEF Acked, ReadUpTo
  <1>7. Ring(next)'
    BY <1>2, <1>4, <1>5, <1>6 DEF Ring
  <1>8. PollInv'
    BY <1>2 DEF PollInv
  <1> QED
    BY <1>7, <1>8 DEF RxInv

LEMMA ReceiveStep ==
  ASSUME TypeOK, PollInv, RxInv, NEW l \in Lens, ChipReceive(l)
  PROVE  PollInv' /\ RxInv'
  <1>1. PICK st : Ring(st)
    BY DEF RxInv
  <1> DEFINE f == Frame(nrx', l)
             a == Acked(ppc, st)
             n == Len(rxq)
             w == st[n + 1]
  <1>2. UNCHANGED <<rx_ack, rx_rd, ppc, len, head, pack, longest>>
    BY DEF ChipReceive, rxTask
  <1>3. CASE UNCHANGED <<rx_mem, rx_wr, rxq>>
    <2>1. PollInv'
      BY <1>2, <1>3 DEF PollInv
    <2>2. Ring(st)'
      BY <1>1, <1>2, <1>3 DEF Ring
    <2> QED
      BY <2>1, <2>2 DEF RxInv
  <1>4. CASE ~ UNCHANGED <<rx_mem, rx_wr, rxq>>
    <2>1. /\ HEAD + l <= RX_RING - RX_RSR /\ nrx' \in 1 .. MaxRx
          /\ rx_mem' = Written(rx_mem, RX_RING, rx_wr, Stored(f))
          /\ rx_wr' = Plus(rx_wr, HEAD + l) /\ rxq' = Append(rxq, f)
      BY <1>4, MacRawConstants DEF ChipReceive, TypeOK
    <2>2. f \in Frames
      BY <2>1, MacRawConstants DEF Frames
    <2>3. Len(f) = l /\ l \in Nat
      BY MacRawConstants DEF Frame
    <2> HIDE DEF f
    <2>4. /\ rxq \in Seq(Frames) /\ n \in Nat /\ w \in Nat /\ a \in Nat
          /\ RX_RSR = w - a
      BY <1>1, RingFacts
    <2>5. w + HEAD + Len(f) <= a + RX_RING
      <3> HIDE DEF w, a
      <3> QED
        BY <2>1, <2>3, <2>4, MacRawConstants DEF HEAD
    <2>6. Starts(rxq, st) /\ Stores(rx_mem, rxq, st, a) /\ rx_wr = w % PTR
      BY <1>1 DEF Ring
    <2>7. PICK next :
            /\ Starts(Append(rxq, f), next)
            /\ Stores(Written(rx_mem, RX_RING, w % PTR, Stored(f)), Append(rxq, f), next, a)
            /\ next[n + 2] = w + HEAD + Len(f)
            /\ \A i \in 1 .. n + 1 : next[i] = st[i]
      BY <2>2, <2>4, <2>5, <2>6, StoresMore
    <2>8. /\ rxq' \in Seq(Frames) /\ Len(rxq') = n + 1
          /\ \A i \in 1 .. n : rxq'[i] = rxq[i]
      BY <2>1, <2>2, <2>4, AppendProperties
    <2>9. rxq # <<>> => 1 \in 1 .. n /\ 2 \in 1 .. n + 1 /\ rxq' # <<>> /\ rxq'[1] = rxq[1]
      BY <2>4, <2>8, EmptySeq
    <2>10. Acked(ppc, next) = a /\ ReadUpTo(ppc, next) = ReadUpTo(ppc, st)
      <3>1. next[1] = st[1]
        BY <2>4, <2>7
      <3>2. rxq # <<>> => next[2] = st[2]
        BY <2>7, <2>9
      <3> QED
        BY <3>1, <3>2 DEF Acked, ReadUpTo, PollInv
    <2>11. rx_wr' = next[Len(rxq') + 1] % PTR
      <3>1. w \in Int /\ HEAD + l \in Int /\ next[Len(rxq') + 1] = w + (HEAD + l)
        <4>1. (n + 1) + 1 = n + 2
          BY <2>4
        <4> QED
          BY <2>3, <2>4, <2>7, <2>8, <4>1 DEF HEAD
      <3>2. Plus(w % PTR, HEAD + l) = (w + (HEAD + l)) % PTR
        <4> DEFINE c == HEAD + l
        <4> HIDE DEF w, c
        <4> QED
          BY <3>1, PlusIs DEF c
      <3> QED
        BY <2>1, <2>6, <3>1, <3>2
    <2>12. Ring(next)'
      <3>1. /\ Starts(rxq', next) /\ Stores(rx_mem', rxq', next, Acked(ppc', next))
            /\ rx_ack' = Acked(ppc', next) % PTR /\ rx_rd' = ReadUpTo(ppc', next) % PTR
        BY <1>1, <1>2, <2>1, <2>6, <2>7, <2>10 DEF Ring
      <3> QED
        BY <2>11, <3>1 DEF Ring
    <2>13. PollInv'
      BY <1>2, <2>9 DEF PollInv
    <2> QED
      BY <2>12, <2>13 DEF RxInv
  <1> QED
    BY <1>3, <1>4

LEMMA RxStep ==
  ASSUME TypeOK, PollInv, RxInv, [Next]_vars
  PROVE  PollInv' /\ RxInv'
  <1>1. ASSUME UNCHANGED rxAll PROVE PollInv' /\ RxInv'
    <2>1. UNCHANGED <<rx_mem, rx_wr, rx_ack, rx_rd, ppc, len, head, pack, longest, rxq>>
      BY <1>1 DEF rxAll, rxChip, rxTask
    <2>2. PollInv'
      BY <2>1 DEF PollInv
    <2>3. ASSUME NEW st, Ring(st) PROVE Ring(st)'
      BY <2>1, <2>3 DEF Ring
    <2> QED
      BY <2>2, <2>3 DEF RxInv
  <1>2. CASE LwipInit \/ Lwip
    <2>1. UNCHANGED rxAll
      BY <1>2 DEF LwipInit, Lwip, OpenSocket, LinkUp, LwipEnd, rxAll
    <2> QED
      BY <1>1, <2>1
  <1>3. CASE \E l \in Lens : ChipReceive(l)
    BY <1>3, ReceiveStep
  <1>4. ASSUME NEW ok \in BOOLEAN, ChipSend(ok) PROVE UNCHANGED rxAll
    BY <1>4 DEF ChipSend, rxAll
  <1>5. CASE Poll
    BY <1>5, PollMoves, PollRead, InputStep DEF Poll
  <1>6. ASSUME NEW t \in Senders, Sending(t) PROVE UNCHANGED rxAll
    BY <1>6 DEF Sending, GetWr, Write, SetWr, Send, Await, others, rxAll
  <1>7. ASSUME NEW t \in Senders, NEW l \in Lens, Output(t, l) PROVE UNCHANGED rxAll
    BY <1>7 DEF Output, rxAll
  <1>8. CASE UNCHANGED vars
    BY <1>1, <1>8 DEF vars, rxAll
  <1> QED
    BY <1>1, <1>2, <1>3, <1>4, <1>5, <1>6, <1>7, <1>8 DEF Next
-----------------------------------------------------------------------------
(* The transmit ring and the task that sends, while there is one only.     *)

Pending == \E f \in Frames : txq = <<f>> /\ tx_frame = Link!Padded(f)

InRing == \A k \in 1 .. Len(tx_frame) : tx_mem[(tx_rd + k - 1) % TX_RING] = tx_frame[k]

\* The frame is in the ring, between the positions.
InPlace == InRing /\ tx_wr = Plus(tx_rd, Len(tx_frame))

Answered == ~sending /\ txq = <<>> /\ tx_rd = tx_wr /\ (ir = {"SENDOK"} \/ ir = {"TIMEOUT"})

SenderInv(t) ==
  /\ tpc[t] \in {"getwr", "write", "setwr", "send"} => Pending /\ ~sending /\ ir = {}
  /\ tpc[t] \in {"getwr", "write", "setwr"} => tx_rd = tx_wr
  /\ tpc[t] \in {"write", "setwr"} => ptr[t] = tx_wr
  /\ tpc[t] = "setwr" => InRing
  /\ tpc[t] = "send" => InPlace
  /\ tpc[t] = "await" => (sending /\ Pending /\ ir = {} /\ InPlace) \/ Answered

AllIdle  == \A t \in Senders : tpc[t] = "idle"
NoSend   == txq = <<>> /\ ~sending /\ ir = {} /\ tx_rd = tx_wr
Alone(t) == \A u \in Senders : u # t => tpc[u] = "idle"

TxInv == (AllIdle /\ NoSend) \/ (\E t \in Senders : tpc[t] # "idle" /\ Alone(t) /\ SenderInv(t))

LEMMA Busy ==
  ASSUME TxInv, NEW t \in Senders, tpc[t] # "idle"
  PROVE  Alone(t) /\ SenderInv(t)
  BY DEF TxInv, AllIdle, Alone

\* What goes out on a SEND is the frame that lwIP asked to send.
LEMMA SentIs ==
  ASSUME TypeOK, TxInv, sending
  PROVE  \E f \in Frames :
           /\ txq = <<f>>
           /\ ReadFrom(tx_mem, TX_RING, tx_rd, Minus(tx_wr, tx_rd)) = Link!Padded(f)
  <1>1. PICK t \in Senders : tpc[t] # "idle" /\ SenderInv(t)
    BY DEF TxInv, NoSend
  <1>2. tpc[t] = "await"
    BY <1>1 DEF SenderInv, TypeOK
  <1>3. Pending /\ InPlace
    BY <1>1, <1>2 DEF SenderInv, Answered
  <1>4. PICK f \in Frames : txq = <<f>> /\ tx_frame = Link!Padded(f)
    BY <1>3 DEF Pending
  <1> DEFINE g == Link!Padded(f)
             n == Len(g)
             z == tx_rd + n
  <1>5. g \in Seq(Bytes) /\ n \in 1 .. TX_RING
    BY PaddedFacts
  <1>6. PTR \in Nat /\ PTR > 0 /\ TX_RING \in Nat /\ PTR > TX_RING /\ tx_rd \in 0 .. PTR - 1
    BY MacRawConstants DEF TypeOK, Positions
  <1>7. z \in Int /\ z - tx_rd = n /\ z - tx_rd \in 0 .. PTR - 1 /\ tx_rd \in Int
    BY <1>5, <1>6
  <1>8. tx_rd % PTR = tx_rd
    BY <1>6, ModSmall
  <1>9. tx_wr = z % PTR
    BY <1>3, <1>4 DEF InPlace, Plus
  <1> HIDE DEF z
  <1>10. Minus(tx_wr, tx_rd) = n
    BY <1>7, <1>8, <1>9, MinusIs
  <1>11. \A k \in 1 .. n : tx_mem[(tx_rd + k - 1) % TX_RING] = g[k]
    BY <1>3, <1>4 DEF InPlace, InRing
  <1>12. g = [k \in 1 .. n |-> g[k]]
    BY <1>5
  <1>13. ReadFrom(tx_mem, TX_RING, tx_rd, n) = g
    BY <1>11, <1>12 DEF ReadFrom
  <1> QED
    BY <1>4, <1>10, <1>13

txAll == <<tx_mem, tx_wr, tx_rd, sending, ir, tx_frame, tpc, ptr, txq, clash>>

\* A step of the only sender that leaves it busy.
LEMMA StaysAlone ==
  ASSUME NEW t \in Senders, Alone(t), \A u \in Senders : u # t => tpc'[u] = tpc[u],
         tpc'[t] # "idle", SenderInv(t)'
  PROVE  TxInv'
  BY DEF TxInv, Alone

LEMMA SendingStep ==
  ASSUME TypeOK, TxInv, NEW t \in Senders, Sending(t)
  PROVE  TxInv'
  <1>1. tpc[t] # "idle" /\ tpc \in [Senders -> {"idle", "getwr", "write", "setwr", "send", "await"}]
    BY DEF Sending, GetWr, Write, SetWr, Send, Await, Step, TypeOK
  <1>2. Alone(t) /\ SenderInv(t)
    BY <1>1, Busy
  <1>3. PTR \in Nat /\ PTR > 0 /\ TX_RING \in Nat /\ TX_RING > 0 /\ PTR % TX_RING = 0
    BY MacRawConstants
  <1>4. tx_rd \in Positions /\ tx_wr \in Positions /\ ptr \in [Senders -> Positions]
    BY DEF TypeOK
  <1>5. CASE GetWr(t)
    <2>1. /\ tpc[t] = "getwr" /\ tpc' = [tpc EXCEPT ![t] = "write"]
          /\ ptr' = [ptr EXCEPT ![t] = tx_wr]
          /\ UNCHANGED <<tx_mem, tx_wr, tx_rd, sending, ir, tx_frame, txq>>
      BY <1>5 DEF GetWr, Step, txChip, others
    <2>2. tpc'[t] = "write" /\ ptr'[t] = tx_wr
      BY <1>1, <1>4, <2>1
    <2>3. Pending /\ ~sending /\ ir = {} /\ tx_rd = tx_wr
      BY <1>2, <2>1 DEF SenderInv
    <2>4. SenderInv(t)'
      BY <2>1, <2>2, <2>3 DEF SenderInv, Pending
    <2> QED
      BY <1>1, <1>2, <2>1, <2>2, <2>4, StaysAlone
  <1>6. CASE Write(t)
    <2>1. /\ tpc[t] = "write" /\ tpc' = [tpc EXCEPT ![t] = "setwr"]
          /\ tx_mem' = Written(tx_mem, TX_RING, ptr[t], tx_frame)
          /\ UNCHANGED <<tx_wr, tx_rd, sending, ir, tx_frame, ptr, txq>>
      BY <1>6 DEF Write, Step, others
    <2>2. tpc'[t] = "setwr"
      BY <1>1, <2>1
    <2>3. Pending /\ ~sending /\ ir = {} /\ tx_rd = tx_wr /\ ptr[t] = tx_wr
      BY <1>2, <2>1 DEF SenderInv
    <2> DEFINE n == Len(tx_frame)
    <2>4. n \in 0 .. TX_RING /\ n \in Nat
      <3>1. n \in 1 .. TX_RING
        BY <2>3, PaddedFacts DEF Pending
      <3> QED
        BY <1>3, <3>1
    <2>5. tx_rd \in Int /\ tx_rd = tx_rd % PTR
      BY <1>3, <1>4, ModSmall DEF Positions
    <2>6. Follows(tx_mem', tx_mem, TX_RING, tx_rd, tx_frame)
      <3>1. Follows(Written(tx_mem, TX_RING, tx_rd, tx_frame), tx_mem, TX_RING, tx_rd, tx_frame)
        BY <1>3, <2>4, <2>5, WrittenFollows
      <3> QED
        BY <2>1, <2>3, <3>1
    <2>7. InRing'
      <3>1. ASSUME NEW k \in 1 .. n PROVE tx_mem'[(tx_rd + k - 1) % TX_RING] = tx_frame[k]
        <4> DEFINE d == k - 1
        <4>1. d \in 0 .. n - 1 /\ d + 1 = k /\ tx_rd + k - 1 = tx_rd + d
          BY <2>4, <2>5
        <4> HIDE DEF d
        <4> QED
          BY <2>6, <4>1 DEF Follows
      <3> QED
        BY <2>1, <3>1 DEF InRing
    <2>8. SenderInv(t)'
      BY <2>1, <2>2, <2>3, <2>7 DEF SenderInv, Pending
    <2> QED
      BY <1>1, <1>2, <2>1, <2>2, <2>8, StaysAlone
  <1>7. CASE SetWr(t)
    <2>1. /\ tpc[t] = "setwr" /\ tpc' = [tpc EXCEPT ![t] = "send"]
          /\ tx_wr' = Plus(ptr[t], Len(tx_frame))
          /\ UNCHANGED <<tx_mem, tx_rd, sending, ir, tx_frame, ptr, txq>>
      BY <1>7 DEF SetWr, Step, others
    <2>2. tpc'[t] = "send"
      BY <1>1, <2>1
    <2>3. Pending /\ ~sending /\ ir = {} /\ tx_rd = tx_wr /\ ptr[t] = tx_wr /\ InRing
      BY <1>2, <2>1 DEF SenderInv
    <2>4. InPlace'
      BY <2>1, <2>3 DEF InPlace, InRing, Plus
    <2>5. SenderInv(t)'
      BY <2>1, <2>2, <2>3, <2>4 DEF SenderInv, Pending
    <2> QED
      BY <1>1, <1>2, <2>1, <2>2, <2>5, StaysAlone
  <1>8. CASE Send(t)
    <2>1. /\ tpc[t] = "send" /\ tpc' = [tpc EXCEPT ![t] = "await"] /\ sending'
          /\ UNCHANGED <<tx_mem, tx_wr, tx_rd, ir, tx_frame, ptr, txq>>
      BY <1>8 DEF Send, Step, others
    <2>2. tpc'[t] = "await"
      BY <1>1, <2>1
    <2>3. Pending /\ ir = {} /\ InPlace
      BY <1>2, <2>1 DEF SenderInv
    <2>4. InPlace' /\ Pending'
      BY <2>1, <2>3 DEF InPlace, InRing, Plus, Pending
    <2>5. SenderInv(t)'
      BY <2>1, <2>2, <2>3, <2>4 DEF SenderInv
    <2> QED
      BY <1>1, <1>2, <2>1, <2>2, <2>5, StaysAlone
  <1>9. CASE Await(t)
    <2>1. /\ tpc[t] = "await" /\ tpc' = [tpc EXCEPT ![t] = "idle"] /\ ir # {}
          /\ ir' = ir \ {IF "SENDOK" \in ir THEN "SENDOK" ELSE "TIMEOUT"}
          /\ UNCHANGED <<tx_wr, tx_rd, sending, txq>>
      BY <1>9 DEF Await, Step, others
    <2>2. Answered
      BY <1>2, <2>1 DEF SenderInv
    <2>3. ir' = {}
      BY <2>1, <2>2 DEF Answered
    <2>4. NoSend'
      BY <2>1, <2>2, <2>3 DEF Answered, NoSend
    <2>5. AllIdle'
      BY <1>1, <1>2, <2>1 DEF AllIdle, Alone
    <2> QED
      BY <2>4, <2>5 DEF TxInv
  <1> QED
    BY <1>5, <1>6, <1>7, <1>8, <1>9 DEF Sending

LEMMA ChipSendStep ==
  ASSUME TypeOK, TxInv, NEW ok \in BOOLEAN, ChipSend(ok)
  PROVE  TxInv'
  <1>1. /\ sending /\ ~sending' /\ tx_rd' = tx_wr /\ tx_wr' = tx_wr /\ txq' = Tail(txq)
        /\ ir' = ir \cup {IF ok THEN "SENDOK" ELSE "TIMEOUT"} /\ UNCHANGED tpc
    BY DEF ChipSend
  <1>2. PICK t \in Senders : tpc[t] # "idle" /\ Alone(t) /\ SenderInv(t)
    BY <1>1 DEF TxInv, NoSend
  <1>3. tpc[t] = "await"
    BY <1>1, <1>2 DEF SenderInv, TypeOK
  <1>4. Pending /\ ir = {}
    BY <1>1, <1>2, <1>3 DEF SenderInv, Answered
  <1>5. txq' = <<>>
    BY <1>1, <1>4 DEF Pending
  <1>6. ir' = {"SENDOK"} \/ ir' = {"TIMEOUT"}
    BY <1>1, <1>4
  <1>7. Answered'
    BY <1>1, <1>5, <1>6 DEF Answered
  <1>8. SenderInv(t)'
    BY <1>1, <1>3, <1>7 DEF SenderInv
  <1> QED
    BY <1>1, <1>2, <1>8, StaysAlone

LEMMA OutputFrame ==
  ASSUME TypeOK, NEW t \in Senders, NEW l \in Lens, Output(t, l)
  PROVE  /\ ntx' \in 0 .. MaxTx
         /\ \E f \in Frames : tx_frame' = Link!Padded(f) /\ txq' = Append(txq, f)
  <1> DEFINE f == Frame(MaxRx + ntx', l)
  <1>0. MaxTx \in Nat /\ MaxRx \in Nat
    BY MacRawConstants
  <1>1. ntx' \in 1 .. MaxTx
    BY <1>0 DEF Output, TypeOK
  <1>2. ASSUME NEW n \in 1 .. MaxTx PROVE MaxRx + n \in 1 .. MaxRx + MaxTx
    BY <1>0
  <1>3. f \in Frames
    BY <1>1, <1>2 DEF Frames
  <1>4. tx_frame' = Link!Padded(f) /\ txq' = Append(txq, f)
    BY DEF Output
  <1>5. ntx' \in 0 .. MaxTx
    BY <1>0, <1>1
  <1> QED
    BY <1>3, <1>4, <1>5

LEMMA OutputStep ==
  ASSUME TypeOK, clash \/ TxInv, NEW t \in Senders, NEW l \in Lens, Output(t, l)
  PROVE  clash' \/ TxInv'
  <1>1. CASE clash \/ ~ AllIdle
    BY <1>1 DEF Output, AllIdle
  <1>2. CASE ~ clash /\ AllIdle
    <2>1. txq \in Seq(Frames) /\ tpc \in [Senders -> {"idle", "getwr", "write", "setwr", "send", "await"}]
      BY DEF TypeOK
    <2>2. NoSend
      BY <1>2 DEF TxInv, AllIdle
    <2>3. /\ tpc' = [tpc EXCEPT ![t] = "getwr"]
          /\ UNCHANGED <<tx_rd, tx_wr, sending, ir>>
      BY DEF Output, txChip
    <2>4. PICK f \in Frames : tx_frame' = Link!Padded(f) /\ txq' = Append(txq, f)
      BY OutputFrame
    <2>5. txq' = <<f>>
      BY <2>2, <2>4 DEF NoSend
    <2>6. tpc'[t] = "getwr" /\ \A u \in Senders : u # t => tpc'[u] = tpc[u]
      BY <2>1, <2>3
    <2>7. SenderInv(t)'
      BY <2>2, <2>3, <2>4, <2>5, <2>6 DEF SenderInv, Pending, NoSend
    <2>8. Alone(t)
      BY <1>2 DEF AllIdle, Alone
    <2> QED
      BY <2>6, <2>7, <2>8, StaysAlone
  <1> QED
    BY <1>1, <1>2

LEMMA TxStep ==
  ASSUME TypeOK, clash \/ TxInv, [Next]_vars
  PROVE  clash' \/ TxInv'
  <1>1. ASSUME UNCHANGED txAll PROVE clash' \/ TxInv'
    <2>1. UNCHANGED <<tx_mem, tx_wr, tx_rd, sending, ir, tx_frame, tpc, ptr, txq, clash>>
      BY <1>1 DEF txAll
    <2>2. ASSUME TxInv PROVE TxInv'
      BY <2>1, <2>2 DEF TxInv, AllIdle, NoSend, Alone, SenderInv, Pending, InPlace, InRing,
         Answered, Plus
    <2> QED
      BY <2>1, <2>2
  <1>2. CASE LwipInit \/ Lwip
    <2>1. UNCHANGED txAll
      BY <1>2 DEF LwipInit, Lwip, OpenSocket, LinkUp, LwipEnd, txAll, txChip, txTask
    <2> QED
      BY <1>1, <2>1
  <1>3. ASSUME NEW l \in Lens, ChipReceive(l) PROVE UNCHANGED txAll
    BY <1>3 DEF ChipReceive, txAll, txChip, txTask
  <1>4. ASSUME NEW ok \in BOOLEAN, ChipSend(ok) PROVE clash' \/ TxInv'
    <2>1. ~ clash
      BY <1>4 DEF ChipSend, Broken
    <2> QED
      BY <1>4, <2>1, ChipSendStep
  <1>5. ASSUME Poll PROVE UNCHANGED txAll
    BY <1>5 DEF Poll, Turn, Look, ReadHead, AckHead, ReadBody, AckBody, Input, TurnEnd, txAll,
       txChip, txTask
  <1>6. ASSUME NEW t \in Senders, Sending(t) PROVE clash' \/ TxInv'
    <2>1. ~ clash
      BY <1>6 DEF Sending, GetWr, Write, SetWr, Send, Await, Step, Broken
    <2> QED
      BY <1>6, <2>1, SendingStep
  <1>7. ASSUME NEW t \in Senders, NEW l \in Lens, Output(t, l) PROVE clash' \/ TxInv'
    BY <1>7, OutputStep
  <1>8. CASE UNCHANGED vars
    BY <1>1, <1>8 DEF vars, txAll, txChip, txTask
  <1> QED
    BY <1>1, <1>2, <1>3, <1>4, <1>5, <1>6, <1>7, <1>8 DEF Next
-----------------------------------------------------------------------------
(* Types.                                                                  *)

LEMMA ReadType ==
  ASSUME NEW m \in Nat, m > 0, NEW mem \in [0 .. m - 1 -> Bytes], NEW p \in Int, NEW n \in Nat
  PROVE  ReadFrom(mem, m, p, n) \in Seq(Bytes) /\ Len(ReadFrom(mem, m, p, n)) = n
  <1>1. ASSUME NEW k \in 1 .. n PROVE mem[(p + k - 1) % m] \in Bytes
    <2> DEFINE x == p + k - 1
    <2>1. x \in Int
      OBVIOUS
    <2> HIDE DEF x
    <2>2. x % m \in 0 .. m - 1
      BY <2>1, ModOf
    <2> QED
      BY <2>2 DEF x
  <1> QED
    BY <1>1 DEF ReadFrom

LEMMA WrittenType ==
  ASSUME NEW m \in Nat, m > 0, NEW mem \in [0 .. m - 1 -> Bytes], NEW p \in Int,
         NEW bytes \in Seq(Bytes)
  PROVE  Written(mem, m, p, bytes) \in [0 .. m - 1 -> Bytes]
  <1>1. ASSUME NEW i \in 0 .. m - 1, NEW k, k = ((i - p) % m) + 1
        PROVE  (IF k <= Len(bytes) THEN bytes[k] ELSE mem[i]) \in Bytes
    <2> DEFINE x == i - p
               r == x % m
    <2>1. x \in Int
      OBVIOUS
    <2>2. r \in 0 .. m - 1
      <3> HIDE DEF x
      <3> QED
        BY <2>1, ModOf
    <2>3. k = r + 1
      BY <1>1
    <2> HIDE DEF r
    <2>4. k \in Nat /\ k >= 1
      BY <2>2, <2>3
    <2> QED
      BY <2>4
  <1> QED
    BY <1>1 DEF Written

LEMMA PlusType ==
  ASSUME NEW p \in Int, NEW n \in Int
  PROVE  Plus(p, n) \in Positions
  <1> DEFINE x == p + n
  <1>1. x \in Int /\ PTR \in Nat /\ PTR > 0
    BY MacRawConstants
  <1> HIDE DEF x
  <1>2. x % PTR \in 0 .. PTR - 1
    BY <1>1, ModOf
  <1> QED
    BY <1>2 DEF Plus, Positions, x

LEMMA PositionsAre == Positions \subseteq Nat
  BY MacRawConstants DEF Positions

RxType ==
  /\ rx_mem \in [0 .. RX_RING - 1 -> Bytes]
  /\ rx_wr \in Positions /\ rx_ack \in Positions /\ rx_rd \in Positions
  /\ ppc \in {"idle", "look", "timers", "head", "ackhead", "body", "ackbody", "ackskip", "input"}
  /\ len \in Nat /\ head \in Nat /\ longest \in Nat /\ pack \in Seq(Bytes)
  /\ nrx \in 0 .. MaxRx /\ rxq \in Seq(Frames) /\ delivered \in Seq(Seq(Bytes))

Flags == sending \in BOOLEAN /\ clash \in BOOLEAN
TxType ==
  /\ tx_mem \in [0 .. TX_RING - 1 -> Bytes] /\ tx_wr \in Positions /\ tx_rd \in Positions
  /\ ir \subseteq {"SENDOK", "TIMEOUT"}
  /\ tx_frame \in Seq(Bytes) /\ ptr \in [Senders -> Positions]
  /\ tpc \in [Senders -> {"idle", "getwr", "write", "setwr", "send", "await"}]
  /\ ntx \in 0 .. MaxTx /\ txq \in Seq(Frames) /\ wire \in Seq(Seq(Bytes))

NetFlags == added \in BOOLEAN /\ link_up \in BOOLEAN
NetType  == shell \in {"prompt", "socket", "linkup", "dhcp", "sent", "hung"}

LEMMA TypeParts == TypeOK <=> RxType /\ Flags /\ TxType /\ NetFlags /\ NetType
  <1>1. TypeOK => RxType /\ TxType /\ NetType
    BY DEF TypeOK, RxType, TxType, NetType
  <1>2. TypeOK => Flags /\ NetFlags
    BY DEF TypeOK, Flags, NetFlags
  <1>3. RxType /\ Flags /\ TxType /\ NetFlags /\ NetType => TypeOK
    BY DEF TypeOK, RxType, TxType, NetType, Flags, NetFlags
  <1> QED
    BY <1>1, <1>2, <1>3

rxVars == <<rxChip, rxTask, nrx, rxq, delivered>>
txVars == <<txChip, txTask, wire>>

LEMMA NetTypes ==
  ASSUME NetFlags, NetType, [Next]_vars
  PROVE  NetFlags' /\ NetType'
  <1>1. CASE UNCHANGED netif
    BY <1>1 DEF netif, NetFlags, NetType
  <1>2. CASE LwipInit
    <2>1. NetFlags'
      BY <1>2 DEF LwipInit, NetFlags
    <2>2. NetType'
      BY <1>2 DEF LwipInit, NetType
    <2> QED
      BY <2>1, <2>2
  <1>3. CASE Lwip
    <2>1. NetFlags'
      BY <1>3 DEF Lwip, OpenSocket, LinkUp, LwipEnd, NetFlags
    <2>2. NetType'
      BY <1>3 DEF Lwip, OpenSocket, LinkUp, LwipEnd, NetType
    <2> QED
      BY <2>1, <2>2
  <1>4. ASSUME NEW l \in Lens, ChipReceive(l) PROVE UNCHANGED netif
    BY <1>4 DEF ChipReceive
  <1>5. ASSUME NEW ok \in BOOLEAN, ChipSend(ok) PROVE UNCHANGED netif
    BY <1>5 DEF ChipSend
  <1>6. ASSUME NEW t \in Senders, Sending(t) PROVE UNCHANGED netif
    BY <1>6 DEF Sending, GetWr, Write, SetWr, Send, Await, others
  <1>7. ASSUME NEW t \in Senders, NEW l \in Lens, Output(t, l) PROVE NetFlags' /\ NetType'
    <2>1. NetFlags'
      BY <1>7 DEF Output, NetFlags
    <2>2. NetType'
      BY <1>7 DEF Output, InLwip, NetType
    <2> QED
      BY <2>1, <2>2
  <1>8. UNCHANGED vars => UNCHANGED netif
    BY DEF vars
  <1> QED
    BY <1>1, <1>2, <1>3, <1>4, <1>5, <1>6, <1>7, <1>8 DEF Next, Poll

LEMMA RxTypes ==
  ASSUME TypeOK, PollInv, [Next]_vars
  PROVE  RxType'
  <1>1. RxType
    BY TypeParts
  <1>2. RX_RING \in Nat /\ RX_RING > 0 /\ PTR \in Nat /\ MaxRx \in Nat
    BY MacRawConstants
  <1>3. CASE UNCHANGED rxVars
    BY <1>1, <1>3 DEF rxVars, rxChip, rxTask, RxType
  <1>4. CASE LwipInit \/ Lwip
    <2>1. UNCHANGED rxVars
      BY <1>4 DEF LwipInit, Lwip, OpenSocket, LinkUp, LwipEnd, rxVars, rxChip, rxTask
    <2> QED
      BY <1>3, <2>1
  <1>5. ASSUME NEW l \in Lens, ChipReceive(l) PROVE RxType'
    <2> DEFINE f == Frame(nrx', l)
    <2>1. nrx' \in 1 .. MaxRx /\ nrx' \in 0 .. MaxRx
      BY <1>1, <1>2, <1>5 DEF ChipReceive, RxType
    <2>2. f \in Frames
      BY <2>1, MacRawConstants DEF Frames
    <2>3. UNCHANGED <<rx_ack, rx_rd, ppc, len, head, longest, pack, delivered>>
      BY <1>5 DEF ChipReceive, rxTask
    <2> HIDE DEF f
    <2>4. CASE UNCHANGED <<rx_mem, rx_wr, rxq>>
      BY <1>1, <2>1, <2>3, <2>4 DEF RxType
    <2>5. CASE /\ rx_mem' = Written(rx_mem, RX_RING, rx_wr, Stored(f))
               /\ rx_wr' = Plus(rx_wr, HEAD + l) /\ rxq' = Append(rxq, f)
      <3>1. rx_mem' \in [0 .. RX_RING - 1 -> Bytes]
        <4>1. Stored(f) \in Seq(Bytes)
          BY <2>2, StoredFacts
        <4>2. rx_mem \in [0 .. RX_RING - 1 -> Bytes] /\ rx_wr \in Int
          BY <1>1, PositionsAre DEF RxType
        <4> QED
          BY <1>2, <2>5, <4>1, <4>2, WrittenType
      <3>2. rx_wr' \in Positions
        <4>1. rx_wr \in Int /\ HEAD + l \in Int
          BY <1>1, PositionsAre, MacRawConstants DEF RxType, HEAD
        <4> QED
          BY <2>5, <4>1, PlusType
      <3>3. rxq' \in Seq(Frames)
        BY <1>1, <2>2, <2>5, AppendProperties DEF RxType
      <3> QED
        BY <1>1, <2>1, <2>3, <3>1, <3>2, <3>3 DEF RxType
    <2> QED
      BY <1>5, <2>4, <2>5 DEF ChipReceive, f
  <1>6. ASSUME NEW ok \in BOOLEAN, ChipSend(ok) PROVE UNCHANGED rxVars
    BY <1>6 DEF ChipSend, rxVars
  <1>7. CASE Poll
    <2>1. CASE Turn \/ Look \/ AckHead \/ AckBody \/ TurnEnd
      <3>1. RX_RSR \in Nat
        <4> DEFINE x == rx_wr - rx_ack
        <4>1. x \in Int /\ PTR > 0
          BY <1>1, PositionsAre, MacRawConstants DEF RxType
        <4> HIDE DEF x
        <4>2. x % PTR \in Nat
          BY <1>2, <4>1, ModOf
        <4> QED
          BY <4>2 DEF x, RX_RSR, Minus
      <3>2. UNCHANGED <<rx_mem, rx_wr, rx_rd, longest, nrx, rxq, delivered>>
        BY <2>1 DEF Turn, Look, AckHead, AckBody, TurnEnd, rxChip
      <3>3. rx_ack' \in Positions /\ len' \in Nat /\ head' \in Nat /\ pack' \in Seq(Bytes)
        <4>1. rx_ack' \in {rx_ack, rx_rd} /\ len' \in {len, RX_RSR, 0} /\ head' \in {head, 0}
          BY <2>1 DEF Turn, Look, AckHead, AckBody, TurnEnd, rxChip
        <4>2. pack' = pack \/ pack' = <<>>
          BY <2>1 DEF Turn, Look, AckHead, AckBody, TurnEnd
        <4>3. pack' \in Seq(Bytes)
          <5>1. pack \in Seq(Bytes)
            BY <1>1 DEF RxType
          <5>2. ASSUME NEW s, s = <<>> PROVE s \in Seq(Bytes)
            BY <5>2
          <5>3. CASE pack' = pack
            BY <5>1, <5>3
          <5>4. CASE pack' = <<>>
            BY <5>2, <5>4
          <5> QED
            BY <4>2, <5>3, <5>4
        <4> HIDE DEF RX_RSR
        <4>4. rx_ack' \in Positions /\ len' \in Nat /\ head' \in Nat
          BY <1>1, <3>1, <4>1 DEF RxType
        <4> QED
          BY <4>3, <4>4
      <3>4. ppc' \in {"idle", "look", "timers", "head", "ackhead", "body", "ackbody", "ackskip",
                      "input"}
        BY <2>1 DEF Turn, Look, AckHead, AckBody, TurnEnd
      <3> QED
        BY <1>1, <3>2, <3>3, <3>4 DEF RxType
    <2>2. CASE ReadHead
      <3> DEFINE two == ReadFrom(rx_mem, RX_RING, rx_rd, HEAD)
      <3>1. two \in Seq(Bytes) /\ Len(two) = HEAD /\ HEAD \in Nat /\ rx_rd \in Int
        <4>1. rx_mem \in [0 .. RX_RING - 1 -> Bytes] /\ rx_rd \in Int
          BY <1>1, PositionsAre DEF RxType
        <4>2. HEAD \in Nat
          BY DEF HEAD
        <4> QED
          BY <1>2, <4>1, <4>2, ReadType
      <3>2. head' \in Nat
        <4>1. two[1] \in Bytes
          BY <3>1 DEF HEAD
        <4>2. two[1][2] \in Nat
          BY <1>2, <4>1 DEF Bytes
        <4> HIDE DEF two
        <4>3. PackLen(two) \in Nat
          BY <4>2 DEF PackLen
        <4> QED
          BY <2>2, <4>3 DEF ReadHead, two
      <3>3. rx_rd' \in Positions
        BY <2>2, <3>1, PlusType DEF ReadHead, Advance
      <3>4. /\ UNCHANGED <<rx_mem, rx_wr, rx_ack, len, pack, longest, nrx, rxq, delivered>>
            /\ ppc' = "ackhead"
        BY <2>2 DEF ReadHead, rxChip
      <3> QED
        BY <1>1, <3>2, <3>3, <3>4 DEF RxType
    <2>3. CASE ReadBody
      <3>1. ReadFrom(rx_mem, RX_RING, rx_rd, head) \in Seq(Bytes) /\ rx_rd \in Int /\ head \in Int
        <4>1. rx_mem \in [0 .. RX_RING - 1 -> Bytes] /\ rx_rd \in Int /\ head \in Nat
          BY <1>1, PositionsAre DEF RxType
        <4>2. ReadFrom(rx_mem, RX_RING, rx_rd, head) \in Seq(Bytes)
          BY <1>2, <4>1, ReadType
        <4> QED
          BY <4>1, <4>2
      <3>2. rx_rd' \in Positions
        BY <2>3, <3>1, PlusType DEF ReadBody, Advance
      <3>3. pack' \in Seq(Bytes) /\ longest' \in Nat /\ ppc' \in {"ackskip", "ackbody"}
        BY <1>1, <2>3, <3>1 DEF ReadBody, RxType
      <3>4. UNCHANGED <<rx_mem, rx_wr, rx_ack, len, head, nrx, rxq, delivered>>
        BY <2>3 DEF ReadBody, rxChip
      <3> QED
        BY <1>1, <3>2, <3>3, <3>4 DEF RxType
    <2>4. CASE Input
      <3>1. rxq # <<>> /\ rxq' = Tail(rxq) /\ ppc' = "timers"
        BY <2>4 DEF Input, PollInv
      <3>2. rxq' \in Seq(Frames)
        BY <1>1, <3>1, HeadTailProperties DEF RxType
      <3>3. delivered' \in Seq(Seq(Bytes))
        <4>1. pack \in Seq(Bytes) /\ delivered \in Seq(Seq(Bytes))
          BY <1>1 DEF RxType
        <4>2. Append(delivered, pack) \in Seq(Seq(Bytes))
          BY <4>1, AppendProperties
        <4> QED
          BY <2>4, <4>1, <4>2 DEF Input
      <3>4. UNCHANGED <<rx_mem, rx_wr, rx_ack, rx_rd, len, head, pack, longest, nrx>>
        BY <2>4 DEF Input, rxChip
      <3> QED
        BY <1>1, <3>1, <3>2, <3>3, <3>4 DEF RxType
    <2> QED
      BY <1>7, <2>1, <2>2, <2>3, <2>4 DEF Poll
  <1>8. ASSUME NEW t \in Senders, Sending(t) PROVE UNCHANGED rxVars
    BY <1>8 DEF Sending, GetWr, Write, SetWr, Send, Await, others, rxVars
  <1>9. ASSUME NEW t \in Senders, NEW l \in Lens, Output(t, l) PROVE UNCHANGED rxVars
    BY <1>9 DEF Output, rxVars
  <1>10. UNCHANGED vars => UNCHANGED rxVars
    BY DEF vars, rxVars
  <1> QED
    BY <1>3, <1>4, <1>5, <1>6, <1>7, <1>8, <1>9, <1>10 DEF Next

LEMMA TxTypes ==
  ASSUME TypeOK, clash \/ TxInv, [Next]_vars
  PROVE  TxType'
  <1>1. TxType
    BY TypeParts
  <1>2. TX_RING \in Nat /\ TX_RING > 0 /\ PTR \in Nat /\ PTR > 0
    BY MacRawConstants
  <1>3. CASE UNCHANGED txVars
    BY <1>1, <1>3 DEF txVars, txChip, txTask, TxType
  <1>4. CASE LwipInit \/ Lwip
    <2>1. UNCHANGED txVars
      BY <1>4 DEF LwipInit, Lwip, OpenSocket, LinkUp, LwipEnd, txVars
    <2> QED
      BY <1>3, <2>1
  <1>5. ASSUME NEW l \in Lens, ChipReceive(l) PROVE UNCHANGED txVars
    BY <1>5 DEF ChipReceive, txVars
  <1>6. ASSUME NEW ok \in BOOLEAN, ChipSend(ok) PROVE TxType'
    <2>1. UNCHANGED <<tx_mem, tx_wr, tx_frame, ptr, tpc, ntx>> /\ tx_rd' = tx_wr
      BY <1>6 DEF ChipSend
    <2>2. PICK f \in Frames :
            /\ txq = <<f>>
            /\ ReadFrom(tx_mem, TX_RING, tx_rd, Minus(tx_wr, tx_rd)) = Link!Padded(f)
      BY <1>6, SentIs DEF ChipSend, Broken
    <2>3. txq' \in Seq(Frames)
      BY <1>6, <2>2 DEF ChipSend
    <2>4. wire' \in Seq(Seq(Bytes))
      <3>1. Link!Padded(f) \in Seq(Bytes)
        BY PaddedFacts
      <3>2. wire \in Seq(Seq(Bytes))
        BY <1>1 DEF TxType
      <3> DEFINE g == Link!Padded(f)
      <3>3. wire' = wire \/ wire' = Append(wire, g)
        BY <1>6, <2>2 DEF ChipSend
      <3> HIDE DEF g
      <3>4. Append(wire, g) \in Seq(Seq(Bytes))
        BY <3>1, <3>2, AppendProperties DEF g
      <3> QED
        BY <3>2, <3>3, <3>4
    <2>5. ir' \subseteq {"SENDOK", "TIMEOUT"}
      BY <1>1, <1>6 DEF ChipSend, TxType
    <2> QED
      BY <1>1, <2>1, <2>3, <2>4, <2>5 DEF TxType
  <1>7. ASSUME Poll PROVE UNCHANGED txVars
    BY <1>7 DEF Poll, Turn, Look, ReadHead, AckHead, ReadBody, AckBody, Input, TurnEnd, txVars
  <1>8. ASSUME NEW t \in Senders, Sending(t) PROVE TxType'
    <2>0. ptr[t] \in Int /\ tx_frame \in Seq(Bytes)
      <3>1. t \in Senders /\ ptr \in [Senders -> Positions] /\ tx_frame \in Seq(Bytes)
        BY <1>1, <1>8 DEF TxType
      <3>2. ptr[t] \in Positions
        BY <3>1
      <3>3. ASSUME NEW p \in Positions PROVE p \in Int
        BY PositionsAre
      <3> QED
        BY <3>1, <3>2, <3>3
    <2>1. UNCHANGED <<tx_rd, tx_frame, ntx, txq, wire>>
      BY <1>8 DEF Sending, GetWr, Write, SetWr, Send, Await, others, txChip
    <2>2. tpc' \in [Senders -> {"idle", "getwr", "write", "setwr", "send", "await"}]
      BY <1>1, <1>8 DEF Sending, GetWr, Write, SetWr, Send, Await, Step, TxType
    <2>3. 0 \in Positions
      BY <1>2 DEF Positions
    <2>4. ptr' \in [Senders -> Positions]
      BY <1>1, <1>8, <2>3 DEF Sending, GetWr, Write, SetWr, Send, Await, TxType
    <2>5. ir' \subseteq {"SENDOK", "TIMEOUT"}
      BY <1>1, <1>8 DEF Sending, GetWr, Write, SetWr, Send, Await, txChip, TxType
    <2>6. tx_wr' \in Positions
      <3>1. ptr[t] \in Int /\ Len(tx_frame) \in Int
        BY <2>0
      <3>2. Plus(ptr[t], Len(tx_frame)) \in Positions
        BY <3>1, PlusType
      <3>3. tx_wr' = tx_wr \/ tx_wr' = Plus(ptr[t], Len(tx_frame))
        BY <1>8 DEF Sending, GetWr, Write, SetWr, Send, Await, txChip
      <3> QED
        BY <1>1, <3>2, <3>3 DEF TxType
    <2>7. tx_mem' \in [0 .. TX_RING - 1 -> Bytes]
      <3>1. tx_mem \in [0 .. TX_RING - 1 -> Bytes]
        BY <1>1 DEF TxType
      <3>2. Written(tx_mem, TX_RING, ptr[t], tx_frame) \in [0 .. TX_RING - 1 -> Bytes]
        BY <1>2, <2>0, <3>1, WrittenType
      <3>3. tx_mem' = tx_mem \/ tx_mem' = Written(tx_mem, TX_RING, ptr[t], tx_frame)
        BY <1>8 DEF Sending, GetWr, Write, SetWr, Send, Await, txChip
      <3> QED
        BY <3>1, <3>2, <3>3
    <2> QED
      BY <1>1, <2>1, <2>2, <2>4, <2>5, <2>6, <2>7 DEF TxType
  <1>9. ASSUME NEW t \in Senders, NEW l \in Lens, Output(t, l) PROVE TxType'
    <2>1. UNCHANGED <<tx_mem, tx_wr, tx_rd, ir, ptr, wire>>
      BY <1>9 DEF Output, txChip
    <2>2. tpc' \in [Senders -> {"idle", "getwr", "write", "setwr", "send", "await"}]
      BY <1>1, <1>9 DEF Output, TxType
    <2>3. PICK f \in Frames : tx_frame' = Link!Padded(f) /\ txq' = Append(txq, f)
      BY <1>9, OutputFrame
    <2>4. tx_frame' \in Seq(Bytes)
      BY <2>3, PaddedFacts
    <2>5. txq' \in Seq(Frames)
      BY <1>1, <2>3, AppendProperties DEF TxType
    <2>6. ntx' \in 0 .. MaxTx
      BY <1>9, OutputFrame
    <2> QED
      BY <1>1, <2>1, <2>2, <2>4, <2>5, <2>6 DEF TxType
  <1>10. UNCHANGED vars => UNCHANGED txVars
    BY DEF vars, txVars
  <1> QED
    BY <1>3, <1>4, <1>5, <1>6, <1>7, <1>8, <1>9, <1>10 DEF Next

LEMMA FlagTypes ==
  ASSUME Flags, [Next]_vars
  PROVE  Flags'
  <1>1. CASE UNCHANGED <<sending, clash>>
    BY <1>1 DEF Flags
  <1>2. CASE LwipInit \/ Lwip
    BY <1>1, <1>2 DEF LwipInit, Lwip, OpenSocket, LinkUp, LwipEnd, txChip, txTask
  <1>3. ASSUME NEW l \in Lens, ChipReceive(l) PROVE UNCHANGED <<sending, clash>>
    BY <1>3 DEF ChipReceive, txChip, txTask
  <1>4. ASSUME NEW ok \in BOOLEAN, ChipSend(ok) PROVE Flags'
    BY <1>4 DEF ChipSend, Flags
  <1>5. ASSUME Poll PROVE UNCHANGED <<sending, clash>>
    BY <1>5 DEF Poll, Turn, Look, ReadHead, AckHead, ReadBody, AckBody, Input, TurnEnd, txChip,
       txTask
  <1>6. ASSUME NEW t \in Senders, Sending(t) PROVE Flags'
    BY <1>6 DEF Sending, GetWr, Write, SetWr, Send, Await, others, txChip, Flags
  <1>7. ASSUME NEW t \in Senders, NEW l \in Lens, Output(t, l) PROVE Flags'
    BY <1>7 DEF Output, txChip, Flags
  <1>8. UNCHANGED vars => UNCHANGED <<sending, clash>>
    BY DEF vars, txChip, txTask
  <1> QED
    BY <1>1, <1>2, <1>3, <1>4, <1>5, <1>6, <1>7, <1>8 DEF Next
-----------------------------------------------------------------------------
(* The inductive invariant.                                                *)

Inv == TypeOK /\ PollInv /\ RxInv /\ (clash \/ TxInv)

LEMMA InitInv == Init => Inv
  <1> SUFFICES ASSUME Init PROVE Inv
    OBVIOUS
  <1>1. RX_RING \in Nat /\ TX_RING \in Nat /\ PTR \in Nat /\ PTR > 0 /\ MaxRx \in Nat /\ MaxTx \in Nat
    BY MacRawConstants
  <1>2. TypeOK
    <2>1. Junk \in Bytes /\ 0 \in Positions
      BY <1>1 DEF Junk, Bytes, HEAD, Positions
    <2>2. Flags /\ NetFlags /\ NetType
      BY DEF Init, Flags, NetFlags, NetType
    <2>3. RxType
      BY <1>1, <2>1 DEF Init, RxType
    <2>4. TxType
      BY <1>1, <2>1 DEF Init, TxType
    <2> QED
      BY <2>2, <2>3, <2>4, TypeParts
  <1>3. PollInv
    BY DEF Init, PollInv
  <1>4. RxInv
    <2> DEFINE st == [i \in 1 .. 1 |-> 0]
    <2>1. Len(rxq) = 0 /\ rxq = <<>> /\ ppc = "idle" /\ rx_wr = 0 /\ rx_ack = 0 /\ rx_rd = 0
      BY DEF Init
    <2>2. st[1] = 0 /\ st \in [1 .. Len(rxq) + 1 -> Nat] /\ st[Len(rxq) + 1] = 0
      BY <2>1
    <2>3. Starts(rxq, st)
      BY <2>1, <2>2 DEF Starts
    <2>4. Acked(ppc, st) = 0 /\ ReadUpTo(ppc, st) = 0
      BY <2>1, <2>2 DEF Acked, ReadUpTo
    <2>5. Stores(rx_mem, rxq, st, 0)
      BY <1>1, <2>1, <2>2 DEF Stores
    <2>6. 0 % PTR = 0
      BY <1>1, ModSmall
    <2> HIDE DEF st
    <2>7. Ring(st)
      BY <2>1, <2>2, <2>3, <2>4, <2>5, <2>6 DEF Ring
    <2> QED
      BY <2>7 DEF RxInv
  <1>5. TxInv
    <2>1. NoSend
      BY DEF Init, NoSend
    <2>2. AllIdle
      BY DEF Init, AllIdle
    <2> QED
      BY <2>1, <2>2 DEF TxInv
  <1> QED
    BY <1>2, <1>3, <1>4, <1>5 DEF Inv

LEMMA NextInv == Inv /\ [Next]_vars => Inv'
  <1> SUFFICES ASSUME Inv, [Next]_vars PROVE Inv'
    OBVIOUS
  <1>1. TypeOK /\ PollInv /\ RxInv /\ (clash \/ TxInv)
    BY DEF Inv
  <1>2. PollInv' /\ RxInv'
    BY <1>1, RxStep
  <1>3. clash' \/ TxInv'
    BY <1>1, TxStep
  <1>4. RxType'
    BY <1>1, RxTypes
  <1>5. TxType'
    BY <1>1, TxTypes
  <1>6. Flags' /\ NetFlags' /\ NetType'
    <2>1. Flags /\ NetFlags /\ NetType
      BY <1>1, TypeParts
    <2> QED
      BY <2>1, FlagTypes, NetTypes
  <1>7. TypeOK'
    <2>1. (RxType /\ Flags /\ TxType /\ NetFlags /\ NetType)' => TypeOK'
      BY TypeParts, PTL
    <2> QED
      BY <1>4, <1>5, <1>6, <2>1
  <1> QED
    BY <1>2, <1>3, <1>7 DEF Inv

LEMMA Invariant == Spec => []Inv
  BY InitInv, NextInv, PTL DEF Spec

\* Every variable keeps its type: rings and positions never leave their ranges, and the
\* frame buffers hold whole bytes of frames.
THEOREM MacRawTypes == Spec => []TypeOK
  <1>1. Inv => TypeOK
    BY DEF Inv
  <1> QED
    BY <1>1, Invariant, PTL

-----------------------------------------------------------------------------
(* The link.                                                               *)

\* w5x00_lwip.c and the chip implement FrameLink: whatever a step does to the frames that
\* wait, that lwIP has got and that are on the wire is one step of the link, or none.
LEMMA LinkStep ==
  ASSUME Inv, [Next]_vars
  PROVE  [Link!LinkNext]_<<rxq, delivered, txq, wire>>
  <1> DEFINE hist == <<rxq, delivered, txq, wire>>
  <1>0. TypeOK /\ PollInv /\ RxInv /\ (clash \/ TxInv)
    BY DEF Inv
  <1>1. CASE UNCHANGED hist
    BY <1>1
  <1>2. CASE LwipInit \/ Lwip
    BY <1>2 DEF LwipInit, Lwip, OpenSocket, LinkUp, LwipEnd, txTask
  <1>3. ASSUME NEW l \in Lens, ChipReceive(l) PROVE UNCHANGED hist \/ Link!LinkNext
    <2> DEFINE f == Frame(nrx', l)
    <2>1. nrx' \in 1 .. MaxRx
      BY <1>0, <1>3, MacRawConstants DEF ChipReceive, TypeOK
    <2>2. f \in Frames
      BY <2>1, MacRawConstants DEF Frames
    <2>3. UNCHANGED <<delivered, txq, wire>> /\ rxq' \in {rxq, Append(rxq, f)}
      BY <1>3 DEF ChipReceive, txTask
    <2> HIDE DEF f
    <2> QED
      BY <2>2, <2>3 DEF Link!LinkNext, Link!Arrive
  <1>4. ASSUME NEW ok \in BOOLEAN, ChipSend(ok) PROVE Link!LinkNext
    <2>1. ~ clash /\ sending
      BY <1>4 DEF ChipSend, Broken
    <2>2. PICK f \in Frames :
            /\ txq = <<f>>
            /\ ReadFrom(tx_mem, TX_RING, tx_rd, Minus(tx_wr, tx_rd)) = Link!Padded(f)
      BY <1>0, <2>1, SentIs
    <2>3. txq # <<>> /\ Head(txq) = f
      BY <2>2
    <2>4. /\ txq' = Tail(txq) /\ UNCHANGED <<rxq, delivered>>
          /\ (wire' = wire \/ wire' = Append(wire, Link!Padded(Head(txq))))
      BY <1>4, <2>2, <2>3 DEF ChipSend
    <2> QED
      BY <2>3, <2>4 DEF Link!LinkNext, Link!Transmit, Link!GiveUp
  <1>5. CASE Poll
    <2>1. CASE Input
      <3>1. rxq # <<>> /\ pack = rxq[1] /\ rxq' = Tail(rxq) /\ UNCHANGED <<txq, wire>>
        BY <1>0, <2>1 DEF Input, PollInv, txTask
      <3>2. pack = Head(rxq)
        BY <1>0, <3>1 DEF TypeOK
      <3>3. delivered' = delivered \/ delivered' = Append(delivered, Head(rxq))
        BY <2>1, <3>2 DEF Input
      <3> QED
        BY <3>1, <3>3 DEF Link!LinkNext, Link!Deliver, Link!Lose
    <2>2. CASE ~ Input
      <3>1. UNCHANGED hist
        BY <1>5, <2>2 DEF Poll, Turn, Look, ReadHead, AckHead, ReadBody, AckBody, TurnEnd, txTask
      <3> QED
        BY <1>1, <3>1
    <2> QED
      BY <2>1, <2>2
  <1>6. ASSUME NEW t \in Senders, Sending(t) PROVE UNCHANGED hist
    BY <1>6 DEF Sending, GetWr, Write, SetWr, Send, Await, others
  <1>7. ASSUME NEW t \in Senders, NEW l \in Lens, Output(t, l) PROVE Link!LinkNext
    <2>1. PICK f \in Frames : txq' = Append(txq, f)
      BY <1>0, <1>7, OutputFrame
    <2>2. UNCHANGED <<rxq, delivered, wire>>
      BY <1>7 DEF Output
    <2> QED
      BY <2>1, <2>2 DEF Link!LinkNext, Link!Submit
  <1>8. UNCHANGED vars => UNCHANGED hist
    BY DEF vars, txTask
  <1> QED
    BY <1>1, <1>2, <1>3, <1>4, <1>5, <1>6, <1>7, <1>8 DEF Next

\* Until two tasks are in netif_output at once or a frame overruns pack, frames are handed
\* to lwIP whole, in order and at most once, and go out padded, in order and at most once.
THEOREM ImplementsLink == Spec => IsLink
  <1>1. Init => Link!LinkInit
    BY DEF Init, Link!LinkInit
  <1>2. Inv /\ [Next]_vars => [Link!LinkNext]_<<rxq, delivered, txq, wire>>
    BY LinkStep
  <1> QED
    BY <1>1, <1>2, Invariant, PTL DEF Spec, IsLink, Link!LinkSpec
=============================================================================
