---------------------------- MODULE CodecProofs ----------------------------
(***************************************************************************)
(* What the codec promises, for every frame, key, event and garbled byte.  *)
(*                                                                         *)
(* The register of the checksum is followed by induction over the bytes:   *)
(* its step loses neither its state nor the byte, because the lowest bit   *)
(* of what it makes tells whether the polynomial was applied.  So two      *)
(* bodies that differ in one covered byte have different checksums.        *)
(***************************************************************************)
EXTENDS Codec, SequenceTheorems, WellFoundedInduction, TLAPS

\* The order the induction is over.
Less == {ss \in Nat \X Nat : ss[1] < ss[2]}

\* Induction over the natural numbers, for sets.
LEMMA SetInduction ==
  ASSUME NEW S \in SUBSET Nat, 0 \in S, \A n \in S : n + 1 \in S
  PROVE  S = Nat
<1>1. IsWellFoundedOn(Less, Nat)
  BY NatLessThanWellFounded DEF Less, OpToRel
<1> DEFINE T == Nat \ S
<1> SUFFICES ASSUME T # {} PROVE FALSE
  OBVIOUS
<1>2. PICK x \in T : \A y \in T : <<y, x>> \notin Less
  <2>1. T \subseteq Nat
    OBVIOUS
  <2> HIDE DEF T
  <2> QED
    BY <1>1, <2>1, WFMin
<1>3. x \in Nat /\ x # 0 /\ x \notin S
  OBVIOUS
<1>4. x - 1 \in Nat /\ x - 1 < x /\ (x - 1) + 1 = x
  BY <1>3
<1>5. x - 1 \notin T
  BY <1>2, <1>3, <1>4 DEF Less
<1> QED
  BY <1>3, <1>4, <1>5

-----------------------------------------------------------------------------
(* The checksum. *)

Word == {x \in Nat : x <= 65535}
Bits == {1, 2, 4, 16, 128, 8192, 32768}

\* What a byte is, in inequalities.
LEMMA ByteIs == \A x : x \in Byte <=> x \in Int /\ 0 <= x /\ x <= 255
  BY DEF Byte

\* What a word is, in inequalities.
LEMMA WordIs == \A x : x \in Word <=> x \in Int /\ 0 <= x /\ x <= 65535
  BY DEF Word

\* A bit that is taken off or added has the other value then, and the word stays one.
LEMMA BitMoves ==
  ASSUME NEW b \in Bits, NEW x \in Int, 0 <= x, x <= 65535
  PROVE  /\ (x \div b) % 2 = 1 => 0 <= x - b /\ ((x - b) \div b) % 2 # 1
         /\ (x \div b) % 2 # 1 => x + b <= 65535 /\ ((x + b) \div b) % 2 = 1
<1>1. CASE b = 1
  BY <1>1, Z3
<1>2. CASE b = 2
  BY <1>2, Z3
<1>3. CASE b = 4
  BY <1>3, Z3
<1>4. CASE b = 16
  BY <1>4, Z3
<1>5. CASE b = 128
  BY <1>5, Z3
<1>6. CASE b = 8192
  BY <1>6, Z3
<1>7. CASE b = 32768
  BY <1>7, Z3
<1> QED
  BY <1>1, <1>2, <1>3, <1>4, <1>5, <1>6, <1>7 DEF Bits

\* It is the lowest bit if it moves that.
LEMMA ParityMoves ==
  ASSUME NEW b \in Bits, NEW x \in Int
  PROVE  /\ b # 1 => (x - b) % 2 = x % 2 /\ (x + b) % 2 = x % 2
         /\ b = 1 => (x - b) % 2 # x % 2 /\ (x + b) % 2 # x % 2
<1>1. CASE b = 1
  BY <1>1, Z3
<1>2. CASE b = 2
  BY <1>2, Z3
<1>3. CASE b = 4
  BY <1>3, Z3
<1>4. CASE b = 16
  BY <1>4, Z3
<1>5. CASE b = 128
  BY <1>5, Z3
<1>6. CASE b = 8192
  BY <1>6, Z3
<1>7. CASE b = 32768
  BY <1>7, Z3
<1> QED
  BY <1>1, <1>2, <1>3, <1>4, <1>5, <1>6, <1>7 DEF Bits

\* An exclusive or with one bit is its own inverse, and turns the lowest bit if it is
\* that bit.
LEMMA FlipIs ==
  ASSUME NEW b \in Bits, NEW x \in Word
  PROVE  /\ Flip(x, b) \in Word /\ Flip(Flip(x, b), b) = x
         /\ Flip(x, b) % 2 = x % 2 <=> b # 1
<1>1. x \in Int /\ 0 <= x /\ x <= 65535 /\ b \in Int /\ 0 <= b
  BY WordIs DEF Bits
<1> DEFINE set(y) == (y \div b) % 2 = 1
<1>2. /\ set(x) => 0 <= x - b /\ ~set(x - b)
      /\ ~set(x) => x + b <= 65535 /\ set(x + b)
  BY <1>1, BitMoves
<1>3. \A y : Flip(y, b) = IF set(y) THEN y - b ELSE y + b
  BY DEF Flip
<1> HIDE DEF set
<1>4. Flip(x, b) = x - b \/ Flip(x, b) = x + b
  BY <1>3
<1>5. Flip(x, b) \in Word
  BY <1>1, <1>2, <1>3, WordIs
<1>6. (x - b) + b = x /\ (x + b) - b = x
  BY <1>1
<1>7. Flip(Flip(x, b), b) = x
  BY <1>2, <1>3, <1>6
<1> QED
  BY <1>1, <1>4, <1>5, <1>7, ParityMoves

\* An exclusive or with the polynomial loses nothing and turns the lowest bit.
LEMMA XorPolyIs ==
  /\ \A x \in Word : XorPoly(x) \in Word /\ XorPoly(x) % 2 # x % 2
  /\ \A x, y \in Word : XorPoly(x) = XorPoly(y) => x = y
<1>b. {1, 2, 4, 16, 128, 8192, 32768} \subseteq Bits /\ 2 # 1 /\ 4 # 1 /\ 16 # 1 /\ 128 # 1 /\ 8192 # 1 /\ 32768 # 1
  BY DEF Bits
<1>1. ASSUME NEW b \in Bits
      PROVE  /\ \A x \in Word : Flip(x, b) \in Word /\ (Flip(x, b) % 2 = x % 2 <=> b # 1)
             /\ \A x, y \in Word : Flip(x, b) = Flip(y, b) => x = y
  BY FlipIs
<1> DEFINE F1(x) == Flip(x, 32768)
           F2(x) == Flip(F1(x), 8192)
           F3(x) == Flip(F2(x), 128)
           F4(x) == Flip(F3(x), 16)
           F5(x) == Flip(F4(x), 4)
           F6(x) == Flip(F5(x), 2)
<1>2. /\ \A x \in Word : F1(x) \in Word /\ F1(x) % 2 = x % 2
      /\ \A x, y \in Word : F1(x) = F1(y) => x = y
  BY <1>b, <1>1
<1> HIDE DEF F1
<1>3. /\ \A x \in Word : F2(x) \in Word /\ F2(x) % 2 = x % 2
      /\ \A x, y \in Word : F2(x) = F2(y) => x = y
  BY <1>b, <1>1, <1>2
<1> HIDE DEF F2
<1>4. /\ \A x \in Word : F3(x) \in Word /\ F3(x) % 2 = x % 2
      /\ \A x, y \in Word : F3(x) = F3(y) => x = y
  BY <1>b, <1>1, <1>3
<1> HIDE DEF F3
<1>5. /\ \A x \in Word : F4(x) \in Word /\ F4(x) % 2 = x % 2
      /\ \A x, y \in Word : F4(x) = F4(y) => x = y
  BY <1>b, <1>1, <1>4
<1> HIDE DEF F4
<1>6. /\ \A x \in Word : F5(x) \in Word /\ F5(x) % 2 = x % 2
      /\ \A x, y \in Word : F5(x) = F5(y) => x = y
  BY <1>b, <1>1, <1>5
<1> HIDE DEF F5
<1>7. /\ \A x \in Word : F6(x) \in Word /\ F6(x) % 2 = x % 2
      /\ \A x, y \in Word : F6(x) = F6(y) => x = y
  BY <1>b, <1>1, <1>6
<1>8. \A x : XorPoly(x) = Flip(F6(x), 1)
  BY DEF XorPoly, F1, F2, F3, F4, F5
<1> HIDE DEF F6
<1> QED
  BY <1>b, <1>1, <1>7, <1>8

\* What the register becomes without the exclusive or.
Sum(state, byte) ==
  LET shifted == (2 * state) % 65536
  IN  (shifted - (shifted % 256)) + ((shifted + byte) % 256)

\* The register moved up, and a sum of bytes without its carry.
Shifted(x) == (2 * x) % 65536
AddByte(l, c) == IF l + c <= 255 THEN l + c ELSE l + c - 256

\* Only the highest bit is lost.
LEMMA ShiftedOnce ==
  ASSUME NEW s \in Int, NEW t \in Int, 0 <= s, s <= 65535, 0 <= t, t <= 65535,
         s >= 32768 <=> t >= 32768, Shifted(s) = Shifted(t)
  PROVE  s = t
  BY Z3 DEF Shifted

\* A word is two bytes.
LEMMA Split256 ==
  ASSUME NEW x \in Int, 0 <= x, x <= 65535
  PROVE  \E p \in Byte, l \in Byte : x = 256 * p + l
<1> DEFINE p == x \div 256
           l == x % 256
<1>1. p \in Int /\ l \in Int
  BY Z3
<1>2. 0 <= l /\ l <= 255
  BY Z3
<1>3. x = 256 * p + l
  BY Z3
<1> HIDE DEF p, l
<1>4. p \in Byte /\ l \in Byte
  BY <1>1, <1>2, <1>3, ByteIs
<1> QED
  BY <1>3, <1>4

\* With its bytes named, a sum needs no division.
LEMMA SumOf ==
  ASSUME NEW p \in Int, NEW l \in Int, NEW c \in Int, 0 <= l, l <= 255, 0 <= c, c <= 255
  PROVE  /\ (256 * p + l) % 256 = l
         /\ ((256 * p + l) + c) % 256 = IF l + c <= 255 THEN l + c ELSE l + c - 256
<1>1. (256 * p + l) % 256 = l
  BY Z3
<1>2. ((256 * p + l) + c) % 256 = (l + c) % 256
  BY Z3
<1>3. (l + c) % 256 = IF l + c <= 255 THEN l + c ELSE l + c - 256
  BY Z3
<1> QED
  BY <1>1, <1>2, <1>3

\* The sum has the byte's lowest bit, and tells two bytes apart, and two states that
\* have the same highest bit.
LEMMA SumIs ==
  ASSUME NEW s \in Word, NEW b \in Byte
  PROVE  /\ Sum(s, b) \in Word /\ Sum(s, b) % 2 = b % 2
         /\ \A t \in Word : Sum(s, b) = Sum(t, b) /\ (s >= 32768 <=> t >= 32768) => s = t
         /\ \A c \in Byte : Sum(s, b) = Sum(s, c) => b = c
<1>1. ASSUME NEW t \in Int, 0 <= t, t <= 65535
      PROVE  /\ Shifted(t) = IF t >= 32768 THEN 2 * t - 65536 ELSE 2 * t
  BY <1>1, Z3 DEF Shifted
<1>2. ASSUME NEW t \in Word
      PROVE  /\ \E p \in Byte, l \in Byte :
                   /\ Shifted(t) = 256 * p + l /\ l % 2 = 0
                   /\ \A c \in Byte : Sum(t, c) = 256 * p + AddByte(l, c)
  <2>t. t \in Int /\ 0 <= t /\ t <= 65535
    BY WordIs
  <2>1. Shifted(t) = IF t >= 32768 THEN 2 * t - 65536 ELSE 2 * t
    BY <2>t, <1>1
  <2>2. \A c : Sum(t, c) = (Shifted(t) - (Shifted(t) % 256)) + ((Shifted(t) + c) % 256)
    BY DEF Sum, Shifted
  <2>3. Shifted(t) \in Int /\ 0 <= Shifted(t) /\ Shifted(t) <= 65535
    BY <2>t, <2>1
  <2>4. PICK p \in Byte, l \in Byte : Shifted(t) = 256 * p + l
    BY <2>3, Split256
  <2>p. p \in Int /\ l \in Int /\ 0 <= l /\ l <= 255
    BY ByteIs
  <2>5. \E h \in Int : Shifted(t) = 2 * h
    <3>1. t - 32768 \in Int /\ 2 * (t - 32768) = 2 * t - 65536
      BY <2>t
    <3> QED
      BY <2>t, <2>1, <3>1
  <2>6. PICK h \in Int : Shifted(t) = 2 * h
    BY <2>5
  <2>7. l = 2 * (h - 128 * p)
    BY <2>4, <2>6, <2>p
  <2>8. l % 2 = 0
    <3>1. h - 128 * p \in Int
      BY <2>p
    <3>2. \A g \in Int : (2 * g) % 2 = 0
      BY Z3
    <3> QED
      BY <2>7, <3>1, <3>2
  <2>9. ASSUME NEW c \in Byte PROVE Sum(t, c) = 256 * p + AddByte(l, c)
    <3>1. c \in Int /\ 0 <= c /\ c <= 255
      BY ByteIs
    <3> DEFINE w == 256 * p + l
    <3>2. w % 256 = l /\ (w + c) % 256 = AddByte(l, c)
      BY <2>p, <3>1, SumOf DEF AddByte
    <3>3. Sum(t, c) = (w - (w % 256)) + ((w + c) % 256)
      BY <2>2, <2>4
    <3>4. w \in Int /\ w - l = 256 * p
      BY <2>p
    <3> HIDE DEF w
    <3> QED
      BY <3>2, <3>3, <3>4
  <2> QED
    BY <2>4, <2>8, <2>9
<1>3. PICK p \in Byte, l \in Byte :
         Shifted(s) = 256 * p + l /\ l % 2 = 0 /\ \A c \in Byte : Sum(s, c) = 256 * p + AddByte(l, c)
  BY <1>2
<1>p. p \in Int /\ l \in Int /\ 0 <= p /\ p <= 255 /\ 0 <= l /\ l <= 255 /\ b \in Int /\ 0 <= b /\ b <= 255
  BY ByteIs
<1>4. Sum(s, b) = 256 * p + AddByte(l, b)
  BY <1>3
<1>5. Sum(s, b) \in Word
  BY <1>p, <1>4, WordIs DEF AddByte
<1>6. Sum(s, b) % 2 = b % 2
  <2>1. ASSUME l % 2 = 0 PROVE (256 * p + (l + b)) % 2 = b % 2 /\ (256 * p + (l + b - 256)) % 2 = b % 2
    BY <1>p, <2>1, Z3
  <2> QED
    BY <1>3, <1>4, <2>1 DEF AddByte
<1>7. ASSUME NEW t \in Word, Sum(s, b) = Sum(t, b), s >= 32768 <=> t >= 32768
      PROVE  s = t
  <2>1. PICK q \in Byte, m \in Byte :
           Shifted(t) = 256 * q + m /\ \A c \in Byte : Sum(t, c) = 256 * q + AddByte(m, c)
    BY <1>2
  <2>2. q \in Int /\ m \in Int /\ 0 <= m /\ m <= 255
    BY ByteIs
  <2>3. 256 * p + AddByte(l, b) = 256 * q + AddByte(m, b)
    BY <1>4, <1>7, <2>1
  <2>4. 256 * p + l = 256 * q + m
    BY <1>p, <2>2, <2>3 DEF AddByte
  <2>5. Shifted(s) = Shifted(t)
    BY <1>3, <2>1, <2>4
  <2>6. s \in Int /\ 0 <= s /\ s <= 65535 /\ t \in Int /\ 0 <= t /\ t <= 65535
    BY WordIs
  <2>7. s >= 32768 <=> t >= 32768
    BY <1>7
  <2> QED
    BY <2>5, <2>6, <2>7, ShiftedOnce
<1>8. ASSUME NEW c \in Byte, Sum(s, b) = Sum(s, c)
      PROVE  b = c
  <2>1. c \in Int /\ 0 <= c /\ c <= 255
    BY ByteIs
  <2>2. 256 * p + AddByte(l, b) = 256 * p + AddByte(l, c)
    BY <1>3, <1>8
  <2> QED
    BY <1>p, <2>1, <2>2 DEF AddByte
<1> QED
  BY <1>5, <1>6, <1>7, <1>8

\* The step of the register loses neither the state nor the byte: the lowest bit
\* tells whether the polynomial was applied.
LEMMA RegisterIs ==
  ASSUME NEW s \in Word, NEW b \in Byte
  PROVE  /\ Register(s, b) \in Word
         /\ \A t \in Word : Register(s, b) = Register(t, b) => s = t
         /\ \A c \in Byte : Register(s, b) = Register(s, c) => b = c
<1>1. \A t, c : Register(t, c) = IF t >= 32768 THEN XorPoly(Sum(t, c)) ELSE Sum(t, c)
  BY DEF Register, Sum
<1>2. Register(s, b) \in Word
  BY <1>1, SumIs, XorPolyIs
<1>3. ASSUME NEW t \in Word, Register(s, b) = Register(t, b)
      PROVE  s = t
  <2>1. /\ Sum(s, b) \in Word /\ Sum(t, b) \in Word
        /\ Sum(s, b) % 2 = b % 2 /\ Sum(t, b) % 2 = b % 2
    BY SumIs
  <2>2. s >= 32768 <=> t >= 32768
    BY <1>1, <1>3, <2>1, XorPolyIs
  <2>3. Sum(s, b) = Sum(t, b)
    BY <1>1, <1>3, <2>1, <2>2, XorPolyIs
  <2> QED
    BY <2>2, <2>3, SumIs
<1>4. ASSUME NEW c \in Byte, Register(s, b) = Register(s, c)
      PROVE  b = c
  <2>1. Sum(s, b) \in Word /\ Sum(s, c) \in Word
    BY SumIs
  <2>2. Sum(s, b) = Sum(s, c)
    BY <1>1, <1>4, <2>1, XorPolyIs
  <2> QED
    BY <2>2, SumIs
<1> QED
  BY <1>2, <1>3, <1>4

\* The recursion defines the states.
LEMMA StatesAre ==
  ASSUME NEW bytes \in Seq(Byte)
  PROVE  /\ States(bytes) \in [0..Len(bytes) -> Word]
         /\ States(bytes)[0] = CHECKSUM_INIT
         /\ \A n \in 1..Len(bytes) : States(bytes)[n] = Register(States(bytes)[n - 1], bytes[n])
<1> DEFINE N == Len(bytes)
           Begins(g, n) == /\ g \in [0..n -> Word] /\ g[0] = CHECKSUM_INIT
                           /\ \A i \in 1..n : g[i] = Register(g[i - 1], bytes[i])
           S == {n \in Nat : n <= N => \E g : Begins(g, n)}
<1>1. N \in Nat /\ \A i \in 1..N : bytes[i] \in Byte
  OBVIOUS
<1>2. CHECKSUM_INIT \in Word
  BY WordIs DEF CHECKSUM_INIT
<1>3. 0 \in S
  <2>1. Begins([i \in 0..0 |-> CHECKSUM_INIT], 0)
    BY <1>2
  <2> QED
    BY <2>1
<1>4. ASSUME NEW n \in S PROVE n + 1 \in S
  <2>1. n \in Nat /\ n + 1 \in Nat
    BY <1>4
  <2> SUFFICES ASSUME n + 1 <= N PROVE \E g : Begins(g, n + 1)
    BY <2>1
  <2>2. PICK g : Begins(g, n)
    BY <1>1, <1>4, <2>1
  <2> DEFINE h == [i \in 0..(n + 1) |-> IF i <= n THEN g[i] ELSE Register(g[n], bytes[n + 1])]
  <2>3. g[n] \in Word /\ bytes[n + 1] \in Byte
    BY <1>1, <2>1, <2>2
  <2>4. h \in [0..(n + 1) -> Word]
    BY <2>1, <2>2, <2>3, RegisterIs
  <2>5. h[0] = CHECKSUM_INIT
    BY <2>1, <2>2
  <2>6. ASSUME NEW i \in 1..(n + 1) PROVE h[i] = Register(h[i - 1], bytes[i])
    <3>1. i \in 0..(n + 1) /\ i - 1 \in 0..n /\ i - 1 \in 0..(n + 1)
      BY <2>1
    <3>2. CASE i <= n
      <4>1. i \in 1..n
        BY <2>1, <3>2
      <4> QED
        BY <2>1, <2>2, <3>1, <3>2, <4>1
    <3>3. CASE i = n + 1
      BY <2>1, <3>1, <3>3
    <3> QED
      BY <2>1, <3>2, <3>3
  <2> QED
    BY <2>4, <2>5, <2>6
<1>5. S = Nat
  <2>1. S \in SUBSET Nat
    OBVIOUS
  <2> HIDE DEF S
  <2> QED
    BY <1>3, <1>4, <2>1, SetInduction
<1>6. PICK g : Begins(g, N)
  BY <1>1, <1>5
<1> DEFINE Is(f) == f = [n \in 0..N |-> IF n = 0 THEN CHECKSUM_INIT ELSE Register(f[n - 1], bytes[n])]
<1>7. Is(g)
  <2>1. g = [n \in 0..N |-> g[n]]
    BY <1>6
  <2>2. \A n \in 0..N : g[n] = IF n = 0 THEN CHECKSUM_INIT ELSE Register(g[n - 1], bytes[n])
    BY <1>1, <1>6
  <2> QED
    BY <2>1, <2>2
<1>8. States(bytes) = CHOOSE f : Is(f)
  BY DEF States
<1>9. Is(States(bytes))
  BY <1>7, <1>8, Zenon
<1> DEFINE f == States(bytes)
<1>10. f[0] = CHECKSUM_INIT /\ \A n \in 1..N : f[n] = Register(f[n - 1], bytes[n])
  BY <1>1, <1>9
<1>11. f \in [0..N -> Word]
  <2> DEFINE T == {n \in Nat : n <= N => f[n] \in Word}
  <2>1. 0 \in T
    BY <1>2, <1>10
  <2>2. ASSUME NEW n \in T PROVE n + 1 \in T
    <3>1. n \in Nat /\ n + 1 \in Nat
      BY <2>2
    <3> SUFFICES ASSUME n + 1 <= N PROVE f[n + 1] \in Word
      BY <3>1
    <3>2. f[n] \in Word /\ n + 1 \in 1..N /\ (n + 1) - 1 = n
      BY <1>1, <2>2, <3>1
    <3>3. bytes[n + 1] \in Byte
      BY <1>1, <3>2
    <3>4. Register(f[n], bytes[n + 1]) \in Word
      BY <3>2, <3>3, RegisterIs
    <3>5. f[n + 1] = Register(f[n], bytes[n + 1])
      BY <1>10, <3>2
    <3> QED
      BY <3>4, <3>5
  <2>3. T = Nat
    <3>1. T \in SUBSET Nat
      OBVIOUS
    <3> HIDE DEF T
    <3> QED
      BY <2>1, <2>2, <3>1, SetInduction
  <2>4. \A n \in 0..N : f[n] \in Word
    BY <1>1, <2>3
  <2>5. f = [n \in 0..N |-> IF n = 0 THEN CHECKSUM_INIT ELSE Register(f[n - 1], bytes[n])]
    BY <1>9
  <2> HIDE DEF f
  <2> QED
    BY <2>4, <2>5
<1> QED
  BY <1>10, <1>11

\* Two sequences of bytes that differ in one place never bring the register to the
\* same state.
LEMMA OneByteTells ==
  ASSUME NEW a \in Seq(Byte), NEW b \in Seq(Byte), Len(a) = Len(b),
         NEW k \in 1..Len(a), a[k] # b[k], \A i \in 1..Len(a) : i # k => a[i] = b[i]
  PROVE  States(a)[Len(a)] # States(b)[Len(b)]
<1> DEFINE N == Len(a)
           f == States(a)
           g == States(b)
           S == {n \in Nat : n <= N => (n < k <=> f[n] = g[n])}
<1>1. N \in Nat /\ k \in Nat /\ 1 <= k /\ k <= N
  OBVIOUS
<1>2. /\ f \in [0..N -> Word] /\ f[0] = CHECKSUM_INIT
      /\ \A n \in 1..N : f[n] = Register(f[n - 1], a[n])
  BY StatesAre
<1>3. /\ g \in [0..N -> Word] /\ g[0] = CHECKSUM_INIT
      /\ \A n \in 1..N : g[n] = Register(g[n - 1], b[n])
  BY StatesAre
<1>4. \A n \in 1..N : a[n] \in Byte /\ b[n] \in Byte
  OBVIOUS
<1> HIDE DEF f, g
<1>5. 0 \in S
  BY <1>1, <1>2, <1>3
<1>6. ASSUME NEW n \in S PROVE n + 1 \in S
  <2>1. n \in Nat /\ n + 1 \in Nat
    BY <1>6
  <2> SUFFICES ASSUME n + 1 <= N PROVE n + 1 < k <=> f[n + 1] = g[n + 1]
    BY <2>1
  <2>2. n <= N /\ n \in 0..N /\ n + 1 \in 1..N /\ (n + 1) - 1 = n
    BY <1>1, <2>1
  <2>3. n < k <=> f[n] = g[n]
    BY <1>6, <2>2
  <2>4. f[n] \in Word /\ g[n] \in Word /\ a[n + 1] \in Byte /\ b[n + 1] \in Byte
    BY <1>2, <1>3, <1>4, <2>2
  <2>5. f[n + 1] = Register(f[n], a[n + 1]) /\ g[n + 1] = Register(g[n], b[n + 1])
    BY <1>2, <1>3, <2>2
  <2>6. CASE n + 1 < k
    <3>1. n < k /\ n + 1 # k
      BY <1>1, <2>1, <2>6
    <3>2. a[n + 1] = b[n + 1]
      BY <2>2, <3>1
    <3> QED
      BY <2>3, <2>5, <2>6, <3>1, <3>2
  <2>7. CASE n + 1 = k
    <3>1. n < k /\ ~(n + 1 < k)
      BY <1>1, <2>1, <2>7
    <3>2. f[n] = g[n] /\ a[n + 1] # b[n + 1]
      BY <2>3, <2>7, <3>1
    <3>3. Register(f[n], a[n + 1]) # Register(f[n], b[n + 1])
      BY <2>4, <3>2, RegisterIs
    <3> QED
      BY <2>5, <3>1, <3>2, <3>3
  <2>8. CASE n + 1 > k
    <3>1. ~(n < k) /\ ~(n + 1 < k) /\ n + 1 # k
      BY <1>1, <2>1, <2>8
    <3>2. f[n] # g[n] /\ a[n + 1] = b[n + 1]
      BY <2>2, <2>3, <3>1
    <3>3. Register(f[n], a[n + 1]) # Register(g[n], a[n + 1])
      BY <2>4, <3>2, RegisterIs
    <3> QED
      BY <2>5, <3>1, <3>2, <3>3
  <2> QED
    BY <1>1, <2>1, <2>6, <2>7, <2>8
<1>7. S = Nat
  <2>1. S \in SUBSET Nat
    OBVIOUS
  <2> HIDE DEF S
  <2> QED
    BY <1>5, <1>6, <2>1, SetInduction
<1>8. ~(N < k)
  BY <1>1
<1>9. f[N] # g[N]
  BY <1>1, <1>7, <1>8
<1> QED
  BY <1>9 DEF f, g

-----------------------------------------------------------------------------
(* Little-endian numbers. *)

\* The lowest byte of a number and the rest of it.
LEMMA LowByte ==
  ASSUME NEW x \in Nat
  PROVE  /\ x % 256 \in Byte /\ x \div 256 \in Nat
         /\ x = (x % 256) + 256 * (x \div 256)
<1>1. x % 256 \in Int /\ 0 <= x % 256 /\ x % 256 <= 255
  BY Z3
<1>2. x \div 256 \in Int /\ 0 <= x \div 256
  BY Z3
<1>3. x = (x % 256) + 256 * (x \div 256)
  BY Z3
<1> QED
  BY <1>1, <1>2, <1>3, ByteIs

\* A number of 16 bits is read back from its two bytes.
LEMMA U16Is ==
  ASSUME NEW x \in Word
  PROVE  /\ U16(x) \in Seq(Byte) /\ Len(U16(x)) = 2
         /\ FromU16(U16(x)) = x
<1>1. x \in Nat /\ x <= 65535
  BY WordIs
<1>2. (x \div 256) % 256 = x \div 256
  BY <1>1, Z3
<1>3. x % 256 \in Byte /\ (x \div 256) % 256 \in Byte /\ x = (x % 256) + 256 * (x \div 256)
  BY <1>1, LowByte
<1> QED
  BY <1>2, <1>3 DEF U16, FromU16

\* A number of 32 bits is read back from its four bytes.
LEMMA U32Is ==
  ASSUME NEW x \in Nat, x \div 16777216 \in Byte
  PROVE  /\ U32(x) \in Seq(Byte) /\ Len(U32(x)) = 4
         /\ FromU32(U32(x)) = x
<1> DEFINE q1 == x \div 256
           q2 == q1 \div 256
           q3 == q2 \div 256
<1>1. x \div 65536 = q2
  BY Z3
<1>2. x \div 16777216 = q3
  BY Z3
<1>3. q1 \in Nat /\ x % 256 \in Byte /\ x = (x % 256) + 256 * q1
  BY LowByte
<1>4. q2 \in Nat /\ q1 % 256 \in Byte /\ q1 = (q1 % 256) + 256 * q2
  BY <1>3, LowByte
<1>5. q3 \in Nat /\ q2 % 256 \in Byte /\ q2 = (q2 % 256) + 256 * q3
  BY <1>4, LowByte
<1>6. U32(x) = <<x % 256, q1 % 256, q2 % 256, q3 % 256>>
  BY <1>1, <1>2 DEF U32
<1> DEFINE b0 == x % 256
           b1 == q1 % 256
           b2 == q2 % 256
<1>7. q3 \in Byte /\ q3 % 256 = q3
  <2>1. q3 \in Byte
    BY <1>2
  <2> HIDE DEF q3
  <2>2. q3 \in Int /\ 0 <= q3 /\ q3 <= 255
    BY <2>1, ByteIs
  <2> QED
    BY <2>1, <2>2, Z3
<1> HIDE DEF q1, q2, q3, b0, b1, b2
<1>8. U32(x) = <<b0, b1, b2, q3>>
  BY <1>6, <1>7 DEF b0, b1, b2
<1>9. b0 \in Byte /\ b1 \in Byte /\ b2 \in Byte /\ q1 \in Int /\ q2 \in Int
  BY <1>3, <1>4, <1>5 DEF b0, b1, b2
<1>10. x = b0 + 256 * q1 /\ q1 = b1 + 256 * q2 /\ q2 = b2 + 256 * q3
  BY <1>3, <1>4, <1>5 DEF b0, b1, b2
<1>11. b0 + 256 * b1 + 65536 * b2 + 16777216 * q3 = x
  <2>1. b0 \in Int /\ b1 \in Int /\ b2 \in Int /\ q3 \in Int
    BY <1>7, <1>9, ByteIs
  <2> QED
    BY <1>9, <1>10, <2>1
<1> QED
  BY <1>7, <1>8, <1>9, <1>11 DEF FromU32

-----------------------------------------------------------------------------
(* What the checksum is over. *)

\* A slice, byte by byte.
LEMMA SliceIs ==
  ASSUME NEW body \in Seq(Byte), NEW from \in Nat, NEW to \in Int,
         from <= to + 1, to < Len(body)
  PROVE  /\ Slice(body, from, to) \in Seq(Byte)
         /\ Len(Slice(body, from, to)) = to - from + 1
         /\ \A i \in 1..(to - from + 1) : Slice(body, from, to)[i] = body[from + i]
<1>1. from + 1 \in Int /\ to + 1 \in Int /\ Len(body) \in Nat
  OBVIOUS
<1>2. \A i \in (from + 1)..(to + 1) : body[i] \in Byte
  <2>1. \A i \in (from + 1)..(to + 1) : i \in 1..Len(body)
    BY <1>1
  <2> QED
    BY <2>1, ElementOfSeq
<1>3. /\ Slice(body, from, to) \in Seq(Byte)
      /\ Len(Slice(body, from, to)) = IF from + 1 <= to + 1 THEN (to + 1) - (from + 1) + 1 ELSE 0
      /\ \A i \in 1..((to + 1) - (from + 1) + 1) : Slice(body, from, to)[i] = body[from + 1 + i - 1]
  <2> DEFINE m == from + 1
             n == to + 1
  <2>1. m \in Int /\ n \in Int /\ Slice(body, from, to) = SubSeq(body, m, n)
    BY <1>1 DEF Slice
  <2>2. \A i \in m..n : body[i] \in Byte
    BY <1>2
  <2> HIDE DEF m, n
  <2>3. /\ SubSeq(body, m, n) \in Seq(Byte)
        /\ Len(SubSeq(body, m, n)) = IF m <= n THEN n - m + 1 ELSE 0
        /\ \A i \in 1..(n - m + 1) : SubSeq(body, m, n)[i] = body[m + i - 1]
    BY <2>1, <2>2, SubSeqProperties
  <2> QED
    BY <2>1, <2>3 DEF m, n
<1>4. (to + 1) - (from + 1) + 1 = to - from + 1
  OBVIOUS
<1>5. (IF from + 1 <= to + 1 THEN (to + 1) - (from + 1) + 1 ELSE 0) = to - from + 1
  OBVIOUS
<1>6. ASSUME NEW i \in 1..(to - from + 1) PROVE Slice(body, from, to)[i] = body[from + i]
  <2>1. from + 1 + i - 1 = from + i
    OBVIOUS
  <2> QED
    BY <1>3, <1>4, <2>1
<1> QED
  BY <1>3, <1>5, <1>6

\* What a number is read from.
LEMMA ReadsAre ==
  ASSUME NEW body \in Seq(Byte), NEW o \in Nat, o + 2 <= Len(body)
  PROVE  /\ FromU16(Slice(body, o, o + 1)) = body[o + 1] + 256 * body[o + 2]
         /\ Slice(body, o, o + 1) = <<body[o + 1], body[o + 2]>>
<1> DEFINE to == o + 1
           s == Slice(body, o, to)
<1>1. o <= to + 1 /\ to \in Int /\ to < Len(body) /\ to - o + 1 = 2
  OBVIOUS
<1> HIDE DEF to
<1>2. s \in Seq(Byte) /\ Len(s) = to - o + 1 /\ \A i \in 1..(to - o + 1) : s[i] = body[o + i]
  BY <1>1, SliceIs
<1>3. 1 \in 1..(to - o + 1) /\ 2 \in 1..(to - o + 1)
  BY <1>1
<1> HIDE DEF s
<1>4. s \in Seq(Byte) /\ Len(s) = 2 /\ s[1] = body[o + 1] /\ s[2] = body[o + 2]
  BY <1>1, <1>2, <1>3
<1>5. s = <<body[o + 1], body[o + 2]>>
  BY <1>4
<1>6. FromU16(s) = body[o + 1] + 256 * body[o + 2]
  BY <1>4 DEF FromU16
<1> QED
  BY <1>5, <1>6 DEF s, to

\* A concatenation, byte by byte.
LEMMA JoinIs ==
  ASSUME NEW s \in Seq(Byte), NEW t \in Seq(Byte)
  PROVE  /\ s \o t \in Seq(Byte) /\ Len(s \o t) = Len(s) + Len(t)
         /\ \A i \in 1..Len(s) : (s \o t)[i] = s[i]
         /\ \A i \in 1..Len(t) : (s \o t)[Len(s) + i] = t[i]
<1>1. Len(s) \in Nat /\ Len(t) \in Nat
  OBVIOUS
<1>2. /\ s \o t \in Seq(Byte) /\ Len(s \o t) = Len(s) + Len(t)
      /\ \A i \in 1..(Len(s) + Len(t)) : (s \o t)[i] = IF i <= Len(s) THEN s[i] ELSE t[i - Len(s)]
  BY ConcatProperties
<1>3. ASSUME NEW i \in 1..Len(s) PROVE (s \o t)[i] = s[i]
  <2>1. i \in 1..(Len(s) + Len(t)) /\ i <= Len(s)
    BY <1>1
  <2> QED
    BY <1>2, <2>1
<1>4. ASSUME NEW i \in 1..Len(t) PROVE (s \o t)[Len(s) + i] = t[i]
  <2>1. Len(s) + i \in 1..(Len(s) + Len(t)) /\ ~(Len(s) + i <= Len(s)) /\ (Len(s) + i) - Len(s) = i
    BY <1>1
  <2> QED
    BY <1>2, <2>1
<1> QED
  BY <1>2, <1>3, <1>4

\* Byte by byte: those before the checksum, and those behind it two places further on.
LEMMA CoveredIs ==
  ASSUME NEW body \in Seq(Byte), Len(body) >= STRUCT_HEADER_LEN
  PROVE  /\ Covered(body) \in Seq(Byte) /\ Len(Covered(body)) = Len(body) - 2
         /\ \A i \in 1..17 : Covered(body)[i] = body[i]
         /\ \A i \in 18..(Len(body) - 2) : Covered(body)[i] = body[i + 2]
<1> DEFINE N == Len(body)
           s == Slice(body, 0, 16)
           t == Slice(body, 19, N - 1)
<1>1. N \in Nat /\ N >= 21 /\ (N - 1) - 19 + 1 = N - 19 /\ 19 <= (N - 1) + 1 /\ N - 1 < N /\ N - 1 \in Int
  BY DEF STRUCT_HEADER_LEN
<1>2. s \in Seq(Byte) /\ Len(s) = 17 /\ \A i \in 1..17 : s[i] = body[0 + i]
  <2>1. 16 - 0 + 1 = 17 /\ 0 \in Nat /\ 16 \in Int /\ 0 <= 16 + 1 /\ 16 < N
    BY <1>1
  <2>2. /\ s \in Seq(Byte) /\ Len(s) = 16 - 0 + 1
        /\ \A i \in 1..(16 - 0 + 1) : s[i] = body[0 + i]
    BY <2>1, SliceIs
  <2> QED
    BY <2>1, <2>2
<1>3. t \in Seq(Byte) /\ Len(t) = N - 19 /\ \A i \in 1..(N - 19) : t[i] = body[19 + i]
  <2> DEFINE to == N - 1
             from == 19
  <2>1. from \in Nat /\ to \in Int /\ from <= to + 1 /\ to < Len(body) /\ to - from + 1 = N - 19
    BY <1>1
  <2> HIDE DEF to, from
  <2>2. /\ Slice(body, from, to) \in Seq(Byte) /\ Len(Slice(body, from, to)) = to - from + 1
        /\ \A i \in 1..(to - from + 1) : Slice(body, from, to)[i] = body[from + i]
    BY <2>1, SliceIs
  <2>3. /\ Slice(body, from, to) \in Seq(Byte) /\ Len(Slice(body, from, to)) = N - 19
        /\ \A i \in 1..(N - 19) : Slice(body, from, to)[i] = body[from + i]
    BY <2>1, <2>2
  <2> QED
    BY <2>3 DEF to, from
<1>4. Covered(body) = s \o t
  <2>1. 17 - 1 = 16 /\ 17 + 2 = 19
    OBVIOUS
  <2> QED
    BY <2>1 DEF Covered, STRUCT_CHECKSUM_OFFSET
<1> HIDE DEF s, t
<1>5. /\ s \o t \in Seq(Byte) /\ Len(s \o t) = 17 + (N - 19)
      /\ \A i \in 1..17 : (s \o t)[i] = s[i]
      /\ \A i \in 1..(N - 19) : (s \o t)[17 + i] = t[i]
  <2>1. /\ s \o t \in Seq(Byte) /\ Len(s \o t) = Len(s) + Len(t)
        /\ \A i \in 1..Len(s) : (s \o t)[i] = s[i]
        /\ \A i \in 1..Len(t) : (s \o t)[Len(s) + i] = t[i]
    BY <1>2, <1>3, JoinIs
  <2> QED
    BY <1>2, <1>3, <2>1
<1>6. ASSUME NEW i \in 1..17 PROVE Covered(body)[i] = body[i]
  <2>1. 0 + i = i
    OBVIOUS
  <2>2. s[i] = body[0 + i]
    BY <1>2
  <2>3. (s \o t)[i] = s[i]
    BY <1>5
  <2> QED
    BY <1>4, <2>1, <2>2, <2>3
<1>7. ASSUME NEW i \in 18..(N - 2) PROVE Covered(body)[i] = body[i + 2]
  <2>1. i - 17 \in 1..(N - 19) /\ 17 + (i - 17) = i /\ 19 + (i - 17) = i + 2
    BY <1>1
  <2>2. (s \o t)[17 + (i - 17)] = t[i - 17] /\ t[i - 17] = body[19 + (i - 17)]
    BY <1>3, <1>5, <2>1
  <2> QED
    BY <1>4, <2>1, <2>2
<1>8. 17 + (N - 19) = N - 2
  BY <1>1
<1> QED
  BY <1>4, <1>5, <1>6, <1>7, <1>8

\* A checksum is a word.
LEMMA ChecksumType ==
  ASSUME NEW body \in Seq(Byte), Len(body) >= STRUCT_HEADER_LEN
  PROVE  Checksum(body) \in Word
<1>1. Covered(body) \in Seq(Byte) /\ Len(Covered(body)) \in Nat
  BY CoveredIs
<1>2. States(Covered(body)) \in [0..Len(Covered(body)) -> Word]
  BY <1>1, StatesAre
<1> QED
  BY <1>1, <1>2 DEF Checksum

\* The checksum's own bytes do not matter to it.
LEMMA SameChecksum ==
  ASSUME NEW a \in Seq(Byte), NEW b \in Seq(Byte), Len(a) = Len(b), Len(a) >= STRUCT_HEADER_LEN,
         \A i \in 1..Len(a) : i \notin {18, 19} => a[i] = b[i]
  PROVE  Checksum(a) = Checksum(b)
<1>0. Len(a) \in Nat /\ Len(a) >= 21 /\ Len(b) >= STRUCT_HEADER_LEN
  BY DEF STRUCT_HEADER_LEN
<1> DEFINE c == Covered(a)
           d == Covered(b)
<1>1. /\ c \in Seq(Byte) /\ Len(c) = Len(a) - 2 /\ \A i \in 1..17 : c[i] = a[i]
      /\ \A i \in 18..(Len(a) - 2) : c[i] = a[i + 2]
  BY CoveredIs
<1>2. /\ d \in Seq(Byte) /\ Len(d) = Len(a) - 2 /\ \A i \in 1..17 : d[i] = b[i]
      /\ \A i \in 18..(Len(a) - 2) : d[i] = b[i + 2]
  BY <1>0, CoveredIs
<1> HIDE DEF c, d
<1>3. ASSUME NEW i \in 1..Len(c) PROVE c[i] = d[i]
  <2>0. i \in Int /\ 1 <= i /\ i <= Len(a) - 2
    BY <1>0, <1>1
  <2>1. CASE i <= 17
    <3>1. i \in 1..17 /\ i \in 1..Len(a) /\ i \notin {18, 19}
      BY <1>0, <2>0, <2>1
    <3> QED
      BY <1>1, <1>2, <3>1
  <2>2. CASE i > 17
    <3>1. i \in 18..(Len(a) - 2) /\ i + 2 \in 1..Len(a) /\ i + 2 \notin {18, 19}
      BY <1>0, <2>0, <2>2
    <3>2. c[i] = a[i + 2] /\ d[i] = b[i + 2]
      BY <1>1, <1>2, <3>1
    <3>3. a[i + 2] = b[i + 2]
      BY <3>1
    <3> QED
      BY <3>2, <3>3
  <2> QED
    BY <2>1, <2>2
<1>4. c = d
  <2>1. Len(c) = Len(d)
    BY <1>1, <1>2
  <2> QED
    BY <1>1, <1>2, <1>3, <2>1, SeqEqual
<1> QED
  BY <1>4 DEF Checksum, c, d

\* Any one of the other bytes does.
LEMMA OtherChecksum ==
  ASSUME NEW a \in Seq(Byte), NEW b \in Seq(Byte), Len(a) = Len(b), Len(a) >= STRUCT_HEADER_LEN,
         NEW k \in 1..Len(a), k \notin {18, 19}, a[k] # b[k],
         \A i \in 1..Len(a) : i # k => a[i] = b[i]
  PROVE  Checksum(a) # Checksum(b)
<1>0. Len(a) \in Nat /\ Len(a) >= 21 /\ Len(b) >= STRUCT_HEADER_LEN /\ k \in Nat /\ 1 <= k /\ k <= Len(a)
  BY DEF STRUCT_HEADER_LEN
<1> DEFINE c == Covered(a)
           d == Covered(b)
           j == IF k <= 17 THEN k ELSE k - 2
<1>1. /\ c \in Seq(Byte) /\ Len(c) = Len(a) - 2 /\ \A i \in 1..17 : c[i] = a[i]
      /\ \A i \in 18..(Len(a) - 2) : c[i] = a[i + 2]
  BY CoveredIs
<1>2. /\ d \in Seq(Byte) /\ Len(d) = Len(a) - 2 /\ \A i \in 1..17 : d[i] = b[i]
      /\ \A i \in 18..(Len(a) - 2) : d[i] = b[i + 2]
  <2>1. /\ d \in Seq(Byte) /\ Len(d) = Len(b) - 2 /\ \A i \in 1..17 : d[i] = b[i]
        /\ \A i \in 18..(Len(b) - 2) : d[i] = b[i + 2]
    BY <1>0, CoveredIs
  <2> HIDE DEF d
  <2> QED
    BY <2>1
<1> HIDE DEF c, d
<1>3. ASSUME NEW i \in 1..Len(c) PROVE c[i] = d[i] <=> i # j
  <2> i \in Int /\ 1 <= i /\ i <= Len(a) - 2
    BY <1>0, <1>1
  <2>a. k # 18 /\ k # 19
    OBVIOUS
  <2>1. CASE i <= 17
    <3>1. i \in 1..17 /\ i \in 1..Len(a)
      BY <1>0, <2>1
    <3>2. i = k <=> i = j
      BY <1>0, <2>a, <2>1
    <3>3. c[i] = a[i] /\ d[i] = b[i]
      BY <1>1, <1>2, <3>1
    <3> QED
      BY <3>1, <3>2, <3>3
  <2>2. CASE i > 17
    <3>1. i \in 18..(Len(a) - 2) /\ i + 2 \in 1..Len(a)
      BY <1>0, <2>2
    <3>2. i + 2 = k <=> i = j
      BY <1>0, <2>a, <2>2
    <3>3. c[i] = a[i + 2] /\ d[i] = b[i + 2]
      BY <1>1, <1>2, <3>1
    <3> QED
      BY <3>1, <3>2, <3>3
  <2> QED
    BY <2>1, <2>2
<1>4. j \in 1..Len(c) /\ Len(c) = Len(d)
  <2>1. k # 18 /\ k # 19
    OBVIOUS
  <2>2. j \in 1..(Len(a) - 2)
    BY <1>0, <2>1
  <2> QED
    BY <1>1, <1>2, <2>2
<1> HIDE DEF j
<1>5. c[j] # d[j] /\ \A i \in 1..Len(c) : i # j => c[i] = d[i]
  BY <1>3, <1>4
<1>6. States(c)[Len(c)] # States(d)[Len(d)]
  BY <1>1, <1>2, <1>4, <1>5, OneByteTells
<1> QED
  BY <1>6 DEF Checksum, c, d

-----------------------------------------------------------------------------
(* The bytes of a frame. *)

\* b begins with h.
Begins(h, b) ==
  /\ h \in Seq(Byte) /\ b \in Seq(Byte) /\ Len(h) <= Len(b)
  /\ \A i \in 1..Len(h) : b[i] = h[i]

\* What a beginning begins with.
LEMMA BeginsTwice ==
  ASSUME NEW a, NEW b, NEW c, Begins(a, b), Begins(b, c)
  PROVE  Begins(a, c)
<1>1. Len(a) \in Nat /\ Len(b) \in Nat /\ Len(c) \in Nat /\ Len(a) <= Len(b) /\ Len(b) <= Len(c)
  BY DEF Begins
<1>2. \A i \in 1..Len(a) : i \in 1..Len(b)
  BY <1>1
<1> QED
  BY <1>1, <1>2 DEF Begins

\* The slice that is the second of two parts.
LEMMA PartIs ==
  ASSUME NEW s \in Seq(Byte), NEW t \in Seq(Byte)
  PROVE  /\ Begins(s, s \o t)
         /\ Slice(s \o t, Len(s), Len(s) + Len(t) - 1) = t
<1> DEFINE from == Len(s)
           to == Len(s) + Len(t) - 1
           b == s \o t
<1>1. /\ b \in Seq(Byte) /\ Len(b) = Len(s) + Len(t)
      /\ \A i \in 1..Len(s) : b[i] = s[i]
      /\ \A i \in 1..Len(t) : b[Len(s) + i] = t[i]
  BY JoinIs
<1>2. Len(s) \in Nat /\ Len(t) \in Nat
  OBVIOUS
<1>3. /\ from \in Nat /\ to \in Int /\ from <= to + 1 /\ to < Len(b) /\ to - from + 1 = Len(t)
      /\ from = Len(s)
  BY <1>1, <1>2
<1> HIDE DEF from, to, b
<1>4. /\ Slice(b, from, to) \in Seq(Byte) /\ Len(Slice(b, from, to)) = to - from + 1
      /\ \A i \in 1..(to - from + 1) : Slice(b, from, to)[i] = b[from + i]
  <2>1. b \in Seq(Byte)
    BY <1>1
  <2> QED
    BY <1>3, <2>1, SliceIs
<1>5. /\ Len(Slice(b, from, to)) = Len(t)
      /\ \A i \in 1..Len(t) : Slice(b, from, to)[i] = t[i]
  BY <1>1, <1>3, <1>4
<1>6. Slice(b, from, to) = t
  BY <1>4, <1>5, SeqEqual
<1>7. Begins(s, b)
  BY <1>1, <1>2 DEF Begins
<1> QED
  BY <1>6, <1>7 DEF from, to, b

\* A slice of what a body begins with is a slice of the body.
LEMMA SliceBegins ==
  ASSUME NEW h, NEW b, Begins(h, b), NEW from \in Nat, NEW to \in Int,
         from <= to + 1, to < Len(h)
  PROVE  Slice(b, from, to) = Slice(h, from, to)
<1>1. /\ h \in Seq(Byte) /\ b \in Seq(Byte) /\ Len(h) <= Len(b)
      /\ \A i \in 1..Len(h) : b[i] = h[i]
  BY DEF Begins
<1>2. Len(h) \in Nat /\ Len(b) \in Nat /\ to < Len(b)
  BY <1>1
<1> DEFINE s == Slice(h, from, to)
           t == Slice(b, from, to)
           n == to - from + 1
<1>3. s \in Seq(Byte) /\ Len(s) = n /\ \A i \in 1..n : s[i] = h[from + i]
  BY <1>1, SliceIs
<1>4. t \in Seq(Byte) /\ Len(t) = n /\ \A i \in 1..n : t[i] = b[from + i]
  BY <1>1, <1>2, SliceIs
<1>5. \A i \in 1..n : from + i \in 1..Len(h)
  BY <1>2
<1> HIDE DEF s, t, n
<1>6. \A i \in 1..Len(s) : s[i] = t[i]
  BY <1>1, <1>3, <1>4, <1>5
<1> QED
  BY <1>3, <1>4, <1>6, SeqEqual DEF s, t

\* What the types of a frame come to.
LEMMA FrameTypes ==
  ASSUME NEW f \in Frames
  PROVE  /\ f.flags \in Byte /\ f.major \in Byte /\ f.minor \in Byte
         /\ f.payload \in Seq(Byte) /\ Len(f.payload) \in Word
         /\ U32(f.sequence) \in Seq(Byte) /\ Len(U32(f.sequence)) = 4
         /\ U32(f.src_id) \in Seq(Byte) /\ Len(U32(f.src_id)) = 4
         /\ U32(f.dst_id) \in Seq(Byte) /\ Len(U32(f.dst_id)) = 4
         /\ FromU32(U32(f.sequence)) = f.sequence
         /\ FromU32(U32(f.src_id)) = f.src_id
         /\ FromU32(U32(f.dst_id)) = f.dst_id
<1>1. /\ {f.flags, f.major, f.minor} \subseteq Byte
      /\ \A x \in {f.sequence, f.src_id, f.dst_id} : x \in Nat /\ x \div 16777216 \in Byte
      /\ f.payload \in Seq(Byte) /\ Len(f.payload) < 65536
  BY CodecAssumption
<1>2. Len(f.payload) \in Word
  <2> DEFINE n == Len(f.payload)
  <2>1. n \in Nat /\ n <= 65535
    BY <1>1
  <2> HIDE DEF n
  <2>2. n \in Word
    BY <2>1, WordIs
  <2> QED
    BY <2>2 DEF n
<1>3. \A x \in {f.sequence, f.src_id, f.dst_id} :
         U32(x) \in Seq(Byte) /\ Len(U32(x)) = 4 /\ FromU32(U32(x)) = x
  BY <1>1, U32Is
<1> QED
  BY <1>1, <1>2, <1>3

\* A body made longer: what it was is where it was, and the new part is behind that.
LEMMA Extend ==
  ASSUME NEW s \in Seq(Byte), NEW t \in Seq(Byte)
  PROVE  /\ s \o t \in Seq(Byte) /\ Len(s \o t) = Len(s) + Len(t)
         /\ Begins(s, s \o t)
         /\ Slice(s \o t, Len(s), Len(s) + Len(t) - 1) = t
         /\ \A i \in 1..Len(t) : (s \o t)[Len(s) + i] = t[i]
<1>1. /\ s \o t \in Seq(Byte) /\ Len(s \o t) = Len(s) + Len(t)
      /\ \A i \in 1..Len(t) : (s \o t)[Len(s) + i] = t[i]
  BY JoinIs
<1>2. Begins(s, s \o t) /\ Slice(s \o t, Len(s), Len(s) + Len(t) - 1) = t
  BY PartIs
<1> QED
  BY <1>1, <1>2

\* As long, with the same bytes but for the checksum's own.
SameBut(a, b) == \A i \in 1..Len(a) : i \notin {18, 19} => b[i] = a[i]

\* What is where.
LEMMA BodyIs ==
  ASSUME NEW f \in Frames, NEW flags \in Byte, NEW c \in Word
  PROVE  LET body == Body(f, flags, c)
         IN  /\ body \in Seq(Byte) /\ Len(body) = STRUCT_HEADER_LEN + Len(f.payload)
             /\ body[3] = flags /\ body[16] = f.major /\ body[17] = f.minor
             /\ Slice(body, 3, 6) = U32(f.sequence) /\ Slice(body, 7, 10) = U32(f.src_id)
             /\ Slice(body, 11, 14) = U32(f.dst_id)
             /\ Slice(body, 17, 18) = U16(c) /\ Slice(body, 19, 20) = U16(Len(f.payload))
             /\ Slice(body, 21, 20 + Len(f.payload)) = f.payload
             /\ \A d \in Word : SameBut(body, Body(f, flags, d))
<1> DEFINE n  == Len(f.payload)
           h1 == <<69, 2, flags>>
           h2 == h1 \o U32(f.sequence)
           h3 == h2 \o U32(f.src_id)
           h4 == h3 \o U32(f.dst_id)
           vv == <<f.major, f.minor>>
           h5 == h4 \o vv
           h6(x) == h5 \o U16(x)
           h7(x) == h6(x) \o U16(n)
           h8(x) == h7(x) \o f.payload
<1>1. \A x : Body(f, flags, x) = h8(x)
  BY DEF Body
<1>t. /\ f.payload \in Seq(Byte) /\ n \in Word /\ n \in Nat
      /\ \A x \in Word : U16(x) \in Seq(Byte) /\ Len(U16(x)) = 2
  BY FrameTypes, U16Is, WordIs
<1>2. h1 \in Seq(Byte) /\ Len(h1) = 3 /\ h1[3] = flags
  <2>1. 69 \in Byte /\ 2 \in Byte
    BY ByteIs
  <2> QED
    BY <2>1
<1>v. vv \in Seq(Byte) /\ Len(vv) = 2 /\ vv[1] = f.major /\ vv[2] = f.minor
  BY FrameTypes
<1> HIDE DEF h1, vv, n
<1>3. h2 \in Seq(Byte) /\ Len(h2) = 7 /\ Begins(h1, h2) /\ Slice(h2, 3, 6) = U32(f.sequence)
  <2> DEFINE u == U32(f.sequence)
  <2>1. u \in Seq(Byte) /\ Len(u) = 4
    BY FrameTypes
  <2> HIDE DEF u
  <2>2. Len(h1) + Len(u) = 7 /\ Len(h1) + Len(u) - 1 = 6
    BY <1>2, <2>1
  <2>3. /\ h1 \o u \in Seq(Byte) /\ Len(h1 \o u) = Len(h1) + Len(u)
        /\ Begins(h1, h1 \o u) /\ Slice(h1 \o u, Len(h1), Len(h1) + Len(u) - 1) = u
    BY <1>2, <2>1, Extend
  <2>4. Slice(h1 \o u, 3, 6) = u
    BY <1>2, <2>2, <2>3
  <2>5. Len(h1 \o u) = 7
    BY <2>2, <2>3
  <2> QED
    BY <2>3, <2>4, <2>5 DEF u
<1> HIDE DEF h2
<1>4. h3 \in Seq(Byte) /\ Len(h3) = 11 /\ Begins(h2, h3) /\ Slice(h3, 7, 10) = U32(f.src_id)
  <2> DEFINE u == U32(f.src_id)
  <2>1. u \in Seq(Byte) /\ Len(u) = 4
    BY FrameTypes
  <2> HIDE DEF u
  <2>2. Len(h2) + Len(u) = 11 /\ Len(h2) + Len(u) - 1 = 10
    BY <1>3, <2>1
  <2>3. /\ h2 \o u \in Seq(Byte) /\ Len(h2 \o u) = Len(h2) + Len(u)
        /\ Begins(h2, h2 \o u) /\ Slice(h2 \o u, Len(h2), Len(h2) + Len(u) - 1) = u
    BY <1>3, <2>1, Extend
  <2>4. Slice(h2 \o u, 7, 10) = u
    BY <1>3, <2>2, <2>3
  <2>5. Len(h2 \o u) = 11
    BY <2>2, <2>3
  <2> QED
    BY <2>3, <2>4, <2>5 DEF u
<1> HIDE DEF h3
<1>5. h4 \in Seq(Byte) /\ Len(h4) = 15 /\ Begins(h3, h4) /\ Slice(h4, 11, 14) = U32(f.dst_id)
  <2> DEFINE u == U32(f.dst_id)
  <2>1. u \in Seq(Byte) /\ Len(u) = 4
    BY FrameTypes
  <2> HIDE DEF u
  <2>2. Len(h3) + Len(u) = 15 /\ Len(h3) + Len(u) - 1 = 14
    BY <1>4, <2>1
  <2>3. /\ h3 \o u \in Seq(Byte) /\ Len(h3 \o u) = Len(h3) + Len(u)
        /\ Begins(h3, h3 \o u) /\ Slice(h3 \o u, Len(h3), Len(h3) + Len(u) - 1) = u
    BY <1>4, <2>1, Extend
  <2>4. Slice(h3 \o u, 11, 14) = u
    BY <1>4, <2>2, <2>3
  <2>5. Len(h3 \o u) = 15
    BY <2>2, <2>3
  <2> QED
    BY <2>3, <2>4, <2>5 DEF u
<1> HIDE DEF h4
<1>6. h5 \in Seq(Byte) /\ Len(h5) = 17 /\ Begins(h4, h5) /\ h5[16] = f.major /\ h5[17] = f.minor
  <2>1. Len(h4) + Len(vv) = 17 /\ Len(h4) + 1 = 16 /\ Len(h4) + 2 = 17 /\ 1 \in 1..Len(vv) /\ 2 \in 1..Len(vv)
    BY <1>5, <1>v
  <2>2. /\ h4 \o vv \in Seq(Byte) /\ Len(h4 \o vv) = Len(h4) + Len(vv) /\ Begins(h4, h4 \o vv)
        /\ \A i \in 1..Len(vv) : (h4 \o vv)[Len(h4) + i] = vv[i]
    BY <1>5, <1>v, Extend
  <2>3. (h4 \o vv)[Len(h4) + 1] = vv[1] /\ (h4 \o vv)[Len(h4) + 2] = vv[2]
    BY <2>1, <2>2
  <2> QED
    BY <1>v, <2>1, <2>2, <2>3
<1> HIDE DEF h5
<1>7. ASSUME NEW x \in Word
      PROVE  h6(x) \in Seq(Byte) /\ Len(h6(x)) = 19 /\ Begins(h5, h6(x)) /\ Slice(h6(x), 17, 18) = U16(x)
  <2> DEFINE u == U16(x)
  <2>1. u \in Seq(Byte) /\ Len(u) = 2
    BY <1>t
  <2> HIDE DEF u
  <2>2. Len(h5) + Len(u) = 19 /\ Len(h5) + Len(u) - 1 = 18
    BY <1>6, <2>1
  <2>3. /\ h5 \o u \in Seq(Byte) /\ Len(h5 \o u) = Len(h5) + Len(u)
        /\ Begins(h5, h5 \o u) /\ Slice(h5 \o u, Len(h5), Len(h5) + Len(u) - 1) = u
    BY <1>6, <2>1, Extend
  <2>4. Slice(h5 \o u, 17, 18) = u
    BY <1>6, <2>2, <2>3
  <2>5. Len(h5 \o u) = 19
    BY <2>2, <2>3
  <2> QED
    BY <2>3, <2>4, <2>5 DEF u
<1> HIDE DEF h6
<1>8. ASSUME NEW x \in Word
      PROVE  /\ h7(x) \in Seq(Byte) /\ Len(h7(x)) = 21 /\ Begins(h6(x), h7(x))
             /\ Slice(h7(x), 19, 20) = U16(n)
             /\ h7(x)[20] = U16(n)[1] /\ h7(x)[21] = U16(n)[2]
  <2> DEFINE u == U16(n)
             g == h6(x)
  <2>1. u \in Seq(Byte) /\ Len(u) = 2
    BY <1>t
  <2>g. g \in Seq(Byte) /\ Len(g) = 19
    BY <1>7
  <2> HIDE DEF u, g
  <2>2. /\ Len(g) + Len(u) = 21 /\ Len(g) + Len(u) - 1 = 20 /\ Len(g) + 1 = 20 /\ Len(g) + 2 = 21
        /\ 1 \in 1..Len(u) /\ 2 \in 1..Len(u)
    BY <2>1, <2>g
  <2>3. /\ g \o u \in Seq(Byte) /\ Len(g \o u) = Len(g) + Len(u)
        /\ Begins(g, g \o u) /\ Slice(g \o u, Len(g), Len(g) + Len(u) - 1) = u
        /\ \A i \in 1..Len(u) : (g \o u)[Len(g) + i] = u[i]
    BY <2>1, <2>g, Extend
  <2>4. Slice(g \o u, 19, 20) = u
    BY <2>2, <2>3, <2>g
  <2>5. Len(g \o u) = 21
    BY <2>2, <2>3
  <2>6. (g \o u)[Len(g) + 1] = u[1] /\ (g \o u)[Len(g) + 2] = u[2]
    BY <2>2, <2>3
  <2>7. (g \o u)[20] = u[1] /\ (g \o u)[21] = u[2]
    BY <2>2, <2>6
  <2> QED
    BY <2>3, <2>4, <2>5, <2>7 DEF u, g
<1> HIDE DEF h7
<1>9. ASSUME NEW x \in Word
      PROVE  /\ h8(x) \in Seq(Byte) /\ Len(h8(x)) = 21 + n /\ Begins(h7(x), h8(x))
             /\ Slice(h8(x), 21, 21 + n - 1) = f.payload
             /\ \A i \in 1..n : h8(x)[21 + i] = f.payload[i]
  <2> DEFINE u == f.payload
             g == h7(x)
  <2>1. u \in Seq(Byte) /\ Len(u) = n
    BY <1>t DEF n
  <2>g. g \in Seq(Byte) /\ Len(g) = 21
    BY <1>8
  <2> HIDE DEF u, g
  <2>3. /\ g \o u \in Seq(Byte) /\ Len(g \o u) = Len(g) + Len(u)
        /\ Begins(g, g \o u) /\ Slice(g \o u, Len(g), Len(g) + Len(u) - 1) = u
        /\ \A i \in 1..Len(u) : (g \o u)[Len(g) + i] = u[i]
    BY <2>1, <2>g, Extend
  <2>4. /\ g \o u \in Seq(Byte) /\ Len(g \o u) = 21 + n
        /\ Begins(g, g \o u) /\ Slice(g \o u, 21, 21 + n - 1) = u
        /\ \A i \in 1..n : (g \o u)[21 + i] = u[i]
    BY <2>1, <2>g, <2>3
  <2> QED
    BY <2>4 DEF u, g
<1> HIDE DEF h8
<1>10. ASSUME NEW x \in Word
       PROVE  /\ Begins(h7(x), h8(x)) /\ Begins(h6(x), h8(x)) /\ Begins(h5, h8(x)) /\ Begins(h4, h8(x))
              /\ Begins(h3, h8(x)) /\ Begins(h2, h8(x)) /\ Begins(h1, h8(x))
  <2>1. Begins(h7(x), h8(x)) /\ Begins(h6(x), h7(x)) /\ Begins(h5, h6(x))
    BY <1>7, <1>8, <1>9
  <2>2. Begins(h6(x), h8(x)) /\ Begins(h5, h8(x))
    BY <2>1, BeginsTwice
  <2>3. Begins(h4, h8(x)) /\ Begins(h3, h8(x))
    BY <1>5, <1>6, <2>2, BeginsTwice
  <2>4. Begins(h2, h8(x)) /\ Begins(h1, h8(x))
    BY <1>3, <1>4, <2>3, BeginsTwice
  <2> QED
    BY <2>1, <2>2, <2>3, <2>4
<1>c. c \in Word
  OBVIOUS
<1>11. h8(c)[3] = flags
  <2>1. 3 \in 1..Len(h1)
    BY <1>2
  <2> QED
    BY <1>2, <1>10, <2>1 DEF Begins
<1>12. h8(c)[16] = f.major /\ h8(c)[17] = f.minor
  <2>1. 16 \in 1..Len(h5) /\ 17 \in 1..Len(h5)
    BY <1>6
  <2> QED
    BY <1>6, <1>10, <2>1 DEF Begins
<1>13. Slice(h8(c), 3, 6) = U32(f.sequence)
  <2>0. Begins(h2, h8(c)) /\ Len(h2) = 7
    BY <1>3, <1>10
  <2>1. 3 \in Nat /\ 6 \in Int /\ 3 <= 6 + 1 /\ 6 < Len(h2) /\ Begins(h2, h8(c))
    BY <2>0
  <2>2. Slice(h8(c), 3, 6) = Slice(h2, 3, 6)
    BY <2>1, SliceBegins
  <2> QED
    BY <1>3, <2>2
<1>14. Slice(h8(c), 7, 10) = U32(f.src_id)
  <2>0. Begins(h3, h8(c)) /\ Len(h3) = 11
    BY <1>4, <1>10
  <2>1. 7 \in Nat /\ 10 \in Int /\ 7 <= 10 + 1 /\ 10 < Len(h3) /\ Begins(h3, h8(c))
    BY <2>0
  <2>2. Slice(h8(c), 7, 10) = Slice(h3, 7, 10)
    BY <2>1, SliceBegins
  <2> QED
    BY <1>4, <2>2
<1>15. Slice(h8(c), 11, 14) = U32(f.dst_id)
  <2>0. Begins(h4, h8(c)) /\ Len(h4) = 15
    BY <1>5, <1>10
  <2>1. 11 \in Nat /\ 14 \in Int /\ 11 <= 14 + 1 /\ 14 < Len(h4) /\ Begins(h4, h8(c))
    BY <2>0
  <2>2. Slice(h8(c), 11, 14) = Slice(h4, 11, 14)
    BY <2>1, SliceBegins
  <2> QED
    BY <1>5, <2>2
<1>16. Slice(h8(c), 17, 18) = U16(c)
  <2>0. Begins(h6(c), h8(c)) /\ Len(h6(c)) = 19
    BY <1>7, <1>10
  <2>1. 17 \in Nat /\ 18 \in Int /\ 17 <= 18 + 1 /\ 18 < Len(h6(c)) /\ Begins(h6(c), h8(c))
    BY <2>0
  <2>2. Slice(h8(c), 17, 18) = Slice(h6(c), 17, 18)
    BY <2>1, SliceBegins
  <2> QED
    BY <1>7, <2>2
<1>17. Slice(h8(c), 19, 20) = U16(n)
  <2>0. Begins(h7(c), h8(c)) /\ Len(h7(c)) = 21
    BY <1>8, <1>10
  <2>1. 19 \in Nat /\ 20 \in Int /\ 19 <= 20 + 1 /\ 20 < Len(h7(c)) /\ Begins(h7(c), h8(c))
    BY <2>0
  <2>2. Slice(h8(c), 19, 20) = Slice(h7(c), 19, 20)
    BY <2>1, SliceBegins
  <2> QED
    BY <1>8, <2>2
<1>18. ASSUME NEW d \in Word, NEW i \in 1..(21 + n), i \notin {18, 19}
       PROVE  h8(d)[i] = h8(c)[i]
  <2>0. i \in Int /\ 1 <= i /\ i <= 21 + n /\ i # 18 /\ i # 19
    BY <1>18, <1>t
  <2>1. CASE i <= 17
    <3>1. i \in 1..Len(h5)
      BY <1>6, <2>0, <2>1
    <3> QED
      BY <1>10, <3>1 DEF Begins
  <2>2. CASE i = 20 \/ i = 21
    <3>1. i \in 1..Len(h7(c)) /\ i \in 1..Len(h7(d))
      BY <1>8, <2>2
    <3>2. h8(c)[i] = h7(c)[i] /\ h8(d)[i] = h7(d)[i]
      BY <1>10, <3>1 DEF Begins
    <3> QED
      BY <1>8, <2>2, <3>2
  <2>3. CASE i > 21
    <3>1. i - 21 \in 1..n /\ 21 + (i - 21) = i
      BY <1>t, <2>0, <2>3
    <3>2. h8(d)[21 + (i - 21)] = f.payload[i - 21] /\ h8(c)[21 + (i - 21)] = f.payload[i - 21]
      BY <1>9, <3>1
    <3> QED
      BY <3>1, <3>2
  <2> QED
    BY <2>0, <2>1, <2>2, <2>3
<1>19. 21 + n - 1 = 20 + n
  BY <1>t
<1>20. \A x : Body(f, flags, x) = h8(x)
  BY <1>1 DEF h8, h7, h6, h5, h4, h3, h2, h1, vv, n
<1>21. /\ h8(c) \in Seq(Byte) /\ Len(h8(c)) = 21 + n
       /\ Slice(h8(c), 21, 20 + n) = f.payload
  BY <1>9, <1>19
<1>22. /\ Slice(h8(c), 19, 20) = U16(Len(f.payload)) /\ Len(h8(c)) = STRUCT_HEADER_LEN + Len(f.payload)
       /\ Slice(h8(c), 21, 20 + Len(f.payload)) = f.payload
  BY <1>17, <1>21 DEF n, STRUCT_HEADER_LEN
<1>23. \A d \in Word : SameBut(h8(c), h8(d))
  BY <1>18, <1>21 DEF SameBut
<1> QED
  BY <1>11, <1>12, <1>13, <1>14, <1>15, <1>16, <1>20, <1>21, <1>22, <1>23

\* A frame's bytes with its checksum in them.
Signed(f, flags) == Body(f, flags, Checksum(Body(f, flags, 0)))

\* A changed checksum field is not what the checksum is over, so the decoder finds the
\* one that was stored.
LEMMA SignedIs ==
  ASSUME NEW f \in Frames, NEW flags \in Byte
  PROVE  LET body == Signed(f, flags)
         IN  /\ body \in Seq(Byte) /\ Len(body) = STRUCT_HEADER_LEN + Len(f.payload)
             /\ body[3] = flags /\ body[16] = f.major /\ body[17] = f.minor
             /\ Slice(body, 3, 6) = U32(f.sequence) /\ Slice(body, 7, 10) = U32(f.src_id)
             /\ Slice(body, 11, 14) = U32(f.dst_id)
             /\ FromU16(Slice(body, 19, 20)) = Len(f.payload)
             /\ Slice(body, 21, 20 + Len(f.payload)) = f.payload
             /\ FromU16(Slice(body, 17, 18)) = Checksum(body)
<1> DEFINE zero == Body(f, flags, 0)
           c == Checksum(zero)
           body == Body(f, flags, c)
<1>0. 0 \in Word
  BY WordIs
<1>1. zero \in Seq(Byte) /\ Len(zero) = STRUCT_HEADER_LEN + Len(f.payload)
  BY <1>0, BodyIs
<1>2. Len(f.payload) \in Word /\ Len(f.payload) \in Nat
  BY FrameTypes, WordIs
<1>3. Len(zero) >= STRUCT_HEADER_LEN
  BY <1>1, <1>2 DEF STRUCT_HEADER_LEN
<1> HIDE DEF zero
<1>4. c \in Word
  BY <1>1, <1>3, ChecksumType
<1> HIDE DEF c
<1>5. /\ body \in Seq(Byte) /\ Len(body) = STRUCT_HEADER_LEN + Len(f.payload)
      /\ body[3] = flags /\ body[16] = f.major /\ body[17] = f.minor
      /\ Slice(body, 3, 6) = U32(f.sequence) /\ Slice(body, 7, 10) = U32(f.src_id)
      /\ Slice(body, 11, 14) = U32(f.dst_id)
      /\ Slice(body, 17, 18) = U16(c) /\ Slice(body, 19, 20) = U16(Len(f.payload))
      /\ Slice(body, 21, 20 + Len(f.payload)) = f.payload
  BY <1>4, BodyIs
<1>6. SameBut(body, zero)
  BY <1>0, <1>4, BodyIs DEF zero
<1>7. Signed(f, flags) = body
  BY DEF Signed, c, zero
<1> HIDE DEF body
<1>8. Checksum(body) = c
  <2>1. Len(body) = Len(zero) /\ Len(body) >= STRUCT_HEADER_LEN
    BY <1>1, <1>3, <1>5
  <2>2. Checksum(body) = Checksum(zero)
    BY <1>1, <1>5, <1>6, <2>1, SameChecksum DEF SameBut
  <2> QED
    BY <2>2 DEF c
<1>9. FromU16(Slice(body, 17, 18)) = c /\ FromU16(Slice(body, 19, 20)) = Len(f.payload)
  BY <1>2, <1>4, <1>5, U16Is
<1> QED
  BY <1>5, <1>7, <1>8, <1>9

\* A body's slice of itself is the body.
LEMMA WholeSlice ==
  ASSUME NEW h, NEW b, Begins(h, b)
  PROVE  Slice(b, 0, Len(h) - 1) = h
<1>1. /\ h \in Seq(Byte) /\ b \in Seq(Byte) /\ Len(h) <= Len(b)
      /\ \A i \in 1..Len(h) : b[i] = h[i]
  BY DEF Begins
<1> DEFINE to == Len(h) - 1
           n == to - 0 + 1
<1>2. 0 \in Nat /\ to \in Int /\ 0 <= to + 1 /\ to < Len(b) /\ n = Len(h)
  BY <1>1
<1> HIDE DEF to
<1>3. /\ Slice(b, 0, to) \in Seq(Byte) /\ Len(Slice(b, 0, to)) = to - 0 + 1
      /\ \A i \in 1..(to - 0 + 1) : Slice(b, 0, to)[i] = b[0 + i]
  BY <1>1, <1>2, SliceIs
<1>4. \A i \in 1..Len(h) : 0 + i = i
  OBVIOUS
<1>5. Len(Slice(b, 0, to)) = Len(h) /\ \A i \in 1..Len(h) : Slice(b, 0, to)[i] = h[i]
  BY <1>1, <1>2, <1>3, <1>4
<1> QED
  BY <1>1, <1>3, <1>5, SeqEqual DEF to

\* What a decoder says of a frame that came as it was sent.
Sent(f, flags) ==
  [flags |-> Flag(flags, FALSE), sequence |-> f.sequence, src_id |-> f.src_id,
   dst_id |-> f.dst_id, major |-> f.major, minor |-> f.minor, payload |-> f.payload]

\* Whatever padding is behind it.
LEMMA FrameOfSigned ==
  ASSUME NEW f \in Frames, NEW flags \in Byte, NEW p, Begins(Signed(f, flags), p)
  PROVE  FrameOf(p) = Sent(f, flags)
<1> DEFINE h == Signed(f, flags)
           n == Len(f.payload)
           end == STRUCT_HEADER_LEN + FromU16(Slice(p, 19, 20))
<1>1. /\ h \in Seq(Byte) /\ Len(h) = STRUCT_HEADER_LEN + n
      /\ h[3] = flags /\ h[16] = f.major /\ h[17] = f.minor
      /\ Slice(h, 3, 6) = U32(f.sequence) /\ Slice(h, 7, 10) = U32(f.src_id)
      /\ Slice(h, 11, 14) = U32(f.dst_id)
      /\ FromU16(Slice(h, 19, 20)) = n
      /\ Slice(h, 21, 20 + n) = f.payload
      /\ FromU16(Slice(h, 17, 18)) = Checksum(h)
  BY SignedIs
<1>2. n \in Nat /\ Begins(h, p)
  BY FrameTypes
<1> HIDE DEF h
<1>3. Len(h) = 21 + n /\ Len(h) \in Nat /\ 21 <= Len(h)
  BY <1>1, <1>2 DEF STRUCT_HEADER_LEN
<1>4. /\ p[3] = h[3] /\ p[16] = h[16] /\ p[17] = h[17]
  <2>1. 3 \in 1..Len(h) /\ 16 \in 1..Len(h) /\ 17 \in 1..Len(h)
    BY <1>3
  <2> QED
    BY <1>2, <2>1 DEF Begins
<1> HIDE DEF n
<1>5. Slice(p, 3, 6) = Slice(h, 3, 6)
  <2>1. 3 \in Nat /\ 6 \in Int /\ 3 <= 6 + 1 /\ 6 < Len(h)
    BY <1>3
  <2> QED
    BY <1>2, <2>1, SliceBegins
<1>6. Slice(p, 7, 10) = Slice(h, 7, 10)
  <2>1. 7 \in Nat /\ 10 \in Int /\ 7 <= 10 + 1 /\ 10 < Len(h)
    BY <1>3
  <2> QED
    BY <1>2, <2>1, SliceBegins
<1>7. Slice(p, 11, 14) = Slice(h, 11, 14)
  <2>1. 11 \in Nat /\ 14 \in Int /\ 11 <= 14 + 1 /\ 14 < Len(h)
    BY <1>3
  <2> QED
    BY <1>2, <2>1, SliceBegins
<1>8. Slice(p, 17, 18) = Slice(h, 17, 18)
  <2>1. 17 \in Nat /\ 18 \in Int /\ 17 <= 18 + 1 /\ 18 < Len(h)
    BY <1>3
  <2> QED
    BY <1>2, <2>1, SliceBegins
<1>9. Slice(p, 19, 20) = Slice(h, 19, 20)
  <2>1. 19 \in Nat /\ 20 \in Int /\ 19 <= 20 + 1 /\ 20 < Len(h)
    BY <1>3
  <2> QED
    BY <1>2, <2>1, SliceBegins
<1>10. Slice(p, 21, 20 + n) = f.payload
  <2> DEFINE to == 20 + n
  <2>0. 21 \in Nat /\ to \in Int /\ 21 <= to + 1 /\ to < Len(h)
    BY <1>2, <1>3
  <2>1. Slice(h, 21, to) = f.payload
    BY <1>1
  <2> HIDE DEF to
  <2>2. Slice(p, 21, to) = Slice(h, 21, to)
    BY <1>2, <2>0, SliceBegins
  <2> QED
    BY <2>1, <2>2 DEF to
<1>11. end = 21 + n
  BY <1>1, <1>9 DEF STRUCT_HEADER_LEN
<1>12. ~(end > Len(p)) /\ end - 1 = Len(h) - 1 /\ end - 1 = 20 + n
  <2>1. Len(h) <= Len(p) /\ Len(p) \in Nat
    BY <1>2 DEF Begins
  <2> QED
    BY <1>2, <1>3, <1>11, <2>1
<1>13. Slice(p, 0, end - 1) = h
  BY <1>2, <1>12, WholeSlice
<1>14. Checksum(Slice(p, 0, end - 1)) = FromU16(Slice(p, 17, 18))
  BY <1>1, <1>8, <1>13
<1>15. /\ FromU32(Slice(p, 3, 6)) = f.sequence /\ FromU32(Slice(p, 7, 10)) = f.src_id
       /\ FromU32(Slice(p, 11, 14)) = f.dst_id
  BY <1>1, <1>5, <1>6, <1>7, FrameTypes
<1>16. At(p, 2) = flags /\ At(p, 15) = f.major /\ At(p, 16) = f.minor
  BY <1>1, <1>4 DEF At
<1>17. Slice(p, STRUCT_HEADER_LEN, end - 1) = f.payload
  BY <1>10, <1>12 DEF STRUCT_HEADER_LEN
<1>18. FrameOf(p) =
         IF end > Len(p) THEN Invalid
         ELSE IF Checksum(Slice(p, 0, end - 1)) # FromU16(Slice(p, 17, 18)) THEN Invalid
         ELSE [flags |-> Flag(At(p, 2), FALSE),
               sequence |-> FromU32(Slice(p, 3, 6)), src_id |-> FromU32(Slice(p, 7, 10)),
               dst_id |-> FromU32(Slice(p, 11, 14)),
               major |-> At(p, 15), minor |-> At(p, 16),
               payload |-> Slice(p, STRUCT_HEADER_LEN, end - 1)]
  BY DEF FrameOf
<1> HIDE DEF end
<1> QED
  BY <1>12, <1>14, <1>15, <1>16, <1>17, <1>18 DEF Sent

\* Two bytes and the number they make.
Pair(a, b) == a + 256 * b

\* They can be told from it.
LEMMA TwoBytes ==
  ASSUME NEW a \in Byte, NEW b \in Byte, NEW c \in Byte, NEW d \in Byte
  PROVE  /\ Pair(a, b) \in Nat
         /\ Pair(a, b) = Pair(c, d) => a = c /\ b = d
<1>1. /\ a \in Int /\ b \in Int /\ c \in Int /\ d \in Int
      /\ 0 <= a /\ a <= 255 /\ 0 <= b /\ b <= 255 /\ 0 <= c /\ c <= 255 /\ 0 <= d /\ d <= 255
  BY ByteIs
<1> QED
  BY <1>1, Z3 DEF Pair

\* The number at a place of a body.
LEMMA WordAt ==
  ASSUME NEW body \in Seq(Byte), NEW o \in Nat, NEW i \in Nat, NEW j \in Nat,
         i = o + 1, j = o + 2, j <= Len(body)
  PROVE  /\ FromU16(Slice(body, o, i)) = Pair(body[i], body[j])
         /\ body[i] \in Byte /\ body[j] \in Byte
<1>1. FromU16(Slice(body, o, o + 1)) = body[o + 1] + 256 * body[o + 2]
  BY ReadsAre
<1>2. i \in 1..Len(body) /\ j \in 1..Len(body)
  OBVIOUS
<1> QED
  BY <1>1, <1>2, ElementOfSeq DEF Pair

\* They have the same bytes but for the one at place k.
SameButAt(a, b, k) == \A i \in 1..Len(a) : i # k => a[i] = b[i]

\* The frame is all there is, and its length was not made smaller.
NotLess(f, flags, p, q) ==
  p = Signed(f, flags) /\ ~(FromU16(Slice(q, 19, 20)) < Len(f.payload))

\* A frame with one byte changed, at position k of its body, is not taken: the checksum
\* is another one, or the stored one is, or there are fewer bytes than it says.
LEMMA GarbledFrame ==
  ASSUME NEW f \in Frames, NEW flags \in Byte, NEW p, Begins(Signed(f, flags), p),
         NEW q \in Seq(Byte), Len(q) = Len(p), NEW k \in 1..Len(Signed(f, flags)),
         q[k] # p[k], SameButAt(q, p, k),
         (k # 20 /\ k # 21) \/ NotLess(f, flags, p, q)
  PROVE  FrameOf(q) = Invalid
<1> DEFINE h == Signed(f, flags)
           n == Len(f.payload)
           end == STRUCT_HEADER_LEN + FromU16(Slice(q, 19, 20))
<1>1. /\ h \in Seq(Byte) /\ Len(h) = STRUCT_HEADER_LEN + n
      /\ FromU16(Slice(h, 19, 20)) = n
      /\ FromU16(Slice(h, 17, 18)) = Checksum(h)
  BY SignedIs
<1>2. n \in Nat /\ Begins(h, p) /\ p \in Seq(Byte)
  BY FrameTypes DEF Begins
<1>k. k \in 1..Len(h)
  OBVIOUS
<1>p. k \in {20, 21} => p = h /\ ~(FromU16(Slice(q, 19, 20)) < n)
  BY DEF NotLess
<1> HIDE DEF h, n
<1>3. Len(h) = 21 + n /\ Len(h) \in Nat /\ 21 <= Len(h) /\ Len(p) \in Nat /\ Len(h) <= Len(p)
  BY <1>1, <1>2 DEF STRUCT_HEADER_LEN, Begins
<1>4. \A i \in 1..Len(h) : i \in 1..Len(p) /\ p[i] = h[i]
  BY <1>2, <1>3 DEF Begins
<1>5. q[k] # h[k] /\ \A i \in 1..Len(h) : i # k => q[i] = h[i]
  BY <1>k, <1>4 DEF SameButAt
<1>6. FrameOf(q) =
        IF end > Len(q) THEN Invalid
        ELSE IF Checksum(Slice(q, 0, end - 1)) # FromU16(Slice(q, 17, 18)) THEN Invalid
        ELSE [flags |-> Flag(At(q, 2), FALSE),
              sequence |-> FromU32(Slice(q, 3, 6)), src_id |-> FromU32(Slice(q, 7, 10)),
              dst_id |-> FromU32(Slice(q, 11, 14)),
              major |-> At(q, 15), minor |-> At(q, 16),
              payload |-> Slice(q, STRUCT_HEADER_LEN, end - 1)]
  BY DEF FrameOf
<1>h. h \in Seq(Byte)
  BY <1>1
<1>o. /\ 17 \in Nat /\ 18 \in Nat /\ 19 \in Nat /\ 20 \in Nat /\ 21 \in Nat
      /\ 18 = 17 + 1 /\ 19 = 17 + 2 /\ 20 = 19 + 1 /\ 21 = 19 + 2
      /\ 19 <= Len(q) /\ 21 <= Len(q) /\ 19 <= Len(h) /\ 21 <= Len(h)
  BY <1>3
<1>7. /\ FromU16(Slice(q, 19, 20)) = Pair(q[20], q[21]) /\ q[20] \in Byte /\ q[21] \in Byte
      /\ FromU16(Slice(q, 17, 18)) = Pair(q[18], q[19]) /\ q[18] \in Byte /\ q[19] \in Byte
      /\ FromU16(Slice(h, 19, 20)) = Pair(h[20], h[21]) /\ h[20] \in Byte /\ h[21] \in Byte
      /\ FromU16(Slice(h, 17, 18)) = Pair(h[18], h[19]) /\ h[18] \in Byte /\ h[19] \in Byte
  <2>1. FromU16(Slice(q, 19, 20)) = Pair(q[20], q[21]) /\ q[20] \in Byte /\ q[21] \in Byte
    BY <1>o, WordAt
  <2>2. FromU16(Slice(q, 17, 18)) = Pair(q[18], q[19]) /\ q[18] \in Byte /\ q[19] \in Byte
    BY <1>o, WordAt
  <2>3. FromU16(Slice(h, 19, 20)) = Pair(h[20], h[21]) /\ h[20] \in Byte /\ h[21] \in Byte
    BY <1>h, <1>o, WordAt
  <2>4. FromU16(Slice(h, 17, 18)) = Pair(h[18], h[19]) /\ h[18] \in Byte /\ h[19] \in Byte
    BY <1>h, <1>o, WordAt
  <2> QED
    BY <2>1, <2>2, <2>3, <2>4
<1>n. /\ Pair(q[20], q[21]) \in Nat
      /\ Pair(q[20], q[21]) = Pair(h[20], h[21]) => q[20] = h[20] /\ q[21] = h[21]
      /\ Pair(q[18], q[19]) = Pair(h[18], h[19]) => q[18] = h[18] /\ q[19] = h[19]
  <2>1. q[18] \in Byte /\ q[19] \in Byte /\ h[18] \in Byte /\ h[19] \in Byte
    BY <1>7
  <2>2. q[20] \in Byte /\ q[21] \in Byte /\ h[20] \in Byte /\ h[21] \in Byte
    BY <1>7
  <2> DEFINE a == q[20]
             b == q[21]
             c == h[20]
             d == h[21]
             u == q[18]
             v == q[19]
             x == h[18]
             y == h[19]
  <2>5. a \in Byte /\ b \in Byte /\ c \in Byte /\ d \in Byte
    BY <2>2
  <2>6. u \in Byte /\ v \in Byte /\ x \in Byte /\ y \in Byte
    BY <2>1
  <2> HIDE DEF a, b, c, d, u, v, x, y
  <2>3. Pair(a, b) \in Nat /\ (Pair(a, b) = Pair(c, d) => a = c /\ b = d)
    BY <2>5, TwoBytes
  <2>4. Pair(u, v) = Pair(x, y) => u = x /\ v = y
    BY <2>6, TwoBytes
  <2> QED
    BY <2>3, <2>4 DEF a, b, c, d, u, v, x, y
<1>8. /\ 18 # k => q[18] = h[18]
      /\ 19 # k => q[19] = h[19]
      /\ 20 # k => q[20] = h[20]
      /\ 21 # k => q[21] = h[21]
  <2>1. 18 \in 1..Len(h) /\ 19 \in 1..Len(h) /\ 20 \in 1..Len(h) /\ 21 \in 1..Len(h)
    BY <1>3
  <2> QED
    BY <1>5, <2>1
<1>9. CASE k \in {20, 21}
  <2>1. p = h /\ ~(FromU16(Slice(q, 19, 20)) < n)
    BY <1>p, <1>9
  <2>2. q[20] # h[20] \/ q[21] # h[21]
    <3>1. CASE k = 20
      BY <1>5, <3>1
    <3>2. CASE k = 21
      BY <1>5, <3>2
    <3> QED
      BY <1>9, <3>1, <3>2
  <2> DEFINE m == FromU16(Slice(q, 19, 20))
  <2>3. m # n /\ m \in Nat
    <3>1. m = Pair(q[20], q[21]) /\ n = Pair(h[20], h[21])
      BY <1>1, <1>7
    <3> QED
      BY <1>n, <2>2, <3>1
  <2>m. end = 21 + m /\ ~(m < n)
    BY <2>1 DEF STRUCT_HEADER_LEN
  <2> HIDE DEF m, end
  <2>4. end > 21 + n
    BY <1>2, <2>3, <2>m
  <2>5. Len(q) = 21 + n
    BY <1>3, <2>1
  <2> QED
    BY <1>6, <2>4, <2>5 DEF end
<1>10. CASE k \notin {20, 21}
  <2>0. 20 # k /\ 21 # k
    BY <1>10
  <2>1. q[20] = h[20] /\ q[21] = h[21]
    BY <1>8, <2>0
  <2>2. end = 21 + n
    BY <1>1, <1>7, <2>1 DEF STRUCT_HEADER_LEN
  <2> DEFINE s == Slice(q, 0, end - 1)
  <2>3. s \in Seq(Byte) /\ Len(s) = Len(h) /\ \A i \in 1..Len(h) : s[i] = q[i]
    <3> DEFINE to == Len(h) - 1
    <3>1. 0 \in Nat /\ to \in Int /\ 0 <= to + 1 /\ to < Len(q) /\ to - 0 + 1 = Len(h)
      BY <1>3
    <3>2. end - 1 = to
      BY <1>2, <1>3, <2>2
    <3> HIDE DEF to, end
    <3>3. /\ Slice(q, 0, to) \in Seq(Byte) /\ Len(Slice(q, 0, to)) = to - 0 + 1
          /\ \A i \in 1..(to - 0 + 1) : Slice(q, 0, to)[i] = q[0 + i]
      BY <3>1, SliceIs
    <3>4. \A i \in 1..Len(h) : 0 + i = i
      OBVIOUS
    <3> QED
      BY <3>1, <3>2, <3>3, <3>4
  <2> HIDE DEF s
  <2>4. s[k] # h[k] /\ \A i \in 1..Len(h) : i # k => s[i] = h[i]
    BY <1>k, <1>5, <2>3
  <2>5. Len(h) >= STRUCT_HEADER_LEN
    BY <1>3 DEF STRUCT_HEADER_LEN
  <2>6. Checksum(s) # FromU16(Slice(q, 17, 18))
    <3>1. CASE k \in {18, 19}
      <4>1. \A i \in 1..Len(h) : i \notin {18, 19} => s[i] = h[i]
        BY <2>4, <3>1
      <4>2. Checksum(s) = Checksum(h)
        BY <1>1, <2>3, <2>5, <4>1, SameChecksum
      <4>3. q[18] # h[18] \/ q[19] # h[19]
        <5>1. CASE k = 18
          BY <1>5, <5>1
        <5>2. CASE k = 19
          BY <1>5, <5>2
        <5> QED
          BY <3>1, <5>1, <5>2
      <4>4. Pair(q[18], q[19]) # Pair(h[18], h[19])
        BY <1>n, <4>3
      <4> QED
        BY <1>1, <1>7, <4>2, <4>4
    <3>2. CASE k \notin {18, 19}
      <4>1. Checksum(s) # Checksum(h)
        BY <1>1, <1>k, <2>3, <2>4, <2>5, <3>2, OtherChecksum
      <4>0. 18 # k /\ 19 # k
        BY <3>2
      <4>2. q[18] = h[18] /\ q[19] = h[19]
        BY <1>8, <4>0
      <4> QED
        BY <1>1, <1>7, <4>1, <4>2
    <3> QED
      BY <3>1, <3>2
  <2>7. Checksum(Slice(q, 0, end - 1)) # FromU16(Slice(q, 17, 18))
    BY <2>6 DEF s
  <2> HIDE DEF end
  <2> QED
    BY <1>6, <2>7
<1> QED
  BY <1>9, <1>10

-----------------------------------------------------------------------------
(* Encryption. *)

\* What is before the block that place i of a body is in.
Start(i) == 15 + ((i - 16) \div 16) * 16

\* All places of a block are in it, and are mirrored in it.
LEMMA StartIs ==
  ASSUME NEW i \in Nat, i > 15
  PROVE  /\ Start(i) \in Nat /\ 15 <= Start(i) /\ Start(i) < i /\ i <= Start(i) + 16
         /\ \A j \in Nat : Start(i) < j /\ j <= Start(i) + 16 => Start(j) = Start(i)
<1> DEFINE n == (i - 16) \div 16
<1>1. n \in Int /\ 0 <= n /\ 16 * n <= i - 16 /\ i - 16 <= 16 * n + 15
  BY Z3
<1>2. ASSUME NEW j \in Nat, NEW m \in Int, 15 + m * 16 < j, j <= 15 + m * 16 + 16
      PROVE  (j - 16) \div 16 = m
  BY <1>2, Z3
<1> HIDE DEF n
<1>3. Start(i) = 15 + n * 16
  BY DEF Start, n
<1>4. ASSUME NEW j \in Nat, Start(i) < j, j <= Start(i) + 16
      PROVE  Start(j) = Start(i)
  <2>1. (j - 16) \div 16 = n
    BY <1>1, <1>2, <1>3, <1>4
  <2> QED
    BY <1>3, <2>1 DEF Start
<1>5. Start(i) \in Nat /\ 15 <= Start(i) /\ Start(i) < i /\ i <= Start(i) + 16
  BY <1>1, <1>3
<1> QED
  BY <1>4, <1>5

\* In a body of whole blocks every place is in one.
LEMMA WholeBlocks ==
  ASSUME NEW i \in Nat, i > 15, NEW n \in Nat, i <= n, (n - 15) % 16 = 0
  PROVE  Start(i) + 16 <= n
<1> DEFINE m == (i - 16) \div 16
           l == (n - 15) \div 16
<1>1. m \in Int /\ 16 * m <= i - 16 /\ i - 16 <= 16 * m + 15
  BY Z3
<1>2. l \in Int /\ n - 15 = 16 * l
  BY Z3
<1> HIDE DEF m, l
<1>3. 15 + m * 16 + 16 <= n
  BY <1>1, <1>2
<1> QED
  BY <1>3 DEF Start, m

\* What a byte is moved by is taken off again.
LEMMA ModBack ==
  ASSUME NEW x \in Byte, NEW m \in Int
  PROVE  /\ (x + m) % 256 \in Byte
         /\ (((x + m) % 256) - m) % 256 = x
<1>1. x \in Int /\ 0 <= x /\ x <= 255
  BY ByteIs
<1> DEFINE y == (x + m) % 256
           k == (x + m) \div 256
<1>2. y \in Int /\ 0 <= y /\ y <= 255 /\ k \in Int /\ x + m = 256 * k + y
  BY <1>1, Z3
<1> HIDE DEF y, k
<1>3. y - m = x + 256 * (0 - k)
  BY <1>1, <1>2
<1>4. \A z \in Int : (x + 256 * z) % 256 = x
  BY <1>1, Z3
<1>5. 0 - k \in Int
  BY <1>2
<1>6. (y - m) % 256 = x
  BY <1>3, <1>4, <1>5
<1>7. y \in Byte
  BY <1>2, ByteIs
<1> QED
  BY <1>6, <1>7 DEF y

\* A byte is one of a block's after what OnBlocks does: that of the mirrored place,
\* moved by the key and the place.
Moved(way, key, x, i) == IF way = "encrypt" THEN (x + (7 * key + i)) % 256
                         ELSE (x - (7 * key + (17 - i))) % 256

\* The cipher, byte by byte.
LEMMA CipherIs ==
  ASSUME NEW way, NEW key \in Nat, NEW block, NEW i \in 1..16, block[17 - i] \in Byte
  PROVE  Cipher(way, key, block)[i] = Moved(way, key, block[17 - i], i)
<1>1. i \in Int
  OBVIOUS
<1>3. Cipher(way, key, block)[i] =
        IF way = "encrypt" THEN (block[16 + 1 - i] + 7 * key + i) % 256
        ELSE (block[16 + 1 - i] - 7 * key - (16 + 1 - i)) % 256
  BY DEF Cipher, AES_BLOCK
<1>4. 16 + 1 - i = 17 - i
  BY <1>1
<1> DEFINE x == block[17 - i]
<1>5. x \in Int
  BY ByteIs
<1> HIDE DEF x
<1>6. x + 7 * key + i = x + (7 * key + i) /\ x - 7 * key - (17 - i) = x - (7 * key + (17 - i))
  BY <1>1, <1>5
<1> QED
  BY <1>3, <1>4, <1>6 DEF x, Moved

\* One way undoes the other at the mirrored place.
LEMMA MovedIs ==
  ASSUME NEW key \in Nat, NEW x \in Byte, NEW i \in Int
  PROVE  /\ \A way : Moved(way, key, x, i) \in Byte
         /\ Moved("decrypt", key, Moved("encrypt", key, x, 17 - i), i) = x
<1> DEFINE m == 7 * key + (17 - i)
           l == 7 * key + i
<1>1. m \in Int /\ l \in Int /\ 0 - m \in Int /\ x \in Int
  BY ByteIs
<1>2. \A way : Moved(way, key, x, i) = IF way = "encrypt" THEN (x + l) % 256 ELSE (x - m) % 256
  BY DEF Moved
<1>3. Moved("decrypt", key, Moved("encrypt", key, x, 17 - i), i) = (((x + m) % 256) - m) % 256
  BY DEF Moved
<1> HIDE DEF m, l
<1>4. (x + l) % 256 \in Byte /\ (((x + m) % 256) - m) % 256 = x
  BY <1>1, ModBack
<1>5. (x - m) % 256 \in Byte
  <2> DEFINE z == 0 - m
  <2>1. z \in Int /\ x + z = x - m
    BY <1>1
  <2> HIDE DEF z
  <2>2. (x + z) % 256 \in Byte
    BY <2>1, ModBack
  <2> QED
    BY <2>1, <2>2
<1> QED
  BY <1>2, <1>3, <1>4, <1>5

\* The place opposite to i in its block.
Mirror(i) == 2 * Start(i) + 17 - i

\* It is in the same block, and i is opposite to it.
LEMMA MirrorIs ==
  ASSUME NEW i \in Nat, i > 15, NEW n \in Nat, i <= n, (n - 15) % 16 = 0
  PROVE  /\ Mirror(i) \in 1..n /\ Mirror(i) > 15 /\ Start(Mirror(i)) = Start(i)
         /\ Mirror(Mirror(i)) = i /\ Mirror(i) - Start(i) = 17 - (i - Start(i))
<1>1. /\ Start(i) \in Nat /\ 15 <= Start(i) /\ Start(i) < i /\ i <= Start(i) + 16
      /\ \A j \in Nat : Start(i) < j /\ j <= Start(i) + 16 => Start(j) = Start(i)
  BY StartIs
<1>2. Start(i) + 16 <= n
  BY WholeBlocks
<1>3. Mirror(i) = 2 * Start(i) + 17 - i
  BY DEF Mirror
<1>4. /\ Mirror(i) \in 1..n /\ Mirror(i) > 15 /\ Mirror(i) \in Nat
      /\ Start(i) < Mirror(i) /\ Mirror(i) <= Start(i) + 16
  BY <1>1, <1>2, <1>3
<1>5. Start(Mirror(i)) = Start(i)
  BY <1>1, <1>4
<1>6. Mirror(Mirror(i)) = 2 * Start(i) + 17 - Mirror(i)
  BY <1>5 DEF Mirror
<1>7. Mirror(Mirror(i)) = i /\ Mirror(i) - Start(i) = 17 - (i - Start(i))
  BY <1>1, <1>3, <1>6
<1> QED
  BY <1>4, <1>5, <1>7

\* What is done to a body of whole blocks, byte by byte.
LEMMA BlocksAre ==
  ASSUME NEW way, NEW key \in Nat, NEW body \in Seq(Byte), Len(body) >= 15, Tail16(body) % AES_BLOCK = 0
  PROVE  /\ OnBlocks(way, key, body) \in Seq(Byte) /\ Len(OnBlocks(way, key, body)) = Len(body)
         /\ \A i \in 1..Len(body) : i <= 15 => OnBlocks(way, key, body)[i] = body[i]
         /\ \A i \in 1..Len(body) : i > 15 =>
              OnBlocks(way, key, body)[i] = Moved(way, key, body[Mirror(i)], i - Start(i))
<1> DEFINE N == Len(body)
           first(i) == 15 + ((i - 1 - 15) \div 16) * 16
           res(i) == IF i <= 15 \/ first(i) + 16 > N THEN body[i]
                     ELSE Cipher(way, key, Slice(body, first(i), first(i) + 16 - 1))[i - first(i)]
           out == [i \in 1..N |-> res(i)]
<1>0. N \in Nat /\ (N - 15) % 16 = 0
  BY DEF Tail16, STRUCT_ENCRYPT_OFFSET, AES_BLOCK
<1>1. OnBlocks(way, key, body) = out
  <2>1. DOMAIN body = 1..N
    OBVIOUS
  <2> QED
    BY <2>1 DEF OnBlocks, STRUCT_ENCRYPT_OFFSET, AES_BLOCK
<1>2. ASSUME NEW i \in 1..N PROVE first(i) = Start(i) /\ i \in Nat /\ i \in Int
  <2>1. i - 1 - 15 = i - 16 /\ i \in Nat
    OBVIOUS
  <2> QED
    BY <2>1 DEF Start
<1> HIDE DEF first
<1>3. ASSUME NEW i \in 1..N, i <= 15 PROVE res(i) = body[i] /\ body[i] \in Byte
  BY <1>3, ElementOfSeq
<1>4. ASSUME NEW i \in 1..N, i > 15
      PROVE  /\ res(i) = Moved(way, key, body[Mirror(i)], i - Start(i)) /\ res(i) \in Byte
  <2> DEFINE b == Start(i)
             to == b + 16 - 1
             s == Slice(body, b, to)
             k == i - b
  <2>1. b \in Nat /\ 15 <= b /\ b < i /\ i <= b + 16 /\ b + 16 <= N /\ first(i) = b
    BY <1>0, <1>2, <1>4, StartIs, WholeBlocks
  <2>2. Mirror(i) = b + (17 - k)
    <3>1. Mirror(i) = 2 * b + 17 - i
      BY DEF Mirror
    <3>2. b \in Int /\ i \in Int
      BY <1>2, <2>1
    <3> HIDE DEF b
    <3> QED
      BY <3>1, <3>2
  <2> HIDE DEF b
  <2>3. to \in Int /\ b <= to + 1 /\ to < N /\ to - b + 1 = 16 /\ k \in 1..16 /\ k \in Int /\ 17 - k \in 1..16
    BY <1>0, <1>2, <2>1
  <2> HIDE DEF to, k
  <2>4. s \in Seq(Byte) /\ Len(s) = to - b + 1 /\ \A j \in 1..(to - b + 1) : s[j] = body[b + j]
    BY <2>1, <2>3, SliceIs
  <2>5. s \in Seq(Byte) /\ Len(s) = 16 /\ \A j \in 1..16 : s[j] = body[b + j]
    BY <2>3, <2>4
  <2> HIDE DEF s
  <2>6. Cipher(way, key, s)[k] = Moved(way, key, s[17 - k], k) /\ s[17 - k] \in Byte
    <3>1. s[17 - k] \in Byte
      BY <2>3, <2>5, ElementOfSeq
    <3>2. k \in 1..16
      BY <2>3
    <3> HIDE DEF k, s
    <3>3. Cipher(way, key, s)[k] = Moved(way, key, s[17 - k], k)
      BY <3>1, <3>2, CipherIs
    <3> QED
      BY <3>1, <3>3
  <2>7. s[17 - k] = body[Mirror(i)]
    BY <2>2, <2>3, <2>5
  <2>8. res(i) = Cipher(way, key, s)[k]
    <3>1. ~(i <= 15) /\ ~(first(i) + 16 > N)
      BY <1>0, <1>4, <2>1
    <3> QED
      BY <2>1, <3>1 DEF s, to, k
  <2> HIDE DEF res
  <2>9. res(i) = Moved(way, key, body[Mirror(i)], k) /\ body[Mirror(i)] \in Byte
    BY <2>6, <2>7, <2>8
  <2>10. res(i) \in Byte
    <3>1. k \in Int /\ body[Mirror(i)] \in Byte
      BY <2>3, <2>9
    <3>2. Moved(way, key, body[Mirror(i)], k) \in Byte
      BY <3>1, MovedIs
    <3> QED
      BY <2>9, <3>2
  <2> QED
    BY <2>9, <2>10 DEF k, b
<1> HIDE DEF res
<1>5. \A i \in 1..N : res(i) \in Byte
  <2>1. \A i \in 1..N : i <= 15 \/ i > 15
    BY <1>0
  <2> QED
    BY <1>3, <1>4, <2>1
<1>6. out \in Seq(Byte) /\ Len(out) = N /\ \A i \in 1..N : out[i] = res(i)
  BY <1>0, <1>5
<1> HIDE DEF out, N
<1>7. /\ out \in Seq(Byte) /\ Len(out) = N
      /\ \A i \in 1..N : i <= 15 => out[i] = body[i]
      /\ \A i \in 1..N : i > 15 => out[i] = Moved(way, key, body[Mirror(i)], i - Start(i))
  BY <1>3, <1>4, <1>6
<1> QED
  BY <1>1, <1>7 DEF N

\* Decryption with the same key is the inverse of encryption.
LEMMA DecryptInverts ==
  ASSUME NEW key \in Nat, NEW body \in Seq(Byte), Len(body) >= 15, Tail16(body) % AES_BLOCK = 0
  PROVE  OnBlocks("decrypt", key, OnBlocks("encrypt", key, body)) = body
<1> DEFINE N == Len(body)
           e == OnBlocks("encrypt", key, body)
           d == OnBlocks("decrypt", key, e)
<1>0. N \in Nat /\ (N - 15) % 16 = 0
  BY DEF Tail16, STRUCT_ENCRYPT_OFFSET, AES_BLOCK
<1>1. /\ e \in Seq(Byte) /\ Len(e) = Len(body)
      /\ \A i \in 1..Len(body) : i <= 15 => e[i] = body[i]
      /\ \A i \in 1..Len(body) : i > 15 => e[i] = Moved("encrypt", key, body[Mirror(i)], i - Start(i))
  BY BlocksAre
<1> HIDE DEF e
<1>2. Len(e) >= 15 /\ Tail16(e) % AES_BLOCK = 0
  BY <1>1 DEF Tail16
<1>3. /\ d \in Seq(Byte) /\ Len(d) = Len(e)
      /\ \A i \in 1..Len(e) : i <= 15 => d[i] = e[i]
      /\ \A i \in 1..Len(e) : i > 15 => d[i] = Moved("decrypt", key, e[Mirror(i)], i - Start(i))
  BY <1>1, <1>2, BlocksAre
<1> HIDE DEF d
<1>4. ASSUME NEW i \in 1..N PROVE d[i] = body[i]
  <2>0. i \in Nat /\ i <= N /\ (i <= 15 \/ i > 15)
    BY <1>0
  <2>1. CASE i <= 15
    BY <1>1, <1>3, <2>1
  <2>2. CASE i > 15
    <3> DEFINE j == Mirror(i)
               k == i - Start(i)
    <3>1. /\ j \in 1..N /\ j > 15 /\ Start(j) = Start(i) /\ Mirror(j) = i
          /\ j - Start(i) = 17 - k
      BY <1>0, <2>0, <2>2, MirrorIs
    <3>2. d[i] = Moved("decrypt", key, e[j], k)
      BY <1>1, <1>3, <2>2
    <3>s. k \in Int
      BY <2>0, <2>2, StartIs
    <3> HIDE DEF j, k
    <3>3. e[j] = Moved("encrypt", key, body[i], 17 - k)
      BY <1>1, <3>1
    <3>4. body[i] \in Byte
      BY <2>0, ElementOfSeq
    <3>5. Moved("decrypt", key, Moved("encrypt", key, body[i], 17 - k), k) = body[i]
      BY <3>4, <3>s, MovedIs
    <3> QED
      BY <3>2, <3>3, <3>5
  <2> QED
    BY <2>0, <2>1, <2>2
<1>5. Len(d) = Len(body)
  BY <1>1, <1>3
<1> QED
  BY <1>3, <1>4, <1>5, SeqEqual DEF d, e

\* A byte changed in what is not encrypted is all that changes in what is decrypted.
LEMMA DecryptKeeps ==
  ASSUME NEW key \in Nat, NEW a \in Seq(Byte), NEW b \in Seq(Byte), Len(a) = Len(b),
         Len(a) >= 15, Tail16(a) % AES_BLOCK = 0, NEW k \in Int, 1 <= k, k <= 15,
         SameButAt(a, b, k)
  PROVE  /\ OnBlocks("decrypt", key, a) \in Seq(Byte) /\ Len(OnBlocks("decrypt", key, a)) = Len(a)
         /\ OnBlocks("decrypt", key, a)[k] = a[k] /\ OnBlocks("decrypt", key, b)[k] = b[k]
         /\ SameButAt(OnBlocks("decrypt", key, a), OnBlocks("decrypt", key, b), k)
<1> DEFINE N == Len(a)
           c == OnBlocks("decrypt", key, a)
           d == OnBlocks("decrypt", key, b)
<1>s. \A i \in 1..N : i # k => a[i] = b[i]
  BY DEF SameButAt
<1>0. N \in Nat /\ (N - 15) % 16 = 0
  BY DEF Tail16, STRUCT_ENCRYPT_OFFSET, AES_BLOCK
<1>1. /\ c \in Seq(Byte) /\ Len(c) = N
      /\ \A i \in 1..N : i <= 15 => c[i] = a[i]
      /\ \A i \in 1..N : i > 15 => c[i] = Moved("decrypt", key, a[Mirror(i)], i - Start(i))
  BY BlocksAre
<1>2. Len(b) = N /\ Len(b) >= 15 /\ Tail16(b) % AES_BLOCK = 0
  BY DEF Tail16
<1>3. /\ d \in Seq(Byte) /\ Len(d) = N
      /\ \A i \in 1..N : i <= 15 => d[i] = b[i]
      /\ \A i \in 1..N : i > 15 => d[i] = Moved("decrypt", key, b[Mirror(i)], i - Start(i))
  <2>1. b \in Seq(Byte) /\ Len(b) >= 15 /\ Tail16(b) % AES_BLOCK = 0
    BY <1>2
  <2>2. /\ d \in Seq(Byte) /\ Len(d) = Len(b)
        /\ \A i \in 1..Len(b) : i <= 15 => d[i] = b[i]
        /\ \A i \in 1..Len(b) : i > 15 => d[i] = Moved("decrypt", key, b[Mirror(i)], i - Start(i))
    BY <2>1, BlocksAre
  <2> HIDE DEF d
  <2> QED
    BY <1>2, <2>2
<1> HIDE DEF c, d
<1>4. ASSUME NEW i \in 1..N, i # k PROVE c[i] = d[i]
  <2>0. i \in Nat /\ i <= N /\ (i <= 15 \/ i > 15)
    BY <1>0
  <2>1. CASE i <= 15
    BY <1>s, <1>1, <1>3, <1>4, <2>1
  <2>2. CASE i > 15
    <3>1. Mirror(i) \in 1..N /\ Mirror(i) > 15
      BY <1>0, <2>0, <2>2, MirrorIs
    <3>2. Mirror(i) # k
      BY <3>1
    <3>3. a[Mirror(i)] = b[Mirror(i)]
      BY <1>s, <3>1, <3>2
    <3> QED
      BY <1>1, <1>3, <2>2, <3>3
  <2> QED
    BY <2>0, <2>1, <2>2
<1>5. c[k] = a[k] /\ d[k] = b[k]
  <2>1. k \in 1..N /\ k <= 15
    BY <1>0
  <2> QED
    BY <1>1, <1>3, <2>1
<1>6. SameButAt(c, d, k)
  BY <1>1, <1>4 DEF SameButAt
<1> QED
  BY <1>1, <1>5, <1>6 DEF c, d

-----------------------------------------------------------------------------
(* What is on the wire. *)

\* The flags of a frame and the bit that says it is encrypted.
LEMMA FlagIs ==
  ASSUME NEW x \in Byte, NEW on \in BOOLEAN
  PROVE  /\ Flag(x, on) \in Byte /\ (IsEncrypted(Flag(x, on)) <=> on)
         /\ Flag(Flag(x, on), FALSE) = Flag(x, FALSE)
<1>1. x \in Int /\ 0 <= x /\ x <= 255
  BY ByteIs
<1> DEFINE h == x \div 2
           l == x % 2
<1>2. h \in Int /\ l \in {0, 1} /\ x = 2 * h + l /\ 0 <= h /\ h <= 127
  BY <1>1, Z3
<1> HIDE DEF h
<1>3. x - l = 2 * h
  BY <1>2
<1> DEFINE b == IF on THEN 1 ELSE 0
           y == 2 * h + b
<1>4. Flag(x, on) = y
  BY <1>3 DEF Flag
<1>5. y % 2 = b /\ y \in Int /\ 0 <= y /\ y <= 255 /\ y - b = 2 * h
  <2>1. (2 * h) % 2 = 0 /\ (2 * h + 1) % 2 = 1
    BY <1>2, Z3
  <2>2. CASE on
    BY <1>2, <2>1, <2>2
  <2>3. CASE ~on
    BY <1>2, <2>1, <2>3
  <2> QED
    BY <2>2, <2>3
<1>6. Flag(y, FALSE) = 2 * h /\ Flag(x, FALSE) = 2 * h
  BY <1>2, <1>3, <1>5 DEF Flag
<1>7. b = 1 <=> on
  OBVIOUS
<1> HIDE DEF y, b
<1> QED
  BY <1>4, <1>5, <1>6, <1>7, ByteIs DEF IsEncrypted

\* What is before the padding stays there, and the padding makes the blocks whole.
LEMMA PaddingIs ==
  ASSUME NEW b \in Seq(Byte), Len(b) >= 15
  PROVE  /\ Begins(b, b \o Padding(b))
         /\ Tail16(b \o Padding(b)) % AES_BLOCK = 0
<1> DEFINE n == (-Tail16(b)) % AES_BLOCK
           pad == Padding(b)
<1>1. Len(b) \in Nat
  OBVIOUS
<1>2. n \in Nat /\ ((Len(b) + n) - 15) % 16 = 0
  <2>1. n = (0 - (Len(b) - 15)) % 16
    BY <1>1 DEF Tail16, STRUCT_ENCRYPT_OFFSET, AES_BLOCK
  <2>2. ASSUME NEW x \in Int PROVE (0 - (x - 15)) % 16 \in Nat /\ ((x + ((0 - (x - 15)) % 16)) - 15) % 16 = 0
    BY Z3
  <2> QED
    BY <1>1, <2>1, <2>2
<1>3. pad = [i \in 1..n |-> 0]
  BY DEF Padding
<1> HIDE DEF n, pad
<1>4. pad \in Seq(Byte) /\ Len(pad) = n
  <2>1. 0 \in Byte
    BY ByteIs
  <2> QED
    BY <1>2, <1>3, <2>1
<1>5. Begins(b, b \o pad) /\ Len(b \o pad) = Len(b) + n
  BY <1>4, Extend
<1>6. Tail16(b \o pad) % AES_BLOCK = 0
  BY <1>2, <1>5 DEF Tail16, STRUCT_ENCRYPT_OFFSET, AES_BLOCK
<1> QED
  BY <1>5, <1>6 DEF pad

\* The body of a frame before and after it is encrypted, if there is a key.
Plain(f, key) ==
  LET body == Signed(f, Flag(f.flags, key # NoKey))
  IN  IF key = NoKey THEN body ELSE body \o Padding(body)
Sealed(f, key) == IF key = NoKey THEN Plain(f, key) ELSE OnBlocks("encrypt", key, Plain(f, key))

\* What is sealed has the clear header of what is plain, is as long, and is opened again
\* with the key.
LEMMA SealedIs ==
  ASSUME NEW f \in Frames, NEW key \in Keys \cup {NoKey}
  PROVE  /\ Encode(f, key) = U16(Len(Sealed(f, key))) \o Sealed(f, key)
         /\ Flag(f.flags, key # NoKey) \in Byte
         /\ Begins(Signed(f, Flag(f.flags, key # NoKey)), Plain(f, key))
         /\ key = NoKey => Plain(f, key) = Signed(f, Flag(f.flags, key # NoKey))
         /\ Sealed(f, key) \in Seq(Byte) /\ Plain(f, key) \in Seq(Byte)
         /\ Len(Sealed(f, key)) = Len(Plain(f, key)) /\ Len(Plain(f, key)) >= 21
         /\ \A i \in 1..15 : Sealed(f, key)[i] = Plain(f, key)[i]
         /\ Sealed(f, key)[3] = Flag(f.flags, key # NoKey)
         /\ key # NoKey => /\ Tail16(Sealed(f, key)) % AES_BLOCK = 0
                           /\ OnBlocks("decrypt", key, Sealed(f, key)) = Plain(f, key)
<1> DEFINE flags == Flag(f.flags, key # NoKey)
           h == Signed(f, flags)
           p == Plain(f, key)
           e == Sealed(f, key)
<1>1. flags \in Byte
  <2>1. f.flags \in Byte /\ (key # NoKey) \in BOOLEAN
    BY FrameTypes
  <2> QED
    BY <2>1, FlagIs
<1>2. h \in Seq(Byte) /\ h[3] = flags /\ Len(h) \in Nat /\ Len(h) >= 21
  <2>1. h \in Seq(Byte) /\ h[3] = flags /\ Len(h) = STRUCT_HEADER_LEN + Len(f.payload)
    BY <1>1, SignedIs
  <2>2. Len(f.payload) \in Nat
    BY FrameTypes
  <2> QED
    BY <2>1, <2>2 DEF STRUCT_HEADER_LEN
<1>3. p = IF key = NoKey THEN h ELSE h \o Padding(h)
  BY DEF Plain
<1>4. e = IF key = NoKey THEN p ELSE OnBlocks("encrypt", key, p)
  BY DEF Sealed
<1>5. Encode(f, key) = U16(Len(e)) \o e
  BY DEF Encode, Sealed, Plain, Signed
<1> HIDE DEF h, p, e
<1>6. Begins(h, p) /\ (key # NoKey => Tail16(p) % AES_BLOCK = 0)
  <2>1. CASE key = NoKey
    <3>1. Begins(h, h)
      BY <1>2 DEF Begins
    <3> QED
      BY <1>3, <2>1, <3>1
  <2>2. CASE key # NoKey
    <3>1. Len(h) >= 15
      BY <1>2
    <3>2. Begins(h, h \o Padding(h)) /\ Tail16(h \o Padding(h)) % AES_BLOCK = 0
      BY <1>2, <3>1, PaddingIs
    <3> QED
      BY <1>3, <2>2, <3>2
  <2> QED
    BY <2>1, <2>2
<1>7. p \in Seq(Byte) /\ Len(p) \in Nat /\ Len(p) >= 21 /\ Len(p) >= 15
  BY <1>2, <1>6 DEF Begins
<1>8. key # NoKey => key \in Nat
  BY CodecAssumption
<1>9. /\ e \in Seq(Byte) /\ Len(e) = Len(p) /\ \A i \in 1..15 : e[i] = p[i]
      /\ key # NoKey => Tail16(e) % AES_BLOCK = 0 /\ OnBlocks("decrypt", key, e) = p
  <2>1. CASE key = NoKey
    BY <1>4, <1>7, <2>1
  <2>2. CASE key # NoKey
    <3>1. key \in Nat /\ Tail16(p) % AES_BLOCK = 0 /\ e = OnBlocks("encrypt", key, p)
      BY <1>4, <1>6, <1>8, <2>2
    <3>2. /\ OnBlocks("encrypt", key, p) \in Seq(Byte) /\ Len(OnBlocks("encrypt", key, p)) = Len(p)
          /\ \A i \in 1..Len(p) : i <= 15 => OnBlocks("encrypt", key, p)[i] = p[i]
      <4>1. key \in Nat /\ p \in Seq(Byte) /\ Len(p) >= 15 /\ Tail16(p) % AES_BLOCK = 0
        BY <1>7, <3>1
      <4> QED
        BY <4>1, BlocksAre
    <3>3. OnBlocks("decrypt", key, OnBlocks("encrypt", key, p)) = p
      BY <1>7, <3>1, DecryptInverts
    <3>4. \A i \in 1..15 : i \in 1..Len(p) /\ i <= 15
      BY <1>7
    <3>5. Tail16(e) = Tail16(p)
      BY <3>1, <3>2 DEF Tail16
    <3> QED
      BY <3>1, <3>2, <3>3, <3>4, <3>5
  <2> QED
    BY <2>1, <2>2
<1>10. e[3] = flags
  <2>1. 3 \in 1..15 /\ 3 \in 1..Len(h)
    BY <1>2
  <2>2. p[3] = h[3]
    BY <1>6, <2>1 DEF Begins
  <2> QED
    BY <1>2, <1>9, <2>1, <2>2
<1>11. key = NoKey => p = h
  BY <1>3
<1> QED
  BY <1>1, <1>5, <1>6, <1>7, <1>9, <1>10, <1>11 DEF e, p, h

\* The body behind the length is what the decoder looks at.
LEMMA BodyBehind ==
  ASSUME NEW w \in Seq(Byte), Len(w) >= 2
  PROVE  LET body == SubSeq(w, PREFIX_LEN + 1, Len(w))
         IN  /\ body \in Seq(Byte) /\ Len(body) = Len(w) - 2
             /\ \A i \in 1..(Len(w) - 2) : body[i] = w[i + 2]
<1> DEFINE to == Len(w) - 1
           s == Slice(w, 2, to)
<1>1. 2 \in Nat /\ to \in Int /\ 2 <= to + 1 /\ to < Len(w) /\ to - 2 + 1 = Len(w) - 2 /\ to + 1 = Len(w)
  OBVIOUS
<1> HIDE DEF to
<1>2. /\ Slice(w, 2, to) \in Seq(Byte) /\ Len(Slice(w, 2, to)) = to - 2 + 1
      /\ \A i \in 1..(to - 2 + 1) : Slice(w, 2, to)[i] = w[2 + i]
  BY <1>1, SliceIs
<1>3. SubSeq(w, PREFIX_LEN + 1, Len(w)) = s
  BY <1>1 DEF Slice, PREFIX_LEN
<1> HIDE DEF s
<1>4. s \in Seq(Byte) /\ Len(s) = Len(w) - 2 /\ \A i \in 1..(Len(w) - 2) : s[i] = w[2 + i]
  BY <1>1, <1>2 DEF s
<1>5. ASSUME NEW i \in 1..(Len(w) - 2) PROVE s[i] = w[i + 2]
  <2>1. 2 + i = i + 2
    OBVIOUS
  <2> QED
    BY <1>4, <2>1
<1> QED
  BY <1>3, <1>4, <1>5

\* The wire, place by place: the length and the body.
LEMMA WireIs ==
  ASSUME NEW f \in Frames, NEW key \in Keys \cup {NoKey}
  PROVE  /\ Encode(f, key) \in Seq(Byte) /\ Len(Encode(f, key)) = Len(Sealed(f, key)) + 2
         /\ \A i \in 1..Len(Sealed(f, key)) : Encode(f, key)[i + 2] = Sealed(f, key)[i]
<1> DEFINE e == Sealed(f, key)
           u == U16(Len(e))
<1>1. e \in Seq(Byte) /\ Encode(f, key) = u \o e
  BY SealedIs
<1> HIDE DEF e
<1>2. u \in Seq(Byte) /\ Len(u) = 2
  <2>1. Len(e) % 256 \in Byte /\ (Len(e) \div 256) % 256 \in Byte
    <3>1. Len(e) \in Nat
      BY <1>1
    <3>2. Len(e) % 256 \in Byte /\ Len(e) \div 256 \in Nat
      BY <3>1, LowByte
    <3> QED
      BY <3>2, LowByte
  <2> QED
    BY <2>1 DEF U16
<1> HIDE DEF u
<1>3. /\ u \o e \in Seq(Byte) /\ Len(u \o e) = Len(u) + Len(e)
      /\ \A i \in 1..Len(e) : (u \o e)[Len(u) + i] = e[i]
  BY <1>1, <1>2, JoinIs
<1>4. Len(u \o e) = Len(e) + 2
  BY <1>1, <1>2, <1>3
<1>5. ASSUME NEW i \in 1..Len(e) PROVE (u \o e)[i + 2] = e[i]
  <2>1. Len(u) + i = i + 2
    BY <1>2
  <2> QED
    BY <1>3, <2>1
<1> QED
  BY <1>1, <1>3, <1>4, <1>5 DEF e

\* What arrives as it was sent is what was sent.
LEMMA DecodeSent ==
  ASSUME NEW f \in Frames, NEW key \in Keys \cup {NoKey}
  PROVE  Decode(Encode(f, key), key) = Sent(f, f.flags)
<1> DEFINE w == Encode(f, key)
           e == Sealed(f, key)
           p == Plain(f, key)
           flags == Flag(f.flags, key # NoKey)
           body == SubSeq(w, PREFIX_LEN + 1, Len(w))
<1>1. /\ w \in Seq(Byte) /\ Len(w) = Len(e) + 2
      /\ \A i \in 1..Len(e) : w[i + 2] = e[i]
  BY WireIs
<1>2. /\ flags \in Byte /\ Begins(Signed(f, flags), p)
      /\ key = NoKey => e = p
      /\ e \in Seq(Byte) /\ e[3] = flags
      /\ key # NoKey => Tail16(e) % AES_BLOCK = 0 /\ OnBlocks("decrypt", key, e) = p
  BY SealedIs DEF Sealed
<1>3. FrameOf(p) = Sent(f, flags)
  BY <1>2, FrameOfSigned
<1>4. f.flags \in Byte /\ (key # NoKey) \in BOOLEAN
  BY FrameTypes
<1>5. (IsEncrypted(flags) <=> key # NoKey) /\ Flag(flags, FALSE) = Flag(f.flags, FALSE)
  BY <1>4, FlagIs
<1>6. Sent(f, flags) = Sent(f, f.flags)
  BY <1>5 DEF Sent
<1> HIDE DEF w, e, p, flags
<1>7. body = e
  <2>1. Len(w) >= 2 /\ Len(w) - 2 = Len(e)
    BY <1>1, <1>2
  <2>2. /\ body \in Seq(Byte) /\ Len(body) = Len(w) - 2
        /\ \A i \in 1..(Len(w) - 2) : body[i] = w[i + 2]
    BY <1>1, <2>1, BodyBehind
  <2> HIDE DEF body
  <2>3. Len(body) = Len(e) /\ \A i \in 1..Len(e) : body[i] = e[i]
    BY <1>1, <2>1, <2>2
  <2> QED
    BY <1>2, <2>2, <2>3, SeqEqual
<1>8. Decode(w, key) = IF ~IsEncrypted(At(body, 2)) THEN FrameOf(body)
                       ELSE IF key = NoKey THEN KeyError
                       ELSE IF Tail16(body) % AES_BLOCK # 0 THEN Invalid
                       ELSE FrameOf(OnBlocks("decrypt", key, body))
  BY DEF Decode
<1> HIDE DEF body
<1>9. At(body, 2) = flags
  BY <1>2, <1>7 DEF At
<1>10. Decode(w, key) = FrameOf(p)
  <2>1. CASE key = NoKey
    BY <1>2, <1>5, <1>7, <1>8, <1>9, <2>1
  <2>2. CASE key # NoKey
    BY <1>2, <1>5, <1>7, <1>8, <1>9, <2>2
  <2> QED
    BY <2>1, <2>2
<1> QED
  BY <1>3, <1>6, <1>10 DEF w

\* One byte of a sequence changed.
LEMMA Changed ==
  ASSUME NEW s \in Seq(Byte), NEW g \in 1..Len(s), NEW v \in Byte
  PROVE  /\ [s EXCEPT ![g] = v] \in Seq(Byte) /\ Len([s EXCEPT ![g] = v]) = Len(s)
         /\ [s EXCEPT ![g] = v][g] = v
         /\ \A i \in 1..Len(s) : i # g => [s EXCEPT ![g] = v][i] = s[i]
  BY ExceptSeq

\* The payload length, before and behind the length of the body.
LEMMA LengthIsAt ==
  ASSUME NEW w \in Seq(Byte), NEW body \in Seq(Byte), Len(w) = Len(body) + 2, Len(body) >= 21,
         \A i \in 1..Len(body) : body[i] = w[i + 2]
  PROVE  SubSeq(w, 22, 23) = Slice(body, 19, 20)
<1> DEFINE o == 21
           l == 19
<1>1. o \in Nat /\ o + 2 <= Len(w) /\ l \in Nat /\ l + 2 <= Len(body)
  OBVIOUS
<1>2. o + 1 = 22 /\ o + 2 = 23 /\ l + 1 = 20 /\ l + 2 = 21
  OBVIOUS
<1>3. SubSeq(w, 22, 23) = Slice(w, o, o + 1)
  BY DEF Slice
<1>4. body[20] = w[22] /\ body[21] = w[23]
  <2>1. 20 \in 1..Len(body) /\ 21 \in 1..Len(body) /\ 20 + 2 = 22 /\ 21 + 2 = 23
    OBVIOUS
  <2>2. body[20] = w[20 + 2] /\ body[21] = w[21 + 2]
    BY <2>1
  <2> QED
    BY <2>1, <2>2
<1>5. Slice(body, l, l + 1) = Slice(body, 19, 20)
  OBVIOUS
<1> HIDE DEF o, l
<1>6. Slice(w, o, o + 1) = <<w[o + 1], w[o + 2]>>
  BY <1>1, ReadsAre
<1>7. Slice(body, l, l + 1) = <<body[l + 1], body[l + 2]>>
  BY <1>1, ReadsAre
<1> QED
  BY <1>2, <1>3, <1>4, <1>5, <1>6, <1>7

\* What arrives with one byte changed is not taken, if the decoder reads that byte as it is.
LEMMA DecodeGarbled ==
  ASSUME NEW f \in Frames, NEW key \in Keys \cup {NoKey},
         NEW g \in 3..Len(Encode(f, key)), NEW v \in Byte, v # Encode(f, key)[g],
         NEW w, w = [Encode(f, key) EXCEPT ![g] = v],
         key = NoKey \/ g \in 6..17,
         g \in {22, 23} => ~(FromU16(SubSeq(w, 22, 23)) < Len(f.payload))
  PROVE  Decode(w, key) \in {Invalid, KeyError}
<1> DEFINE sent_w == Encode(f, key)
           e == Sealed(f, key)
           p == Plain(f, key)
           flags == Flag(f.flags, key # NoKey)
           h == Signed(f, flags)
           body == SubSeq(w, PREFIX_LEN + 1, Len(w))
           k == g - 2
<1>1. /\ sent_w \in Seq(Byte) /\ Len(sent_w) = Len(e) + 2
      /\ \A i \in 1..Len(e) : sent_w[i + 2] = e[i]
  BY WireIs
<1>2. /\ flags \in Byte /\ Begins(h, p)
      /\ key = NoKey => e = p /\ p = h
      /\ e \in Seq(Byte) /\ e[3] = flags /\ Len(e) = Len(p) /\ Len(e) >= 21
      /\ key # NoKey => Tail16(e) % AES_BLOCK = 0 /\ OnBlocks("decrypt", key, e) = p
  BY SealedIs DEF Sealed
<1>3. /\ h \in Seq(Byte) /\ p \in Seq(Byte) /\ Len(h) <= Len(p) /\ Len(h) >= 21
  <2>1. h \in Seq(Byte) /\ Len(h) = STRUCT_HEADER_LEN + Len(f.payload)
    BY <1>2, SignedIs
  <2>2. Len(f.payload) \in Nat
    BY FrameTypes
  <2> HIDE DEF h
  <2>3. Len(h) >= 21
    BY <2>1, <2>2 DEF STRUCT_HEADER_LEN
  <2> QED
    BY <1>2, <2>1, <2>3 DEF Begins
<1>4. f.flags \in Byte /\ (key # NoKey) \in BOOLEAN
  BY FrameTypes
<1>5. IsEncrypted(flags) <=> key # NoKey
  BY <1>4, FlagIs
<1>g. /\ g \in Int /\ 3 <= g /\ g <= Len(sent_w) /\ w = [sent_w EXCEPT ![g] = v] /\ v # sent_w[g]
      /\ key = NoKey \/ (6 <= g /\ g <= 17)
  <2>1. Len(sent_w) \in Nat
    BY <1>1
  <2> QED
    BY <2>1
<1>l. g \in {22, 23} => ~(FromU16(SubSeq(w, 22, 23)) < Len(f.payload))
  OBVIOUS
<1> HIDE DEF sent_w, e, p, flags, h
<1>6. w \in Seq(Byte) /\ Len(w) = Len(sent_w) /\ w[g] = v /\ \A i \in 1..Len(sent_w) : i # g => w[i] = sent_w[i]
  <2>1. g \in 1..Len(sent_w)
    BY <1>1, <1>g
  <2> DEFINE x == [sent_w EXCEPT ![g] = v]
  <2>2. /\ x \in Seq(Byte) /\ Len(x) = Len(sent_w) /\ x[g] = v
        /\ \A i \in 1..Len(sent_w) : i # g => x[i] = sent_w[i]
    BY <1>1, <2>1, Changed
  <2>3. w = x
    BY <1>g
  <2> HIDE DEF x
  <2> QED
    BY <2>2, <2>3
<1>7. /\ body \in Seq(Byte) /\ Len(body) = Len(e) /\ k \in 1..Len(e) /\ body[k] # e[k]
      /\ \A i \in 1..Len(e) : body[i] = w[i + 2]
      /\ \A i \in 1..Len(e) : i # k => body[i] = e[i]
  <2>1. Len(w) >= 2 /\ Len(w) - 2 = Len(e) /\ Len(e) \in Nat
    BY <1>1, <1>2, <1>6
  <2>2. /\ body \in Seq(Byte) /\ Len(body) = Len(w) - 2
        /\ \A i \in 1..(Len(w) - 2) : body[i] = w[i + 2]
    BY <1>6, <2>1, BodyBehind
  <2> HIDE DEF body
  <2>3. k \in 1..Len(e) /\ k + 2 = g
    BY <1>1, <1>g, <2>1
  <2>4. body[k] # e[k]
    <3>1. body[k] = w[g] /\ e[k] = sent_w[g]
      BY <1>1, <2>1, <2>2, <2>3
    <3> QED
      BY <1>g, <1>6, <3>1
  <2>5. ASSUME NEW i \in 1..Len(e), i # k PROVE body[i] = e[i]
    <3>1. i + 2 \in 1..Len(sent_w) /\ i + 2 # g
      BY <1>1, <1>g, <2>1, <2>5
    <3> QED
      BY <1>1, <1>6, <2>1, <2>2, <3>1
  <2> QED
    BY <2>1, <2>2, <2>3, <2>4, <2>5
<1>8. Decode(w, key) = IF ~IsEncrypted(At(body, 2)) THEN FrameOf(body)
                       ELSE IF key = NoKey THEN KeyError
                       ELSE IF Tail16(body) % AES_BLOCK # 0 THEN Invalid
                       ELSE FrameOf(OnBlocks("decrypt", key, body))
  BY DEF Decode
<1> HIDE DEF body
<1>b. SubSeq(w, 22, 23) = Slice(body, 19, 20)
  <2>1. Len(e) = Len(w) - 2 /\ Len(e) \in Nat
    BY <1>1, <1>2, <1>6
  <2>2. /\ w \in Seq(Byte) /\ body \in Seq(Byte) /\ Len(w) = Len(body) + 2 /\ Len(body) >= 21
        /\ \A i \in 1..Len(body) : body[i] = w[i + 2]
    BY <1>2, <1>6, <1>7, <2>1
  <2> QED
    BY <2>2, LengthIsAt
<1>9. CASE key = NoKey
  <2>1. e = p /\ p = h
    BY <1>2, <1>9
  <2>2. (k # 20 /\ k # 21) \/ NotLess(f, flags, p, body)
    <3>1. k \in {20, 21} => g \in {22, 23}
      BY <1>g
    <3> HIDE DEF k
    <3> QED
      BY <1>b, <1>l, <2>1, <3>1 DEF NotLess, h
  <2> HIDE DEF k
  <2>3. FrameOf(body) = Invalid
    <3>1. /\ Begins(h, p) /\ body \in Seq(Byte) /\ Len(body) = Len(p)
          /\ k \in 1..Len(h) /\ body[k] # p[k] /\ SameButAt(body, p, k)
      BY <1>2, <1>7, <2>1 DEF SameButAt
    <3> QED
      BY <1>2, <2>2, <3>1, GarbledFrame DEF h
  <2> QED
    BY <1>8, <1>9, <2>3
<1>10. CASE key # NoKey
  <2>1. k # 3 /\ k \in 1..15 /\ k \in 1..Len(h) /\ k \notin {20, 21}
    BY <1>3, <1>g, <1>10
  <2> DEFINE c == OnBlocks("decrypt", key, body)
  <2>2. key \in Nat
    BY <1>10, CodecAssumption
  <2>3. Tail16(body) % AES_BLOCK = 0 /\ Tail16(e) % AES_BLOCK = 0 /\ OnBlocks("decrypt", key, e) = p
    BY <1>2, <1>7, <1>10 DEF Tail16
  <2>4. Len(body) >= 15 /\ Len(e) \in Nat
    BY <1>2, <1>7
  <2> HIDE DEF k
  <2>5. SameButAt(body, e, k)
    BY <1>7 DEF SameButAt
  <2>6. /\ c \in Seq(Byte) /\ Len(c) = Len(body)
        /\ c[k] = body[k] /\ OnBlocks("decrypt", key, e)[k] = e[k]
        /\ SameButAt(c, OnBlocks("decrypt", key, e), k)
    <3>1. body \in Seq(Byte) /\ e \in Seq(Byte) /\ Len(body) = Len(e)
      BY <1>2, <1>7
    <3>2. k \in Int /\ 1 <= k /\ k <= 15
      BY <2>1
    <3> QED
      BY <2>2, <2>3, <2>4, <2>5, <3>1, <3>2, DecryptKeeps
  <2> HIDE DEF c
  <2>7. Len(c) = Len(p) /\ c[k] # p[k] /\ SameButAt(c, p, k)
    BY <1>2, <1>7, <2>3, <2>6
  <2>8. FrameOf(c) = Invalid
    <3>1. Begins(h, p) /\ k \in 1..Len(h) /\ (k # 20 /\ k # 21)
      BY <1>2, <2>1
    <3> QED
      BY <1>2, <2>6, <2>7, <3>1, GarbledFrame DEF h
  <2>9. At(body, 2) = flags
    <3>1. 3 \in 1..Len(e) /\ 3 # k
      BY <1>2, <2>1
    <3> QED
      BY <1>2, <1>7, <3>1 DEF At
  <2> QED
    BY <1>5, <1>8, <1>10, <2>3, <2>8, <2>9 DEF c
<1> QED
  BY <1>9, <1>10

-----------------------------------------------------------------------------
(* The behaviours. *)

\* A frame is on the wire as it was encoded, or with one byte changed, and what was
\* decoded is what the wire says with some key.
FrameSent ==
  /\ sent.kind = "frame" /\ sent.frame \in Frames /\ sent.key \in Keys \cup {NoKey}
  /\ LET w == Encode(sent.frame, sent.key)
     IN  \/ garbled = 0 /\ wire = w
         \/ /\ garbled \in 3..Len(w)
            /\ \E by \in Garbles : wire = [w EXCEPT ![garbled] = (@ + by) % 256]
  /\ \/ result = Nothing
     \/ \E k \in Keys \cup {NoKey} : result = [key |-> k, value |-> Decode(wire, k)]

\* An event is on the wire as it was written.
EventSent ==
  /\ sent.kind = "event" /\ wire \in Events
  /\ result = Nothing \/ result = [key |-> NoKey, value |-> ParseEvent(wire)]

CodecInv == FrameSent \/ EventSent

\* What is sent first is encoded.
LEMMA InvStarts == Init => CodecInv
<1> SUFFICES ASSUME Init PROVE CodecInv
  OBVIOUS
<1>1. garbled = 0 /\ result = Nothing
  BY DEF Init
<1>2. CASE \E f \in Frames, k \in Keys \cup {NoKey} :
             sent = [kind |-> "frame", frame |-> f, key |-> k] /\ wire = Encode(f, k)
  <2>1. PICK f \in Frames, k \in Keys \cup {NoKey} :
           sent = [kind |-> "frame", frame |-> f, key |-> k] /\ wire = Encode(f, k)
    BY <1>2
  <2>2. sent.kind = "frame" /\ sent.frame = f /\ sent.key = k
    BY <2>1
  <2>3. wire = Encode(sent.frame, sent.key)
    BY <2>1, <2>2
  <2> QED
    BY <1>1, <2>2, <2>3 DEF CodecInv, FrameSent
<1>3. CASE \E text \in Events : sent = [kind |-> "event", text |-> text] /\ wire = text
  <2>1. PICK text \in Events : sent = [kind |-> "event", text |-> text] /\ wire = text
    BY <1>3
  <2>2. sent.kind = "event"
    BY <2>1
  <2> QED
    BY <1>1, <2>1, <2>2 DEF CodecInv, EventSent
<1> QED
  BY <1>2, <1>3 DEF Init

\* No step changes more than one byte of what was encoded, or decodes anything else.
LEMMA InvStays == CodecInv /\ [Next]_vars => CodecInv'
<1> SUFFICES ASSUME CodecInv, [Next]_vars PROVE CodecInv'
  OBVIOUS
<1>1. ASSUME NEW i \in DOMAIN wire, NEW by \in Garbles, Garble(i, by)
      PROVE  CodecInv'
  <2>1. /\ sent.kind = "frame" /\ garbled = 0 /\ result = Nothing /\ i > 2
        /\ wire' = [wire EXCEPT ![i] = (@ + by) % 256] /\ garbled' = i
        /\ sent' = sent /\ result' = result
    BY <1>1 DEF Garble, PREFIX_LEN
  <2>2. FrameSent
    BY <2>1 DEF CodecInv, EventSent
  <2> DEFINE w == Encode(sent.frame, sent.key)
  <2>3. sent.frame \in Frames /\ sent.key \in Keys \cup {NoKey}
    BY <2>2 DEF FrameSent
  <2>4. w \in Seq(Byte)
    BY <2>3, WireIs
  <2>5. wire = w
    <3>1. 0 \notin 3..Len(w)
      BY <2>4
    <3> QED
      BY <2>1, <2>2, <3>1 DEF FrameSent
  <2>6. i \in 3..Len(w)
    BY <2>1, <2>4, <2>5
  <2>7. garbled' \in 3..Len(w) /\ wire' = [w EXCEPT ![garbled'] = (@ + by) % 256]
    BY <2>1, <2>5, <2>6
  <2>8. Encode(sent'.frame, sent'.key) = w
    BY <2>1
  <2> HIDE DEF w
  <2>9. /\ sent'.kind = "frame" /\ sent'.frame \in Frames /\ sent'.key \in Keys \cup {NoKey}
        /\ result' = Nothing
    BY <2>1, <2>3
  <2>10. \E b \in Garbles : wire' = [w EXCEPT ![garbled'] = (@ + b) % 256]
    BY <2>7
  <2>a. garbled' \in 3..Len(w)
    BY <2>7
  <2>11. FrameSent'
    BY <2>8, <2>9, <2>10, <2>a DEF FrameSent
  <2> QED
    BY <2>11 DEF CodecInv
<1>2. ASSUME NEW k \in Keys \cup {NoKey}, ReceiveFrame(k)
      PROVE  CodecInv'
  <2>1. /\ sent.kind = "frame" /\ result' = [key |-> k, value |-> Decode(wire, k)]
        /\ sent' = sent /\ wire' = wire /\ garbled' = garbled
    BY <1>2 DEF ReceiveFrame
  <2>2. FrameSent
    BY <2>1 DEF CodecInv, EventSent
  <2>3. result' = [key |-> k, value |-> Decode(wire', k)]
    BY <2>1
  <2> QED
    BY <2>1, <2>2, <2>3 DEF CodecInv, FrameSent
<1>3. ASSUME ReceiveEvent
      PROVE  CodecInv'
  <2>1. /\ sent.kind = "event" /\ result' = [key |-> NoKey, value |-> ParseEvent(wire)]
        /\ sent' = sent /\ wire' = wire /\ garbled' = garbled
    BY <1>3 DEF ReceiveEvent
  <2>2. EventSent
    BY <2>1 DEF CodecInv, FrameSent
  <2> QED
    BY <2>1, <2>2 DEF CodecInv, EventSent
<1>4. ASSUME UNCHANGED vars
      PROVE  CodecInv'
  BY <1>4 DEF vars, CodecInv, FrameSent, EventSent
<1> QED
  BY <1>1, <1>2, <1>3, <1>4 DEF Next

\* The wire only ever has what was encoded, or that with one byte changed.
THEOREM WireHolds == Spec => []CodecInv
  BY InvStarts, InvStays, PTL DEF Spec

\* What a decoder says of a frame is the frame but for the flag.
LEMMA SentIs ==
  ASSUME NEW f \in Frames
  PROVE  Sent(f, f.flags) = [f EXCEPT !.flags = Flag(@, FALSE)]
<1> DEFINE names == {"flags", "sequence", "src_id", "dst_id", "major", "minor", "payload"}
           g == [f EXCEPT !.flags = Flag(@, FALSE)]
<1>1. DOMAIN f = names
  BY CodecAssumption
<1>2. g = [x \in names |-> IF x = "flags" THEN Flag(f.flags, FALSE) ELSE f[x]]
  BY <1>1
<1> DEFINE z == Flag(f.flags, FALSE)
<1>3. Sent(f, f.flags) =
        [flags |-> z, sequence |-> f.sequence, src_id |-> f.src_id, dst_id |-> f.dst_id,
         major |-> f.major, minor |-> f.minor, payload |-> f.payload]
  BY DEF Sent
<1>4. g = [x \in names |-> IF x = "flags" THEN z ELSE f[x]]
  BY <1>2
<1> HIDE DEF z, g
<1>5. [flags |-> z, sequence |-> f.sequence, src_id |-> f.src_id, dst_id |-> f.dst_id,
       major |-> f.major, minor |-> f.minor, payload |-> f.payload]
        = [x \in names |-> IF x = "flags" THEN z ELSE f[x]]
  OBVIOUS
<1> QED
  BY <1>3, <1>4, <1>5 DEF g

\* A frame that was not changed is decoded to what was sent, with its payload, for any
\* frame and any key.
THEOREM RoundTrips == Spec => []RoundTrip
<1>1. CodecInv => RoundTrip
  <2> SUFFICES ASSUME CodecInv, Received("frame"), garbled = 0, result.key = sent.key
               PROVE  result.value = [sent.frame EXCEPT !.flags = Flag(@, FALSE)]
    BY DEF RoundTrip
  <2>1. sent.kind = "frame" /\ result # Nothing
    BY DEF Received
  <2>2. FrameSent
    BY <2>1 DEF CodecInv, EventSent
  <2>3. sent.frame \in Frames /\ sent.key \in Keys \cup {NoKey}
    BY <2>2 DEF FrameSent
  <2> DEFINE w == Encode(sent.frame, sent.key)
  <2>4. w \in Seq(Byte)
    BY <2>3, WireIs
  <2>5. wire = w
    <3>1. 0 \notin 3..Len(w)
      BY <2>4
    <3> QED
      BY <2>2, <3>1 DEF FrameSent
  <2>6. result.value = Decode(wire, sent.key)
    BY <2>1, <2>2 DEF FrameSent
  <2>7. result.value = Sent(sent.frame, sent.frame.flags)
    BY <2>3, <2>5, <2>6, DecodeSent
  <2> QED
    BY <2>3, <2>7, SentIs
<1> QED
  BY <1>1, WireHolds, PTL

\* A frame with any one byte changed in what is not encrypted is not taken, for any
\* frame, key and change.
THEOREM GarbledRejected == Spec => []GarbledIsRejected
<1>1. CodecInv => GarbledIsRejected
  <2> SUFFICES ASSUME CodecInv, Received("frame"), garbled # 0, result.key = sent.key,
                      sent.key = NoKey \/ garbled \in 6..(PREFIX_LEN + STRUCT_ENCRYPT_OFFSET),
                      ~ClaimsLess
               PROVE  ~Accepted
    BY DEF GarbledIsRejected
  <2>1. sent.kind = "frame" /\ result # Nothing
    BY DEF Received
  <2>2. FrameSent
    BY <2>1 DEF CodecInv, EventSent
  <2>3. sent.frame \in Frames /\ sent.key \in Keys \cup {NoKey}
    BY <2>2 DEF FrameSent
  <2> DEFINE w == Encode(sent.frame, sent.key)
             f == sent.frame
             k == sent.key
  <2>4. w \in Seq(Byte)
    BY <2>3, WireIs
  <2>5. PICK by \in Garbles : garbled \in 3..Len(w) /\ wire = [w EXCEPT ![garbled] = (@ + by) % 256]
    BY <2>2 DEF FrameSent
  <2> DEFINE v == (w[garbled] + by) % 256
  <2>6. v \in Byte /\ v # w[garbled]
    <3>1. w[garbled] \in Byte /\ by \in Byte /\ by # 0
      BY <2>4, <2>5, ElementOfSeq, CodecAssumption
    <3> DEFINE x == w[garbled]
    <3>2. x \in Int /\ 0 <= x /\ x <= 255 /\ by \in Int /\ 1 <= by /\ by <= 255
      BY <3>1, ByteIs
    <3> HIDE DEF x
    <3>3. (x + by) % 256 \in Int /\ 0 <= (x + by) % 256 /\ (x + by) % 256 <= 255 /\ (x + by) % 256 # x
      BY <3>2, Z3
    <3> QED
      BY <3>3, ByteIs DEF x
  <2>7. wire = [w EXCEPT ![garbled] = v]
    BY <2>5
  <2>8. k = NoKey \/ garbled \in 6..17
    BY DEF PREFIX_LEN, STRUCT_ENCRYPT_OFFSET
  <2>9. garbled \in {22, 23} => ~(FromU16(SubSeq(wire, 22, 23)) < Len(f.payload))
    BY DEF ClaimsLess
  <2>10. result.value = Decode(wire, k)
    BY <2>1, <2>2 DEF FrameSent
  <2> HIDE DEF v
  <2>11. Decode(wire, k) \in {Invalid, KeyError}
    <3>1. garbled \in 3..Len(w)
      BY <2>5
    <3>2. f \in Frames /\ k \in Keys \cup {NoKey}
      BY <2>3
    <3> QED
      BY <2>6, <2>7, <2>8, <2>9, <3>1, <3>2, DecodeGarbled
  <2>12. "error" \in DOMAIN Invalid /\ "error" \in DOMAIN KeyError
    BY DEF Invalid, KeyError
  <2>13. result.value = Invalid \/ result.value = KeyError
    BY <2>10, <2>11
  <2> QED
    BY <2>12, <2>13 DEF Accepted
<1> QED
  BY <1>1, WireHolds, PTL

\* What is taken of an event is its text: four fields, a description with the bars it
\* has, and two more.
LEMMA EventIs ==
  ASSUME NEW text \in Seq(STRING), Len(text) >= 7
  PROVE  text = <<text[1], text[2], text[3], text[4]>> \o SubSeq(text, 5, Len(text) - 2)
                \o SubSeq(text, Len(text) - 1, Len(text))
<1> DEFINE n == Len(text)
           a == <<text[1], text[2], text[3], text[4]>>
           b == SubSeq(text, 5, n - 2)
           c == SubSeq(text, n - 1, n)
<1>1. n \in Nat /\ n >= 7 /\ \A i \in 1..n : text[i] \in STRING
  BY ElementOfSeq
<1>2. a \in Seq(STRING) /\ Len(a) = 4 /\ a[1] = text[1] /\ a[2] = text[2] /\ a[3] = text[3] /\ a[4] = text[4]
  <2>1. 1 \in 1..n /\ 2 \in 1..n /\ 3 \in 1..n /\ 4 \in 1..n
    BY <1>1
  <2> QED
    BY <1>1, <2>1
<1> HIDE DEF n, a
<1>3. b \in Seq(STRING) /\ Len(b) = n - 6 /\ \A i \in 1..(n - 6) : b[i] = text[i + 4]
  <2>1. \A i \in 5..(n - 2) : text[i] \in STRING
    BY <1>1
  <2>2. n - 2 \in Int /\ 5 \in Int /\ 5 <= n - 2 /\ (n - 2) - 5 + 1 = n - 6
    BY <1>1
  <2>3. /\ b \in Seq(STRING)
        /\ Len(b) = IF 5 <= n - 2 THEN (n - 2) - 5 + 1 ELSE 0
        /\ \A i \in 1..((n - 2) - 5 + 1) : b[i] = text[5 + i - 1]
    BY <2>1, <2>2, SubSeqProperties
  <2> HIDE DEF b
  <2>4. \A i \in 1..(n - 6) : 5 + i - 1 = i + 4
    BY <1>1
  <2> QED
    BY <2>2, <2>3, <2>4
<1>4. c \in Seq(STRING) /\ Len(c) = 2 /\ c[1] = text[n - 1] /\ c[2] = text[n]
  <2> DEFINE m == n - 1
  <2>1. \A i \in m..n : text[i] \in STRING
    BY <1>1
  <2>2. m \in Int /\ n \in Int /\ m <= n /\ n - m + 1 = 2 /\ m + 1 - 1 = m /\ m + 2 - 1 = n
    BY <1>1
  <2> HIDE DEF m
  <2>3. /\ SubSeq(text, m, n) \in Seq(STRING)
        /\ Len(SubSeq(text, m, n)) = IF m <= n THEN n - m + 1 ELSE 0
        /\ \A i \in 1..(n - m + 1) : SubSeq(text, m, n)[i] = text[m + i - 1]
    BY <2>1, <2>2, SubSeqProperties
  <2>4. 1 \in 1..(n - m + 1) /\ 2 \in 1..(n - m + 1)
    BY <2>2
  <2>5. /\ SubSeq(text, m, n) \in Seq(STRING) /\ Len(SubSeq(text, m, n)) = 2
        /\ SubSeq(text, m, n)[1] = text[m] /\ SubSeq(text, m, n)[2] = text[n]
    BY <2>2, <2>3, <2>4
  <2> QED
    BY <2>5 DEF m
<1> HIDE DEF b, c
<1> DEFINE d == a \o b
<1>5. /\ d \in Seq(STRING) /\ Len(d) = n - 2
      /\ \A i \in 1..(n - 2) : d[i] = IF i <= 4 THEN a[i] ELSE b[i - 4]
  <2>1. /\ d \in Seq(STRING) /\ Len(d) = Len(a) + Len(b)
        /\ \A i \in 1..(Len(a) + Len(b)) : d[i] = IF i <= Len(a) THEN a[i] ELSE b[i - Len(a)]
    <3>1. a \in Seq(STRING) /\ b \in Seq(STRING)
      BY <1>2, <1>3
    <3> QED
      BY <3>1, ConcatProperties
  <2>2. Len(a) = 4 /\ Len(a) + Len(b) = n - 2
    BY <1>1, <1>2, <1>3
  <2> HIDE DEF d
  <2> QED
    BY <2>1, <2>2
<1> HIDE DEF d
<1>6. /\ d \o c \in Seq(STRING) /\ Len(d \o c) = n
      /\ \A i \in 1..n : (d \o c)[i] = IF i <= n - 2 THEN d[i] ELSE c[i - (n - 2)]
  <2>1. /\ d \o c \in Seq(STRING) /\ Len(d \o c) = Len(d) + Len(c)
        /\ \A i \in 1..(Len(d) + Len(c)) : (d \o c)[i] = IF i <= Len(d) THEN d[i] ELSE c[i - Len(d)]
    <3>1. d \in Seq(STRING) /\ c \in Seq(STRING)
      BY <1>4, <1>5
    <3> QED
      BY <3>1, ConcatProperties
  <2>2. Len(d) = n - 2 /\ Len(d) + Len(c) = n
    BY <1>1, <1>4, <1>5
  <2> QED
    BY <2>1, <2>2
<1>7. ASSUME NEW i \in 1..n PROVE text[i] = (d \o c)[i]
  <2>0. i \in Int /\ 1 <= i /\ i <= n
    BY <1>1
  <2>1. CASE i <= 4
    <3>1. i \in 1..(n - 2) /\ i <= n - 2 /\ (i = 1 \/ i = 2 \/ i = 3 \/ i = 4)
      BY <1>1, <2>0, <2>1
    <3>2. (d \o c)[i] = a[i]
      BY <1>5, <1>6, <2>1, <3>1
    <3> QED
      BY <1>2, <3>1, <3>2
  <2>2. CASE 4 < i /\ i <= n - 2
    <3>1. i \in 1..(n - 2) /\ ~(i <= 4) /\ i - 4 \in 1..(n - 6) /\ (i - 4) + 4 = i
      BY <1>1, <2>0, <2>2
    <3>2. (d \o c)[i] = b[i - 4]
      BY <1>5, <1>6, <2>2, <3>1
    <3> QED
      BY <1>3, <3>1, <3>2
  <2>3. CASE i > n - 2
    <3>1. i = n - 1 \/ i = n
      BY <1>1, <2>0, <2>3
    <3>2. ~(i <= n - 2) /\ (n - 1) - (n - 2) = 1 /\ n - (n - 2) = 2
      BY <1>1, <2>0, <2>3
    <3>3. (d \o c)[i] = c[i - (n - 2)]
      BY <1>6, <3>2
    <3> QED
      BY <1>4, <3>1, <3>2, <3>3
  <2>4. i <= 4 \/ (4 < i /\ i <= n - 2) \/ i > n - 2
    <3>1. n \in Int
      BY <1>1
    <3> QED
      BY <2>0, <3>1
  <2> QED
    BY <2>1, <2>2, <2>3, <2>4
<1>8. text = d \o c
  <2>1. Len(text) = Len(d \o c)
    BY <1>6 DEF n
  <2>2. \A i \in 1..Len(text) : text[i] = (d \o c)[i]
    BY <1>7 DEF n
  <2> QED
    BY <1>6, <2>1, <2>2, SeqEqual
<1> QED
  BY <1>8 DEF d, a, b, c, n

\* No text of an event that is taken is lost, whatever bars its description has.
THEOREM EventsKept == Spec => []EventsKeepTheirText
<1>1. CodecInv => EventsKeepTheirText
  <2> SUFFICES ASSUME CodecInv, Received("event"), Accepted
               PROVE  wire = <<result.value.panel_id, result.value.timestamp, result.value.code,
                               result.value.address>> \o result.value.description
                               \o SubSeq(wire, Len(wire) - 1, Len(wire))
    BY DEF EventsKeepTheirText
  <2>1. sent.kind = "event" /\ result # Nothing
    BY DEF Received
  <2>2. wire \in Events /\ result = [key |-> NoKey, value |-> ParseEvent(wire)]
    BY <2>1 DEF CodecInv, FrameSent, EventSent
  <2>3. wire \in Seq(STRING)
    BY <2>2, CodecAssumption
  <2> DEFINE e == ParseEvent(wire)
  <2>4. result.value = e
    BY <2>2
  <2>5. e # NotAnEvent
    <3>1. "error" \in DOMAIN NotAnEvent
      BY DEF NotAnEvent
    <3>2. "error" \notin DOMAIN e
      BY <2>4 DEF Accepted
    <3> HIDE DEF e
    <3> QED
      BY <3>1, <3>2
  <2>6. /\ ~(Len(wire) < 7)
        /\ e = [panel_id |-> wire[1], timestamp |-> wire[2], code |-> wire[3], address |-> wire[4],
                description |-> SubSeq(wire, 5, Len(wire) - 2)]
    BY <2>5 DEF ParseEvent
  <2> HIDE DEF e
  <2>7. Len(wire) >= 7
    BY <2>3, <2>6
  <2>8. /\ e.panel_id = wire[1] /\ e.timestamp = wire[2] /\ e.code = wire[3] /\ e.address = wire[4]
        /\ e.description = SubSeq(wire, 5, Len(wire) - 2)
    BY <2>6
  <2>9. wire = <<wire[1], wire[2], wire[3], wire[4]>> \o SubSeq(wire, 5, Len(wire) - 2)
               \o SubSeq(wire, Len(wire) - 1, Len(wire))
    BY <2>3, <2>7, EventIs
  <2> QED
    BY <2>4, <2>8, <2>9
<1> QED
  BY <1>1, WireHolds, PTL
=============================================================================
