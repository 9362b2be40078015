-------------------------- MODULE Lzo1xCodec_proofs --------------------------
(***************************************************************************)
(* For every script of matches, lengths, distances and damages the codec   *)
(* gives back what it was given, refuses what is damaged, and never makes  *)
(* more than the buffers of its callers hold; and the optimizer of any     *)
(* block knows where the last run of literals is told.                     *)
(*                                                                         *)
(* The parts, each resting on those before it:                             *)
(*   the instructions: the decoder's formulas undo the encoder's for every *)
(*     distance and length, whatever literal count is added to the free    *)
(*     bits; no match reads as the end of the stream; the price of a match *)
(*     is what it costs;                                                   *)
(*   the bytes: what LongLength and the forms of a match read from the     *)
(*     bytes that Lengthened and MatchCode write (Says, Reads, Coded);     *)
(*   the block: where each piece of the script is in it (Block), kept by   *)
(*     every run and match the compressor adds (Longer);                   *)
(*   the decoder: where it stands in the block (Stands), and that each of  *)
(*     its steps takes it from one piece to the next or says what is       *)
(*     missing;                                                            *)
(*   the invariant IInv, the theorems, and the length of the block;        *)
(*   the optimizer, whose theorem rests on none of them.                   *)
(*                                                                         *)
(* Throughout, s is a script of n pieces, c a block, g[j] the bytes of it  *)
(* before the j-th piece, g[n + 1] all of them but the end marker.         *)
(***************************************************************************)
EXTENDS Lzo1xBlocks, SequenceTheorems, WellFoundedInduction, TLAPS

-----------------------------------------------------------------------------
(* The instructions.                                                       *)

(* The free bits.                                                          *)
Counts == 0 .. 3

(* An M1 or MX, whatever the count in its first byte, is an opcode below   *)
(* 16 from which lzo1x_d.ch reads back the distance (Match1 and MatchX).   *)
THEOREM NearRoundTrip ==
  ASSUME NEW d \in 0 .. M1Max - 1, NEW s \in Counts
  PROVE  LET c == NearCode(d)
             opcode == c[1] + s
         IN /\ opcode \in 0 .. 15 /\ c[2] \in 0 .. 255
            /\ NearDistance(opcode, c[2]) = d + 1 /\ opcode % 4 = s
BY DEF M1Max, Counts, NearCode, NearDistance

(* An M2 likewise: opcode 64 or more, its length and its distance.         *)
THEOREM M2RoundTrip ==
  ASSUME NEW len \in 3 .. M2MaxLen, NEW d \in 0 .. M2Max - 1, NEW s \in Counts
  PROVE  LET c == M2Code(len, d)
             opcode == c[1] + s
         IN /\ opcode \in 64 .. 255 /\ c[2] \in 0 .. 255
            /\ M2Length(opcode) = len /\ M2Distance(opcode, c[2]) = d + 1 /\ opcode % 4 = s
<1>1. CASE M2Low = 8
  <2> DEFINE q == d \div 8
             r == d % 8
             opcode == 64 + 32 * (len - 3) + 4 * r + s
  <2>1. len \in 3 .. 8 /\ d \in 0 .. 2047 /\ s \in 0 .. 3
    BY <1>1 DEF M2Max, M2MaxLen, Counts
  <2>2. q \in 0 .. 255 /\ r \in 0 .. 7 /\ d = 8 * q + r
    BY <2>1
  <2>3. M2Code(len, d) = <<64 + 32 * (len - 3) + 4 * r, q>>
    BY <1>1 DEF M2Code
  <2> HIDE DEF q, r
  <2>4. opcode \in 64 .. 255 /\ opcode % 4 = s /\ opcode \div 4 = 16 + 8 * (len - 3) + r
    BY <2>1, <2>2
  <2>5. (opcode - 64) \div 32 = len - 3 /\ (opcode \div 4) % 8 = r
    BY <2>1, <2>2, <2>4
  <2> HIDE DEF opcode
  <2>6. M2Length(opcode) = len /\ M2Distance(opcode, q) = d + 1
    BY <1>1, <2>1, <2>2, <2>5 DEF M2Length, M2Distance
  <2>7. M2Code(len, d)[1] + s = opcode /\ M2Code(len, d)[2] = q
    BY <2>1, <2>2, <2>3 DEF opcode
  <2>8. QED
    BY <2>2, <2>4, <2>6, <2>7
<1>2. CASE M2Low = 4
  <2> DEFINE q == d \div 4
             r == d % 4
             opcode == 64 + 16 * (len - 3) + 4 * r + s
  <2>1. len \in 3 .. 14 /\ d \in 0 .. 1023 /\ s \in 0 .. 3
    BY <1>2 DEF M2Max, M2MaxLen, Counts
  <2>2. q \in 0 .. 255 /\ r \in 0 .. 3 /\ d = 4 * q + r
    BY <2>1
  <2>3. M2Code(len, d) = <<64 + 16 * (len - 3) + 4 * r, q>>
    BY <1>2 DEF M2Code
  <2> HIDE DEF q, r
  <2>4. opcode \in 64 .. 255 /\ opcode % 4 = s /\ opcode \div 4 = 16 + 4 * (len - 3) + r
    BY <2>1, <2>2
  <2>5. (opcode - 64) \div 16 = len - 3 /\ (opcode \div 4) % 4 = r
    BY <2>1, <2>2, <2>4
  <2> HIDE DEF opcode
  <2>6. M2Length(opcode) = len /\ M2Distance(opcode, q) = d + 1
    BY <1>2, <2>1, <2>2, <2>5 DEF M2Length, M2Distance
  <2>7. M2Code(len, d)[1] + s = opcode /\ M2Code(len, d)[2] = q
    BY <2>1, <2>2, <2>3 DEF opcode
  <2>8. QED
    BY <2>2, <2>4, <2>6, <2>7
<1>3. QED
  BY <1>1, <1>2, M2LowAssumption

(* What the two distance bytes alone say.                                  *)
LowBits(d) == d % 16384

(* A distance is its high bit and the fourteen below.                      *)
LEMMA HighAndLow ==
  ASSUME NEW x \in Nat, x < 32768
  PROVE  /\ HighBit(x) \in {0, 1} /\ LowBits(x) \in Nat /\ LowBits(x) < 16384
         /\ x = 16384 * HighBit(x) + LowBits(x)
BY DEF HighBit, LowBits

(* The two distance bytes of an M3 or M4: fourteen bits come back.         *)
THEOREM FarRoundTrip ==
  ASSUME NEW x \in Nat, x < 32768, NEW s \in Counts
  PROVE  /\ Distance(x)[1] + s \in 0 .. 255 /\ (Distance(x)[1] + s) % 4 = s
         /\ Distance(x)[2] \in 0 .. 255
         /\ FarDistance(Distance(x)[1] + s, Distance(x)[2]) = LowBits(x)
<1> DEFINE q == x \div 64
           r == x % 64
           b == q % 256
           k == HighBit(x)
           y == LowBits(x)
<1>1. q \in Nat /\ q < 512 /\ r \in 0 .. 63 /\ x = 64 * q + r
  OBVIOUS
<1>2. k \in {0, 1} /\ y \in Nat /\ y < 16384 /\ x = 16384 * k + y
  BY HighAndLow
<1>3. Distance(x)[1] = 4 * r /\ Distance(x)[2] = b
  BY DEF Distance
<1> HIDE DEF q, r, k, y
<1>4. b \in 0 .. 255 /\ (q = b \/ q = 256 + b)
  <2>1. CASE q < 256
    BY <1>1, <2>1
  <2>2. CASE q >= 256
    BY <1>1, <2>2
  <2>3. QED
    BY <1>1, <2>1, <2>2
<1> HIDE DEF b
<1>5. (4 * r + s) \div 4 = r /\ (4 * r + s) % 4 = s /\ 4 * r + s \in 0 .. 255
  BY <1>1 DEF Counts
<1>6. y = r + 64 * b
  <2>1. CASE q = b
    BY <1>1, <1>2, <1>4, <2>1
  <2>2. CASE q = 256 + b
    BY <1>1, <1>2, <1>4, <2>2
  <2>3. QED
    BY <1>4, <2>1, <2>2
<1>7. FarDistance(4 * r + s, b) = y
  BY <1>1, <1>4, <1>5, <1>6 DEF FarDistance
<1>8. QED
  BY <1>3, <1>4, <1>5, <1>7 DEF y

(* The opcode of an M4 whose length field is low, and the distance the     *)
(* decoder puts together from it.                                          *)
M4Opcode(off, low)       == M4Marker + 8 * HighBit(off - M3Max) + low
M4Distance(opcode, b, c)      == 16384 * ((opcode \div 8) % 2) + FarDistance(b, c)

(* An M4 of any distance the window allows is told by its opcode, keeps    *)
(* its length field, and its distance comes back; put together it is never *)
(* the zero that ends the stream (Match4 of the decoder).                  *)
THEOREM NoFalseEnd ==
  ASSUME NEW off \in Nat, off > M3Max, off <= M4Max, NEW low \in 0 .. 7, NEW s \in Counts
  PROVE  /\ M4Opcode(off, low) \in 16 .. 31 /\ M4Opcode(off, low) % 8 = low
         /\ LET c == Distance(off - M3Max)
                e == M4Distance(M4Opcode(off, low), c[1] + s, c[2])
            IN e # 0 /\ e + M3Max = off
<1> DEFINE d == off - M3Max
           k == HighBit(d)
           y == LowBits(d)
           opcode == M4Opcode(off, low)
           b == Distance(d)[1] + s
           c == Distance(d)[2]
<1>1. d \in Nat /\ d >= 1 /\ d < 32768 /\ d + M3Max = off
  BY DEF M3Max, M4Max
<1>2. opcode = 16 + 8 * k + low
  BY DEF M4Opcode, M4Marker
<1> HIDE DEF d
<1>3. k \in {0, 1} /\ y \in Nat /\ y < 16384 /\ d = 16384 * k + y
  BY <1>1, HighAndLow
<1>4. FarDistance(b, c) = y
  BY <1>1, FarRoundTrip
<1> HIDE DEF k, y, opcode, b, c
<1>5. opcode \in 16 .. 31 /\ opcode % 8 = low /\ (opcode \div 8) % 2 = k
  <2>1. CASE k = 0
    BY <1>2, <2>1
  <2>2. CASE k = 1
    BY <1>2, <2>2
  <2>3. QED
    BY <1>3, <2>1, <2>2
<1>6. M4Distance(opcode, b, c) = d
  BY <1>3, <1>4, <1>5 DEF M4Distance
<1>7. d # 0
  BY <1>1
<1>8. QED
  BY <1>1, <1>5, <1>6, <1>7 DEF d, opcode, b, c

(* The rest after the zeros is a byte that is not zero.                    *)
LEMMA ZerosBounds ==
  ASSUME NEW n \in Nat \ {0}
  PROVE  Zeros(n) \in Nat /\ n - 255 * Zeros(n) \in 1 .. 255 /\ Zeros(n) < n
BY DEF Zeros

(* A long length: zeros, then a byte that is not zero, and 255 for each    *)
(* zero plus that byte is the length (LongLength of the decoder).          *)
THEOREM RunRoundTrip ==
  ASSUME NEW n \in Nat \ {0}
  PROVE  /\ Run(n) \in Seq(Int) /\ Len(Run(n)) = Zeros(n) + 1
         /\ \A j \in 1 .. Zeros(n) : Run(n)[j] = 0
         /\ Run(n)[Zeros(n) + 1] \in 1 .. 255
         /\ 255 * Zeros(n) + Run(n)[Zeros(n) + 1] = n
<1> DEFINE z == Zeros(n)
<1>1. z \in Nat /\ n - 255 * z \in 1 .. 255
  BY ZerosBounds
<1>2. Run(n) = [k \in 1 .. z + 1 |-> IF k <= z THEN 0 ELSE n - 255 * z]
  BY DEF Run
<1> HIDE DEF z
<1>3. Run(n) \in Seq(Int) /\ Len(Run(n)) = z + 1
  BY <1>1, <1>2
<1>4. (\A j \in 1 .. z : Run(n)[j] = 0) /\ Run(n)[z + 1] = n - 255 * z
  BY <1>1, <1>2
<1>5. QED
  BY <1>1, <1>3, <1>4 DEF z

(* How many bytes a length takes.                                          *)
LEMMA LengthenedLength ==
  ASSUME NEW marker \in Nat, NEW maxLen \in Nat \ {0}, NEW len \in Nat,
         NEW b \in Int, NEW c \in Int
  PROVE  Len(Lengthened(marker, maxLen, len) \o <<b, c>>) =
           IF len <= maxLen THEN 3 ELSE 4 + Zeros(len - maxLen)
<1>1. CASE len <= maxLen
  BY <1>1 DEF Lengthened
<1>2. CASE len > maxLen
  <2> DEFINE n == len - maxLen
             run == Run(n)
             z == Zeros(n)
  <2>1. n \in Nat \ {0}
    BY <1>2
  <2>2. Lengthened(marker, maxLen, len) = <<marker>> \o run
    BY <1>2 DEF Lengthened
  <2> HIDE DEF n
  <2>3. z \in Nat
    BY <2>1, ZerosBounds
  <2>4. run \in Seq(Int) /\ Len(run) = z + 1
    BY <2>1, RunRoundTrip
  <2> HIDE DEF run, z
  <2>5. <<marker>> \o run \in Seq(Int) /\ Len(<<marker>> \o run) = 1 + Len(run)
    BY <2>4
  <2>6. Len((<<marker>> \o run) \o <<b, c>>) = Len(<<marker>> \o run) + 2
    <3> DEFINE l == <<marker>> \o run
    <3>1. l \in Seq(Int)
      BY <2>5
    <3> HIDE DEF l
    <3>2. Len(l \o <<b, c>>) = Len(l) + 2
      BY <3>1
    <3>3. QED
      BY <3>2 DEF l
  <2>7. Len((<<marker>> \o run) \o <<b, c>>) = 4 + z
    BY <2>3, <2>4, <2>5, <2>6
  <2>8. QED
    BY <1>2, <2>2, <2>7 DEF n, z
<1>3. QED
  BY <1>1, <1>2

(* len_of_coded_match tells exactly the number of bytes code_match writes, *)
(* for every match a compressor codes.                                     *)
THEOREM PriceIsExact ==
  ASSUME NEW first \in BOOLEAN, NEW lit \in Nat, NEW len \in Nat, NEW off \in Nat,
         Codable(first, lit, len, off)
  PROVE  Len(MatchCode(lit, len, off)) = LenOfCodedMatch(len, off, lit)
<1>1. len >= 2 /\ off >= 1 /\ off <= M4Max /\ (len = 2 => lit \in 1 .. 3 /\ off <= M1Max)
  BY DEF Codable
<1>2. CASE len = 2
  <2>1. MatchCode(lit, len, off) = NearCode(off - 1)
    BY <1>2 DEF MatchCode, IsM1
  <2>2. LenOfCodedMatch(len, off, lit) = 2
    BY <1>1, <1>2 DEF LenOfCodedMatch, IsM1
  <2>3. QED
    BY <2>1, <2>2 DEF NearCode
<1>3. CASE IsM2(lit, len, off)
  <2>1. MatchCode(lit, len, off) = M2Code(len, off - 1)
    BY <1>3 DEF MatchCode, IsM1, IsM2
  <2>2. LenOfCodedMatch(len, off, lit) = 2
    BY <1>3 DEF LenOfCodedMatch, IsM1, IsM2
  <2>3. QED
    BY <2>1, <2>2, M2LowAssumption DEF M2Code
<1>4. CASE IsMX(lit, len, off)
  <2>1. MatchCode(lit, len, off) = NearCode(off - 1 - M2Max)
    BY <1>4, M2LowAssumption DEF MatchCode, IsM1, IsM2, IsMX, M2Max
  <2>2. LenOfCodedMatch(len, off, lit) = 2
    BY <1>4 DEF LenOfCodedMatch, IsM1, IsMX
  <2>3. QED
    BY <2>1, <2>2, M2LowAssumption DEF NearCode, M2Max
<1>5. CASE len >= 3 /\ IsM3(lit, len, off) /\ ~IsM2(lit, len, off) /\ ~IsMX(lit, len, off)
  <2>1. MatchCode(lit, len, off) = Lengthened(M3Marker, M3MaxLen, len) \o Distance(off - 1)
    BY <1>5 DEF MatchCode, IsM1
  <2>2. LenOfCodedMatch(len, off, lit) =
          IF len <= M3MaxLen THEN 3 ELSE 4 + Zeros(len - M3MaxLen)
    BY <1>5 DEF LenOfCodedMatch, IsM1
  <2> DEFINE b == 4 * ((off - 1) % 64)
             c == ((off - 1) \div 64) % 256
  <2>3. b \in Int /\ c \in Int
    OBVIOUS
  <2>4. M3Marker \in Nat /\ M3MaxLen \in Nat \ {0}
    BY DEF M3Marker, M3MaxLen
  <2>5. MatchCode(lit, len, off) = Lengthened(M3Marker, M3MaxLen, len) \o <<b, c>>
    BY <2>1 DEF Distance
  <2> HIDE DEF b, c
  <2>6. QED
    BY <2>2, <2>3, <2>4, <2>5, LengthenedLength
<1>6. CASE len >= 3 /\ ~IsM3(lit, len, off) /\ ~IsM2(lit, len, off) /\ ~IsMX(lit, len, off)
  <2> DEFINE d == off - M3Max
             marker == M4Marker + 8 * HighBit(d)
  <2>1. MatchCode(lit, len, off) = Lengthened(marker, M4MaxLen, len) \o Distance(d)
    BY <1>6 DEF MatchCode, IsM1
  <2>2. LenOfCodedMatch(len, off, lit) =
          IF len <= M4MaxLen THEN 3 ELSE 4 + Zeros(len - M4MaxLen)
    BY <1>1, <1>6 DEF LenOfCodedMatch, IsM1
  <2>3. d \in Nat
    BY <1>6 DEF IsM3, M3Max
  <2> DEFINE b == 4 * (d % 64)
             c == (d \div 64) % 256
  <2>4. b \in Int /\ c \in Int
    BY <2>3
  <2>5. marker \in Nat /\ M4MaxLen \in Nat \ {0}
    BY <2>3 DEF M4Marker, M4MaxLen, HighBit
  <2>6. MatchCode(lit, len, off) = Lengthened(marker, M4MaxLen, len) \o <<b, c>>
    BY <2>1 DEF Distance
  <2> HIDE DEF marker, b, c
  <2>7. QED
    BY <2>2, <2>4, <2>5, <2>6, LengthenedLength
<1>7. QED
  BY <1>1, <1>2, <1>3, <1>4, <1>5, <1>6

(* The instruction bytes of a run of lit literals.                         *)
RunPrice(lit) == IF lit <= 3 THEN 0 ELSE IF lit <= 18 THEN 1 ELSE 2 + Zeros(lit - 18)

(* A run and the match after it take at most a sixteenth more bytes than   *)
(* they stand for: what makes the worst case of the whole block linear.    *)
THEOREM PairPays ==
  ASSUME NEW first \in BOOLEAN, NEW lit \in Nat, NEW len \in Nat, NEW off \in Nat,
         Codable(first, lit, len, off)
  PROVE  RunPrice(lit) + LenOfCodedMatch(len, off, lit) <= len + (lit + len) \div 16
<1>1. /\ len >= 2 /\ off >= 1 /\ off <= M4Max
      /\ len = 2 => lit \in 1 .. 3 /\ off <= M1Max
      /\ len = 3 /\ off > MXMax => lit < 4
  BY DEF Codable
<1>2. \A maxLen \in {M3MaxLen, M4MaxLen} : len > maxLen =>
        Zeros(len - maxLen) \in Nat /\ 4 + Zeros(len - maxLen) < len
  BY ZerosBounds DEF M3MaxLen, M4MaxLen
<1> DEFINE price == LenOfCodedMatch(len, off, lit)
<1>3. price \in Nat /\ price <= len /\ (lit >= 4 => price <= len - 1)
  <2>1. CASE len = 2
    BY <1>1, <2>1 DEF LenOfCodedMatch, IsM1
  <2>2. CASE len >= 3 /\ (IsM2(lit, len, off) \/ IsMX(lit, len, off))
    BY <2>2 DEF LenOfCodedMatch, IsM1
  <2>3. CASE len >= 3 /\ ~IsM2(lit, len, off) /\ ~IsMX(lit, len, off)
    <3>1. lit >= 4 => len > 3
      BY <1>1, <2>3, M2LowAssumption DEF IsM2, IsMX, M2MaxLen, M2Max, MXMax, M1Max
    <3>2. \/ price = 3
          \/ \E maxLen \in {M3MaxLen, M4MaxLen} : len > maxLen /\ price = 4 + Zeros(len - maxLen)
      BY <1>1, <2>3 DEF LenOfCodedMatch, IsM1, M3MaxLen, M4MaxLen
    <3> HIDE DEF price
    <3>3. QED
      BY <1>2, <2>3, <3>1, <3>2
  <2>4. QED
    BY <1>1, <2>1, <2>2, <2>3
<1> HIDE DEF price
<1> DEFINE sixteenth == (lit + len) \div 16
<1>4. sixteenth \in Nat
  BY <1>1
<1>5. lit > 18 => 1 + Zeros(lit - 18) <= sixteenth /\ Zeros(lit - 18) \in Nat
  BY <1>1 DEF Zeros
<1> HIDE DEF sixteenth
<1>6. RunPrice(lit) + price <= len + sixteenth
  BY <1>1, <1>3, <1>4, <1>5 DEF RunPrice
<1>7. QED
  BY <1>6 DEF price, sixteenth

-----------------------------------------------------------------------------
(* The bytes.                                                              *)

(* Bytes in a row.                                                         *)
OfLen(b, n) == b \in Seq(Int) /\ Len(b) = n
Cat(b, c)   == b \o c

AllBytes(b, n) == \A k \in 1 .. n : b[k] \in 0 .. 255

(* b behind a and c behind b.                                              *)
LEMMA CatFacts ==
  ASSUME NEW m \in Nat, NEW n \in Nat, NEW b, NEW c, OfLen(b, m), OfLen(c, n)
  PROVE  /\ OfLen(Cat(b, c), m + n)
         /\ \A k \in 1 .. m : Cat(b, c)[k] = b[k]
         /\ \A k \in 1 .. n : Cat(b, c)[m + k] = c[k]
<1>1. b \in Seq(Int) /\ c \in Seq(Int) /\ Len(b) = m /\ Len(c) = n
  BY DEF OfLen
<1>2. OfLen(b \o c, m + n)
  BY <1>1, ConcatProperties DEF OfLen
<1>3. \A k \in 1 .. m + n : (b \o c)[k] = IF k <= m THEN b[k] ELSE c[k - m]
  BY <1>1, ConcatProperties
<1>4. PICK d : d = b \o c
  OBVIOUS
<1>5. \A k \in 1 .. m + n : d[k] = IF k <= m THEN b[k] ELSE c[k - m]
  BY <1>3, <1>4
<1>6. \A k \in 1 .. m : d[k] = b[k]
  BY <1>5
<1>7. \A k \in 1 .. n : d[m + k] = c[k]
  <2> SUFFICES ASSUME NEW k \in 1 .. n
               PROVE  d[m + k] = c[k]
    OBVIOUS
  <2>1. PICK j \in 1 .. m + n : j = m + k /\ ~(j <= m) /\ j - m = k
    OBVIOUS
  <2>2. QED
    BY <1>5, <2>1
<1>8. d = Cat(b, c) /\ OfLen(d, m + n)
  BY <1>2, <1>4 DEF Cat
<1>9. QED
  BY <1>6, <1>7, <1>8

(* One byte and two.                                                       *)
One(x)     == <<x>>
Pair(x, y) == <<x, y>>

(* What One and Pair are.                                                  *)
LEMMA SmallFacts ==
  ASSUME NEW x \in Int, NEW y \in Int
  PROVE  /\ OfLen(One(x), 1) /\ One(x)[1] = x
         /\ OfLen(Pair(x, y), 2) /\ Pair(x, y)[1] = x /\ Pair(x, y)[2] = y
BY DEF OfLen, One, Pair

-----------------------------------------------------------------------------
(* What LongLength reads from b: a field of low or, if that is 0, plus and *)
(* what the bytes behind it say; h bytes in all, for the length l.         *)
Says(b, low, plus, h, l) ==
  \/ low > 0 /\ h = 1 /\ l = low
  \/ /\ low = 0 /\ h >= 2
     /\ \A k \in 2 .. h - 1 : b[k] = 0
     /\ b[h] \in 1 .. 255
     /\ l = 255 * (h - 2) + plus + b[h]

(* Says is about the first bytes only.                                     *)
LEMMA SaysPrefix ==
  ASSUME NEW h \in Nat, h >= 1, NEW l, NEW b, \A k \in 1 .. h : b[k] = l[k],
         NEW low, NEW plus, NEW n, Says(l, low, plus, h, n)
  PROVE  Says(b, low, plus, h, n)
BY DEF Says

(* A run behind one byte.                                                  *)
LEMMA RunSays ==
  ASSUME NEW n \in Nat \ {0}, NEW x \in 0 .. 255, NEW plus \in Nat
  PROVE  \E h \in Nat : LET b == Cat(One(x), Run(n))
                        IN /\ h >= 2 /\ h = Zeros(n) + 2
                           /\ OfLen(b, h) /\ AllBytes(b, h) /\ b[1] = x
                           /\ Says(b, 0, plus, h, plus + n)
<1>1. PICK z \in Nat : z = Zeros(n)
  BY ZerosBounds
<1>2. PICK run : run = Run(n)
  OBVIOUS
<1>3. OfLen(run, z + 1)
  BY <1>1, <1>2, RunRoundTrip DEF OfLen
<1>4. \A j \in 1 .. z : run[j] = 0
  BY <1>1, <1>2, RunRoundTrip
<1>5. PICK r \in 1 .. 255 : r = run[z + 1] /\ 255 * z + r = n
  <2>1. run[z + 1] \in 1 .. 255 /\ 255 * z + run[z + 1] = n
    BY <1>1, <1>2, RunRoundTrip
  <2>2. QED
    BY <2>1
<1>6. PICK b : b = Cat(One(x), run)
  OBVIOUS
<1>7. PICK h \in Nat : h = z + 2 /\ h = 1 + (z + 1)
  OBVIOUS
<1>8. /\ OfLen(b, h) /\ b[1] = x
      /\ \A k \in 1 .. z + 1 : b[1 + k] = run[k]
  <2>1. OfLen(One(x), 1) /\ One(x)[1] = x
    BY SmallFacts
  <2>2. 1 \in Nat /\ z + 1 \in Nat /\ 1 \in 1 .. 1
    OBVIOUS
  <2>3. /\ OfLen(b, 1 + (z + 1)) /\ b[1] = One(x)[1]
        /\ \A k \in 1 .. z + 1 : b[1 + k] = run[k]
    BY <1>3, <1>6, <2>1, <2>2, CatFacts
  <2>4. QED
    BY <1>7, <2>1, <2>3
<1>9. \A k \in 2 .. z + 1 : b[k] = 0
  <2> SUFFICES ASSUME NEW k \in 2 .. z + 1
               PROVE  b[k] = 0
    OBVIOUS
  <2>1. PICK j \in 1 .. z : k = 1 + j
    <3>1. k - 1 \in 1 .. z /\ k = 1 + (k - 1)
      OBVIOUS
    <3>2. QED
      BY <3>1
  <2>2. b[k] = run[j]
    BY <1>8, <2>1
  <2>3. QED
    BY <1>4, <2>2
<1>10. b[h] = r
  <2>1. z + 1 \in 1 .. z + 1 /\ h = 1 + (z + 1)
    BY <1>7
  <2>2. QED
    BY <1>5, <1>8, <2>1
<1>11. AllBytes(b, h)
  <2> SUFFICES ASSUME NEW k \in 1 .. h
               PROVE  b[k] \in 0 .. 255
    BY DEF AllBytes
  <2>1. k = 1 \/ k \in 2 .. z + 1 \/ k = h
    BY <1>7
  <2>2. x \in 0 .. 255 /\ r \in 0 .. 255 /\ 0 \in 0 .. 255
    BY <1>5
  <2>3. QED
    BY <1>8, <1>9, <1>10, <2>1, <2>2
<1>12. Says(b, 0, plus, h, plus + n)
  <2>1. h >= 2 /\ h - 1 = z + 1 /\ plus + n = 255 * (h - 2) + plus + r
    BY <1>5, <1>7
  <2>2. QED
    BY <1>5, <1>9, <1>10, <2>1 DEF Says
<1>13. h >= 2 /\ h = Zeros(n) + 2 /\ b = Cat(One(x), Run(n))
  BY <1>1, <1>2, <1>6, <1>7
<1>14. QED
  BY <1>8, <1>11, <1>12, <1>13

(* Lengthened writes what LongLength reads.                                *)
LengthSaid(b, marker, plus, len) ==
  \E h \in Nat, low \in 0 .. plus :
    /\ h >= 1 /\ OfLen(b, h) /\ AllBytes(b, h)
    /\ b[1] = marker + low /\ Says(b, low, plus, h, len - 2)

(* An opcode with a length in it, or a run behind it, says that length.    *)
LEMMA LengthenedSays ==
  ASSUME NEW marker \in Nat, NEW maxLen \in Nat, NEW plus \in Nat, maxLen = plus + 2, plus > 0,
         NEW len \in Nat, len > 2, marker + maxLen <= 257
  PROVE  LengthSaid(Lengthened(marker, maxLen, len), marker, plus, len)
<1>1. CASE len <= maxLen
  <2>1. PICK low \in 1 .. plus : low = len - 2
    BY <1>1
  <2>2. PICK x \in 0 .. 255 : x = marker + low /\ x = marker + len - 2
    BY <2>1
  <2>3. Lengthened(marker, maxLen, len) = One(x)
    BY <1>1, <2>2 DEF Lengthened, One
  <2>4. OfLen(One(x), 1) /\ One(x)[1] = x
    BY <2>2, SmallFacts
  <2>5. AllBytes(One(x), 1)
    BY <2>2, <2>4 DEF AllBytes
  <2>6. Says(One(x), low, plus, 1, len - 2)
    BY <2>1 DEF Says
  <2>7. 1 \in Nat /\ 1 >= 1 /\ low \in 0 .. plus
    BY <2>1
  <2>8. LengthSaid(One(x), marker, plus, len)
    BY <2>2, <2>4, <2>5, <2>6, <2>7 DEF LengthSaid
  <2>9. QED
    BY <2>3, <2>8
<1>2. CASE len > maxLen
  <2>1. PICK n \in Nat \ {0} : n = len - maxLen /\ plus + n = len - 2
    BY <1>2
  <2>2. PICK b : b = Cat(One(marker), Run(n))
    OBVIOUS
  <2>3. Lengthened(marker, maxLen, len) = b
    BY <1>2, <2>1, <2>2 DEF Lengthened, Cat, One
  <2>4. marker \in 0 .. 255
    OBVIOUS
  <2>5. PICK h \in Nat : /\ h >= 2
                         /\ OfLen(b, h) /\ AllBytes(b, h) /\ b[1] = marker
                         /\ Says(b, 0, plus, h, plus + n)
    BY <2>2, <2>4, RunSays
  <2>6. h >= 1 /\ 0 \in 0 .. plus /\ b[1] = marker + 0 /\ Says(b, 0, plus, h, len - 2)
    BY <2>1, <2>5
  <2>7. LengthSaid(b, marker, plus, len)
    BY <2>5, <2>6 DEF LengthSaid
  <2>8. QED
    BY <2>3, <2>7
<1>3. QED
  BY <1>1, <1>2

-----------------------------------------------------------------------------
(* What the decoder reads from the n bytes b of a match that follows lit   *)
(* literals: M1 and MX, M2, M3, M4.                                        *)
NearForm(b, n, lit, len, off) ==
  /\ n = 2 /\ b[1] \in 0 .. 15
  /\ \/ lit \in 1 .. 3 /\ len = 2 /\ off = NearDistance(b[1], b[2])
     \/ lit >= 4 /\ len = 3 /\ off = M2Max + NearDistance(b[1], b[2])

(* The other forms, each by its opcode; M3 and M4 have a length of h       *)
(* bytes.                                                                  *)
M2Form(b, n, len, off) ==
  /\ n = 2 /\ b[1] \in 64 .. 255
  /\ len = M2Length(b[1]) /\ off = M2Distance(b[1], b[2])

M3Form(b, n, len, off) ==
  \E h \in Nat, low \in 0 .. 31 :
    /\ h >= 1 /\ n = h + 2 /\ b[1] = 32 + low
    /\ Says(b, low, 31, h, len - 2)
    /\ off = 1 + FarDistance(b[h + 1], b[h + 2])

M4Form(b, n, len, off) ==
  \E h \in Nat, low \in 0 .. 7, k \in {0, 1} :
    /\ h >= 1 /\ n = h + 2 /\ b[1] = 16 + 8 * k + low
    /\ Says(b, low, 7, h, len - 2)
    /\ M4Distance(b[1], b[h + 1], b[h + 2]) # 0
    /\ off = M4Distance(b[1], b[h + 1], b[h + 2]) + M3Max

(* The n bytes b read as that match, after lit literals.                   *)
Reads(b, n, lit, len, off) ==
  \/ NearForm(b, n, lit, len, off) \/ M2Form(b, n, len, off)
  \/ M3Form(b, n, len, off) \/ M4Form(b, n, len, off)

(* The n bytes b are those of m, the count s noted in the last but one.    *)
Notes(m, n, s, b) == \A k \in 1 .. n : b[k] = IF k = n - 1 THEN m[k] + s ELSE m[k]

(* The decoder reads from b the count s, the length and the distance.      *)
ReadsWith(b, n, s, lit, len, off) ==
  AllBytes(b, n) /\ b[n - 1] % 4 = s /\ Reads(b, n, lit, len, off)

(* They do whatever count is noted in m, and then m is a code of the       *)
(* match.                                                                  *)
Fits(m, n, lit, len, off) ==
  \A s \in Counts : \A b : Notes(m, n, s, b) => ReadsWith(b, n, s, lit, len, off)

Coded(m, lit, len, off) ==
  \E n \in Nat : n >= 2 /\ OfLen(m, n) /\ AllBytes(m, n) /\ Fits(m, n, lit, len, off)

(* Two bytes: the count is in the first.                                   *)
LEMMA PairFits ==
  ASSUME NEW x \in 0 .. 252, NEW y \in 0 .. 255, NEW lit, NEW len, NEW off,
         \A s \in Counts : \A b :
            b[1] = x + s /\ b[2] = y => b[1] % 4 = s /\ b[1] \in 0 .. 255 /\ Reads(b, 2, lit, len, off)
  PROVE  Coded(Pair(x, y), lit, len, off)
<1>1. PICK m : m = Pair(x, y)
  OBVIOUS
<1>2. OfLen(m, 2) /\ m[1] = x /\ m[2] = y
  BY <1>1, SmallFacts
<1>3. AllBytes(m, 2)
  <2>1. \A k \in 1 .. 2 : k = 1 \/ k = 2
    OBVIOUS
  <2>2. x \in 0 .. 255
    OBVIOUS
  <2>3. QED
    BY <1>2, <2>1, <2>2 DEF AllBytes
<1>4. ASSUME NEW s \in Counts, NEW b, Notes(m, 2, s, b)
      PROVE  ReadsWith(b, 2, s, lit, len, off)
  <2>1. 1 \in 1 .. 2 /\ 2 \in 1 .. 2 /\ 1 = 2 - 1 /\ 2 # 2 - 1
    OBVIOUS
  <2>2. b[1] = x + s /\ b[2] = y
    BY <1>2, <1>4, <2>1 DEF Notes
  <2>3. b[1] % 4 = s /\ b[1] \in 0 .. 255 /\ Reads(b, 2, lit, len, off)
    BY <2>2
  <2>4. AllBytes(b, 2)
    <3>1. \A k \in 1 .. 2 : k = 1 \/ k = 2
      OBVIOUS
    <3>2. QED
      BY <2>2, <2>3, <3>1 DEF AllBytes
  <2>5. QED
    BY <2>1, <2>3, <2>4 DEF ReadsWith
<1>5. Fits(m, 2, lit, len, off)
  BY <1>4 DEF Fits
<1>6. 2 \in Nat /\ 2 >= 2
  OBVIOUS
<1>7. QED
  BY <1>1, <1>2, <1>3, <1>5, <1>6 DEF Coded

(* An M1 or MX.                                                            *)
LEMMA NearCoded ==
  ASSUME NEW d \in 0 .. 1023
  PROVE  \E x \in 0 .. 12, y \in 0 .. 255 :
           /\ NearCode(d) = Pair(x, y)
           /\ \A s \in Counts :
                x + s \in 0 .. 15 /\ (x + s) % 4 = s /\ NearDistance(x + s, y) = d + 1
<1>1. PICK x \in 0 .. 12, y \in 0 .. 255 : x = 4 * (d % 4) /\ y = d \div 4
  <2>1. d % 4 \in 0 .. 3
    OBVIOUS
  <2>2. 4 * (d % 4) \in 0 .. 12
    BY <2>1
  <2>3. d \div 4 \in 0 .. 255
    OBVIOUS
  <2>4. QED
    BY <2>2, <2>3, Zenon
<1>2. NearCode(d) = Pair(x, y)
  BY <1>1 DEF NearCode, Pair
<1>3. PICK r \in 0 .. 3 : x = 4 * r /\ d = 4 * y + r
  BY <1>1
<1>4. ASSUME NEW s \in Counts
      PROVE  x + s \in 0 .. 15 /\ (x + s) % 4 = s /\ NearDistance(x + s, y) = d + 1
  <2>1. s \in 0 .. 3
    BY DEF Counts
  <2>2. x + s \in 0 .. 15
    BY <1>3, <2>1
  <2>3. (x + s) % 4 = s
    BY <1>3, <2>1
  <2>4. (x + s) \div 4 = r
    BY <1>3, <2>1
  <2>5. NearDistance(x + s, y) = d + 1
    BY <1>3, <2>4 DEF NearDistance
  <2>6. QED
    BY <2>2, <2>3, <2>5
<1>5. QED
  BY <1>2, <1>4

(* Two bytes after one to three literals.                                  *)
LEMMA M1Coded ==
  ASSUME NEW d \in 0 .. 1023, NEW lit \in 1 .. 3
  PROVE  Coded(NearCode(d), lit, 2, d + 1)
<1>1. PICK x \in 0 .. 12, y \in 0 .. 255 :
        /\ NearCode(d) = Pair(x, y)
        /\ \A s \in Counts :
             x + s \in 0 .. 15 /\ (x + s) % 4 = s /\ NearDistance(x + s, y) = d + 1
  BY NearCoded
<1>2. ASSUME NEW s \in Counts, NEW b, b[1] = x + s /\ b[2] = y
      PROVE  b[1] % 4 = s /\ b[1] \in 0 .. 255 /\ Reads(b, 2, lit, 2, d + 1)
  <2>1. b[1] \in 0 .. 15 /\ b[1] % 4 = s /\ NearDistance(b[1], b[2]) = d + 1
    BY <1>1, <1>2
  <2>2. NearForm(b, 2, lit, 2, d + 1)
    BY <2>1 DEF NearForm
  <2>3. QED
    BY <2>1, <2>2 DEF Reads
<1>3. x \in 0 .. 252
  OBVIOUS
<1>4. Coded(Pair(x, y), lit, 2, d + 1)
  BY <1>2, <1>3, PairFits
<1>5. QED
  BY <1>1, <1>4

(* Three bytes, further away, after four literals or more.                 *)
LEMMA MXCoded ==
  ASSUME NEW d \in 0 .. 1023, NEW lit \in Nat, lit >= 4
  PROVE  Coded(NearCode(d), lit, 3, M2Max + (d + 1))
<1>1. PICK x \in 0 .. 12, y \in 0 .. 255 :
        /\ NearCode(d) = Pair(x, y)
        /\ \A s \in Counts :
             x + s \in 0 .. 15 /\ (x + s) % 4 = s /\ NearDistance(x + s, y) = d + 1
  BY NearCoded
<1>2. PICK off : off = M2Max + (d + 1)
  OBVIOUS
<1>3. ASSUME NEW s \in Counts, NEW b, b[1] = x + s /\ b[2] = y
      PROVE  b[1] % 4 = s /\ b[1] \in 0 .. 255 /\ Reads(b, 2, lit, 3, off)
  <2>1. b[1] \in 0 .. 15 /\ b[1] % 4 = s /\ NearDistance(b[1], b[2]) = d + 1
    BY <1>1, <1>3
  <2>2. NearForm(b, 2, lit, 3, off)
    BY <1>2, <2>1 DEF NearForm
  <2>3. QED
    BY <2>1, <2>2 DEF Reads
<1>4. x \in 0 .. 252
  OBVIOUS
<1>5. Coded(Pair(x, y), lit, 3, off)
  BY <1>3, <1>4, PairFits
<1>6. QED
  BY <1>1, <1>2, <1>5

(* An M2.                                                                  *)
LEMMA M2Coded ==
  ASSUME NEW len \in 3 .. M2MaxLen, NEW d \in 0 .. M2Max - 1, NEW lit
  PROVE  Coded(M2Code(len, d), lit, len, d + 1)
<1>1. PICK x : x = M2Code(len, d)[1]
  OBVIOUS
<1>2. PICK y : y = M2Code(len, d)[2]
  OBVIOUS
<1>3. M2Code(len, d) = Pair(x, y) /\ x \in Int
  <2>1. /\ x = 64 + 4 * M2Low * (len - 3) + 4 * (d % M2Low) /\ y = d \div M2Low
        /\ M2Code(len, d) = Pair(x, y)
    BY <1>1, <1>2 DEF M2Code, Pair
  <2>2. x \in Int
    BY <2>1, M2LowAssumption DEF M2Max
  <2>3. QED
    BY <2>1, <2>2
<1>4. \A s \in Counts :
        /\ x + s \in 64 .. 255 /\ y \in 0 .. 255
        /\ M2Length(x + s) = len /\ M2Distance(x + s, y) = d + 1 /\ (x + s) % 4 = s
  BY <1>1, <1>2, M2RoundTrip
<1>5. x \in 0 .. 252 /\ y \in 0 .. 255
  <2>1. x + 0 \in 64 .. 255 /\ x + 3 \in 64 .. 255 /\ y \in 0 .. 255
    <3>1. 0 \in Counts /\ 3 \in Counts
      BY DEF Counts
    <3>2. QED
      BY <1>4, <3>1
  <2>2. QED
    BY <1>3, <2>1
<1>6. ASSUME NEW s \in Counts, NEW b, b[1] = x + s /\ b[2] = y
      PROVE  b[1] % 4 = s /\ b[1] \in 0 .. 255 /\ Reads(b, 2, lit, len, d + 1)
  <2>1. /\ b[1] \in 64 .. 255 /\ b[1] % 4 = s
        /\ M2Length(b[1]) = len /\ M2Distance(b[1], b[2]) = d + 1
    BY <1>4, <1>6
  <2>2. M2Form(b, 2, len, d + 1)
    BY <2>1 DEF M2Form
  <2>3. QED
    BY <2>1, <2>2 DEF Reads
<1>7. Coded(Pair(x, y), lit, len, d + 1)
  BY <1>5, <1>6, PairFits
<1>8. QED
  BY <1>3, <1>7

(* The two bytes of a distance behind the h bytes l of a length.           *)
FarPair(d, x, y) ==
  /\ x \in 0 .. 252 /\ y \in 0 .. 255 /\ Distance(d) = Pair(x, y)
  /\ \A s \in Counts :
       x + s \in 0 .. 255 /\ (x + s) % 4 = s /\ FarDistance(x + s, y) = LowBits(d)

HasFarPair(d) == \E x, y : FarPair(d, x, y)

(* The two bytes of a distance have room for the count and say the         *)
(* distance.                                                               *)
LEMMA DistanceBytes ==
  ASSUME NEW d \in Nat, d < 32768
  PROVE  HasFarPair(d)
<1>1. PICK x \in 0 .. 252 : x = 4 * (d % 64)
  OBVIOUS
<1>2. PICK y \in 0 .. 255 : y = (d \div 64) % 256
  OBVIOUS
<1>3. Distance(d) = Pair(x, y) /\ Distance(d)[1] = x /\ Distance(d)[2] = y
  BY <1>1, <1>2 DEF Distance, Pair
<1>4. \A s \in Counts :
        x + s \in 0 .. 255 /\ (x + s) % 4 = s /\ FarDistance(x + s, y) = LowBits(d)
  BY <1>3, FarRoundTrip
<1>5. FarPair(d, x, y)
  BY <1>3, <1>4 DEF FarPair
<1>6. QED
  BY <1>5 DEF HasFarPair

(* l is a length of h bytes that the two bytes of d complete to the match. *)
FarReads(l, h, d, lit, len, off) ==
  \A s \in Counts : \A b :
    /\ \A k \in 1 .. h : b[k] = l[k]
    /\ b[h + 1] = Distance(d)[1] + s /\ b[h + 2] = Distance(d)[2]
    => Reads(b, h + 2, lit, len, off)

(* A length and a distance behind it make a match, whatever count is       *)
(* noted.                                                                  *)
LEMMA FarFits ==
  ASSUME NEW h \in Nat, h >= 1, NEW l, OfLen(l, h), AllBytes(l, h),
         NEW d \in Nat, d < 32768, NEW lit, NEW len, NEW off,
         FarReads(l, h, d, lit, len, off)
  PROVE  Coded(Cat(l, Distance(d)), lit, len, off)
<1>1. PICK x, y : FarPair(d, x, y)
  <2>1. HasFarPair(d)
    BY DistanceBytes
  <2>2. QED
    BY <2>1 DEF HasFarPair
<1>2. /\ x \in 0 .. 252 /\ y \in 0 .. 255 /\ Distance(d) = Pair(x, y)
      /\ \A s \in Counts : x + s \in 0 .. 255 /\ (x + s) % 4 = s
  BY <1>1 DEF FarPair
<1>3. OfLen(Pair(x, y), 2) /\ Pair(x, y)[1] = x /\ Pair(x, y)[2] = y
  BY <1>2, SmallFacts
<1>4. PICK m : m = Cat(l, Pair(x, y))
  OBVIOUS
<1>5. PICK n \in Nat : n = h + 2 /\ n >= 2
  OBVIOUS
<1>6. /\ OfLen(m, n)
      /\ \A k \in 1 .. h : m[k] = l[k]
      /\ m[h + 1] = x /\ m[h + 2] = y
  <2>1. 2 \in Nat /\ 1 \in 1 .. 2 /\ 2 \in 1 .. 2
    OBVIOUS
  <2>2. /\ OfLen(m, h + 2)
        /\ \A k \in 1 .. h : m[k] = l[k]
        /\ \A k \in 1 .. 2 : m[h + k] = Pair(x, y)[k]
    BY <1>3, <1>4, <2>1, CatFacts
  <2>3. QED
    BY <1>3, <1>5, <2>1, <2>2
<1>7. \A k \in 1 .. n : k \in 1 .. h \/ k = h + 1 \/ k = h + 2
  BY <1>5
<1>8. AllBytes(m, n)
  <2> SUFFICES ASSUME NEW k \in 1 .. n
               PROVE  m[k] \in 0 .. 255
    BY DEF AllBytes
  <2>1. \A j \in 1 .. h : m[j] \in 0 .. 255
    BY <1>6 DEF AllBytes
  <2>2. x \in 0 .. 255 /\ y \in 0 .. 255
    BY <1>2
  <2>3. m[h + 1] \in 0 .. 255 /\ m[h + 2] \in 0 .. 255
    BY <1>6, <2>2
  <2>4. QED
    BY <1>7, <2>1, <2>3
<1>9. ASSUME NEW s \in Counts, NEW b, Notes(m, n, s, b)
      PROVE  ReadsWith(b, n, s, lit, len, off)
  <2>1. \A k \in 1 .. h : b[k] = l[k]
    <3> SUFFICES ASSUME NEW k \in 1 .. h
                 PROVE  b[k] = l[k]
      OBVIOUS
    <3>1. k \in 1 .. n /\ k # n - 1
      BY <1>5
    <3>2. b[k] = m[k]
      BY <1>9, <3>1 DEF Notes
    <3>3. QED
      BY <1>6, <3>2
  <2>2. b[h + 1] = x + s
    <3>1. h + 1 \in 1 .. n /\ h + 1 = n - 1
      BY <1>5
    <3>2. QED
      BY <1>6, <1>9, <3>1 DEF Notes
  <2>3. b[h + 2] = y
    <3>1. h + 2 \in 1 .. n /\ h + 2 # n - 1
      BY <1>5
    <3>2. QED
      BY <1>6, <1>9, <3>1 DEF Notes
  <2>4. Reads(b, h + 2, lit, len, off)
    BY <1>2, <1>3, <2>1, <2>2, <2>3 DEF FarReads
  <2>5. b[n - 1] % 4 = s
    <3>1. h + 1 = n - 1
      BY <1>5
    <3>2. QED
      BY <1>2, <2>2, <3>1
  <2>6. AllBytes(b, n)
    <3>1. \A k \in 1 .. h : b[k] \in 0 .. 255
      BY <2>1 DEF AllBytes
    <3>2. b[h + 1] \in 0 .. 255 /\ b[h + 2] \in 0 .. 255
      BY <1>2, <2>2, <2>3
    <3>3. ASSUME NEW k \in 1 .. n
          PROVE  b[k] \in 0 .. 255
      <4>1. CASE k \in 1 .. h
        BY <3>1, <4>1
      <4>2. CASE k = h + 1 \/ k = h + 2
        BY <3>2, <4>2
      <4>3. QED
        BY <1>7, <4>1, <4>2
    <3>4. QED
      BY <3>3 DEF AllBytes
  <2>7. QED
    BY <1>5, <2>4, <2>5, <2>6 DEF ReadsWith
<1>10. Fits(m, n, lit, len, off)
  BY <1>9 DEF Fits
<1>11. QED
  BY <1>2, <1>4, <1>5, <1>6, <1>8, <1>10 DEF Coded

(* An M3.                                                                  *)
LEMMA M3Coded ==
  ASSUME NEW len \in Nat, len > 2, NEW d \in Nat, d < M3Max, NEW lit
  PROVE  Coded(Cat(Lengthened(32, 33, len), Distance(d)), lit, len, d + 1)
<1>1. d < 32768 /\ LowBits(d) = d
  BY DEF M3Max, LowBits
<1>2. PICK l : l = Lengthened(32, 33, len)
  OBVIOUS
<1>3. LengthSaid(l, 32, 31, len)
  <2>1. 32 \in Nat /\ 33 \in Nat /\ 31 \in Nat /\ 33 = 31 + 2 /\ 31 > 0 /\ 32 + 33 <= 257
    OBVIOUS
  <2>2. QED
    BY <1>2, <2>1, LengthenedSays, Zenon
<1>4. PICK h \in Nat, low \in 0 .. 31 :
        /\ h >= 1 /\ OfLen(l, h) /\ AllBytes(l, h)
        /\ l[1] = 32 + low /\ Says(l, low, 31, h, len - 2)
  BY <1>3 DEF LengthSaid
<1>5. ASSUME NEW s \in Counts, NEW b,
             /\ \A k \in 1 .. h : b[k] = l[k]
             /\ b[h + 1] = Distance(d)[1] + s /\ b[h + 2] = Distance(d)[2]
      PROVE  Reads(b, h + 2, lit, len, d + 1)
  <2>1. FarDistance(b[h + 1], b[h + 2]) = d
    BY <1>1, <1>5, FarRoundTrip
  <2>2. Says(b, low, 31, h, len - 2)
    BY <1>4, <1>5, SaysPrefix
  <2>3. b[1] = 32 + low
    <3>1. 1 \in 1 .. h
      BY <1>4
    <3>2. QED
      BY <1>4, <1>5, <3>1
  <2>4. d + 1 = 1 + FarDistance(b[h + 1], b[h + 2])
    BY <2>1
  <2>5. M3Form(b, h + 2, len, d + 1)
    BY <1>4, <2>2, <2>3, <2>4 DEF M3Form
  <2>6. QED
    BY <2>5 DEF Reads
<1>6. Coded(Cat(l, Distance(d)), lit, len, d + 1)
  <2>1. FarReads(l, h, d, lit, len, d + 1)
    BY <1>5 DEF FarReads
  <2>2. QED
    BY <1>1, <1>4, <2>1, FarFits
<1>7. QED
  BY <1>2, <1>6

(* An M4: the high bit of the distance is in the opcode.                   *)
LEMMA M4Coded ==
  ASSUME NEW len \in Nat, len > 2, NEW off \in Nat, off > M3Max, off <= M4Max, NEW lit,
         NEW d \in Nat, d = off - M3Max
  PROVE  Coded(Cat(Lengthened(16 + 8 * HighBit(d), 9, len), Distance(d)), lit, len, off)
<1>1. d < 32768
  BY DEF M3Max, M4Max
<1>2. PICK k \in {0, 1} : k = HighBit(d)
  BY <1>1, HighAndLow
<1>3. PICK marker \in Nat : marker = 16 + 8 * k /\ marker + 9 <= 257
  BY <1>2
<1>4. PICK l : l = Lengthened(marker, 9, len)
  OBVIOUS
<1>5. LengthSaid(l, marker, 7, len)
  <2>1. 9 \in Nat /\ 7 \in Nat /\ 9 = 7 + 2 /\ 7 > 0 /\ marker + 9 <= 257
    BY <1>3
  <2>2. QED
    BY <1>4, <2>1, LengthenedSays, Zenon
<1>6. PICK h \in Nat, low \in 0 .. 7 :
        /\ h >= 1 /\ OfLen(l, h) /\ AllBytes(l, h)
        /\ l[1] = marker + low /\ Says(l, low, 7, h, len - 2)
  BY <1>5 DEF LengthSaid
<1>7. ASSUME NEW s \in Counts, NEW b,
             /\ \A j \in 1 .. h : b[j] = l[j]
             /\ b[h + 1] = Distance(d)[1] + s /\ b[h + 2] = Distance(d)[2]
      PROVE  Reads(b, h + 2, lit, len, off)
  <2>1. Says(b, low, 7, h, len - 2)
    BY <1>6, <1>7, SaysPrefix
  <2>2. b[1] = 16 + 8 * k + low
    <3>1. 1 \in 1 .. h
      BY <1>6
    <3>2. QED
      BY <1>3, <1>6, <1>7, <3>1
  <2>3. b[1] = M4Opcode(off, low)
    BY <1>2, <2>2 DEF M4Opcode, M4Marker
  <2>4. PICK e : e = M4Distance(b[1], b[h + 1], b[h + 2])
    OBVIOUS
  <2>5. e # 0 /\ e + M3Max = off
    BY <1>7, <2>3, <2>4, NoFalseEnd
  <2>6. M4Form(b, h + 2, len, off)
    BY <1>6, <2>1, <2>2, <2>4, <2>5 DEF M4Form
  <2>7. QED
    BY <2>6 DEF Reads
<1>8. Coded(Cat(l, Distance(d)), lit, len, off)
  <2>1. FarReads(l, h, d, lit, len, off)
    BY <1>7 DEF FarReads
  <2>2. QED
    BY <1>1, <1>6, <2>1, FarFits
<1>9. QED
  BY <1>2, <1>3, <1>4, <1>8

(* Every match a compressor codes.                                         *)
LEMMA MatchCoded ==
  ASSUME NEW lit \in Nat, NEW len \in Nat, NEW off \in Nat, Codable(FALSE, lit, len, off)
  PROVE  Coded(MatchCode(lit, len, off), lit, len, off)
<1>1. /\ len >= 2 /\ off >= 1 /\ off <= M4Max
      /\ len = 2 => lit \in 1 .. 3 /\ off <= M1Max
      /\ len = 3 /\ off > MXMax => lit < 4
  BY DEF Codable
<1>2. PICK d \in Nat : d = off - 1 /\ d + 1 = off
  BY <1>1
<1>3. CASE IsM1(lit, len, off)
  <2>1. /\ MatchCode(lit, len, off) = NearCode(d) /\ len = 2 /\ lit \in 1 .. 3
        /\ d \in 0 .. 1023
    BY <1>1, <1>2, <1>3 DEF MatchCode, IsM1, M1Max
  <2>2. Coded(NearCode(d), lit, 2, d + 1)
    BY <2>1, M1Coded, Zenon
  <2>3. QED
    BY <1>2, <2>1, <2>2, Zenon
<1>4. CASE ~IsM1(lit, len, off) /\ IsM2(lit, len, off)
  <2>1. /\ MatchCode(lit, len, off) = M2Code(len, d) /\ len \in 3 .. M2MaxLen
        /\ d \in 0 .. M2Max - 1
    BY <1>1, <1>2, <1>4, M2LowAssumption DEF MatchCode, IsM1, IsM2, M2Max, M2MaxLen
  <2>2. QED
    BY <1>2, <2>1, M2Coded
<1>5. CASE ~IsM1(lit, len, off) /\ ~IsM2(lit, len, off) /\ IsMX(lit, len, off)
  <2> DEFINE e == off - 1 - M2Max
  <2>1. e \in 0 .. 1023 /\ off = M2Max + (e + 1)
    <3>1. M2Max \in Nat
      BY M2LowAssumption DEF M2Max
    <3>2. off > M2Max /\ off <= 1024 + M2Max
      BY <1>5 DEF IsMX, MXMax, M1Max
    <3>3. QED
      BY <1>1, <3>1, <3>2
  <2>2. MatchCode(lit, len, off) = NearCode(e) /\ len = 3 /\ lit >= 4
    BY <1>5 DEF MatchCode, IsM1, IsMX
  <2> HIDE DEF e
  <2>3. lit >= 4
    BY <2>2
  <2>4. Coded(NearCode(e), lit, 3, M2Max + (e + 1))
    BY <2>1, <2>3, MXCoded, Zenon
  <2>5. len = 3 /\ off = M2Max + (e + 1)
    BY <2>1, <2>2
  <2>6. Coded(NearCode(e), lit, len, off)
    BY <2>4, <2>5, Zenon
  <2>7. QED
    BY <2>2, <2>6, Zenon
<1>6. CASE /\ ~IsM1(lit, len, off) /\ ~IsM2(lit, len, off) /\ ~IsMX(lit, len, off)
           /\ IsM3(lit, len, off)
  <2>1. /\ MatchCode(lit, len, off) = Cat(Lengthened(32, 33, len), Distance(d))
        /\ len > 2 /\ d < M3Max
    BY <1>1, <1>2, <1>6 DEF MatchCode, IsM1, IsM3, M3Marker, M3MaxLen, M3Max, Cat
  <2>2. QED
    BY <1>2, <2>1, M3Coded
<1>7. CASE /\ ~IsM1(lit, len, off) /\ ~IsM2(lit, len, off) /\ ~IsMX(lit, len, off)
           /\ ~IsM3(lit, len, off)
  <2>1. PICK e \in Nat : e = off - M3Max /\ off > M3Max
    BY <1>1, <1>7 DEF IsM3, M3Max
  <2>2. /\ MatchCode(lit, len, off) = Cat(Lengthened(16 + 8 * HighBit(e), 9, len), Distance(e))
        /\ len > 2
    BY <1>1, <1>7, <2>1 DEF MatchCode, IsM1, M4Marker, M4MaxLen, Cat
  <2>3. QED
    BY <1>1, <2>1, <2>2, M4Coded
<1>8. QED
  BY <1>3, <1>4, <1>5, <1>6, <1>7

-----------------------------------------------------------------------------
(* The block.                                                              *)

(* A script: pieces of a text, each behind the one before it, no two runs  *)
(* of literals together, and every match one that can be coded there.      *)
Pieces == [pos : Nat, len : Nat, off : Nat]
OfPieces(s, n) == s \in Seq(Pieces) /\ Len(s) = n
Plus(s, p)     == s \o <<p>>

(* Where the text ends that n pieces stand for; the literals before the    *)
(* j-th.                                                                   *)
Ends(s, n)   == IF n = 0 THEN 0 ELSE s[n].pos + s[n].len
Before(s, j) == IF s[j - 1].off = 0 THEN s[j - 1].len ELSE 0

(* What the j-th piece may be, after the ones before it.                   *)
Follows(s, j) ==
  /\ s[j] \in Pieces /\ s[j].len >= 1
  /\ s[j].pos = Ends(s, j - 1)
  /\ j = 1 => s[j].off = 0
  /\ j > 1 /\ s[j].off = 0 => s[j - 1].off > 0
  /\ j > 1 /\ s[j].off > 0 =>
       /\ Codable(FALSE, Before(s, j), s[j].len, s[j].off)
       /\ s[j].off <= s[j].pos + DictLen

(* The first n pieces are a script, each within the text of all.           *)
Script(s, n) == \A j \in 1 .. n : Follows(s, j) /\ Ends(s, j) <= Ends(s, n)

(* What Plus is.                                                           *)
LEMMA PlusFacts ==
  ASSUME NEW n \in Nat, NEW s, OfPieces(s, n), NEW p \in Pieces
  PROVE  /\ OfPieces(Plus(s, p), n + 1)
         /\ \A j \in 1 .. n : Plus(s, p)[j] = s[j]
         /\ Plus(s, p)[n + 1] = p
<1>1. s \in Seq(Pieces) /\ Len(s) = n
  BY DEF OfPieces
<1>2. Plus(s, p) = Append(s, p)
  BY <1>1 DEF Plus
<1>3. /\ Append(s, p) \in Seq(Pieces) /\ Len(Append(s, p)) = Len(s) + 1
      /\ \A j \in 1 .. Len(s) : Append(s, p)[j] = s[j]
      /\ Append(s, p)[Len(s) + 1] = p
  BY <1>1, AppendProperties
<1>4. QED
  BY <1>1, <1>2, <1>3 DEF OfPieces

(* A script ends at a place.                                               *)
LEMMA EndsNat ==
  ASSUME NEW n \in Nat, NEW s, \A j \in 1 .. n : s[j] \in Pieces
  PROVE  /\ Ends(s, n) \in Nat
         /\ n > 0 => Ends(s, n) = s[n].pos + s[n].len
<1>1. CASE n = 0
  BY <1>1 DEF Ends
<1>2. CASE n > 0
  <2>1. s[n] \in Pieces
    BY <1>2
  <2>2. s[n].pos \in Nat /\ s[n].len \in Nat
    BY <2>1 DEF Pieces
  <2>3. Ends(s, n) = s[n].pos + s[n].len
    BY <1>2 DEF Ends
  <2>4. QED
    BY <2>2, <2>3
<1>3. QED
  BY <1>1, <1>2

(* One more piece.                                                         *)
LEMMA FollowsPlus ==
  ASSUME NEW n \in Nat, NEW s, NEW r, \A j \in 1 .. n : r[j] = s[j],
         NEW j \in 1 .. n, Follows(s, j)
  PROVE  Follows(r, j) /\ Ends(r, j) = Ends(s, j)
<1>1. r[j] = s[j]
  OBVIOUS
<1>2. j > 1 => r[j - 1] = s[j - 1]
  OBVIOUS
<1>3. j > 1 => Before(r, j) = Before(s, j)
  BY <1>2 DEF Before
<1>4. Ends(r, j - 1) = Ends(s, j - 1)
  <2>1. CASE j = 1
    BY <2>1 DEF Ends
  <2>2. CASE j > 1
    BY <1>2, <2>2 DEF Ends
  <2>3. QED
    BY <2>1, <2>2
<1>5. Ends(r, j) = Ends(s, j)
  BY <1>1 DEF Ends
<1>6. Follows(r, j)
  BY <1>1, <1>2, <1>3, <1>4 DEF Follows
<1>7. QED
  BY <1>5, <1>6

(* A script with one more piece that may follow is a script.               *)
LEMMA ScriptPlus ==
  ASSUME NEW n \in Nat, NEW s, NEW r, Script(s, n),
         \A j \in 1 .. n : r[j] = s[j], Follows(r, n + 1)
  PROVE  Script(r, n + 1)
<1>1. \A j \in 1 .. n : Follows(r, j) /\ Ends(r, j) = Ends(s, j)
  BY FollowsPlus DEF Script
<1>2. Ends(r, n) = Ends(s, n)
  <2>1. CASE n = 0
    BY <2>1 DEF Ends
  <2>2. CASE n > 0
    BY <1>1, <2>2
  <2>3. QED
    BY <2>1, <2>2
<1>3. \A j \in 1 .. n + 1 : r[j] \in Pieces
  <2>1. \A j \in 1 .. n : r[j] \in Pieces
    BY <1>1 DEF Follows
  <2>2. r[n + 1] \in Pieces
    BY DEF Follows
  <2>3. QED
    BY <2>1, <2>2
<1>4. Ends(r, n) \in Nat /\ Ends(r, n + 1) \in Nat /\ Ends(r, n) <= Ends(r, n + 1)
  <2>1. Ends(r, n) \in Nat
    BY <1>3, EndsNat
  <2>2. Ends(r, n + 1) = r[n + 1].pos + r[n + 1].len
    BY DEF Ends
  <2>3. r[n + 1].pos = Ends(r, n)
    BY DEF Follows
  <2>4. r[n + 1].len \in Nat
    BY <1>3 DEF Pieces
  <2>5. QED
    BY <2>1, <2>2, <2>3, <2>4
<1>5. \A j \in 1 .. n : Ends(r, j) \in Nat /\ Ends(r, j) <= Ends(r, n)
  <2> SUFFICES ASSUME NEW j \in 1 .. n
               PROVE  Ends(r, j) \in Nat /\ Ends(r, j) <= Ends(r, n)
    OBVIOUS
  <2>1. Ends(r, j) \in Nat
    BY <1>3, EndsNat
  <2>2. Ends(s, j) <= Ends(s, n)
    BY DEF Script
  <2>3. QED
    BY <1>1, <1>2, <2>1, <2>2
<1>6. \A j \in 1 .. n + 1 : Ends(r, j) <= Ends(r, n + 1)
  <2> SUFFICES ASSUME NEW j \in 1 .. n + 1
               PROVE  Ends(r, j) <= Ends(r, n + 1)
    OBVIOUS
  <2>1. CASE j = n + 1
    BY <1>4, <2>1
  <2>2. CASE j \in 1 .. n
    BY <1>4, <1>5, <2>2
  <2>3. QED
    BY <2>1, <2>2
<1>7. \A j \in 1 .. n + 1 : Follows(r, j)
  <2>1. \A j \in 1 .. n + 1 : j \in 1 .. n \/ j = n + 1
    OBVIOUS
  <2>2. QED
    BY <1>1, <2>1
<1>8. QED
  BY <1>6, <1>7 DEF Script

-----------------------------------------------------------------------------
(* Where its pieces are in a block.                                        *)
Window(c, p) == [k \in Nat |-> c[p + k]]

(* What Window is.                                                         *)
LEMMA WindowFacts ==
  ASSUME NEW c, NEW p, NEW k \in Nat
  PROVE  Window(c, p)[k] = c[p + k]
BY DEF Window

(* An instruction of h bytes for a run of len literals.                    *)
RunAt(len, c, p, h) ==
  \E low \in 0 .. 15 : c[p + 1] = low /\ Says(Window(c, p), low, 15, h, len - 3)

(* The j-th piece, literals, in the bytes from p to q: their number is     *)
(* noted in the match before, or stands in the first byte of the block, or *)
(* has an instruction of its own.                                          *)
LitAt(j, len, c, p, q) ==
  \E h \in Nat :
    /\ q = p + h + len
    /\ \/ h = 0 /\ j > 1 /\ len <= 3
       \/ h = 1 /\ j = 1 /\ len <= 238 /\ c[p + 1] = 17 + len
       \/ h >= 1 /\ len >= 4 /\ RunAt(len, c, p, h)

(* A match there, with the count of literals after it.                     *)
MatchAt(before, len, off, after, c, p, q) ==
  \E w \in Nat : \E m :
    /\ w >= 2 /\ q = p + w /\ AllBytes(m, w)
    /\ Fits(m, w, before, len, off) /\ Notes(m, w, after, Window(c, p))

(* The literals noted in the j-th piece, a match: those after it, up to    *)
(* three.                                                                  *)
After(s, n, j) == IF j < n /\ s[j + 1].off = 0 /\ s[j + 1].len <= 3 THEN s[j + 1].len ELSE 0

(* The j-th piece is in the bytes of c from p to q.                        *)
PieceAt(s, n, j, c, p, q) ==
  IF s[j].off = 0 THEN LitAt(j, s[j].len, c, p, q)
  ELSE MatchAt(Before(s, j), s[j].len, s[j].off, After(s, n, j), c, p, q)

(* Both depend on the bytes from p to q only.                              *)
LEMMA WindowKept ==
  ASSUME NEW p \in Nat, NEW w \in Nat, NEW c, NEW d, \A k \in p + 1 .. p + w : d[k] = c[k]
  PROVE  \A k \in 1 .. w : Window(d, p)[k] = Window(c, p)[k] /\ d[p + k] = c[p + k]
<1> SUFFICES ASSUME NEW k \in 1 .. w
             PROVE  Window(d, p)[k] = Window(c, p)[k] /\ d[p + k] = c[p + k]
  OBVIOUS
<1>1. p + k \in p + 1 .. p + w /\ k \in Nat
  OBVIOUS
<1>2. d[p + k] = c[p + k]
  BY <1>1
<1>3. QED
  BY <1>1, <1>2, WindowFacts

(* Literals are where they were, if their bytes are.                       *)
LEMMA LitKept ==
  ASSUME NEW p \in Nat, NEW q \in Nat, NEW c, NEW d, \A k \in p + 1 .. q : d[k] = c[k],
         NEW j \in Nat, NEW len \in Nat, LitAt(j, len, c, p, q)
  PROVE  LitAt(j, len, d, p, q)
<1>1. PICK h \in Nat :
        /\ q = p + h + len
        /\ \/ h = 0 /\ j > 1 /\ len <= 3
           \/ h = 1 /\ j = 1 /\ len <= 238 /\ c[p + 1] = 17 + len
           \/ h >= 1 /\ len >= 4 /\ RunAt(len, c, p, h)
  BY DEF LitAt
<1>2. \A k \in 1 .. h : Window(d, p)[k] = Window(c, p)[k] /\ d[p + k] = c[p + k]
  <2>1. \A k \in p + 1 .. p + h : d[k] = c[k]
    BY <1>1
  <2>2. QED
    BY <2>1, WindowKept
<1>3. h >= 1 => d[p + 1] = c[p + 1]
  BY <1>2
<1>4. h >= 1 /\ RunAt(len, c, p, h) => RunAt(len, d, p, h)
  <2> SUFFICES ASSUME h >= 1, RunAt(len, c, p, h)
               PROVE  RunAt(len, d, p, h)
    OBVIOUS
  <2>1. PICK low \in 0 .. 15 : c[p + 1] = low /\ Says(Window(c, p), low, 15, h, len - 3)
    BY DEF RunAt
  <2>2. \A k \in 1 .. h : Window(d, p)[k] = Window(c, p)[k]
    BY <1>2
  <2>3. Says(Window(d, p), low, 15, h, len - 3)
    BY <2>1, <2>2, SaysPrefix
  <2>4. d[p + 1] = low
    BY <1>3, <2>1
  <2>5. QED
    BY <2>3, <2>4 DEF RunAt
<1>5. QED
  BY <1>1, <1>3, <1>4 DEF LitAt

(* And so is a match.                                                      *)
LEMMA MatchKept ==
  ASSUME NEW p \in Nat, NEW q \in Nat, NEW c, NEW d, \A k \in p + 1 .. q : d[k] = c[k],
         NEW before, NEW len, NEW off, NEW after, MatchAt(before, len, off, after, c, p, q)
  PROVE  MatchAt(before, len, off, after, d, p, q)
<1>1. PICK w \in Nat : \E m :
        /\ w >= 2 /\ q = p + w /\ AllBytes(m, w)
        /\ Fits(m, w, before, len, off) /\ Notes(m, w, after, Window(c, p))
  BY DEF MatchAt
<1>2. PICK m :
       /\ w >= 2 /\ q = p + w /\ AllBytes(m, w)
       /\ Fits(m, w, before, len, off) /\ Notes(m, w, after, Window(c, p))
  BY <1>1
<1>3. \A k \in 1 .. w : Window(d, p)[k] = Window(c, p)[k]
  <2>1. \A k \in p + 1 .. p + w : d[k] = c[k]
    BY <1>2
  <2>2. QED
    BY <2>1, WindowKept
<1>4. Notes(m, w, after, Window(d, p))
  BY <1>2, <1>3 DEF Notes
<1>5. QED
  BY <1>2, <1>4 DEF MatchAt

(* A block so far: its pieces start at g[1], g[2], ... and end at g[n + 1]. *)
Places(n, g) ==
  g[1] = 0 /\ \A j \in 1 .. n + 1 : g[j] \in Nat /\ \A i \in 1 .. j : g[i] <= g[j]

CodeBytes(c, q) == \A k \in 1 .. q : c[k] \in -1 .. 255

(* A block: a script, the places of its pieces, and each piece at its      *)
(* place.                                                                  *)
Block(s, n, c, g) ==
  /\ OfPieces(s, n) /\ Script(s, n) /\ Places(n, g) /\ CodeBytes(c, g[n + 1])
  /\ \A j \in 1 .. n : PieceAt(s, n, j, c, g[j], g[j + 1])

(* The places of a block are in order.                                     *)
LEMMA PlacesFacts ==
  ASSUME NEW n \in Nat, NEW g, Places(n, g)
  PROVE  /\ g[1] = 0 /\ g[n + 1] \in Nat
         /\ \A j \in 1 .. n :
              /\ g[j] \in Nat /\ g[j + 1] \in Nat
              /\ g[j] <= g[j + 1] /\ g[j + 1] <= g[n + 1]
              /\ j < n => g[j + 1] <= g[n]
<1>1. \A j \in 1 .. n : /\ j \in 1 .. n + 1 /\ j + 1 \in 1 .. n + 1 /\ j \in 1 .. j + 1
                       /\ j + 1 \in 1 .. n + 1 /\ n \in 1 .. n + 1
                       /\ j < n => j + 1 \in 1 .. n
  OBVIOUS
<1>2. n + 1 \in 1 .. n + 1
  OBVIOUS
<1>3. QED
  BY <1>1, <1>2 DEF Places

(* A block with one more piece.                                            *)
LEMMA BlockPlus ==
  ASSUME NEW n \in Nat, NEW s, NEW c, NEW g, Block(s, n, c, g),
         NEW r, OfPieces(r, n + 1), \A j \in 1 .. n : r[j] = s[j], Follows(r, n + 1),
         NEW q \in Nat, g[n + 1] <= q, NEW d, CodeBytes(d, q),
         \A j \in 1 .. n : PieceAt(r, n + 1, j, d, g[j], g[j + 1]),
         PieceAt(r, n + 1, n + 1, d, g[n + 1], q)
  PROVE  \E f : Block(r, n + 1, d, f) /\ f[(n + 1) + 1] = q
<1>1. PICK f : f = [j \in 1 .. n + 2 |-> IF j = n + 2 THEN q ELSE g[j]]
  OBVIOUS
<1>2. PICK e \in Nat : e = n + 1 /\ e + 1 = n + 2
  OBVIOUS
<1>3. f[e + 1] = q /\ \A j \in 1 .. e : f[j] = g[j]
  <2>1. e + 1 \in 1 .. n + 2 /\ \A j \in 1 .. e : j \in 1 .. n + 2 /\ j # n + 2
    BY <1>2
  <2>2. QED
    BY <1>1, <1>2, <2>1
<1>4. Places(n, g)
  BY DEF Block
<1>5. g[1] = 0 /\ \A j \in 1 .. e : g[j] \in Nat /\ g[j] <= g[e] /\ \A i \in 1 .. j : g[i] <= g[j]
  <2>1. g[1] = 0 /\ \A j \in 1 .. e : g[j] \in Nat /\ \A i \in 1 .. j : g[i] <= g[j]
    BY <1>2, <1>4 DEF Places
  <2>2. e \in 1 .. e
    BY <1>2
  <2>3. QED
    BY <2>1, <2>2
<1>6. Places(e, f)
  <2>1. f[1] = 0
    BY <1>2, <1>3, <1>5
  <2>2. \A j \in 1 .. e : f[j] \in Nat /\ f[j] <= q /\ \A i \in 1 .. j : f[i] <= f[j]
    <3> SUFFICES ASSUME NEW j \in 1 .. e
                 PROVE  f[j] \in Nat /\ f[j] <= q /\ \A i \in 1 .. j : f[i] <= f[j]
      OBVIOUS
    <3>1. f[j] = g[j] /\ g[j] \in Nat /\ g[j] <= g[e] /\ g[e] \in Nat
      BY <1>2, <1>3, <1>5
    <3>2. g[e] <= q
      BY <1>2
    <3>3. \A i \in 1 .. j : f[i] <= f[j]
      <4> SUFFICES ASSUME NEW i \in 1 .. j PROVE f[i] <= f[j]
        OBVIOUS
      <4>1. i \in 1 .. e
        OBVIOUS
      <4>2. f[i] = g[i] /\ g[i] <= g[j]
        BY <1>3, <1>5, <4>1
      <4>3. QED
        BY <3>1, <4>2
    <3>4. QED
      BY <3>1, <3>2, <3>3
  <2>3. \A i \in 1 .. e + 1 : f[i] <= f[e + 1]
    <3> SUFFICES ASSUME NEW i \in 1 .. e + 1 PROVE f[i] <= f[e + 1]
      OBVIOUS
    <3>1. i \in 1 .. e \/ i = e + 1
      OBVIOUS
    <3>2. QED
      BY <1>3, <2>2, <3>1
  <2>4. \A j \in 1 .. e + 1 : f[j] \in Nat /\ \A i \in 1 .. j : f[i] <= f[j]
    <3> SUFFICES ASSUME NEW j \in 1 .. e + 1
                 PROVE  f[j] \in Nat /\ \A i \in 1 .. j : f[i] <= f[j]
      OBVIOUS
    <3>1. j \in 1 .. e \/ j = e + 1
      OBVIOUS
    <3>2. QED
      BY <1>3, <2>2, <2>3, <3>1
  <2>5. QED
    BY <2>1, <2>4 DEF Places
<1>7. Script(r, e)
  BY <1>2, ScriptPlus DEF Block
<1>8. \A j \in 1 .. e : PieceAt(r, e, j, d, f[j], f[j + 1])
  <2> SUFFICES ASSUME NEW j \in 1 .. e
               PROVE  PieceAt(r, e, j, d, f[j], f[j + 1])
    OBVIOUS
  <2>1. CASE j = e
    <3>1. f[j] = g[n + 1] /\ f[j + 1] = q
      BY <1>2, <1>3, <2>1
    <3>2. QED
      BY <1>2, <2>1, <3>1
  <2>2. CASE j \in 1 .. n
    <3>1. j + 1 \in 1 .. e
      BY <1>2, <2>2
    <3>2. f[j] = g[j] /\ f[j + 1] = g[j + 1]
      BY <1>3, <3>1
    <3>3. QED
      BY <1>2, <2>2, <3>2
  <2>3. QED
    BY <1>2, <2>1, <2>2
<1>9. Block(r, e, d, f)
  BY <1>2, <1>3, <1>6, <1>7, <1>8 DEF Block
<1>10. QED
  BY <1>2, <1>3, <1>9

(* The counts noted after the pieces before are what they were.            *)
LEMMA AfterKept ==
  ASSUME NEW n \in Nat, NEW s, NEW r, \A j \in 1 .. n : r[j] = s[j],
         NEW j \in 1 .. n, j < n \/ r[n + 1].off > 0 \/ r[n + 1].len > 3,
         r[n + 1] \in Pieces
  PROVE  After(r, n + 1, j) = After(s, n, j)
<1>1. CASE j < n
  <2>1. j + 1 \in 1 .. n /\ j < n + 1
    BY <1>1
  <2>2. r[j + 1] = s[j + 1]
    BY <2>1
  <2>3. QED
    BY <1>1, <2>1, <2>2 DEF After
<1>2. CASE j = n
  <2>1. r[n + 1].off \in Nat /\ r[n + 1].len \in Nat
    BY DEF Pieces
  <2>2. After(r, n + 1, n) = 0
    <3>1. ~(r[n + 1].off = 0 /\ r[n + 1].len <= 3)
      BY <1>2, <2>1
    <3>2. QED
      BY <3>1 DEF After
  <2>3. After(s, n, n) = 0
    BY DEF After
  <2>4. QED
    BY <1>2, <2>2, <2>3
<1>3. QED
  BY <1>1, <1>2

(* A piece of a longer script is the same piece in a block with the same   *)
(* bytes.                                                                  *)
LEMMA PieceKept ==
  ASSUME NEW n \in Nat, NEW s, NEW r, \A j \in 1 .. n : r[j] = s[j], Script(s, n),
         NEW j \in 1 .. n, After(r, n + 1, j) = After(s, n, j),
         NEW p \in Nat, NEW q \in Nat, NEW c, NEW d, \A k \in p + 1 .. q : d[k] = c[k],
         PieceAt(s, n, j, c, p, q)
  PROVE  PieceAt(r, n + 1, j, d, p, q)
<1>1. r[j] = s[j] /\ s[j] \in Pieces
  BY DEF Script, Follows
<1>2. s[j].len \in Nat /\ j \in Nat
  BY <1>1 DEF Pieces
<1>3. CASE s[j].off = 0
  <2>1. LitAt(j, s[j].len, c, p, q)
    BY <1>3 DEF PieceAt
  <2>2. LitAt(j, s[j].len, d, p, q)
    BY <1>2, <2>1, LitKept
  <2>3. QED
    BY <1>1, <1>3, <2>2 DEF PieceAt
<1>4. CASE s[j].off # 0
  <2>1. MatchAt(Before(s, j), s[j].len, s[j].off, After(s, n, j), c, p, q)
    BY <1>4 DEF PieceAt
  <2>2. MatchAt(Before(s, j), s[j].len, s[j].off, After(s, n, j), d, p, q)
    BY <2>1, MatchKept
  <2>3. Before(r, j) = Before(s, j)
    <3>1. Follows(s, j)
      BY DEF Script
    <3>2. j > 1
      BY <1>4, <3>1 DEF Follows
    <3>3. r[j - 1] = s[j - 1]
      BY <3>2
    <3>4. QED
      BY <3>3 DEF Before
  <2>4. QED
    BY <1>1, <1>4, <2>2, <2>3 DEF PieceAt
<1>5. QED
  BY <1>3, <1>4

(* The pieces of a block are where they were in a longer one, unless its   *)
(* new piece is noted in the last of them.                                 *)
LEMMA PiecesKept ==
  ASSUME NEW n \in Nat, NEW s, NEW c, NEW g, Block(s, n, c, g),
         NEW r, \A j \in 1 .. n : r[j] = s[j], r[n + 1] \in Pieces,
         r[n + 1].off > 0 \/ r[n + 1].len > 3,
         NEW d, \A k \in 1 .. g[n + 1] : d[k] = c[k]
  PROVE  \A j \in 1 .. n : PieceAt(r, n + 1, j, d, g[j], g[j + 1])
<1> SUFFICES ASSUME NEW j \in 1 .. n
             PROVE  PieceAt(r, n + 1, j, d, g[j], g[j + 1])
  OBVIOUS
<1>1. Script(s, n) /\ Places(n, g) /\ PieceAt(s, n, j, c, g[j], g[j + 1])
  BY DEF Block
<1>2. PICK p \in Nat, q \in Nat : p = g[j] /\ q = g[j + 1] /\ q <= g[n + 1] /\ g[n + 1] \in Nat
  BY <1>1, PlacesFacts
<1>3. \A k \in p + 1 .. q : d[k] = c[k]
  BY <1>2
<1>4. After(r, n + 1, j) = After(s, n, j)
  BY AfterKept
<1>5. PieceAt(r, n + 1, j, d, p, q)
  BY <1>1, <1>2, <1>3, <1>4, PieceKept
<1>6. QED
  BY <1>2, <1>5

-----------------------------------------------------------------------------
(* What STORE_RUN writes.                                                  *)
Lits(n) == [k \in 1 .. n |-> Lit]

(* What Lits is.                                                           *)
LEMMA LitsFacts ==
  ASSUME NEW n \in Nat
  PROVE  OfLen(Lits(n), n) /\ \A k \in 1 .. n : Lits(n)[k] = -1
<1>1. Lits(n) \in [1 .. n -> Int]
  BY DEF Lits, Lit
<1>2. Lits(n) \in Seq(Int) /\ Len(Lits(n)) = n
  BY <1>1
<1>3. QED
  BY <1>2 DEF Lits, Lit, OfLen

(* A sequence with one of its bytes changed.                               *)
LEMMA NotedFacts ==
  ASSUME NEW q \in Nat, q >= 2, NEW c, OfLen(c, q), NEW n \in Nat
  PROVE  OfLen(Noted(c, n), q) /\ Notes(c, q, n, Noted(c, n))
<1>1. c \in Seq(Int) /\ Len(c) = q
  BY DEF OfLen
<1>2. DOMAIN c = 1 .. q /\ \A k \in 1 .. q : c[k] \in Int
  BY <1>1
<1>3. Noted(c, n) = [k \in 1 .. q |-> IF k = q - 1 THEN c[k] + n ELSE c[k]]
  BY <1>1, <1>2 DEF Noted
<1>4. PICK d : d = Noted(c, n)
  OBVIOUS
<1>5. \A k \in 1 .. q : d[k] = IF k = q - 1 THEN c[k] + n ELSE c[k]
  BY <1>3, <1>4
<1>6. d \in [1 .. q -> Int]
  BY <1>2, <1>3, <1>4
<1>7. d \in Seq(Int) /\ Len(d) = q
  BY <1>6
<1>8. OfLen(d, q) /\ Notes(c, q, n, d)
  BY <1>5, <1>7 DEF OfLen, Notes
<1>9. QED
  BY <1>4, <1>8

(* The instruction of four literals or more.                               *)
LEMMA RunCodeSaid ==
  ASSUME NEW n \in Nat, n >= 4
  PROVE  LengthSaid(RunCode(n), 0, 15, n - 1)
<1>1. PICK len \in Nat : len = n - 1 /\ len > 2
  OBVIOUS
<1>2. LengthSaid(Lengthened(0, 17, len), 0, 15, len)
  <2>1. 0 \in Nat /\ 17 \in Nat /\ 15 \in Nat /\ 17 = 15 + 2 /\ 15 > 0 /\ 0 + 17 <= 257
    OBVIOUS
  <2>2. QED
    BY <1>1, <2>1, LengthenedSays, Zenon
<1>3. RunCode(n) = Lengthened(0, 17, len)
  <2>1. CASE n <= 18
    <3>1. len <= 17 /\ 0 + len - 2 = n - 3
      BY <1>1, <2>1
    <3>2. QED
      BY <2>1, <3>1 DEF RunCode, Lengthened
  <2>2. CASE n > 18
    <3>1. ~(len <= 17) /\ ~(n <= 18) /\ len - 17 = n - 18
      BY <1>1, <2>2
    <3>2. QED
      BY <3>1 DEF RunCode, Lengthened
  <2>3. QED
    BY <2>1, <2>2
<1>4. QED
  BY <1>1, <1>2, <1>3

(* The three things StoreRun does with a run.                              *)
LEMMA StoreRunCases ==
  ASSUME NEW c, NEW n \in Nat, NEW short \in BOOLEAN
  PROVE  /\ n = 0 => StoreRun(c, n, short) = c
         /\ n > 0 /\ c = <<>> /\ n <= 238 /\ short =>
              StoreRun(c, n, short) = Cat(One(17 + n), Lits(n))
         /\ n > 0 /\ ~(c = <<>> /\ n <= 238 /\ short) =>
              StoreRun(c, n, short) = Cat(IF n <= 3 THEN Noted(c, n) ELSE Cat(c, RunCode(n)), Lits(n))
<1>1. n = 0 => StoreRun(c, n, short) = c
  BY DEF StoreRun
<1>2. ASSUME n > 0 /\ c = <<>> /\ n <= 238 /\ short
      PROVE  StoreRun(c, n, short) = Cat(One(17 + n), Lits(n))
  BY <1>2 DEF StoreRun, Cat, One, Lits
<1>3. ASSUME n > 0 /\ ~(c = <<>> /\ n <= 238 /\ short)
      PROVE  StoreRun(c, n, short) =
               Cat(IF n <= 3 THEN Noted(c, n) ELSE Cat(c, RunCode(n)), Lits(n))
  BY <1>3 DEF StoreRun, Cat, Lits
<1>4. QED
  BY <1>1, <1>2, <1>3

(* A piece more.                                                           *)
Piece(p, len, off) == [pos |-> p, len |-> len, off |-> off]

(* What Piece is.                                                          *)
LEMMA PieceFacts ==
  ASSUME NEW p \in Nat, NEW len \in Nat, NEW off \in Nat
  PROVE  /\ Piece(p, len, off) \in Pieces
         /\ Piece(p, len, off).pos = p /\ Piece(p, len, off).len = len
         /\ Piece(p, len, off).off = off
BY DEF Piece, Pieces

(* What a block is, piece by piece.                                        *)
LEMMA BlockFacts ==
  ASSUME NEW n \in Nat, NEW s, NEW c, NEW g, Block(s, n, c, g)
  PROVE  /\ OfPieces(s, n) /\ Script(s, n) /\ Places(n, g) /\ CodeBytes(c, g[n + 1])
         /\ Ends(s, n) \in Nat /\ g[1] = 0 /\ g[n + 1] \in Nat
         /\ \A j \in 1 .. n :
              /\ s[j] \in Pieces /\ Follows(s, j)
              /\ Ends(s, j) \in Nat /\ Ends(s, j) <= Ends(s, n)
              /\ PieceAt(s, n, j, c, g[j], g[j + 1])
<1>1. OfPieces(s, n) /\ Script(s, n) /\ Places(n, g) /\ CodeBytes(c, g[n + 1])
  BY DEF Block
<1>2. g[1] = 0 /\ g[n + 1] \in Nat
  BY <1>1, PlacesFacts
<1>3. \A j \in 1 .. n : Follows(s, j) /\ Ends(s, j) <= Ends(s, n)
  BY <1>1 DEF Script
<1>4. \A j \in 1 .. n : s[j] \in Pieces
  BY <1>3 DEF Follows
<1>5. \A j \in 1 .. n : Ends(s, j) \in Nat
  <2> SUFFICES ASSUME NEW j \in 1 .. n PROVE Ends(s, j) \in Nat
    OBVIOUS
  <2>1. \A i \in 1 .. j : s[i] \in Pieces
    BY <1>4
  <2>2. QED
    BY <2>1, EndsNat
<1>6. Ends(s, n) \in Nat
  BY <1>4, EndsNat
<1>7. \A j \in 1 .. n : PieceAt(s, n, j, c, g[j], g[j + 1])
  BY DEF Block
<1>8. QED
  BY <1>1, <1>2, <1>3, <1>4, <1>5, <1>6, <1>7

(* The block d with the piece p behind the block c, up to q.               *)
Longer(s, n, p, d, q) ==
  \E f : Block(Plus(s, p), n + 1, d, f) /\ f[(n + 1) + 1] = q /\ OfLen(d, q)

(* A run may follow any match.                                             *)
LEMMA RunFollows ==
  ASSUME NEW n \in Nat, NEW s, OfPieces(s, n), Ends(s, n) \in Nat,
         NEW len \in Nat \ {0}, n > 0 => s[n].off > 0
  PROVE  /\ Follows(Plus(s, Piece(Ends(s, n), len, 0)), n + 1)
         /\ Plus(s, Piece(Ends(s, n), len, 0))[n + 1].off = 0
         /\ Plus(s, Piece(Ends(s, n), len, 0))[n + 1].len = len
<1>1. PICK e \in Nat : e = Ends(s, n)
  OBVIOUS
<1>2. PICK p \in Pieces : p = Piece(e, len, 0) /\ p.pos = e /\ p.len = len /\ p.off = 0
  BY PieceFacts
<1>3. PICK r : r = Plus(s, p)
  OBVIOUS
<1>4. (\A j \in 1 .. n : r[j] = s[j]) /\ r[n + 1] = p
  BY <1>3, PlusFacts
<1>5. Ends(r, (n + 1) - 1) = e
  <2>1. (n + 1) - 1 = n
    OBVIOUS
  <2>2. n > 0 => r[n] = s[n]
    BY <1>4
  <2>3. QED
    BY <1>1, <2>1, <2>2 DEF Ends
<1>6. n + 1 > 1 => r[(n + 1) - 1].off > 0
  <2>1. n + 1 > 1 => n > 0 /\ (n + 1) - 1 = n /\ n \in 1 .. n
    OBVIOUS
  <2>2. QED
    BY <1>4, <2>1
<1>7. Follows(r, n + 1)
  <2>1. r[n + 1] \in Pieces /\ r[n + 1].len >= 1 /\ r[n + 1].off = 0 /\ ~(r[n + 1].off > 0)
    BY <1>2, <1>4
  <2>2. r[n + 1].pos = Ends(r, (n + 1) - 1)
    BY <1>2, <1>4, <1>5
  <2>3. QED
    BY <1>6, <2>1, <2>2 DEF Follows
<1>8. QED
  BY <1>1, <1>2, <1>3, <1>4, <1>7

(* The bytes of literals.                                                  *)
LEMMA LitsBehind ==
  ASSUME NEW h \in Nat, NEW l, OfLen(l, h), CodeBytes(l, h), NEW n \in Nat
  PROVE  /\ OfLen(Cat(l, Lits(n)), h + n)
         /\ \A k \in 1 .. h : Cat(l, Lits(n))[k] = l[k]
         /\ CodeBytes(Cat(l, Lits(n)), h + n)
<1>1. PICK d : d = Cat(l, Lits(n))
  OBVIOUS
<1>2. /\ OfLen(d, h + n)
      /\ \A k \in 1 .. h : d[k] = l[k]
      /\ \A k \in 1 .. n : d[h + k] = Lits(n)[k]
  BY <1>1, LitsFacts, CatFacts
<1>3. ASSUME NEW k \in 1 .. h + n
      PROVE  d[k] \in -1 .. 255
  <2>1. CASE k \in 1 .. h
    BY <1>2, <2>1 DEF CodeBytes
  <2>2. CASE ~(k \in 1 .. h)
    <3>1. k - h \in 1 .. n /\ h + (k - h) = k
      BY <2>2
    <3>2. d[k] = Lits(n)[k - h]
      BY <1>2, <3>1
    <3>3. Lits(n)[k - h] = -1
      BY <3>1, LitsFacts
    <3>4. QED
      BY <3>2, <3>3
  <2>3. QED
    BY <2>1, <2>2
<1>4. CodeBytes(d, h + n)
  BY <1>3 DEF CodeBytes
<1>5. QED
  BY <1>1, <1>2, <1>4

(* A first run that says its length in one byte.                           *)
LEMMA FirstRunAppended ==
  ASSUME NEW s, NEW c, NEW g, Block(s, 0, c, g), NEW len \in 1 .. 238
  PROVE  Longer(s, 0, Piece(0, len, 0), Cat(One(17 + len), Lits(len)), 1 + len)
<1>1. PICK d : d = Cat(One(17 + len), Lits(len))
  OBVIOUS
<1>2. OfLen(One(17 + len), 1) /\ One(17 + len)[1] = 17 + len
  BY SmallFacts
<1>3. CodeBytes(One(17 + len), 1)
  <2>1. \A k \in 1 .. 1 : k = 1
    OBVIOUS
  <2>2. 17 + len \in -1 .. 255
    OBVIOUS
  <2>3. QED
    BY <1>2, <2>1, <2>2 DEF CodeBytes
<1>4. OfLen(d, 1 + len) /\ d[1] = 17 + len /\ CodeBytes(d, 1 + len)
  <2>1. 1 \in Nat /\ 1 \in 1 .. 1 /\ len \in Nat
    OBVIOUS
  <2>2. QED
    BY <1>1, <1>2, <1>3, <2>1, LitsBehind
<1>5. PICK p \in Pieces : p = Piece(0, len, 0) /\ p.pos = 0 /\ p.len = len /\ p.off = 0
  <2>1. 0 \in Nat /\ len \in Nat
    OBVIOUS
  <2>2. /\ Piece(0, len, 0) \in Pieces /\ Piece(0, len, 0).pos = 0
        /\ Piece(0, len, 0).len = len /\ Piece(0, len, 0).off = 0
    BY <2>1, PieceFacts
  <2>3. QED
    BY <2>2
<1>6. PICK r : r = Plus(s, p)
  OBVIOUS
<1>7. OfPieces(s, 0) /\ g[1] = 0 /\ Ends(s, 0) = 0
  <2>1. 0 \in Nat
    OBVIOUS
  <2>2. OfPieces(s, 0) /\ g[1] = 0
    BY <2>1, BlockFacts
  <2>3. QED
    BY <2>2 DEF Ends
<1>8. OfPieces(r, 1) /\ r[1] = p
  <2>1. 0 \in Nat /\ 0 + 1 = 1
    OBVIOUS
  <2>2. OfPieces(r, 0 + 1) /\ r[0 + 1] = p
    BY <1>6, <1>7, <2>1, PlusFacts
  <2>3. QED
    BY <2>1, <2>2
<1>9. Follows(r, 1)
  <2>1. 0 \in Nat /\ 0 + 1 = 1 /\ len \in Nat \ {0} /\ ~(0 > 0) /\ 0 = Ends(s, 0)
    BY <1>7
  <2>2. Follows(Plus(s, Piece(0, len, 0)), 0 + 1)
    BY <1>7, <2>1, RunFollows
  <2>3. QED
    BY <1>5, <1>6, <2>1, <2>2
<1>10. PieceAt(r, 1, 1, d, 0, 1 + len)
  <2>1. 1 \in Nat /\ 1 + len = 0 + 1 + len /\ len <= 238 /\ d[0 + 1] = 17 + len
    BY <1>4
  <2>2. LitAt(1, len, d, 0, 1 + len)
    BY <2>1 DEF LitAt
  <2>3. QED
    BY <1>5, <1>8, <2>2 DEF PieceAt
<1>11. \E f : Block(r, 0 + 1, d, f) /\ f[(0 + 1) + 1] = 1 + len
  <2>1. 0 \in Nat /\ 0 + 1 = 1 /\ 1 + len \in Nat /\ g[0 + 1] <= 1 + len /\ 1 .. 0 = {}
    BY <1>7
  <2>2. /\ \A j \in 1 .. 0 : r[j] = s[j]
        /\ \A j \in 1 .. 0 : PieceAt(r, 0 + 1, j, d, g[j], g[j + 1])
    BY <2>1
  <2>3. /\ OfPieces(r, 0 + 1) /\ Follows(r, 0 + 1)
        /\ PieceAt(r, 0 + 1, 0 + 1, d, g[0 + 1], 1 + len)
    BY <1>7, <1>8, <1>9, <1>10, <2>1
  <2>4. QED
    BY <1>4, <2>1, <2>2, <2>3, BlockPlus
<1>12. QED
  BY <1>1, <1>4, <1>5, <1>6, <1>11 DEF Longer

(* Four literals or more, with an instruction of their own.                *)
LEMMA LongRunAppended ==
  ASSUME NEW n \in Nat, NEW s, NEW c, NEW g, Block(s, n, c, g), OfLen(c, g[n + 1]),
         NEW len \in Nat, len >= 4, n > 0 => s[n].off > 0
  PROVE  \E q \in Nat :
           Longer(s, n, Piece(Ends(s, n), len, 0), Cat(Cat(c, RunCode(len)), Lits(len)), q)
<1>1. PICK x : x = RunCode(len)
  OBVIOUS
<1>2. PICK h \in Nat, low \in 0 .. 15 :
        /\ h >= 1 /\ OfLen(x, h) /\ AllBytes(x, h)
        /\ x[1] = 0 + low /\ Says(x, low, 15, h, (len - 1) - 2)
  BY <1>1, RunCodeSaid DEF LengthSaid
<1>3. PICK p \in Nat : p = g[n + 1]
  BY BlockFacts
<1>4. PICK l : l = Cat(c, x)
  OBVIOUS
<1>5. /\ OfLen(l, p + h)
      /\ \A k \in 1 .. p : l[k] = c[k]
      /\ \A k \in 1 .. h : l[p + k] = x[k]
  BY <1>2, <1>3, <1>4, CatFacts
<1>6. CodeBytes(l, p + h)
  <2> SUFFICES ASSUME NEW k \in 1 .. p + h PROVE l[k] \in -1 .. 255
    BY DEF CodeBytes
  <2>1. CASE k \in 1 .. p
    <3>1. CodeBytes(c, p)
      BY <1>3, BlockFacts
    <3>2. QED
      BY <1>5, <2>1, <3>1 DEF CodeBytes
  <2>2. CASE ~(k \in 1 .. p)
    <3>1. k - p \in 1 .. h /\ p + (k - p) = k
      BY <2>2
    <3>2. l[k] = x[k - p]
      BY <1>5, <3>1
    <3>3. x[k - p] \in 0 .. 255
      BY <1>2, <3>1 DEF AllBytes
    <3>4. QED
      BY <3>2, <3>3
  <2>3. QED
    BY <2>1, <2>2
<1>7. PICK q \in Nat : q = p + h + len
  OBVIOUS
<1>8. PICK d : d = Cat(l, Lits(len))
  OBVIOUS
<1>9. OfLen(d, q) /\ CodeBytes(d, q) /\ \A k \in 1 .. p + h : d[k] = l[k]
  <2>1. PICK w \in Nat : w = p + h /\ q = w + len
    BY <1>7
  <2>2. OfLen(l, w) /\ CodeBytes(l, w)
    BY <1>5, <1>6, <2>1
  <2>3. OfLen(d, w + len) /\ CodeBytes(d, w + len) /\ \A k \in 1 .. w : d[k] = l[k]
    BY <1>8, <2>2, LitsBehind
  <2>4. QED
    BY <2>1, <2>3
<1>10. \A k \in 1 .. p : d[k] = c[k]
  BY <1>5, <1>9
<1>11. \A k \in 1 .. h : d[p + k] = x[k]
  BY <1>5, <1>9
<1>12. RunAt(len, d, p, h)
  <2>1. \A k \in 1 .. h : Window(d, p)[k] = x[k]
    BY <1>11, WindowFacts
  <2>2. Says(Window(d, p), low, 15, h, (len - 1) - 2)
    BY <1>2, <2>1, SaysPrefix
  <2>3. (len - 1) - 2 = len - 3 /\ 1 \in 1 .. h
    BY <1>2
  <2>4. d[p + 1] = low
    BY <1>2, <1>11, <2>3
  <2>5. QED
    BY <2>2, <2>3, <2>4 DEF RunAt
<1>13. PICK e \in Nat : e = Ends(s, n)
  BY BlockFacts
<1>14. PICK y \in Pieces : y = Piece(e, len, 0) /\ y.len = len /\ y.off = 0
  <2>1. 0 \in Nat /\ len \in Nat
    OBVIOUS
  <2>2. Piece(e, len, 0) \in Pieces /\ Piece(e, len, 0).len = len /\ Piece(e, len, 0).off = 0
    BY <2>1, PieceFacts
  <2>3. QED
    BY <2>2
<1>15. PICK r : r = Plus(s, y)
  OBVIOUS
<1>16. OfPieces(s, n)
  BY BlockFacts
<1>17. OfPieces(r, n + 1) /\ (\A j \in 1 .. n : r[j] = s[j]) /\ r[n + 1] = y
  BY <1>15, <1>16, PlusFacts
<1>18. Follows(r, n + 1)
  <2>1. len \in Nat \ {0} /\ Ends(s, n) \in Nat
    BY <1>13
  <2>2. QED
    BY <1>13, <1>14, <1>15, <1>16, <2>1, RunFollows
<1>19. \A j \in 1 .. n : PieceAt(r, n + 1, j, d, g[j], g[j + 1])
  <2>1. r[n + 1] \in Pieces /\ r[n + 1].len > 3
    BY <1>14, <1>17
  <2>2. \A k \in 1 .. g[n + 1] : d[k] = c[k]
    BY <1>3, <1>10
  <2>3. QED
    BY <1>17, <2>1, <2>2, PiecesKept
<1>20. PieceAt(r, n + 1, n + 1, d, g[n + 1], q)
  <2>1. LitAt(n + 1, len, d, p, q)
    BY <1>2, <1>7, <1>12 DEF LitAt
  <2>2. QED
    BY <1>3, <1>14, <1>17, <2>1 DEF PieceAt
<1>21. \E f : Block(r, n + 1, d, f) /\ f[(n + 1) + 1] = q
  <2>1. g[n + 1] <= q
    BY <1>3, <1>7
  <2>2. QED
    BY <1>9, <1>17, <1>18, <1>19, <1>20, <2>1, BlockPlus
<1>22. QED
  BY <1>1, <1>4, <1>8, <1>9, <1>13, <1>14, <1>15, <1>21 DEF Longer

(* Up to three, noted in the match before.                                 *)
LEMMA NotedRunAppended ==
  ASSUME NEW n \in Nat, n > 0, NEW s, NEW c, NEW g, Block(s, n, c, g), OfLen(c, g[n + 1]),
         NEW len \in 1 .. 3, s[n].off > 0
  PROVE  \E q \in Nat :
           Longer(s, n, Piece(Ends(s, n), len, 0), Cat(Noted(c, len), Lits(len)), q)
<1>1. PICK p \in Nat, q \in Nat : p = g[n] /\ q = g[n + 1]
  <2>1. n \in 1 .. n /\ Places(n, g)
    BY BlockFacts
  <2>2. QED
    BY <2>1, PlacesFacts
<1>2. OfLen(c, q) /\ CodeBytes(c, q)
  BY <1>1, BlockFacts
<1>3. MatchAt(Before(s, n), s[n].len, s[n].off, 0, c, p, q)
  <2>1. PieceAt(s, n, n, c, g[n], g[n + 1])
    <3>1. n \in 1 .. n
      OBVIOUS
    <3>2. QED
      BY <3>1, BlockFacts
  <2>2. After(s, n, n) = 0
    BY DEF After
  <2>3. QED
    BY <1>1, <2>1, <2>2 DEF PieceAt
<1>4. PICK w \in Nat : \E m :
        /\ w >= 2 /\ q = p + w /\ AllBytes(m, w)
        /\ Fits(m, w, Before(s, n), s[n].len, s[n].off) /\ Notes(m, w, 0, Window(c, p))
  BY <1>3 DEF MatchAt
<1>5. PICK m :
       /\ w >= 2 /\ q = p + w /\ AllBytes(m, w)
       /\ Fits(m, w, Before(s, n), s[n].len, s[n].off) /\ Notes(m, w, 0, Window(c, p))
  BY <1>4
<1>6. PICK l : l = Noted(c, len)
  OBVIOUS
<1>7. OfLen(l, q) /\ \A k \in 1 .. q : l[k] = IF k = q - 1 THEN c[k] + len ELSE c[k]
  <2>1. len \in Nat /\ q >= 2
    BY <1>5
  <2>2. OfLen(c, q)
    BY <1>2
  <2>3. OfLen(Noted(c, len), q) /\ Notes(c, q, len, Noted(c, len))
    BY <2>1, <2>2, NotedFacts
  <2>4. QED
    BY <1>6, <2>3 DEF Notes
<1>8. Notes(m, w, len, Window(l, p))
  <2> SUFFICES ASSUME NEW k \in 1 .. w
               PROVE  Window(l, p)[k] = IF k = w - 1 THEN m[k] + len ELSE m[k]
    BY DEF Notes
  <2>1. m[k] \in 0 .. 255
    BY <1>5 DEF AllBytes
  <2>2. Window(c, p)[k] = m[k]
    BY <1>5, <2>1 DEF Notes
  <2>3. c[p + k] = m[k]
    BY <2>2, WindowFacts
  <2>4. p + k \in 1 .. q /\ (p + k = q - 1 <=> k = w - 1)
    BY <1>5
  <2>5. l[p + k] = IF k = w - 1 THEN m[k] + len ELSE m[k]
    BY <1>7, <2>3, <2>4
  <2>6. QED
    BY <2>5, WindowFacts
<1>9. AllBytes(Window(l, p), w)
  <2>1. len \in Counts
    BY DEF Counts
  <2>2. QED
    BY <1>5, <1>8, <2>1 DEF Fits, ReadsWith
<1>10. CodeBytes(l, q)
  <2> SUFFICES ASSUME NEW k \in 1 .. q PROVE l[k] \in -1 .. 255
    BY DEF CodeBytes
  <2>1. CASE k <= p
    <3>1. k # q - 1
      BY <1>5, <2>1
    <3>2. QED
      BY <1>2, <1>7, <3>1 DEF CodeBytes
  <2>2. CASE k > p
    <3>1. PICK j \in 1 .. w : k = p + j
      <4>1. k - p \in 1 .. w /\ k = p + (k - p)
        BY <1>5, <2>2
      <4>2. QED
        BY <4>1
    <3>2. Window(l, p)[j] \in 0 .. 255
      BY <1>9 DEF AllBytes
    <3>3. l[k] \in 0 .. 255
      BY <3>1, <3>2, WindowFacts
    <3>4. QED
      BY <3>3
  <2>3. QED
    BY <2>1, <2>2
<1>11. PICK d : d = Cat(l, Lits(len))
  OBVIOUS
<1>12. PICK e \in Nat : e = q + len
  OBVIOUS
<1>13. OfLen(d, e) /\ CodeBytes(d, e) /\ \A k \in 1 .. q : d[k] = l[k]
  <2>1. len \in Nat
    OBVIOUS
  <2>2. QED
    BY <1>7, <1>10, <1>11, <1>12, <2>1, LitsBehind
<1>14. PICK z \in Nat : z = Ends(s, n)
  BY BlockFacts
<1>15. PICK y \in Pieces : y = Piece(z, len, 0) /\ y.len = len /\ y.off = 0
  <2>1. 0 \in Nat /\ len \in Nat
    OBVIOUS
  <2>2. Piece(z, len, 0) \in Pieces /\ Piece(z, len, 0).len = len /\ Piece(z, len, 0).off = 0
    BY <2>1, PieceFacts
  <2>3. QED
    BY <2>2
<1>16. PICK r : r = Plus(s, y)
  OBVIOUS
<1>17. OfPieces(s, n) /\ Script(s, n) /\ Places(n, g)
  BY BlockFacts
<1>18. OfPieces(r, n + 1) /\ (\A j \in 1 .. n : r[j] = s[j]) /\ r[n + 1] = y
  BY <1>16, <1>17, PlusFacts
<1>19. Follows(r, n + 1)
  <2>1. len \in Nat \ {0} /\ Ends(s, n) \in Nat
    BY <1>14
  <2>2. QED
    BY <1>14, <1>15, <1>16, <1>17, <2>1, RunFollows
<1>20. \A j \in 1 .. n : PieceAt(r, n + 1, j, d, g[j], g[j + 1])
  <2> SUFFICES ASSUME NEW j \in 1 .. n
               PROVE  PieceAt(r, n + 1, j, d, g[j], g[j + 1])
    OBVIOUS
  <2>1. CASE j < n
    <3>1. PICK a \in Nat, b \in Nat : a = g[j] /\ b = g[j + 1] /\ b <= p
      BY <1>1, <1>17, <2>1, PlacesFacts
    <3>2. \A k \in a + 1 .. b : d[k] = c[k]
      <4> SUFFICES ASSUME NEW k \in a + 1 .. b PROVE d[k] = c[k]
        OBVIOUS
      <4>1. k \in 1 .. q /\ k # q - 1
        BY <1>5, <3>1
      <4>2. QED
        BY <1>7, <1>13, <4>1
    <3>3. After(r, n + 1, j) = After(s, n, j)
      <4>1. r[n + 1] \in Pieces
        BY <1>18
      <4>2. QED
        BY <1>18, <2>1, <4>1, AfterKept
    <3>4. PieceAt(s, n, j, c, a, b)
      BY <3>1, BlockFacts
    <3>5. PieceAt(r, n + 1, j, d, a, b)
      BY <1>17, <1>18, <3>2, <3>3, <3>4, PieceKept
    <3>6. QED
      BY <3>1, <3>5
  <2>2. CASE j = n
    <3>1. (r[n] = s[n] /\ r[n - 1] = s[n - 1]) \/ n = 1
      BY <1>18
    <3>2. Before(r, n) = Before(s, n)
      <4>1. Follows(s, n)
        <5>1. n \in 1 .. n
          OBVIOUS
        <5>2. QED
          BY <5>1, BlockFacts
      <4>2. n # 1
        BY <4>1 DEF Follows
      <4>3. QED
        BY <3>1, <4>2 DEF Before
    <3>3. After(r, n + 1, n) = len
      <4>1. n < n + 1 /\ r[n + 1].off = 0 /\ r[n + 1].len = len /\ len <= 3
        BY <1>15, <1>18
      <4>2. QED
        BY <4>1 DEF After
    <3>4. Notes(m, w, len, Window(d, p))
      <4>1. \A k \in p + 1 .. p + w : d[k] = l[k]
        BY <1>5, <1>13
      <4>2. \A k \in 1 .. w : Window(d, p)[k] = Window(l, p)[k]
        BY <4>1, WindowKept
      <4>3. QED
        BY <1>8, <4>2 DEF Notes
    <3>5. MatchAt(Before(s, n), s[n].len, s[n].off, len, d, p, q)
      BY <1>5, <3>4 DEF MatchAt
    <3>6. r[n] = s[n] /\ s[n].off # 0
      <4>1. n \in 1 .. n
        OBVIOUS
      <4>2. s[n].off \in Nat
        BY <4>1, BlockFacts DEF Pieces
      <4>3. QED
        BY <1>18, <4>1, <4>2
    <3>7. PieceAt(r, n + 1, n, d, p, q)
      BY <3>2, <3>3, <3>5, <3>6 DEF PieceAt
    <3>8. QED
      BY <1>1, <2>2, <3>7
  <2>3. QED
    BY <2>1, <2>2
<1>21. PieceAt(r, n + 1, n + 1, d, q, e)
  <2>1. 0 \in Nat /\ e = q + 0 + len /\ n + 1 > 1 /\ len <= 3
    BY <1>12
  <2>2. LitAt(n + 1, len, d, q, e)
    BY <2>1 DEF LitAt
  <2>3. QED
    BY <1>15, <1>18, <2>2 DEF PieceAt
<1>22. \E f : Block(r, n + 1, d, f) /\ f[(n + 1) + 1] = e
  <2>1. g[n + 1] <= e /\ g[n + 1] = q
    BY <1>1, <1>12
  <2>2. QED
    BY <1>13, <1>18, <1>19, <1>20, <1>21, <2>1, BlockPlus
<1>23. QED
  BY <1>6, <1>11, <1>13, <1>14, <1>15, <1>16, <1>22 DEF Longer

(* A run of whatever length, as STORE_RUN stores it.                       *)
LEMMA BlockStarted ==
  ASSUME NEW n \in Nat, NEW s, NEW c, NEW g, Block(s, n, c, g), OfLen(c, g[n + 1]),
         n > 0 => s[n].off > 0
  PROVE  n = 0 <=> c = <<>>
<1>1. c \in Seq(Int) /\ Len(c) = g[n + 1]
  BY DEF OfLen
<1>2. CASE n = 0
  <2>1. g[1] = 0 /\ n + 1 = 1
    BY <1>2, BlockFacts
  <2>2. Len(c) = 0
    BY <1>1, <2>1
  <2>3. c = <<>>
    BY <1>1, <2>2
  <2>4. QED
    BY <1>2, <2>3
<1>3. CASE n > 0
  <2>1. PICK p \in Nat : p = g[n]
    <3>1. n \in 1 .. n /\ Places(n, g)
      BY <1>3, BlockFacts
    <3>2. QED
      BY <3>1, PlacesFacts
  <2>2. PieceAt(s, n, n, c, g[n], g[n + 1]) /\ s[n].off # 0
    <3>1. n \in 1 .. n
      BY <1>3
    <3>2. s[n].off \in Nat
      BY <3>1, BlockFacts DEF Pieces
    <3>3. QED
      BY <1>3, <3>1, <3>2, BlockFacts
  <2>3. \E w \in Nat : w >= 2 /\ g[n + 1] = p + w
    BY <2>1, <2>2 DEF PieceAt, MatchAt
  <2>4. Len(c) # 0
    BY <1>1, <2>1, <2>3
  <2>5. c # <<>>
    BY <2>4
  <2>6. QED
    BY <1>3, <2>5
<1>4. QED
  BY <1>2, <1>3

(* STORE_RUN makes a block longer by the run.                              *)
LEMMA RunAppended ==
  ASSUME NEW n \in Nat, NEW s, NEW c, NEW g, Block(s, n, c, g), OfLen(c, g[n + 1]),
         NEW len \in Nat, len > 0, n > 0 => s[n].off > 0,
         NEW short \in BOOLEAN, short \/ (c = <<>> /\ len >= 4)
  PROVE  \E q \in Nat : Longer(s, n, Piece(Ends(s, n), len, 0), StoreRun(c, len, short), q)
<1>1. n = 0 <=> c = <<>>
  BY BlockStarted
<1>2. CASE c = <<>> /\ len <= 238 /\ short
  <2>1. StoreRun(c, len, short) = Cat(One(17 + len), Lits(len))
    BY <1>2, StoreRunCases
  <2>2. len \in 1 .. 238 /\ n = 0 /\ Ends(s, n) = 0 /\ 1 + len \in Nat
    BY <1>1, <1>2 DEF Ends
  <2>3. Block(s, 0, c, g)
    BY <2>2
  <2>4. Longer(s, 0, Piece(0, len, 0), Cat(One(17 + len), Lits(len)), 1 + len)
    BY <2>2, <2>3, FirstRunAppended
  <2>5. QED
    BY <2>1, <2>2, <2>4
<1>3. CASE ~(c = <<>> /\ len <= 238 /\ short) /\ len <= 3
  <2>1. StoreRun(c, len, short) = Cat(Noted(c, len), Lits(len))
    BY <1>3, StoreRunCases
  <2>2. len \in 1 .. 3 /\ n > 0
    BY <1>1, <1>3
  <2>3. QED
    BY <2>1, <2>2, NotedRunAppended
<1>4. CASE ~(c = <<>> /\ len <= 238 /\ short) /\ len > 3
  <2>1. StoreRun(c, len, short) = Cat(Cat(c, RunCode(len)), Lits(len))
    BY <1>4, StoreRunCases
  <2>2. len >= 4
    BY <1>4
  <2>3. QED
    BY <2>1, <2>2, LongRunAppended
<1>5. QED
  BY <1>2, <1>3, <1>4

(* A match, as code_match codes it.                                        *)
CanFollow(s, n, len, off) ==
  Codable(FALSE, Before(s, n + 1), len, off) /\ off <= Ends(s, n) + DictLen

(* A match may follow what Codable says it may.                            *)
LEMMA MatchFollows ==
  ASSUME NEW n \in Nat, n > 0, NEW s, OfPieces(s, n), Ends(s, n) \in Nat, s[n] \in Pieces,
         NEW len \in Nat, NEW off \in Nat, CanFollow(s, n, len, off),
         NEW r, r = Plus(s, Piece(Ends(s, n), len, off))
  PROVE  Follows(r, n + 1) /\ Before(r, n + 1) = Before(s, n + 1)
<1>1. PICK e \in Nat : e = Ends(s, n)
  OBVIOUS
<1>2. PICK p \in Pieces : p = Piece(e, len, off) /\ p.pos = e /\ p.len = len /\ p.off = off
  BY PieceFacts
<1>3. (\A j \in 1 .. n : r[j] = s[j]) /\ r[n + 1] = p
  BY <1>1, <1>2, PlusFacts
<1>4. Ends(r, (n + 1) - 1) = e
  <2>1. (n + 1) - 1 = n
    OBVIOUS
  <2>2. n > 0 => r[n] = s[n]
    BY <1>3
  <2>3. QED
    BY <1>1, <2>1, <2>2 DEF Ends
<1>5. Before(r, n + 1) = Before(s, n + 1)
  <2>1. (n + 1) - 1 = n /\ n \in 1 .. n
    OBVIOUS
  <2>2. r[(n + 1) - 1] = s[(n + 1) - 1]
    BY <1>3, <2>1
  <2>3. QED
    BY <2>2 DEF Before
<1>6. /\ len >= 2 /\ off >= 1 /\ off <= e + DictLen
      /\ Codable(FALSE, Before(s, n + 1), len, off)
  BY <1>1 DEF CanFollow, Codable
<1>7. Follows(r, n + 1)
  <2>1. r[n + 1] \in Pieces /\ r[n + 1].len >= 1 /\ r[n + 1].off = off /\ off # 0 /\ n + 1 > 1
    BY <1>2, <1>3, <1>6
  <2>2. r[n + 1].pos = Ends(r, (n + 1) - 1)
    BY <1>2, <1>3, <1>4
  <2>3. Codable(FALSE, Before(r, n + 1), r[n + 1].len, r[n + 1].off)
    BY <1>2, <1>3, <1>5, <1>6
  <2>4. r[n + 1].off <= r[n + 1].pos + DictLen
    BY <1>2, <1>3, <1>6
  <2>5. n + 1 # 1
    OBVIOUS
  <2>6. QED
    BY <2>1, <2>2, <2>3, <2>4, <2>5 DEF Follows
<1>8. QED
  BY <1>5, <1>7

(* code_match makes a block longer by the match.                           *)
LEMMA MatchAppended ==
  ASSUME NEW n \in Nat, n > 0, NEW s, NEW c, NEW g, Block(s, n, c, g), OfLen(c, g[n + 1]),
         NEW len \in Nat, NEW off \in Nat, CanFollow(s, n, len, off)
  PROVE  \E q \in Nat : Longer(s, n, Piece(Ends(s, n), len, off),
                               Cat(c, MatchCode(Before(s, n + 1), len, off)), q)
<1>1. PICK p \in Nat : p = g[n + 1]
  BY BlockFacts
<1>2. PICK lit \in Nat : lit = Before(s, n + 1)
  <2>1. n \in 1 .. n /\ (n + 1) - 1 = n
    OBVIOUS
  <2>2. s[n].len \in Nat
    BY <2>1, BlockFacts DEF Pieces
  <2>3. QED
    BY <2>1, <2>2 DEF Before
<1>3. PICK m : m = MatchCode(lit, len, off)
  OBVIOUS
<1>4. Coded(m, lit, len, off)
  BY <1>2, <1>3, MatchCoded DEF CanFollow
<1>5. PICK w \in Nat : w >= 2 /\ OfLen(m, w) /\ AllBytes(m, w) /\ Fits(m, w, lit, len, off)
  BY <1>4 DEF Coded
<1>6. PICK d : d = Cat(c, m)
  OBVIOUS
<1>7. PICK q \in Nat : q = p + w
  OBVIOUS
<1>8. /\ OfLen(d, q)
      /\ \A k \in 1 .. p : d[k] = c[k]
      /\ \A k \in 1 .. w : d[p + k] = m[k]
  BY <1>1, <1>5, <1>6, <1>7, CatFacts
<1>9. CodeBytes(d, q)
  <2> SUFFICES ASSUME NEW k \in 1 .. q PROVE d[k] \in -1 .. 255
    BY DEF CodeBytes
  <2>1. CASE k \in 1 .. p
    <3>1. CodeBytes(c, p)
      BY <1>1, BlockFacts
    <3>2. QED
      BY <1>8, <2>1, <3>1 DEF CodeBytes
  <2>2. CASE ~(k \in 1 .. p)
    <3>1. k - p \in 1 .. w /\ p + (k - p) = k
      BY <1>7, <2>2
    <3>2. d[k] = m[k - p]
      BY <1>8, <3>1
    <3>3. m[k - p] \in 0 .. 255
      BY <1>5, <3>1 DEF AllBytes
    <3>4. QED
      BY <3>2, <3>3
  <2>3. QED
    BY <2>1, <2>2
<1>10. Notes(m, w, 0, Window(d, p))
  <2> SUFFICES ASSUME NEW k \in 1 .. w
               PROVE  Window(d, p)[k] = IF k = w - 1 THEN m[k] + 0 ELSE m[k]
    BY DEF Notes
  <2>1. m[k] \in 0 .. 255
    BY <1>5 DEF AllBytes
  <2>2. Window(d, p)[k] = m[k]
    BY <1>8, WindowFacts
  <2>3. QED
    BY <2>1, <2>2
<1>11. PICK e \in Nat : e = Ends(s, n)
  BY BlockFacts
<1>12. PICK y \in Pieces : y = Piece(e, len, off) /\ y.len = len /\ y.off = off
  BY PieceFacts
<1>13. PICK r : r = Plus(s, y)
  OBVIOUS
<1>14. OfPieces(s, n)
  BY BlockFacts
<1>15. OfPieces(r, n + 1) /\ (\A j \in 1 .. n : r[j] = s[j]) /\ r[n + 1] = y
  BY <1>13, <1>14, PlusFacts
<1>16. Follows(r, n + 1) /\ Before(r, n + 1) = Before(s, n + 1)
  <2>1. n \in 1 .. n
    OBVIOUS
  <2>2. s[n] \in Pieces /\ Ends(s, n) \in Nat
    BY <2>1, BlockFacts
  <2>3. r = Plus(s, Piece(Ends(s, n), len, off))
    BY <1>11, <1>12, <1>13
  <2>4. QED
    BY <1>14, <2>2, <2>3, MatchFollows
<1>17. off > 0 /\ off # 0
  BY DEF CanFollow, Codable
<1>18. \A j \in 1 .. n : PieceAt(r, n + 1, j, d, g[j], g[j + 1])
  <2>1. r[n + 1] \in Pieces /\ r[n + 1].off > 0
    BY <1>12, <1>15, <1>17
  <2>2. \A k \in 1 .. g[n + 1] : d[k] = c[k]
    BY <1>1, <1>8
  <2>3. QED
    BY <1>15, <2>1, <2>2, PiecesKept
<1>19. PieceAt(r, n + 1, n + 1, d, p, q)
  <2>1. After(r, n + 1, n + 1) = 0
    BY DEF After
  <2>2. Before(r, n + 1) = lit
    BY <1>2, <1>16
  <2>3. MatchAt(lit, len, off, 0, d, p, q)
    BY <1>5, <1>7, <1>10 DEF MatchAt
  <2>4. QED
    BY <1>12, <1>15, <1>17, <2>1, <2>2, <2>3 DEF PieceAt
<1>20. \E f : Block(r, n + 1, d, f) /\ f[(n + 1) + 1] = q
  <2>1. g[n + 1] <= q /\ PieceAt(r, n + 1, n + 1, d, g[n + 1], q)
    BY <1>1, <1>7, <1>19
  <2>2. QED
    BY <1>9, <1>15, <1>16, <1>18, <2>1, BlockPlus
<1>21. QED
  BY <1>2, <1>3, <1>6, <1>8, <1>11, <1>12, <1>13, <1>20 DEF Longer

-----------------------------------------------------------------------------
(* What the compressor has made, before and after a match, and at the end. *)
Made(s, n, c, g) ==
  Block(s, n, c, g) /\ OfLen(c, g[n + 1]) /\ (n > 0 => s[n].off > 0)

IsMade(s, c) == \E n \in Nat : \E g : Made(s, n, c, g)

(* The whole block: the pieces and the end marker, 17, 0, 0.               *)
Sent(s, n, c, g) ==
  /\ Block(s, n, c, g) /\ OfLen(c, g[n + 1] + 3)
  /\ c[g[n + 1] + 1] = 17 /\ c[g[n + 1] + 2] = 0 /\ c[g[n + 1] + 3] = 0

IsSent(s, c) == \E n \in Nat : \E g : Sent(s, n, c, g)

(* Bytes and Ends tell the same.                                           *)
LEMMA BytesEnd ==
  ASSUME NEW n \in Nat, NEW s, OfPieces(s, n)
  PROVE  Bytes(s) = Ends(s, n)
<1>1. s \in Seq(Pieces) /\ Len(s) = n
  BY DEF OfPieces
<1>2. s = <<>> <=> n = 0
  BY <1>1
<1>3. QED
  BY <1>1, <1>2 DEF Bytes, Ends, Last

(* A run, if there is one: the script r and the block d after it.          *)
Stored(s, n, c, g, lit, r, k, d, f) ==
  /\ Block(r, k, d, f) /\ OfLen(d, f[k + 1]) /\ Ends(r, k) = Ends(s, n) + lit
  /\ lit > 0 => k > 0 /\ Before(r, k + 1) = lit
  /\ lit = 0 => r = s /\ k = n /\ d = c /\ f = g

IsStored(s, n, c, g, lit, r, d) == \E k \in Nat : \E f : Stored(s, n, c, g, lit, r, k, d, f)

(* A run, or none, before a match or at the end.                           *)
LEMMA LiteralsMake ==
  ASSUME NEW s, NEW c, NEW n \in Nat, NEW g, Made(s, n, c, g), NEW e, e = Ends(s, n),
         NEW lit \in Nat, NEW short \in BOOLEAN, short \/ (c = <<>> /\ lit >= 4)
  PROVE  IsStored(s, n, c, g, lit, s \o Literals(e, lit), StoreRun(c, lit, short))
<1>1. Block(s, n, c, g) /\ OfLen(c, g[n + 1]) /\ (n > 0 => s[n].off > 0) /\ e \in Nat
  <2>1. Block(s, n, c, g) /\ OfLen(c, g[n + 1]) /\ (n > 0 => s[n].off > 0)
    BY DEF Made
  <2>2. QED
    BY <2>1, BlockFacts
<1>2. CASE lit = 0
  <2>1. s \in Seq(Pieces)
    BY <1>1 DEF Block, OfPieces
  <2>2. s \o Literals(e, lit) = s
    BY <1>2, <2>1 DEF Literals
  <2>3. StoreRun(c, lit, short) = c
    BY <1>2, StoreRunCases
  <2>4. Ends(s, n) = Ends(s, n) + lit /\ ~(lit > 0)
    BY <1>1, <1>2
  <2>5. Stored(s, n, c, g, lit, s, n, c, g)
    BY <1>1, <1>2, <2>4 DEF Stored
  <2>6. QED
    BY <2>2, <2>3, <2>5 DEF IsStored
<1>3. CASE lit > 0
  <2>1. s \o Literals(e, lit) = Plus(s, Piece(e, lit, 0))
    BY <1>3 DEF Literals, Plus, Piece
  <2>2. PICK q \in Nat : Longer(s, n, Piece(e, lit, 0), StoreRun(c, lit, short), q)
    BY <1>1, <1>3, RunAppended
  <2>3. PICK r, d : r = s \o Literals(e, lit) /\ d = StoreRun(c, lit, short)
    OBVIOUS
  <2>4. PICK k \in Nat : k = n + 1 /\ k > 0 /\ ~(k = 0)
    OBVIOUS
  <2>5. PICK f : Block(r, k, d, f) /\ f[k + 1] = q /\ OfLen(d, q)
    BY <2>1, <2>2, <2>3, <2>4 DEF Longer
  <2>6. OfPieces(s, n)
    BY <1>1, BlockFacts
  <2>7. PICK y \in Pieces : y = Piece(e, lit, 0) /\ y.pos = e /\ y.len = lit /\ y.off = 0
    <3>1. 0 \in Nat
      OBVIOUS
    <3>2. QED
      BY <1>1, <3>1, PieceFacts
  <2>8. r[k] = y
    BY <2>1, <2>3, <2>4, <2>6, <2>7, PlusFacts
  <2>9. Ends(r, k) = Ends(s, n) + lit
    BY <2>4, <2>7, <2>8 DEF Ends
  <2>10. Before(r, k + 1) = lit
    <3>1. (k + 1) - 1 = k
      OBVIOUS
    <3>2. QED
      BY <2>7, <2>8, <3>1 DEF Before
  <2>11. OfLen(d, f[k + 1]) /\ ~(lit = 0)
    BY <1>3, <2>5
  <2>12. Stored(s, n, c, g, lit, r, k, d, f)
    BY <2>4, <2>5, <2>9, <2>10, <2>11 DEF Stored
  <2>13. QED
    BY <2>3, <2>12 DEF IsStored
<1>4. QED
  BY <1>2, <1>3

(* code_run and code_match keep the block one that was made.               *)
LEMMA CodeMakes ==
  ASSUME NEW s, NEW c, NEW n \in Nat, NEW g, Made(s, n, c, g), NEW e, e = Ends(s, n),
         NEW lit \in Nat, NEW len \in Nat, NEW off \in Nat,
         NEW short \in BOOLEAN, short \/ (c = <<>> /\ lit >= 4),
         Codable(c = <<>>, lit, len, off), off <= e + lit + DictLen
  PROVE  IsMade((s \o Literals(e, lit)) \o <<[pos |-> e + lit, len |-> len, off |-> off]>>,
                StoreRun(c, lit, short) \o MatchCode(lit, len, off))
<1>1. PICK r, d : r = s \o Literals(e, lit) /\ d = StoreRun(c, lit, short)
  OBVIOUS
<1>2. PICK k \in Nat : \E f :
        /\ Block(r, k, d, f) /\ OfLen(d, f[k + 1]) /\ Ends(r, k) = e + lit
        /\ lit > 0 => k > 0 /\ Before(r, k + 1) = lit
        /\ lit = 0 => r = s /\ k = n /\ d = c /\ f = g
  <2>1. IsStored(s, n, c, g, lit, r, d)
    BY <1>1, LiteralsMake
  <2>2. PICK k, f : k \in Nat /\ Stored(s, n, c, g, lit, r, k, d, f)
    BY <2>1 DEF IsStored
  <2>3. QED
    BY <2>2 DEF Stored
<1>3. PICK f :
       /\ Block(r, k, d, f) /\ OfLen(d, f[k + 1]) /\ Ends(r, k) = e + lit
       /\ lit > 0 => k > 0 /\ Before(r, k + 1) = lit
       /\ lit = 0 => r = s /\ k = n /\ d = c /\ f = g
  BY <1>2
<1>4. Codable(FALSE, lit, len, off) /\ (c = <<>> => lit > 0)
  BY DEF Codable
<1>5. Block(s, n, c, g) /\ OfLen(c, g[n + 1]) /\ (n > 0 => s[n].off > 0)
  BY DEF Made
<1>6. n = 0 <=> c = <<>>
  BY <1>5, BlockStarted
<1>7. k > 0 /\ Before(r, k + 1) = lit
  <2>1. CASE lit > 0
    BY <1>3, <2>1
  <2>2. CASE lit = 0
    <3>1. r = s /\ k = n /\ n > 0
      BY <1>3, <1>4, <1>6, <2>2
    <3>2. (k + 1) - 1 = k /\ ~(s[n].off = 0)
      BY <1>5, <3>1
    <3>3. Before(r, k + 1) = 0
      BY <3>1, <3>2 DEF Before
    <3>4. QED
      BY <2>2, <3>1, <3>3
  <2>3. QED
    BY <2>1, <2>2
<1>8. CanFollow(r, k, len, off)
  BY <1>3, <1>4, <1>7 DEF CanFollow
<1>9. PICK z \in Nat : z = e + lit
  <2>1. e \in Nat
    BY <1>5, BlockFacts
  <2>2. QED
    BY <2>1
<1>10. PICK q \in Nat : Longer(r, k, Piece(z, len, off), Cat(d, MatchCode(lit, len, off)), q)
  BY <1>3, <1>7, <1>8, <1>9, MatchAppended
<1>11. PICK y \in Pieces : y = Piece(z, len, off) /\ y.off = off /\ off > 0
  <2>1. off > 0
    BY <1>4 DEF Codable
  <2>2. Piece(z, len, off) \in Pieces /\ Piece(z, len, off).off = off
    BY <2>1, PieceFacts
  <2>3. QED
    BY <2>1, <2>2
<1>12. PICK h \in Nat : h = k + 1
  OBVIOUS
<1>13. PICK x, b : x = Plus(r, y) /\ b = Cat(d, MatchCode(lit, len, off))
  OBVIOUS
<1>14. PICK j : Block(x, h, b, j) /\ j[h + 1] = q /\ OfLen(b, q)
  BY <1>12, <1>10, <1>11, <1>13 DEF Longer
<1>15. x[h].off > 0
  <2>1. OfPieces(r, k)
    BY <1>3, BlockFacts
  <2>2. x[h] = y
    BY <1>12, <1>13, <2>1, PlusFacts
  <2>3. QED
    BY <1>11, <2>2
<1>16. Made(x, h, b, j)
  BY <1>14, <1>15 DEF Made
<1>17. IsMade(x, b)
  BY <1>16 DEF IsMade
<1>18. x = r \o <<[pos |-> e + lit, len |-> len, off |-> off]>>
  BY <1>9, <1>11, <1>13 DEF Plus, Piece
<1>19. b = d \o MatchCode(lit, len, off)
  BY <1>13 DEF Cat
<1>20. QED
  BY <1>1, <1>17, <1>18, <1>19

(* A block depends on its own bytes only.                                  *)
LEMMA BlockKept ==
  ASSUME NEW n \in Nat, NEW s, NEW c, NEW g, Block(s, n, c, g),
         NEW d, \A k \in 1 .. g[n + 1] : d[k] = c[k]
  PROVE  Block(s, n, d, g)
<1>1. OfPieces(s, n) /\ Script(s, n) /\ Places(n, g) /\ CodeBytes(c, g[n + 1])
  BY BlockFacts
<1>2. CodeBytes(d, g[n + 1])
  BY <1>1 DEF CodeBytes
<1>3. ASSUME NEW j \in 1 .. n
      PROVE  PieceAt(s, n, j, d, g[j], g[j + 1])
  <2>1. PICK p \in Nat, q \in Nat : p = g[j] /\ q = g[j + 1] /\ q <= g[n + 1] /\ g[n + 1] \in Nat
    BY <1>1, PlacesFacts
  <2>2. \A k \in p + 1 .. q : d[k] = c[k]
    BY <2>1
  <2>3. PieceAt(s, n, j, c, p, q) /\ s[j] \in Pieces
    BY <2>1, BlockFacts
  <2>4. s[j].len \in Nat /\ j \in Nat
    BY <2>3 DEF Pieces
  <2>5. CASE s[j].off = 0
    <3>1. LitAt(j, s[j].len, c, p, q)
      BY <2>3, <2>5 DEF PieceAt
    <3>2. LitAt(j, s[j].len, d, p, q)
      BY <2>2, <2>4, <3>1, LitKept
    <3>3. QED
      BY <2>1, <2>5, <3>2 DEF PieceAt
  <2>6. CASE s[j].off # 0
    <3>1. MatchAt(Before(s, j), s[j].len, s[j].off, After(s, n, j), c, p, q)
      BY <2>3, <2>6 DEF PieceAt
    <3>2. MatchAt(Before(s, j), s[j].len, s[j].off, After(s, n, j), d, p, q)
      BY <2>2, <3>1, MatchKept
    <3>3. QED
      BY <2>1, <2>6, <3>2 DEF PieceAt
  <2>7. QED
    BY <2>5, <2>6
<1>4. QED
  BY <1>1, <1>2, <1>3 DEF Block

(* The end marker.                                                         *)
LEMMA EndFacts ==
  OfLen(EndOfStream, 3) /\ EndOfStream[1] = 17 /\ EndOfStream[2] = 0 /\ EndOfStream[3] = 0
BY DEF EndOfStream, OfLen, M4Marker

(* The last run and the end marker make what is sent.                      *)
LEMMA FinishMakes ==
  ASSUME NEW s, NEW c, NEW n \in Nat, NEW g, Made(s, n, c, g), NEW e, e = Ends(s, n),
         NEW lit \in Nat
  PROVE  IsSent(s \o Literals(e, lit), StoreRun(c, lit, TRUE) \o EndOfStream)
<1>1. PICK r, d : r = s \o Literals(e, lit) /\ d = StoreRun(c, lit, TRUE)
  OBVIOUS
<1>2. PICK k \in Nat : \E f : Block(r, k, d, f) /\ OfLen(d, f[k + 1])
  <2>1. IsStored(s, n, c, g, lit, r, d)
    <3>1. TRUE \in BOOLEAN
      OBVIOUS
    <3>2. QED
      BY <1>1, <3>1, LiteralsMake
  <2>2. PICK k, f : k \in Nat /\ Stored(s, n, c, g, lit, r, k, d, f)
    BY <2>1 DEF IsStored
  <2>3. QED
    BY <2>2 DEF Stored
<1>3. PICK f : Block(r, k, d, f) /\ OfLen(d, f[k + 1])
  BY <1>2
<1>4. PICK q \in Nat : q = f[k + 1]
  BY <1>3, BlockFacts
<1>5. PICK b : b = Cat(d, EndOfStream)
  OBVIOUS
<1>6. /\ OfLen(b, q + 3)
      /\ \A j \in 1 .. q : b[j] = d[j]
      /\ b[q + 1] = 17 /\ b[q + 2] = 0 /\ b[q + 3] = 0
  <2>1. 3 \in Nat /\ 1 \in 1 .. 3 /\ 2 \in 1 .. 3 /\ 3 \in 1 .. 3
    OBVIOUS
  <2>2. /\ OfLen(b, q + 3)
        /\ \A j \in 1 .. q : b[j] = d[j]
        /\ \A j \in 1 .. 3 : b[q + j] = EndOfStream[j]
    BY <1>3, <1>4, <1>5, <2>1, EndFacts, CatFacts
  <2>3. QED
    BY <2>1, <2>2, EndFacts
<1>7. Block(r, k, b, f)
  BY <1>3, <1>4, <1>6, BlockKept
<1>8. Sent(r, k, b, f)
  BY <1>4, <1>6, <1>7 DEF Sent
<1>9. IsSent(r, b)
  BY <1>8 DEF IsSent
<1>10. QED
  BY <1>1, <1>5, <1>9 DEF Cat

-----------------------------------------------------------------------------
(* The decoder.                                                            *)

(* The first j pieces of the script are what has been written.             *)
Copied(o, s, j) == OfPieces(o, j) /\ \A k \in 1 .. j : o[k] = s[k]

(* It says so, if something is missing.                                    *)
Refused == \/ result = "OUTPUT_OVERRUN" /\ damage.short > 0
           \/ result = "INPUT_OVERRUN" /\ damage.cut > 0

(* The j-th piece is a run with an instruction of its own.                 *)
RunHere(s, j, c, g) ==
  s[j].len >= 4 /\ \E h \in Nat : h >= 1 /\ g[j + 1] = g[j] + h + s[j].len /\ RunAt(s[j].len, c, g[j], h)

(* The label and the place: from each label the bytes of the j-th piece    *)
(* are read as what they are.                                              *)
StandsAt(s, n, c, g, j) ==
  CASE at = "start" -> j = 1 /\ ip = 0
    [] at = "loop" ->
         /\ ip = g[j]
         /\ j <= n /\ s[j].off = 0 => RunHere(s, j, c, g)
         /\ j <= n /\ s[j].off > 0 => Before(s, j) = 0
    [] at = "first_literal_run" ->
         ip = g[j] /\ j > 1 /\ s[j - 1].off = 0 /\ s[j - 1].len >= 4 /\ NeedIp(3)
    [] at = "match" ->
         ip = g[j] /\ j > 1 /\ s[j - 1].off = 0 /\ s[j - 1].len <= 3 /\ NeedIp(3)
    [] at = "match_next" ->
         j <= n /\ s[j].off = 0 /\ s[j].len = t /\ ip + t = g[j + 1]
    [] at = "done" ->
         Refused \/ (result = "OK" /\ j = n + 1 /\ damage = Whole)
    [] OTHER -> FALSE

(* The first j - 1 pieces are written, neither buffer has been left, and   *)
(* the j-th piece is next.                                                 *)
Stands(s, n, c, g, j) ==
  /\ Copied(out, s, j - 1) /\ op = Ends(s, j - 1) /\ op <= Room
  /\ ip \in Nat /\ ip <= InLen /\ t \in 0 .. 3
  /\ at # "done" => result = None
  /\ StandsAt(s, n, c, g, j)

(* The two halves of the invariant.                                        *)
Compressing ==
  /\ at = "code" /\ damage = Whole /\ ip = 0 /\ op = 0 /\ t = 0 /\ out = <<>> /\ result = None
  /\ IsMade(script, code)

Decoding ==
  /\ damage \in [cut : Nat, short : Nat]
  /\ \E n \in Nat : \E g :
       /\ Sent(script, n, code, g)
       /\ \E j \in 1 .. n + 1 : Stands(script, n, code, g, j)

IInv == Compressing \/ Decoding

(* Decoding, with the script, the block and the place named.               *)
Here(s, n, c, g, j) ==
  /\ s = script /\ c = code /\ damage \in [cut : Nat, short : Nat]
  /\ Sent(s, n, c, g) /\ j \in 1 .. n + 1
  /\ Stands(s, n, c, g, j)

(* The ends of the input and of the output, by what is missing of them.    *)
Bounds(s, n, g) ==
  /\ g[n + 1] \in Nat /\ Ends(s, n) \in Nat /\ damage.cut \in Nat /\ damage.short \in Nat
  /\ InLen = g[n + 1] + 3 - damage.cut /\ Room = Ends(s, n) - damage.short

BytesAre(n, c, g) == \A k \in Nat : k >= 1 /\ ip + k <= g[n + 1] + 3 => Byte(k) = c[ip + k]

(* What the decoder has before it is the block, in bytes and in length.    *)
LEMMA HereFacts ==
  ASSUME NEW s, NEW n \in Nat, NEW c, NEW g, NEW j, Here(s, n, c, g, j)
  PROVE  Block(s, n, c, g) /\ Bounds(s, n, g) /\ BytesAre(n, c, g)
<1>1. Sent(s, n, c, g) /\ s = script /\ c = code /\ damage \in [cut : Nat, short : Nat] /\ ip \in Nat
  BY DEF Here, Stands
<1>2. Block(s, n, c, g) /\ OfLen(c, g[n + 1] + 3)
  BY <1>1 DEF Sent
<1>3. g[n + 1] \in Nat /\ Ends(s, n) \in Nat /\ OfPieces(s, n)
  BY <1>2, BlockFacts
<1>4. Len(code) = g[n + 1] + 3
  BY <1>1, <1>2 DEF OfLen
<1>5. Bytes(script) = Ends(s, n)
  BY <1>1, <1>3, BytesEnd
<1>6. \A k \in Nat : k >= 1 /\ ip + k <= g[n + 1] + 3 => Byte(k) = c[ip + k]
  <2> SUFFICES ASSUME NEW k \in Nat, k >= 1, ip + k <= g[n + 1] + 3
               PROVE  Byte(k) = c[ip + k]
    OBVIOUS
  <2>1. ip + k \in 1 .. Len(code)
    BY <1>1, <1>3, <1>4
  <2>2. QED
    BY <1>1, <2>1 DEF Byte
<1>7. InLen = g[n + 1] + 3 - damage.cut
  <2>1. InLen = Len(code) - damage.cut
    BY DEF InLen
  <2>2. PICK x \in Nat, y \in Nat : x = g[n + 1] /\ y = damage.cut
    BY <1>1, <1>3
  <2>3. (x + 3) - y = x + 3 - y
    OBVIOUS
  <2>4. QED
    BY <1>4, <2>1, <2>2, <2>3
<1>8. Room = Ends(s, n) - damage.short
  BY <1>5 DEF Room
<1>9. QED
  BY <1>1, <1>2, <1>3, <1>6, <1>7, <1>8 DEF Bounds, BytesAre

(* The decoder stops with an error.                                        *)
LEMMA Refuses ==
  ASSUME NEW s, NEW n \in Nat, NEW c, NEW g, NEW j, Here(s, n, c, g, j),
         \/ Return("INPUT_OVERRUN") /\ damage.cut > 0
         \/ Return("OUTPUT_OVERRUN") /\ damage.short > 0
  PROVE  Here(s, n, c, g, j)'
<1>1. /\ at' = "done"
      /\ UNCHANGED <<script, code, damage, ip, op, t, out>>
      /\ \/ result' = "INPUT_OVERRUN" /\ damage'.cut > 0
         \/ result' = "OUTPUT_OVERRUN" /\ damage'.short > 0
  BY DEF Return
<1>2. Refused'
  BY <1>1 DEF Refused
<1>3. StandsAt(s, n, c, g, j)'
  BY <1>1, <1>2 DEF StandsAt
<1>4. UNCHANGED <<InLen, Room>>
  BY <1>1 DEF InLen, Room
<1>5. Stands(s, n, c, g, j)'
  BY <1>1, <1>3, <1>4 DEF Here, Stands
<1>6. QED
  BY <1>1, <1>5 DEF Here

(* One piece more in the output.                                           *)
LEMMA CopiedPlus ==
  ASSUME NEW n \in Nat, NEW s, NEW j \in 1 .. n, NEW o, Copied(o, s, j - 1), NEW p \in Pieces, p = s[j]
  PROVE  Copied(Plus(o, p), s, (j + 1) - 1)
<1>1. PICK i \in Nat : i = j - 1 /\ i + 1 = j /\ (j + 1) - 1 = j
  OBVIOUS
<1>2. OfPieces(o, i) /\ \A k \in 1 .. i : o[k] = s[k]
  BY <1>1 DEF Copied
<1>3. PICK r : r = Plus(o, p)
  OBVIOUS
<1>4. OfPieces(r, i + 1) /\ (\A k \in 1 .. i : r[k] = o[k]) /\ r[i + 1] = p
  BY <1>2, <1>3, PlusFacts
<1>5. \A k \in 1 .. j : r[k] = s[k]
  <2> SUFFICES ASSUME NEW k \in 1 .. j PROVE r[k] = s[k]
    OBVIOUS
  <2>1. k \in 1 .. i \/ k = i + 1
    BY <1>1
  <2>2. QED
    BY <1>1, <1>2, <1>4, <2>1
<1>6. QED
  BY <1>1, <1>3, <1>4, <1>5 DEF Copied

(* The j-th piece: where it is, and how it fits.                           *)
LEMMA PieceHere ==
  ASSUME NEW s, NEW n \in Nat, NEW c, NEW g, Block(s, n, c, g), NEW j \in 1 .. n
  PROVE  /\ s[j] \in Pieces /\ s[j].pos \in Nat /\ s[j].len \in Nat /\ s[j].off \in Nat
         /\ s[j].len >= 1 /\ s[j].pos = Ends(s, j - 1)
         /\ Ends(s, (j + 1) - 1) = s[j].pos + s[j].len /\ Ends(s, (j + 1) - 1) <= Ends(s, n)
         /\ Ends(s, n) \in Nat
         /\ g[j] \in Nat /\ g[j + 1] \in Nat /\ g[j] <= g[j + 1] /\ g[j + 1] <= g[n + 1]
         /\ g[n + 1] \in Nat /\ PieceAt(s, n, j, c, g[j], g[j + 1])
         /\ j + 1 \in 1 .. n + 1 /\ s[j] = Piece(Ends(s, j - 1), s[j].len, s[j].off)
<1>1. s[j] \in Pieces /\ Follows(s, j) /\ PieceAt(s, n, j, c, g[j], g[j + 1])
  BY BlockFacts
<1>2. s[j].pos \in Nat /\ s[j].len \in Nat /\ s[j].off \in Nat
  BY <1>1 DEF Pieces
<1>3. s[j].len >= 1 /\ s[j].pos = Ends(s, j - 1)
  BY <1>1 DEF Follows
<1>4. (j + 1) - 1 = j /\ j # 0 /\ j + 1 \in 1 .. n + 1
  OBVIOUS
<1>5. Ends(s, j) = s[j].pos + s[j].len
  BY DEF Ends
<1>6. Ends(s, j) <= Ends(s, n) /\ Places(n, g) /\ Ends(s, n) \in Nat
  BY BlockFacts
<1>7. g[j] \in Nat /\ g[j + 1] \in Nat /\ g[j] <= g[j + 1] /\ g[j + 1] <= g[n + 1] /\ g[n + 1] \in Nat
  BY <1>6, PlacesFacts
<1>8. s[j] = [pos |-> s[j].pos, len |-> s[j].len, off |-> s[j].off]
  BY <1>1 DEF Pieces
<1>9. s[j] = Piece(Ends(s, j - 1), s[j].len, s[j].off)
  BY <1>3, <1>8 DEF Piece
<1>10. QED
  BY <1>1, <1>2, <1>3, <1>4, <1>5, <1>6, <1>7, <1>9

(* The literals of a piece are copied, or room or input is missing.        *)
LEMMA LiteralsCopied ==
  ASSUME NEW s, NEW n \in Nat, NEW c, NEW g, NEW j \in 1 .. n, Here(s, n, c, g, j),
         at # "done", s[j].off = 0,
         NEW h \in Nat, ip + h + s[j].len = g[j + 1],
         NEW next, \/ next = "first_literal_run" /\ s[j].len >= 4
                   \/ next = "match" /\ s[j].len <= 3,
         CopyLiterals(h, s[j].len, next)
  PROVE  Here(s, n, c, g, j)' \/ Here(s, n, c, g, j + 1)'
<1>1. Block(s, n, c, g)
  BY HereFacts
<1>2. PICK len \in Nat, e \in Nat, p \in Pieces :
        /\ len = s[j].len /\ p = s[j] /\ len >= 1 /\ e = Ends(s, j - 1) /\ p = Piece(e, len, 0)
        /\ Ends(s, (j + 1) - 1) = e + len /\ e + len <= Ends(s, n)
  BY <1>1, PieceHere
<1>3. PICK q \in Nat : q = g[j + 1] /\ q <= g[n + 1] /\ ip + h + len = q
  BY <1>1, <1>2, PieceHere
<1>4. /\ ip \in Nat /\ ip <= InLen /\ op = e /\ op <= Room /\ Copied(out, s, j - 1) /\ t \in 0 .. 3
      /\ result = None /\ s = script /\ c = code /\ damage \in [cut : Nat, short : Nat]
      /\ Sent(s, n, c, g)
  BY <1>2 DEF Here, Stands
<1>5. /\ g[n + 1] \in Nat /\ Ends(s, n) \in Nat /\ damage.cut \in Nat /\ damage.short \in Nat
      /\ InLen = g[n + 1] + 3 - damage.cut /\ Room = Ends(s, n) - damage.short
  <2>1. Bounds(s, n, g)
    BY HereFacts
  <2>2. QED
    BY <2>1 DEF Bounds
<1>6. CASE ~NeedOp(len)
  <2>1. damage.short > 0
    BY <1>2, <1>4, <1>5, <1>6 DEF NeedOp
  <2>2. Return("OUTPUT_OVERRUN")
    BY <1>2, <1>6 DEF CopyLiterals
  <2>3. QED
    BY <2>1, <2>2, Refuses
<1>7. CASE NeedOp(len) /\ ~NeedIp(h + len + 3)
  <2>1. damage.cut > 0
    BY <1>3, <1>4, <1>5, <1>7 DEF NeedIp
  <2>2. Return("INPUT_OVERRUN")
    BY <1>2, <1>7 DEF CopyLiterals
  <2>3. QED
    BY <2>1, <2>2, Refuses
<1>8. CASE NeedOp(len) /\ NeedIp(h + len + 3)
  <2>1. /\ ip' = ip + h + len /\ op' = op + len /\ out' = out \o Literals(op, len)
        /\ at' = next
        /\ UNCHANGED <<script, code, damage, t, result>>
    BY <1>2, <1>8 DEF CopyLiterals
  <2>2. InLen' = InLen /\ Room' = Room /\ InLen \in Int /\ Room \in Int
    <3>1. InLen' = InLen /\ Room' = Room
      BY <2>1 DEF InLen, Room
    <3>2. InLen \in Int /\ Room \in Int
      BY <1>5
    <3>3. QED
      BY <3>1, <3>2
  <2>3. ip' = q /\ ip' \in Nat /\ InLen' - ip' >= 3 /\ ip' <= InLen'
    <3>1. InLen - ip >= h + len + 3
      BY <1>8 DEF NeedIp
    <3>2. ip' = q /\ InLen' = InLen
      BY <1>3, <2>1, <2>2
    <3>3. InLen - q >= 3
      BY <1>3, <1>4, <2>2, <3>1
    <3>4. QED
      BY <2>2, <3>2, <3>3
  <2>4. op' = Ends(s, (j + 1) - 1) /\ op' <= Room'
    <3>1. Room - op >= len
      BY <1>8 DEF NeedOp
    <3>2. op' = e + len /\ Room' = Room
      BY <1>4, <2>1, <2>2
    <3>3. e + len <= Room
      BY <1>2, <1>4, <2>2, <3>1
    <3>4. QED
      BY <1>2, <3>2, <3>3
  <2>5. out' = Plus(out, p)
    <3>1. out' = out \o Literals(e, len)
      BY <1>4, <2>1
    <3>2. ~(len = 0)
      BY <1>2
    <3>3. Literals(e, len) = <<p>>
      BY <1>2, <3>2 DEF Literals, Piece
    <3>4. QED
      BY <3>1, <3>3 DEF Plus
  <2>6. Copied(out', s, (j + 1) - 1)
    BY <1>2, <1>4, <2>5, CopiedPlus
  <2>7. NeedIp(3)'
    BY <2>3 DEF NeedIp
  <2>8. (j + 1) - 1 = j /\ j + 1 > 1
    OBVIOUS
  <2>9. StandsAt(s, n, c, g, j + 1)'
    <3>1. CASE next = "first_literal_run" /\ s[j].len >= 4
      BY <1>3, <2>1, <2>3, <2>7, <2>8, <3>1 DEF StandsAt
    <3>2. CASE next = "match" /\ s[j].len <= 3
      BY <1>3, <2>1, <2>3, <2>7, <2>8, <3>2 DEF StandsAt
    <3>3. QED
      BY <3>1, <3>2
  <2>10. Stands(s, n, c, g, j + 1)'
    BY <1>4, <2>1, <2>3, <2>4, <2>6, <2>9 DEF Stands
  <2>11. j + 1 \in 1 .. n + 1
    OBVIOUS
  <2>12. Here(s, n, c, g, j + 1)'
    BY <1>4, <2>1, <2>10, <2>11 DEF Here
  <2>13. QED
    BY <2>12
<1>9. QED
  BY <1>6, <1>7, <1>8

-----------------------------------------------------------------------------
(* How LongLength reads a length that is there: where the zeros end.       *)
RunEnds == {k \in 2 .. InLen - ip : Byte(k) # 0 /\ \A j \in 2 .. k - 1 : Byte(j) = 0}

IsLength(low, plus, h, l) ==
  \/ low > 0 /\ h = 1 /\ l = low
  \/ /\ low = 0 /\ h >= 2 /\ l = 255 * (h - 2) + plus + Byte(h)
     /\ \A k \in RunEnds : k = h
     /\ h <= InLen - ip => h \in RunEnds

Sees(b, h) == \A k \in 1 .. h : Byte(k) = b[k]

(* LongLength finds the end of the zeros where the encoder put it, or      *)
(* misses input.                                                           *)
LEMMA EndsThere ==
  ASSUME NEW b, NEW low \in Nat, NEW plus \in Nat, NEW h \in Nat, NEW l,
         Says(b, low, plus, h, l), Sees(b, h), InLen - ip \in Int
  PROVE  IsLength(low, plus, h, l)
<1>1. CASE low > 0
  BY <1>1 DEF Says, IsLength
<1>2. CASE low = 0
  <2>1. /\ h >= 2
        /\ \A k \in 2 .. h - 1 : b[k] = 0
        /\ b[h] \in 1 .. 255
        /\ l = 255 * (h - 2) + plus + b[h]
    BY <1>2 DEF Says
  <2>2. \A k \in 2 .. h - 1 : Byte(k) = 0
    <3> SUFFICES ASSUME NEW k \in 2 .. h - 1 PROVE Byte(k) = 0
      OBVIOUS
    <3>1. k \in 1 .. h
      OBVIOUS
    <3>2. QED
      BY <2>1, <3>1 DEF Sees
  <2>3. Byte(h) = b[h] /\ Byte(h) # 0
    <3>1. h \in 1 .. h
      BY <2>1
    <3>2. Byte(h) = b[h]
      BY <3>1 DEF Sees
    <3>3. b[h] # 0
      BY <2>1
    <3>4. QED
      BY <3>2, <3>3
  <2>4. ASSUME NEW k \in RunEnds
        PROVE  k = h
    <3>1. k \in Int /\ k >= 2 /\ Byte(k) # 0 /\ \A j \in 2 .. k - 1 : Byte(j) = 0
      BY DEF RunEnds
    <3>2. ~(k < h)
      BY <2>2, <3>1
    <3>3. ~(k > h)
      BY <2>1, <2>3, <3>1
    <3>4. QED
      BY <3>1, <3>2, <3>3
  <2>5. h <= InLen - ip => h \in RunEnds
    BY <2>1, <2>2, <2>3 DEF RunEnds
  <2>6. QED
    BY <1>2, <2>1, <2>3, <2>4, <2>5 DEF IsLength
<1>3. QED
  BY <1>1, <1>2

(* A run's instruction copies the length the encoder wrote.                *)
LEMMA LiteralRunReads ==
  ASSUME NEW b, NEW low \in Nat, NEW h \in Nat, NEW len \in Nat,
         Says(b, low, 15, h, len - 3), Sees(b, h), InLen - ip \in Int,
         Byte(1) = low, LiteralRun
  PROVE  \/ CopyLiterals(h, len, "first_literal_run")
         \/ Return("INPUT_OVERRUN") /\ InLen - ip < h
<1>1. PICK l : l = len - 3 /\ l + 3 = len
  OBVIOUS
<1>2. \/ low > 0 /\ h = 1 /\ l = low
      \/ /\ low = 0 /\ h >= 2 /\ l = 255 * (h - 2) + 15 + Byte(h)
         /\ \A k \in RunEnds : k = h
         /\ h <= InLen - ip => h \in RunEnds
  <2>1. PICK plus \in Nat : plus = 15
    OBVIOUS
  <2>2. Says(b, low, plus, h, l)
    BY <1>1, <2>1
  <2>3. IsLength(low, plus, h, l)
    BY <2>2, EndsThere
  <2>4. QED
    BY <2>1, <2>3 DEF IsLength
<1>3. LongLength(low, 15, 0, LAMBDA k, n : CopyLiterals(k, n + 3, "first_literal_run"))
  BY DEF LiteralRun
<1>4. CASE low > 0
  <2>1. CopyLiterals(1, low + 3, "first_literal_run")
    BY <1>3, <1>4 DEF LongLength
  <2>2. 1 = h /\ low + 3 = len
    BY <1>1, <1>2, <1>4
  <2>3. QED
    BY <2>1, <2>2
<1>5. CASE ~(low > 0)
  <2>1. IF RunEnds = {} THEN Return("INPUT_OVERRUN")
        ELSE \E k \in RunEnds :
               IF NeedIp(k + 0) THEN CopyLiterals(k, 255 * (k - 2) + 15 + Byte(k) + 3, "first_literal_run")
               ELSE Return("INPUT_OVERRUN")
    BY <1>3, <1>5 DEF LongLength, RunEnds
  <2>2. CASE RunEnds = {}
    <3>1. ~(h <= InLen - ip)
      BY <1>2, <1>5, <2>2
    <3>2. QED
      BY <2>1, <2>2, <3>1
  <2>3. CASE RunEnds # {}
    <3>1. PICK k \in RunEnds :
               IF NeedIp(k + 0) THEN CopyLiterals(k, 255 * (k - 2) + 15 + Byte(k) + 3, "first_literal_run")
               ELSE Return("INPUT_OVERRUN")
      BY <2>1, <2>3
    <3>2. k = h
      BY <1>2, <1>5
    <3>3. 255 * (k - 2) + 15 + Byte(k) + 3 = len
      BY <1>1, <1>2, <1>5, <3>2
    <3>4. CASE NeedIp(k + 0)
      <4>1. CopyLiterals(k, 255 * (k - 2) + 15 + Byte(k) + 3, "first_literal_run")
        BY <3>1, <3>4
      <4>2. QED
        BY <3>2, <3>3, <4>1
    <3>5. CASE ~NeedIp(k + 0)
      <4>1. InLen - ip < h
        BY <3>2, <3>5 DEF NeedIp
      <4>2. QED
        BY <3>1, <3>5, <4>1
    <3>6. QED
      BY <3>4, <3>5
  <2>4. QED
    BY <2>2, <2>3
<1>6. QED
  BY <1>4, <1>5

(* An M3 copies the length and distance the encoder wrote.                 *)
LEMMA Match3Reads ==
  ASSUME NEW b, NEW low \in 0 .. 31, NEW h \in Nat, NEW len \in Nat, NEW off,
         Says(b, low, 31, h, len - 2), Sees(b, h), InLen - ip \in Int,
         Byte(1) = 32 + low, off = 1 + FarDistance(Byte(h + 1), Byte(h + 2)), Match3
  PROVE  \/ CopyMatch(h + 2, len, off) /\ (h = 1 \/ NeedIp(h + 2))
         \/ Return("INPUT_OVERRUN") /\ InLen - ip < h + 2
<1>1. PICK l : l = len - 2 /\ l + 2 = len
  OBVIOUS
<1>2. IsLength(low, 31, h, l)
  <2>1. PICK plus \in Nat : plus = 31
    OBVIOUS
  <2>2. Says(b, low, plus, h, l) /\ low \in Nat
    BY <1>1, <2>1
  <2>3. IsLength(low, plus, h, l)
    BY <2>2, EndsThere
  <2>4. QED
    BY <2>1, <2>3
<1>3. LongLength(low, 31, 2, LAMBDA k, n : CopyMatch(k + 2, n + 2, 1 + FarDistance(Byte(k + 1), Byte(k + 2))))
  <2>1. Byte(1) % 32 = low
    OBVIOUS
  <2>2. QED
    BY <2>1 DEF Match3
<1>4. CASE low > 0
  <2>1. CopyMatch(1 + 2, low + 2, 1 + FarDistance(Byte(1 + 1), Byte(1 + 2)))
    BY <1>3, <1>4 DEF LongLength
  <2>2. 1 = h /\ low + 2 = len
    BY <1>1, <1>2, <1>4 DEF IsLength
  <2>3. QED
    BY <2>1, <2>2
<1>5. CASE ~(low > 0)
  <2>1. IF RunEnds = {} THEN Return("INPUT_OVERRUN")
        ELSE \E k \in RunEnds :
               IF NeedIp(k + 2)
               THEN CopyMatch(k + 2, 255 * (k - 2) + 31 + Byte(k) + 2, 1 + FarDistance(Byte(k + 1), Byte(k + 2)))
               ELSE Return("INPUT_OVERRUN")
    BY <1>3, <1>5 DEF LongLength, RunEnds
  <2>2. CASE RunEnds = {}
    <3>1. ~(h <= InLen - ip)
      BY <1>2, <1>5, <2>2 DEF IsLength
    <3>2. QED
      BY <2>1, <2>2, <3>1
  <2>3. CASE RunEnds # {}
    <3>1. PICK k \in RunEnds :
               IF NeedIp(k + 2)
               THEN CopyMatch(k + 2, 255 * (k - 2) + 31 + Byte(k) + 2, 1 + FarDistance(Byte(k + 1), Byte(k + 2)))
               ELSE Return("INPUT_OVERRUN")
      BY <2>1, <2>3
    <3>2. k = h
      BY <1>2, <1>5 DEF IsLength
    <3>3. 255 * (k - 2) + 31 + Byte(k) + 2 = len
      BY <1>1, <1>2, <1>5, <3>2 DEF IsLength
    <3>4. CASE NeedIp(k + 2)
      <4>1. CopyMatch(k + 2, 255 * (k - 2) + 31 + Byte(k) + 2, 1 + FarDistance(Byte(k + 1), Byte(k + 2)))
        BY <3>1, <3>4
      <4>2. QED
        BY <3>2, <3>3, <3>4, <4>1
    <3>5. CASE ~NeedIp(k + 2)
      <4>1. InLen - ip < h + 2
        BY <3>2, <3>5 DEF NeedIp
      <4>2. QED
        BY <3>1, <3>5, <4>1
    <3>6. QED
      BY <3>4, <3>5
  <2>4. QED
    BY <2>2, <2>3
<1>6. QED
  BY <1>4, <1>5

FarMatch(k, n) ==
  LET d == 16384 * ((Byte(1) \div 8) % 2) + FarDistance(Byte(k + 1), Byte(k + 2))
  IN IF d = 0 THEN End(k + 2) ELSE CopyMatch(k + 2, n + 2, d + 16384)

(* And so does an M4, or it is the end.                                    *)
LEMMA Match4Reads ==
  ASSUME NEW b, NEW low \in 0 .. 7, NEW h \in Nat, NEW len \in Nat,
         Says(b, low, 7, h, len - 2), Sees(b, h), InLen - ip \in Int,
         Byte(1) % 8 = low, Match4
  PROVE  \/ FarMatch(h, len - 2) /\ (h = 1 \/ NeedIp(h + 2))
         \/ Return("INPUT_OVERRUN") /\ InLen - ip < h + 2
<1>1. PICK l : l = len - 2 /\ l + 2 = len
  OBVIOUS
<1>2. IsLength(low, 7, h, l)
  <2>1. PICK plus \in Nat : plus = 7
    OBVIOUS
  <2>2. Says(b, low, plus, h, l) /\ low \in Nat
    BY <1>1, <2>1
  <2>3. IsLength(low, plus, h, l)
    BY <2>2, EndsThere
  <2>4. QED
    BY <2>1, <2>3
<1>3. LongLength(low, 7, 2, LAMBDA k, n : FarMatch(k, n))
  BY DEF Match4, LongLength, FarMatch
<1>4. CASE low > 0
  <2>1. FarMatch(1, low)
    BY <1>3, <1>4 DEF LongLength
  <2>2. 1 = h /\ low = len - 2
    BY <1>1, <1>2, <1>4 DEF IsLength
  <2>3. QED
    BY <2>1, <2>2
<1>5. CASE ~(low > 0)
  <2>1. IF RunEnds = {} THEN Return("INPUT_OVERRUN")
        ELSE \E k \in RunEnds :
               IF NeedIp(k + 2) THEN FarMatch(k, 255 * (k - 2) + 7 + Byte(k))
               ELSE Return("INPUT_OVERRUN")
    BY <1>3, <1>5 DEF LongLength, RunEnds
  <2>2. CASE RunEnds = {}
    <3>1. ~(h <= InLen - ip)
      BY <1>2, <1>5, <2>2 DEF IsLength
    <3>2. QED
      BY <2>1, <2>2, <3>1
  <2>3. CASE RunEnds # {}
    <3>1. PICK k \in RunEnds :
               IF NeedIp(k + 2) THEN FarMatch(k, 255 * (k - 2) + 7 + Byte(k))
               ELSE Return("INPUT_OVERRUN")
      BY <2>1, <2>3
    <3>2. k = h
      BY <1>2, <1>5 DEF IsLength
    <3>3. 255 * (k - 2) + 7 + Byte(k) = len - 2
      BY <1>1, <1>2, <1>5, <3>2 DEF IsLength
    <3>4. CASE NeedIp(k + 2)
      <4>1. FarMatch(k, 255 * (k - 2) + 7 + Byte(k))
        BY <3>1, <3>4
      <4>2. QED
        BY <3>2, <3>3, <3>4, <4>1
    <3>5. CASE ~NeedIp(k + 2)
      <4>1. InLen - ip < h + 2
        BY <3>2, <3>5 DEF NeedIp
      <4>2. QED
        BY <3>1, <3>5, <4>1
    <3>6. QED
      BY <3>4, <3>5
  <2>4. QED
    BY <2>2, <2>3
<1>6. QED
  BY <1>4, <1>5

(* At an instruction, after lit literals.                                  *)
AtInstruction(lit) ==
  \/ at = "loop" /\ lit = 0
  \/ at = "match" /\ lit \in 1 .. 3 /\ NeedIp(3)
  \/ at = "first_literal_run" /\ lit >= 4 /\ NeedIp(3)

(* One step of the decoder there, by the first byte of the instruction.    *)
LEMMA OneInstruction ==
  ASSUME NEW lit, AtInstruction(lit), Decode, InLen - ip \in Int, Byte(1) \in 0 .. 255
  PROVE  \/ Return("INPUT_OVERRUN") /\ InLen - ip < 3
         \/ /\ NeedIp(3)
            /\ \/ Byte(1) < 16 /\ at = "loop" /\ lit = 0 /\ LiteralRun
               \/ Byte(1) < 16 /\ at = "match" /\ lit \in 1 .. 3 /\ Match1
               \/ Byte(1) < 16 /\ at = "first_literal_run" /\ lit >= 4 /\ MatchX
               \/ Byte(1) \in 16 .. 31 /\ Match4
               \/ Byte(1) \in 32 .. 63 /\ Match3
               \/ Byte(1) \in 64 .. 255 /\ Match2
<1>1. CASE Start
  BY <1>1 DEF Start, AtInstruction
<1>2. CASE LoopOverrun
  BY <1>2 DEF LoopOverrun, NeedIp
<1>3. CASE LiteralRun
  BY <1>3 DEF LiteralRun, AtInstruction
<1>4. CASE MatchNext
  BY <1>4 DEF MatchNext, AtInstruction
<1>5. CASE MatchX
  BY <1>5 DEF MatchX, AtInstruction
<1>6. CASE Match1
  BY <1>6 DEF Match1, AtInstruction
<1>7. CASE Match2
  <2>1. AtMatch /\ Byte(1) >= 64
    BY <1>7 DEF Match2
  <2>2. QED
    BY <1>7, <2>1 DEF AtMatch, AtInstruction
<1>8. CASE Match3
  <2>1. AtMatch /\ Byte(1) \in 32 .. 63
    BY <1>8 DEF Match3
  <2>2. QED
    BY <1>8, <2>1 DEF AtMatch, AtInstruction
<1>9. CASE Match4
  <2>1. AtMatch /\ Byte(1) \in 16 .. 31
    BY <1>9 DEF Match4, LongLength
  <2>2. QED
    BY <1>9, <2>1 DEF AtMatch, AtInstruction
<1>10. QED
  BY <1>1, <1>2, <1>3, <1>4, <1>5, <1>6, <1>7, <1>8, <1>9 DEF Decode

(* What a step does where a match of w bytes begins.                       *)
MatchRead(w, len, off) ==
  \/ CopyMatch(w, len, off) /\ NeedIp(w)
  \/ Return("INPUT_OVERRUN") /\ (InLen - ip < 3 \/ InLen - ip < w)

(* One step of the decoder at a match copies that match, or misses input.  *)
LEMMA MatchReads ==
  ASSUME NEW lit \in Nat, NEW len \in Nat, NEW off \in Nat, NEW w \in Nat, w >= 2, NEW b,
         Reads(b, w, lit, len, off), AllBytes(b, w), Sees(b, w), InLen - ip \in Int,
         AtInstruction(lit), Decode
  PROVE  MatchRead(w, len, off)
<1>1. \A k \in 1 .. w : Byte(k) = b[k] /\ b[k] \in 0 .. 255
  BY DEF Sees, AllBytes
<1>2. Byte(1) = b[1] /\ Byte(2) = b[2] /\ b[1] \in 0 .. 255 /\ b[2] \in 0 .. 255
  <2>1. 1 \in 1 .. w /\ 2 \in 1 .. w
    OBVIOUS
  <2>2. QED
    BY <1>1, <2>1
<1>3. \/ Return("INPUT_OVERRUN") /\ InLen - ip < 3
      \/ /\ NeedIp(3)
         /\ \/ Byte(1) < 16 /\ at = "loop" /\ lit = 0 /\ LiteralRun
            \/ Byte(1) < 16 /\ at = "match" /\ lit \in 1 .. 3 /\ Match1
            \/ Byte(1) < 16 /\ at = "first_literal_run" /\ lit >= 4 /\ MatchX
            \/ Byte(1) \in 16 .. 31 /\ Match4
            \/ Byte(1) \in 32 .. 63 /\ Match3
            \/ Byte(1) \in 64 .. 255 /\ Match2
  BY <1>2, OneInstruction
<1>4. CASE Return("INPUT_OVERRUN") /\ InLen - ip < 3
  BY <1>4 DEF MatchRead
<1>5. CASE NearForm(b, w, lit, len, off) /\ NeedIp(3)
  <2>1. /\ w = 2 /\ Byte(1) \in 0 .. 15
        /\ \/ lit \in 1 .. 3 /\ len = 2 /\ off = NearDistance(Byte(1), Byte(2))
           \/ lit >= 4 /\ len = 3 /\ off = M2Max + NearDistance(Byte(1), Byte(2))
    BY <1>2, <1>5 DEF NearForm
  <2>2. NeedIp(w)
    BY <1>5, <2>1 DEF NeedIp
  <2>3. CASE Return("INPUT_OVERRUN") /\ InLen - ip < 3
    BY <2>3 DEF MatchRead
  <2>4. CASE at = "match" /\ lit \in 1 .. 3 /\ Match1
    <3>1. CopyMatch(2, 2, NearDistance(Byte(1), Byte(2)))
      BY <2>4 DEF Match1
    <3>2. len = 2 /\ off = NearDistance(Byte(1), Byte(2))
      BY <2>1, <2>4
    <3>3. QED
      BY <2>1, <2>2, <3>1, <3>2 DEF MatchRead
  <2>5. CASE at = "first_literal_run" /\ lit >= 4 /\ MatchX
    <3>1. CopyMatch(2, 3, M2Max + NearDistance(Byte(1), Byte(2)))
      BY <2>5 DEF MatchX
    <3>2. len = 3 /\ off = M2Max + NearDistance(Byte(1), Byte(2))
      BY <2>1, <2>5
    <3>3. QED
      BY <2>1, <2>2, <3>1, <3>2 DEF MatchRead
  <2>6. QED
    BY <1>3, <2>1, <2>3, <2>4, <2>5
<1>6. CASE M2Form(b, w, len, off) /\ NeedIp(3)
  <2>1. /\ w = 2 /\ Byte(1) \in 64 .. 255
        /\ len = M2Length(Byte(1)) /\ off = M2Distance(Byte(1), Byte(2))
    BY <1>2, <1>6 DEF M2Form
  <2>2. NeedIp(w)
    BY <1>6, <2>1 DEF NeedIp
  <2>3. (Return("INPUT_OVERRUN") /\ InLen - ip < 3) \/ Match2
    BY <1>3, <2>1
  <2>4. Match2 => CopyMatch(w, len, off)
    BY <2>1 DEF Match2
  <2>5. QED
    BY <2>2, <2>3, <2>4 DEF MatchRead
<1>7. CASE M3Form(b, w, len, off) /\ NeedIp(3)
  <2>1. PICK h \in Nat, low \in 0 .. 31 :
          /\ h >= 1 /\ w = h + 2 /\ b[1] = 32 + low
          /\ Says(b, low, 31, h, len - 2)
          /\ off = 1 + FarDistance(b[h + 1], b[h + 2])
    BY <1>7 DEF M3Form
  <2>2. Sees(b, h) /\ Byte(h + 1) = b[h + 1] /\ Byte(h + 2) = b[h + 2]
    <3>1. h + 1 \in 1 .. w /\ h + 2 \in 1 .. w
      BY <2>1
    <3>2. \A k \in 1 .. h : k \in 1 .. w
      BY <2>1
    <3>3. QED
      BY <1>1, <3>1, <3>2 DEF Sees
  <2>3. Byte(1) = 32 + low /\ Byte(1) \in 32 .. 63
    BY <1>2, <2>1
  <2>4. (Return("INPUT_OVERRUN") /\ InLen - ip < 3) \/ Match3
    BY <1>3, <2>3
  <2>5. ASSUME Match3 PROVE MatchRead(w, len, off)
    <3>1. off = 1 + FarDistance(Byte(h + 1), Byte(h + 2))
      BY <2>1, <2>2
    <3>2. \/ CopyMatch(h + 2, len, off) /\ (h = 1 \/ NeedIp(h + 2))
          \/ Return("INPUT_OVERRUN") /\ InLen - ip < h + 2
      BY <2>1, <2>2, <2>3, <2>5, <3>1, Match3Reads
    <3>3. h = 1 => NeedIp(h + 2)
      BY <1>7
    <3>4. QED
      BY <2>1, <3>2, <3>3 DEF MatchRead
  <2>6. QED
    BY <2>4, <2>5 DEF MatchRead
<1>8. CASE M4Form(b, w, len, off) /\ NeedIp(3)
  <2>1. PICK h \in Nat, low \in 0 .. 7, k \in {0, 1} :
          /\ h >= 1 /\ w = h + 2 /\ b[1] = 16 + 8 * k + low
          /\ Says(b, low, 7, h, len - 2)
          /\ M4Distance(b[1], b[h + 1], b[h + 2]) # 0
          /\ off = M4Distance(b[1], b[h + 1], b[h + 2]) + M3Max
    BY <1>8 DEF M4Form
  <2>2. Sees(b, h) /\ Byte(h + 1) = b[h + 1] /\ Byte(h + 2) = b[h + 2]
    <3>1. h + 1 \in 1 .. w /\ h + 2 \in 1 .. w
      BY <2>1
    <3>2. \A i \in 1 .. h : i \in 1 .. w
      BY <2>1
    <3>3. QED
      BY <1>1, <3>1, <3>2 DEF Sees
  <2>3. Byte(1) % 8 = low /\ Byte(1) \in 16 .. 31
    <3>1. CASE k = 0
      BY <1>2, <2>1, <3>1
    <3>2. CASE k = 1
      BY <1>2, <2>1, <3>2
    <3>3. QED
      BY <3>1, <3>2
  <2>4. (Return("INPUT_OVERRUN") /\ InLen - ip < 3) \/ Match4
    BY <1>3, <2>3
  <2>5. ASSUME Match4 PROVE MatchRead(w, len, off)
    <3>1. \/ FarMatch(h, len - 2) /\ (h = 1 \/ NeedIp(h + 2))
          \/ Return("INPUT_OVERRUN") /\ InLen - ip < h + 2
      BY <2>1, <2>2, <2>3, <2>5, Match4Reads
    <3>2. h = 1 => NeedIp(h + 2)
      BY <1>8
    <3>3. PICK d : d = M4Distance(b[1], b[h + 1], b[h + 2])
      OBVIOUS
    <3>4. d = 16384 * ((Byte(1) \div 8) % 2) + FarDistance(Byte(h + 1), Byte(h + 2))
      BY <1>2, <2>2, <3>3 DEF M4Distance
    <3>5. d # 0 /\ off = d + 16384 /\ (len - 2) + 2 = len
      BY <2>1, <3>3 DEF M3Max
    <3>6. FarMatch(h, len - 2) => CopyMatch(h + 2, len, off)
      BY <3>4, <3>5 DEF FarMatch
    <3>7. QED
      BY <2>1, <3>1, <3>2, <3>6 DEF MatchRead
  <2>6. QED
    BY <2>4, <2>5 DEF MatchRead
<1>9. QED
  BY <1>3, <1>4, <1>5, <1>6, <1>7, <1>8 DEF Reads

(* What is behind a match.                                                 *)
LEMMA BehindMatch ==
  ASSUME NEW s, NEW n \in Nat, NEW c, NEW g, Block(s, n, c, g),
         NEW j \in 1 .. n, s[j].off > 0, NEW i \in Nat, i = j + 1
  PROVE  /\ After(s, n, j) \in Counts
         /\ After(s, n, j) = 0 /\ i <= n /\ s[i].off = 0 => RunHere(s, i, c, g)
         /\ i <= n /\ s[i].off > 0 => Before(s, i) = 0
         /\ After(s, n, j) > 0 =>
              i <= n /\ s[i].off = 0 /\ s[i].len = After(s, n, j) /\ g[i] + s[i].len = g[i + 1]
<1>1. CASE i > n
  <2>1. After(s, n, j) = 0 /\ ~(i <= n) /\ ~(After(s, n, j) > 0)
    BY <1>1 DEF After
  <2>2. QED
    BY <2>1 DEF Counts
<1>2. CASE i <= n
  <2>1. i \in 1 .. n /\ j < n /\ i > 1
    BY <1>2
  <2>2. PICK len \in Nat, p \in Nat, q \in Nat :
          len = s[i].len /\ len >= 1 /\ p = g[i] /\ q = g[i + 1] /\ PieceAt(s, n, i, c, p, q)
    <3>1. /\ s[i].len \in Nat /\ s[i].len >= 1 /\ g[i] \in Nat /\ g[i + 1] \in Nat
          /\ PieceAt(s, n, i, c, g[i], g[i + 1])
      BY <2>1, PieceHere, Zenon
    <3>2. QED
      BY <3>1
  <2>3. CASE s[i].off # 0
    <3>1. After(s, n, j) = 0
      BY <2>3 DEF After
    <3>2. Before(s, i) = 0
      <4>1. i - 1 = j /\ s[j].off # 0
        BY PieceHere
      <4>2. QED
        BY <4>1 DEF Before
    <3>3. 0 \in Counts /\ ~(0 > 0)
      BY DEF Counts
    <3>4. QED
      BY <2>3, <3>1, <3>2, <3>3
  <2>4. CASE s[i].off = 0
    <3>1. LitAt(i, len, c, p, q)
      BY <2>2, <2>4 DEF PieceAt
    <3>2. PICK h \in Nat :
            /\ q = p + h + len
            /\ \/ h = 0 /\ i > 1 /\ len <= 3
               \/ h = 1 /\ i = 1 /\ len <= 238 /\ c[p + 1] = 17 + len
               \/ h >= 1 /\ len >= 4 /\ RunAt(len, c, p, h)
      BY <3>1 DEF LitAt
    <3>3. CASE len <= 3
      <4>1. h = 0 /\ q = p + len
        BY <2>1, <2>2, <3>2, <3>3
      <4>2. After(s, n, j) = len
        BY <2>1, <2>2, <2>4, <3>3 DEF After
      <4>3. len \in Counts /\ ~(len = 0) /\ ~(s[i].off > 0)
        BY <2>2, <2>4, <3>3 DEF Counts
      <4>4. QED
        BY <1>2, <2>2, <2>4, <4>1, <4>2, <4>3
    <3>4. CASE len > 3
      <4>1. h >= 1 /\ len >= 4 /\ RunAt(len, c, p, h)
        BY <2>1, <2>2, <3>2, <3>4
      <4>2. RunHere(s, i, c, g)
        BY <2>2, <3>2, <4>1 DEF RunHere
      <4>3. After(s, n, j) = 0
        BY <2>1, <2>2, <2>4, <3>4 DEF After
      <4>4. 0 \in Counts /\ ~(0 > 0) /\ ~(s[i].off > 0)
        BY <2>4 DEF Counts
      <4>5. QED
        BY <4>2, <4>3, <4>4
    <3>5. QED
      BY <2>2, <3>3, <3>4
  <2>5. QED
    BY <2>3, <2>4
<1>3. QED
  BY <1>1, <1>2

(* A match copied.                                                         *)
LEMMA MatchCopied ==
  ASSUME NEW s, NEW n \in Nat, NEW c, NEW g, NEW j \in 1 .. n, Here(s, n, c, g, j),
         at # "done", s[j].off > 0,
         NEW w \in Nat, w >= 2, ip + w = g[j + 1], NeedIp(w),
         Byte(w - 1) % 4 = After(s, n, j),
         CopyMatch(w, s[j].len, s[j].off)
  PROVE  Here(s, n, c, g, j)' \/ Here(s, n, c, g, j + 1)'
<1>1. Block(s, n, c, g)
  BY HereFacts
<1>2. PICK len \in Nat, off \in Nat, e \in Nat, p \in Pieces :
        /\ len = s[j].len /\ off = s[j].off /\ p = s[j] /\ e = Ends(s, j - 1)
        /\ p = Piece(e, len, off) /\ s[j].pos = e
        /\ Ends(s, (j + 1) - 1) = e + len /\ e + len <= Ends(s, n)
  BY <1>1, PieceHere
<1>3. PICK q \in Nat : q = g[j + 1] /\ q <= g[n + 1] /\ ip + w = q
  BY <1>1, <1>2, PieceHere
<1>4. /\ ip \in Nat /\ ip <= InLen /\ op = e /\ op <= Room /\ Copied(out, s, j - 1)
      /\ result = None /\ s = script /\ c = code /\ damage \in [cut : Nat, short : Nat]
      /\ Sent(s, n, c, g)
  BY <1>2 DEF Here, Stands
<1>5. /\ g[n + 1] \in Nat /\ Ends(s, n) \in Nat /\ damage.cut \in Nat /\ damage.short \in Nat
      /\ InLen = g[n + 1] + 3 - damage.cut /\ Room = Ends(s, n) - damage.short
  <2>1. Bounds(s, n, g)
    BY HereFacts
  <2>2. QED
    BY <2>1 DEF Bounds
<1>6. off <= op + DictLen
  <2>1. Follows(s, j)
    BY <1>1, BlockFacts
  <2>2. s[j].off <= s[j].pos + DictLen
    <3>1. s[j].off > 0 /\ ~(s[j].off = 0)
      BY <1>2
    <3>2. (j = 1 => s[j].off = 0) /\ (j > 1 /\ s[j].off > 0 => s[j].off <= s[j].pos + DictLen)
      BY <2>1, Zenon DEF Follows
    <3>3. ~(j = 1) /\ j \in 1 .. n
      BY <3>1, <3>2
    <3>4. j > 1
      BY <3>3
    <3>5. QED
      BY <3>1, <3>2, <3>4
  <2>3. QED
    BY <1>2, <1>4, <2>2
<1>7. CASE ~NeedOp(len)
  <2>1. damage.short > 0
    BY <1>2, <1>4, <1>5, <1>7 DEF NeedOp
  <2>2. Return("OUTPUT_OVERRUN")
    BY <1>2, <1>7 DEF CopyMatch
  <2>3. QED
    BY <2>1, <2>2, Refuses
<1>8. CASE NeedOp(len)
  <2>1. ~(off > op + DictLen)
    <3>1. DictLen \in Nat
      BY CodecAssumption
    <3>2. op \in Nat
      BY <1>4
    <3>3. QED
      BY <1>6, <3>1, <3>2
  <2>2. PICK s4 \in Counts : s4 = After(s, n, j)
    <3>1. j + 1 \in Nat
      OBVIOUS
    <3>2. QED
      BY <1>1, <3>1, BehindMatch
  <2>3. /\ ip' = ip + w /\ op' = op + len
        /\ out' = Append(out, [pos |-> op, len |-> len, off |-> off])
        /\ t' = s4
        /\ at' = IF s4 = 0 THEN "loop" ELSE "match_next"
        /\ UNCHANGED <<script, code, damage, result>>
    BY <1>2, <1>8, <2>1, <2>2 DEF CopyMatch
  <2>4. InLen' = InLen /\ Room' = Room /\ InLen \in Int /\ Room \in Int
    <3>1. InLen' = InLen /\ Room' = Room
      BY <2>3 DEF InLen, Room
    <3>2. InLen \in Int /\ Room \in Int
      BY <1>5
    <3>3. QED
      BY <3>1, <3>2
  <2>5. ip' = q /\ ip' \in Nat /\ ip' <= InLen'
    <3>1. InLen - ip >= w
      BY DEF NeedIp
    <3>2. ip' = q /\ InLen' = InLen
      BY <1>3, <2>3, <2>4
    <3>3. q <= InLen
      BY <1>3, <1>4, <2>4, <3>1
    <3>4. QED
      BY <3>2, <3>3
  <2>6. op' = Ends(s, (j + 1) - 1) /\ op' <= Room'
    <3>1. Room - op >= len
      BY <1>8 DEF NeedOp
    <3>2. op' = e + len /\ Room' = Room
      BY <1>4, <2>3, <2>4
    <3>3. e + len <= Room
      BY <1>2, <1>4, <2>4, <3>1
    <3>4. QED
      BY <1>2, <3>2, <3>3
  <2>7. out' = Plus(out, p)
    <3>1. Copied(out, s, j - 1)
      BY <1>4
    <3>2. out \in Seq(Pieces)
      BY <3>1 DEF Copied, OfPieces
    <3>3. out' = Append(out, p)
      BY <1>2, <1>4, <2>3 DEF Piece
    <3>4. Append(out, p) = out \o <<p>>
      BY <1>2, <3>2, AppendIsConcat
    <3>5. QED
      BY <3>3, <3>4, Zenon DEF Plus
  <2>8. Copied(out', s, (j + 1) - 1)
    BY <1>2, <1>4, <2>7, CopiedPlus
  <2>9. PICK i \in Nat : i = j + 1 /\ i \in 1 .. n + 1
    OBVIOUS
  <2>10. /\ After(s, n, j) = 0 /\ i <= n /\ s[i].off = 0 => RunHere(s, i, c, g)
         /\ i <= n /\ s[i].off > 0 => Before(s, i) = 0
         /\ After(s, n, j) > 0 =>
              i <= n /\ s[i].off = 0 /\ s[i].len = After(s, n, j) /\ g[i] + s[i].len = g[i + 1]
    BY <1>1, <2>9, BehindMatch
  <2>11. StandsAt(s, n, c, g, i)'
    <3>1. CASE s4 = 0
      <4>1. at' = "loop" /\ ip' = g[i]
        BY <1>3, <2>3, <2>5, <2>9, <3>1
      <4>2. /\ i <= n /\ s[i].off = 0 => RunHere(s, i, c, g)
            /\ i <= n /\ s[i].off > 0 => Before(s, i) = 0
        BY <2>2, <2>10, <3>1
      <4>3. QED
        BY <4>1, <4>2 DEF StandsAt
    <3>2. CASE s4 # 0
      <4>1. at' = "match_next" /\ ip' = g[i] /\ t' = s4 /\ s4 > 0
        BY <1>3, <2>2, <2>3, <2>5, <2>9, <3>2 DEF Counts
      <4>2. i <= n /\ s[i].off = 0 /\ s[i].len = t' /\ ip' + t' = g[i + 1]
        BY <2>2, <2>10, <4>1
      <4>3. QED
        BY <4>1, <4>2 DEF StandsAt
    <3>3. QED
      BY <3>1, <3>2
  <2>12. t' \in 0 .. 3
    BY <2>2, <2>3 DEF Counts
  <2>13. Stands(s, n, c, g, i)'
    BY <1>4, <2>3, <2>5, <2>6, <2>8, <2>9, <2>11, <2>12 DEF Stands
  <2>14. Here(s, n, c, g, i)'
    BY <1>4, <2>3, <2>9, <2>13 DEF Here
  <2>15. QED
    BY <2>9, <2>14
<1>9. QED
  BY <1>7, <1>8

(* The input ends too early only if bytes are missing.                     *)
LEMMA InputShort ==
  ASSUME NEW s, NEW n \in Nat, NEW c, NEW g, NEW j, Here(s, n, c, g, j),
         NEW x \in Nat, ip + x <= g[n + 1] + 3, InLen - ip < x, Return("INPUT_OVERRUN")
  PROVE  Here(s, n, c, g, j)'
<1>1. Bounds(s, n, g)
  BY HereFacts
<1>2. ip \in Nat
  BY DEF Here, Stands
<1>3. damage.cut > 0
  BY <1>1, <1>2 DEF Bounds
<1>4. QED
  BY <1>3, Refuses

(* What the decoder sees of a block.                                       *)
LEMMA SeesBlock ==
  ASSUME NEW s, NEW n \in Nat, NEW c, NEW g, NEW j, Here(s, n, c, g, j), ip = g[j],
         NEW h \in Nat, ip + h <= g[n + 1] + 3
  PROVE  Sees(Window(c, g[j]), h)
<1>1. ip \in Nat
  BY DEF Here, Stands
<1>2. g[n + 1] \in Nat
  <2>1. Bounds(s, n, g)
    BY HereFacts
  <2>2. QED
    BY <2>1 DEF Bounds
<1>3. \A k \in Nat : k >= 1 /\ ip + k <= g[n + 1] + 3 => Byte(k) = c[ip + k]
  BY HereFacts DEF BytesAre
<1>4. ASSUME NEW k \in 1 .. h PROVE Byte(k) = Window(c, g[j])[k]
  <2>1. k \in Nat /\ k >= 1 /\ ip + k <= g[n + 1] + 3
    BY <1>1, <1>2
  <2>2. Byte(k) = c[ip + k]
    BY <1>3, <2>1
  <2>3. QED
    BY <2>1, <2>2, WindowFacts
<1>5. QED
  BY <1>4 DEF Sees

(* Where an instruction is due the decoder is at its first byte, and knows *)
(* how many literals came before.                                          *)
LEMMA InstructionHere ==
  ASSUME NEW s, NEW n \in Nat, NEW c, NEW g, NEW j, Here(s, n, c, g, j),
         at \in {"loop", "first_literal_run", "match"}
  PROVE  /\ ip = g[j] /\ j \in 1 .. n + 1
         /\ \E lit \in Nat : AtInstruction(lit) /\ (j <= n /\ s[j].off > 0 => lit = Before(s, j))
         /\ at = "loop" /\ j <= n /\ s[j].off = 0 => RunHere(s, j, c, g)
         /\ at # "loop" /\ j <= n => s[j].off > 0
<1>1. StandsAt(s, n, c, g, j) /\ j \in 1 .. n + 1
  BY DEF Here, Stands
<1>2. Block(s, n, c, g)
  BY HereFacts
<1>3. CASE at = "loop"
  <2>1. /\ ip = g[j]
        /\ j <= n /\ s[j].off = 0 => RunHere(s, j, c, g)
        /\ j <= n /\ s[j].off > 0 => Before(s, j) = 0
    BY <1>1, <1>3 DEF StandsAt
  <2>2. AtInstruction(0) /\ 0 \in Nat
    BY <1>3 DEF AtInstruction
  <2>3. QED
    BY <1>1, <1>3, <2>1, <2>2
<1>4. CASE at # "loop"
  <2>1. /\ ip = g[j] /\ j > 1 /\ s[j - 1].off = 0 /\ NeedIp(3)
        /\ \/ at = "match" /\ s[j - 1].len <= 3
           \/ at = "first_literal_run" /\ s[j - 1].len >= 4
    BY <1>1, <1>4 DEF StandsAt
  <2>2. PICK i \in 1 .. n : i = j - 1
    BY <1>1, <2>1
  <2>3. PICK lit \in Nat : lit = s[i].len /\ lit >= 1
    <3>1. s[i].len \in Nat /\ s[i].len >= 1
      BY <1>2, PieceHere
    <3>2. QED
      BY <3>1
  <2>4. AtInstruction(lit)
    BY <2>1, <2>2, <2>3 DEF AtInstruction
  <2>5. Before(s, j) = lit
    BY <2>1, <2>2, <2>3 DEF Before
  <2>6. j <= n => s[j].off > 0
    <3> SUFFICES ASSUME j <= n PROVE s[j].off > 0
      OBVIOUS
    <3>1. j \in 1 .. n
      BY <1>1
    <3>2. Follows(s, j)
      BY <1>2, <3>1, BlockFacts
    <3>3. s[j].off \in Nat
      BY <1>2, <3>1, PieceHere
    <3>4. ~(s[j].off = 0)
      <4>1. ~(s[j - 1].off > 0)
        BY <2>1
      <4>2. QED
        BY <2>1, <3>2, <4>1 DEF Follows
    <3>5. QED
      BY <3>3, <3>4
  <2>7. QED
    BY <1>1, <1>4, <2>1, <2>4, <2>5, <2>6
<1>5. QED
  BY <1>3, <1>4

(* What any step does: it stays at the piece or goes on to the next.       *)
Moved(s, n, c, g, j) == Here(s, n, c, g, j) \/ Here(s, n, c, g, j + 1)

(* The step at a run of its own.                                           *)
LEMMA LiteralStep ==
  ASSUME NEW s, NEW n \in Nat, NEW c, NEW g, NEW j \in 1 .. n, Here(s, n, c, g, j),
         at = "loop", s[j].off = 0, Decode
  PROVE  Moved(s, n, c, g, j)'
<1>1. Block(s, n, c, g) /\ Bounds(s, n, g) /\ ip \in Nat
  BY HereFacts DEF Here, Stands
<1>2. ip = g[j] /\ RunHere(s, j, c, g) /\ AtInstruction(0)
  <2>1. at = "loop" /\ j <= n
    OBVIOUS
  <2>2. ip = g[j] /\ (at = "loop" /\ j <= n /\ s[j].off = 0 => RunHere(s, j, c, g))
    BY <2>1, InstructionHere
  <2>3. QED
    BY <2>1, <2>2 DEF AtInstruction
<1>3. PICK len \in Nat, q \in Nat : len = s[j].len /\ q = g[j + 1] /\ q <= g[n + 1] /\ g[n + 1] \in Nat
  BY <1>1, PieceHere
<1>4. PICK h \in Nat : len >= 4 /\ h >= 1 /\ q = ip + h + len /\ RunAt(len, c, ip, h)
  BY <1>2, <1>3 DEF RunHere
<1>5. PICK low \in 0 .. 15 : c[ip + 1] = low /\ Says(Window(c, ip), low, 15, h, len - 3)
  BY <1>4 DEF RunAt
<1>6. Sees(Window(c, ip), h)
  <2>1. ip + h <= g[n + 1] + 3
    BY <1>1, <1>3, <1>4
  <2>2. QED
    BY <1>2, <2>1, SeesBlock
<1>7. PICK b : b = Window(c, ip)
  OBVIOUS
<1>8. Byte(1) = low
  <2>1. 1 \in 1 .. h /\ 1 \in Nat
    BY <1>4
  <2>2. Byte(1) = Window(c, ip)[1]
    BY <1>6, <2>1 DEF Sees
  <2>3. QED
    BY <1>5, <2>1, <2>2, WindowFacts
<1>9. InLen - ip \in Int
  BY <1>1 DEF Bounds
<1>10. (Return("INPUT_OVERRUN") /\ InLen - ip < 3) \/ LiteralRun
  BY <1>2, <1>8, <1>9, OneInstruction
<1>11. CASE Return("INPUT_OVERRUN") /\ InLen - ip < 3
  <2>1. 3 \in Nat /\ ip + 3 <= g[n + 1] + 3
    BY <1>1, <1>3, <1>4
  <2>2. QED
    BY <1>11, <2>1, InputShort DEF Moved
<1>12. CASE LiteralRun
  <2>1. low \in Nat /\ Says(b, low, 15, h, len - 3) /\ Sees(b, h)
    BY <1>5, <1>6, <1>7
  <2>2. \/ CopyLiterals(h, len, "first_literal_run")
        \/ Return("INPUT_OVERRUN") /\ InLen - ip < h
    BY <1>8, <1>9, <1>12, <2>1, LiteralRunReads
  <2>3. CASE CopyLiterals(h, len, "first_literal_run")
    <3>1. ip + h + s[j].len = g[j + 1] /\ s[j].len >= 4 /\ at # "done"
      BY <1>3, <1>4
    <3>2. Here(s, n, c, g, j)' \/ Here(s, n, c, g, j + 1)'
      BY <1>3, <2>3, <3>1, LiteralsCopied
    <3>3. QED
      BY <3>2 DEF Moved
  <2>4. CASE Return("INPUT_OVERRUN") /\ InLen - ip < h
    <3>1. ip + h <= g[n + 1] + 3
      BY <1>1, <1>3, <1>4
    <3>2. QED
      BY <2>4, <3>1, InputShort DEF Moved
  <2>5. QED
    BY <2>2, <2>3, <2>4
<1>13. QED
  BY <1>10, <1>11, <1>12

(* The step at a match.                                                    *)
LEMMA MatchStep ==
  ASSUME NEW s, NEW n \in Nat, NEW c, NEW g, NEW j \in 1 .. n, Here(s, n, c, g, j),
         at \in {"loop", "first_literal_run", "match"}, s[j].off > 0, Decode
  PROVE  Moved(s, n, c, g, j)'
<1>1. Block(s, n, c, g) /\ Bounds(s, n, g) /\ ip \in Nat
  BY HereFacts DEF Here, Stands
<1>2. PICK lit \in Nat : ip = g[j] /\ AtInstruction(lit) /\ lit = Before(s, j)
  <2>1. j <= n
    OBVIOUS
  <2>2. ip = g[j] /\ \E lit \in Nat : AtInstruction(lit) /\ (j <= n /\ s[j].off > 0 => lit = Before(s, j))
    BY InstructionHere
  <2>3. QED
    BY <2>1, <2>2
<1>3. PICK len \in Nat, off \in Nat, q \in Nat :
        /\ len = s[j].len /\ off = s[j].off /\ q = g[j + 1] /\ q <= g[n + 1] /\ g[n + 1] \in Nat
        /\ off # 0 /\ PieceAt(s, n, j, c, g[j], q)
  <2>1. /\ s[j].len \in Nat /\ s[j].off \in Nat /\ g[j + 1] \in Nat /\ g[j + 1] <= g[n + 1]
        /\ g[n + 1] \in Nat /\ PieceAt(s, n, j, c, g[j], g[j + 1])
    BY <1>1, PieceHere
  <2>2. s[j].off # 0
    BY <2>1
  <2>3. QED
    BY <2>1, <2>2
<1>4. PICK after \in Counts : after = After(s, n, j)
  <2>1. j + 1 \in Nat
    OBVIOUS
  <2>2. QED
    BY <1>1, <2>1, BehindMatch
<1>5. MatchAt(lit, len, off, after, c, ip, q)
  BY <1>2, <1>3, <1>4 DEF PieceAt
<1>6. PICK w \in Nat : \E m :
        /\ w >= 2 /\ q = ip + w /\ AllBytes(m, w)
        /\ Fits(m, w, lit, len, off) /\ Notes(m, w, after, Window(c, ip))
  BY <1>5 DEF MatchAt
<1>7. PICK m :
       /\ w >= 2 /\ q = ip + w /\ AllBytes(m, w)
       /\ Fits(m, w, lit, len, off) /\ Notes(m, w, after, Window(c, ip))
  BY <1>6
<1>8. PICK b : b = Window(c, ip)
  OBVIOUS
<1>9. AllBytes(b, w) /\ b[w - 1] % 4 = after /\ Reads(b, w, lit, len, off)
  BY <1>7, <1>8 DEF Fits, ReadsWith
<1>10. Sees(b, w)
  <2>1. ip + w <= g[n + 1] + 3
    BY <1>1, <1>3, <1>7
  <2>2. QED
    BY <1>2, <1>8, <2>1, SeesBlock
<1>11. InLen - ip \in Int
  BY <1>1 DEF Bounds
<1>12. MatchRead(w, len, off)
  BY <1>2, <1>7, <1>9, <1>10, <1>11, MatchReads
<1>13. CASE CopyMatch(w, len, off) /\ NeedIp(w)
  <2>1. Byte(w - 1) % 4 = After(s, n, j)
    <3>1. w - 1 \in 1 .. w
      BY <1>7
    <3>2. Byte(w - 1) = b[w - 1]
      BY <1>10, <3>1 DEF Sees
    <3>3. QED
      BY <1>4, <1>9, <3>2
  <2>2. ip + w = g[j + 1] /\ at # "done"
    BY <1>3, <1>7
  <2>3. CopyMatch(w, s[j].len, s[j].off)
    BY <1>3, <1>13
  <2>4. Here(s, n, c, g, j)' \/ Here(s, n, c, g, j + 1)'
    BY <1>7, <1>13, <2>1, <2>2, <2>3, MatchCopied
  <2>5. QED
    BY <2>4 DEF Moved
<1>14. CASE Return("INPUT_OVERRUN") /\ InLen - ip < 3
  <2>1. 3 \in Nat /\ ip + 3 <= g[n + 1] + 3
    BY <1>1, <1>3, <1>7
  <2>2. QED
    BY <1>14, <2>1, InputShort DEF Moved
<1>15. CASE Return("INPUT_OVERRUN") /\ InLen - ip < w
  <2>1. ip + w <= g[n + 1] + 3
    BY <1>1, <1>3, <1>7
  <2>2. QED
    BY <1>15, <2>1, InputShort DEF Moved
<1>16. QED
  BY <1>12, <1>13, <1>14, <1>15 DEF MatchRead

(* The end marker.                                                         *)
LEMMA EndStep ==
  ASSUME NEW s, NEW n \in Nat, NEW c, NEW g, NEW j, Here(s, n, c, g, j),
         at \in {"loop", "first_literal_run", "match"}, j = n + 1, Decode
  PROVE  Here(s, n, c, g, j)'
<1>1. Block(s, n, c, g) /\ Bounds(s, n, g) /\ ip \in Nat /\ Sent(s, n, c, g)
  BY HereFacts DEF Here, Stands
<1>2. PICK p \in Nat : p = g[n + 1] /\ ip = p
  <2>1. ip = g[j]
    BY InstructionHere
  <2>2. QED
    BY <1>1, <2>1 DEF Bounds
<1>3. PICK lit \in Nat : AtInstruction(lit)
  BY InstructionHere
<1>4. Byte(1) = 17 /\ Byte(2) = 0 /\ Byte(3) = 0
  <2>1. BytesAre(n, c, g)
    BY HereFacts
  <2>2. Byte(1) = c[p + 1] /\ Byte(2) = c[p + 2] /\ Byte(3) = c[p + 3]
    BY <1>2, <2>1 DEF BytesAre
  <2>3. c[p + 1] = 17 /\ c[p + 2] = 0 /\ c[p + 3] = 0
    BY <1>1, <1>2 DEF Sent
  <2>4. QED
    BY <2>2, <2>3
<1>5. InLen - ip \in Int
  BY <1>1 DEF Bounds
<1>6. (Return("INPUT_OVERRUN") /\ InLen - ip < 3) \/ (Match4 /\ NeedIp(3))
  BY <1>3, <1>4, <1>5, OneInstruction
<1>7. CASE Return("INPUT_OVERRUN") /\ InLen - ip < 3
  <2>1. 3 \in Nat /\ ip + 3 <= g[n + 1] + 3
    BY <1>2
  <2>2. QED
    BY <1>7, <2>1, InputShort
<1>8. CASE Match4 /\ NeedIp(3)
  <2>1. PICK b : b = <<17>>
    OBVIOUS
  <2>2. PICK low \in 0 .. 7, h \in Nat, len \in Nat :
          low = 1 /\ h = 1 /\ len = 3 /\ len - 2 = 1
    OBVIOUS
  <2>3. Says(b, low, 7, h, len - 2)
    BY <2>2 DEF Says
  <2>4. Sees(b, h)
    <3>1. \A k \in 1 .. h : k = 1
      BY <2>2
    <3>2. b[1] = 17
      BY <2>1
    <3>3. QED
      BY <1>4, <3>1, <3>2 DEF Sees
  <2>5. Byte(1) % 8 = low
    BY <1>4, <2>2
  <2>6. \/ FarMatch(h, len - 2) /\ (h = 1 \/ NeedIp(h + 2))
        \/ Return("INPUT_OVERRUN") /\ InLen - ip < h + 2
    BY <1>5, <1>8, <2>3, <2>4, <2>5, Match4Reads
  <2>7. CASE Return("INPUT_OVERRUN") /\ InLen - ip < h + 2
    <3>1. 3 \in Nat /\ ip + 3 <= g[n + 1] + 3 /\ h + 2 = 3
      BY <1>2, <2>2
    <3>2. QED
      BY <2>7, <3>1, InputShort
  <2>8. CASE FarMatch(h, len - 2)
    <3>1. 16384 * ((Byte(1) \div 8) % 2) + FarDistance(Byte(h + 1), Byte(h + 2)) = 0
      BY <1>4, <2>2 DEF FarDistance
    <3>2. End(h + 2)
      BY <2>8, <3>1 DEF FarMatch
    <3>3. End(3)
      BY <2>2, <3>2
    <3>4. PICK cut \in Nat, short \in Nat, e \in Nat :
            /\ cut = damage.cut /\ short = damage.short /\ e = Ends(s, n)
            /\ InLen = p + 3 - cut /\ Room = e - short
      BY <1>1, <1>2 DEF Bounds
    <3>5. cut = 0 /\ InLen = ip + 3
      BY <1>2, <1>8, <3>4 DEF NeedIp
    <3>6. /\ damage \in [cut : Nat, short : Nat] /\ op = e /\ op <= Room /\ t \in 0 .. 3
          /\ Copied(out, s, j - 1) /\ op = Ends(s, j - 1) /\ s = script /\ c = code /\ j \in 1 .. n + 1
      <4>1. j - 1 = n
        OBVIOUS
      <4>2. QED
        BY <3>4, <4>1 DEF Here, Stands
    <3>7. short = 0
      BY <3>4, <3>6
    <3>8. damage = Whole
      BY <3>4, <3>5, <3>6, <3>7 DEF Whole
    <3>9. /\ ip' = ip + 3 /\ result' = "OK" /\ at' = "done"
          /\ UNCHANGED <<script, code, damage, op, t, out>>
      BY <3>3, <3>5 DEF End
    <3>10. StandsAt(s, n, c, g, j)'
      BY <3>8, <3>9 DEF StandsAt, Whole
    <3>11. InLen' = InLen /\ Room' = Room
      BY <3>9 DEF InLen, Room
    <3>12. ip' \in Nat /\ ip' <= InLen'
      BY <1>1, <3>5, <3>9, <3>11
    <3>13. Stands(s, n, c, g, j)'
      BY <3>6, <3>9, <3>10, <3>11, <3>12 DEF Stands
    <3>14. QED
      BY <1>1, <3>6, <3>9, <3>13 DEF Here
  <2>9. QED
    BY <2>6, <2>7, <2>8
<1>9. QED
  BY <1>6, <1>7, <1>8

(* The literals a match noted.                                             *)
LEMMA NextStep ==
  ASSUME NEW s, NEW n \in Nat, NEW c, NEW g, NEW j, Here(s, n, c, g, j),
         at = "match_next", Decode
  PROVE  j \in 1 .. n /\ Moved(s, n, c, g, j)'
<1>1. StandsAt(s, n, c, g, j) /\ ip \in Nat /\ t \in 0 .. 3 /\ j \in 1 .. n + 1
  BY DEF Here, Stands
<1>2. j <= n /\ s[j].off = 0 /\ s[j].len = t /\ ip + t = g[j + 1]
  BY <1>1 DEF StandsAt
<1>3. j \in 1 .. n
  BY <1>1, <1>2
<1>4. MatchNext
  <2>1. AtMatch => FALSE
    BY DEF AtMatch
  <2>2. ~Match4
    BY <2>1 DEF Match4, LongLength
  <2>3. QED
    BY <2>1, <2>2 DEF Decode, Start, LoopOverrun, LiteralRun, MatchX, Match1, Match2, Match3
<1>5. PICK len \in 0 .. 3 : len = t
  BY <1>1
<1>6. CopyLiterals(0, len, "match")
  BY <1>4, <1>5 DEF MatchNext
<1>7. 0 \in Nat /\ ip + 0 + s[j].len = g[j + 1] /\ s[j].len <= 3 /\ at # "done" /\ len = s[j].len
  BY <1>1, <1>2, <1>5
<1>8. Here(s, n, c, g, j)' \/ Here(s, n, c, g, j + 1)'
  BY <1>2, <1>3, <1>6, <1>7, LiteralsCopied
<1>9. QED
  BY <1>3, <1>8 DEF Moved

(* Only at' and perhaps ip' and t' change: still before the same piece.    *)
LEMMA StaysBefore ==
  ASSUME NEW s, NEW n \in Nat, NEW c, NEW g, NEW j, Here(s, n, c, g, j), at # "done",
         UNCHANGED <<script, code, damage, op, out, result>>,
         ip' \in Nat, ip' <= InLen, t' \in 0 .. 3, StandsAt(s, n, c, g, j)'
  PROVE  Here(s, n, c, g, j)'
<1>1. InLen' = InLen /\ Room' = Room
  BY DEF InLen, Room
<1>2. result' = None /\ ip' <= InLen'
  BY <1>1 DEF Here, Stands
<1>3. Stands(s, n, c, g, j)'
  BY <1>1, <1>2 DEF Here, Stands
<1>4. QED
  BY <1>3 DEF Here

(* The first step: a short first run, or the loop.                         *)
LEMMA StartStep ==
  ASSUME NEW s, NEW n \in Nat, NEW c, NEW g, NEW j, Here(s, n, c, g, j),
         at = "start", Decode
  PROVE  Here(s, n, c, g, j)' \/ (j \in 1 .. n /\ Moved(s, n, c, g, j)')
<1>1. /\ StandsAt(s, n, c, g, j) /\ t \in 0 .. 3 /\ j \in 1 .. n + 1 /\ Sent(s, n, c, g)
      /\ ip \in Nat /\ ip <= InLen
  BY DEF Here, Stands
<1>2. j = 1 /\ ip = 0
  BY <1>1 DEF StandsAt
<1>3. Block(s, n, c, g) /\ Bounds(s, n, g) /\ BytesAre(n, c, g)
  BY HereFacts
<1>4. g[1] = 0
  BY <1>3, BlockFacts
<1>5. Start
  <2>1. AtMatch => FALSE
    BY DEF AtMatch
  <2>2. ~Match4
    BY <2>1 DEF Match4, LongLength
  <2>3. QED
    BY <2>1, <2>2 DEF Decode, MatchNext, LoopOverrun, LiteralRun, MatchX, Match1, Match2, Match3
<1>6. CASE ~NeedIp(1)
  <2>1. Return("INPUT_OVERRUN")
    BY <1>5, <1>6 DEF Start
  <2>2. InLen - ip < 1 /\ 1 \in Nat /\ ip + 1 <= g[n + 1] + 3
    BY <1>2, <1>3, <1>6 DEF NeedIp, Bounds
  <2>3. QED
    BY <2>1, <2>2, InputShort
<1>7. CASE NeedIp(1)
  <2>1. InLen \in Int /\ InLen >= 1
    BY <1>2, <1>3, <1>7 DEF NeedIp, Bounds
  <2>2. Byte(1) = c[1]
    <3>1. ip + 1 <= g[n + 1] + 3 /\ ip + 1 = 1 /\ 1 \in Nat /\ 1 >= 1
      BY <1>2, <1>3 DEF Bounds
    <3>2. QED
      BY <1>3, <3>1 DEF BytesAre
  <2>3. ASSUME Byte(1) \in 0 .. 17,
               j <= n => s[j].off = 0 /\ RunHere(s, j, c, g)
        PROVE  Here(s, n, c, g, j)'
    <3>1. /\ at' = "loop"
          /\ UNCHANGED <<script, code, damage, ip, op, t, out, result>>
      <4>1. ~(Byte(1) - 17 >= 4) /\ ~(Byte(1) - 17 \in 1 .. 3)
        BY <2>3
      <4>2. QED
        BY <1>5, <1>7, <4>1 DEF Start
    <3>2. ip' = g[j] /\ (j <= n => ~(s[j].off > 0))
      BY <1>2, <1>4, <2>3, <3>1
    <3>3. StandsAt(s, n, c, g, j)'
      BY <2>3, <3>1, <3>2 DEF StandsAt
    <3>4. at # "done" /\ ip' \in Nat /\ ip' <= InLen /\ t' \in 0 .. 3
      BY <1>1, <3>1
    <3>5. UNCHANGED <<script, code, damage, op, out, result>>
      BY <3>1
    <3>6. QED
      BY <3>3, <3>4, <3>5, StaysBefore
  <2>4. CASE n = 0
    <3>1. c[1] = 17
      BY <1>1, <1>4, <2>4 DEF Sent
    <3>2. ~(j <= n) /\ Byte(1) \in 0 .. 17
      BY <1>2, <2>2, <2>4, <3>1
    <3>3. QED
      BY <2>3, <3>2
  <2>5. CASE n > 0
    <3>1. j \in 1 .. n
      BY <1>2, <2>5
    <3>2. s[j].off = 0
      <4>1. Follows(s, j)
        BY <1>3, <3>1, BlockFacts
      <4>2. QED
        BY <1>2, <4>1 DEF Follows
    <3>3. PICK len \in Nat, q \in Nat :
            /\ len = s[j].len /\ len >= 1 /\ q = g[j + 1] /\ PieceAt(s, n, j, c, g[j], g[j + 1])
            /\ g[j + 1] <= g[n + 1] /\ g[n + 1] \in Nat
      <4>1. /\ s[j].len \in Nat /\ s[j].len >= 1 /\ g[j + 1] \in Nat
            /\ PieceAt(s, n, j, c, g[j], g[j + 1])
            /\ g[j + 1] <= g[n + 1] /\ g[n + 1] \in Nat
        BY <1>3, <3>1, PieceHere
      <4>2. QED
        BY <4>1
    <3>4. LitAt(j, len, c, 0, q)
      BY <1>2, <1>4, <3>2, <3>3 DEF PieceAt
    <3>5. PICK h \in Nat :
            /\ q = 0 + h + len
            /\ \/ h = 0 /\ j > 1 /\ len <= 3
               \/ h = 1 /\ j = 1 /\ len <= 238 /\ c[0 + 1] = 17 + len
               \/ h >= 1 /\ len >= 4 /\ RunAt(len, c, 0, h)
      BY <3>4 DEF LitAt
    <3>6. CASE h = 1 /\ c[1] = 17 + len /\ len >= 4
      <4>1. Byte(1) - 17 = len
        BY <2>2, <3>6
      <4>2. CopyLiterals(1, len, "first_literal_run")
        BY <1>5, <1>7, <3>6, <4>1 DEF Start
      <4>3. 1 \in Nat /\ ip + 1 + s[j].len = g[j + 1] /\ at # "done" /\ s[j].len >= 4
        BY <1>2, <3>3, <3>5, <3>6
      <4>4. CopyLiterals(1, s[j].len, "first_literal_run")
        BY <3>3, <4>2
      <4>5. Here(s, n, c, g, j)' \/ Here(s, n, c, g, j + 1)'
        BY <3>1, <3>2, <4>3, <4>4, LiteralsCopied
      <4>6. QED
        BY <3>1, <4>5 DEF Moved
    <3>7. CASE h = 1 /\ c[1] = 17 + len /\ len <= 3
      <4>1. Byte(1) - 17 = len /\ len \in 1 .. 3 /\ ~(len >= 4)
        BY <2>2, <3>3, <3>7
      <4>2. /\ ip' = ip + 1 /\ t' = len /\ at' = "match_next"
            /\ UNCHANGED <<script, code, damage, op, out, result>>
        BY <1>5, <1>7, <4>1 DEF Start
      <4>3. j <= n /\ s[j].len = t' /\ ip' + t' = g[j + 1]
        BY <1>2, <3>1, <3>3, <3>5, <3>7, <4>2
      <4>4. StandsAt(s, n, c, g, j)'
        BY <3>2, <4>2, <4>3 DEF StandsAt
      <4>5. at # "done" /\ ip' \in Nat /\ ip' <= InLen /\ t' \in 0 .. 3
        BY <1>2, <2>1, <4>1, <4>2
      <4>6. Here(s, n, c, g, j)'
        BY <4>2, <4>4, <4>5, StaysBefore
      <4>7. QED
        BY <4>6
    <3>8. CASE h >= 1 /\ len >= 4 /\ RunAt(len, c, 0, h)
      <4>1. Byte(1) \in 0 .. 17
        <5>1. PICK low \in 0 .. 15 : c[0 + 1] = low
          BY <3>8 DEF RunAt
        <5>2. QED
          BY <2>2, <5>1
      <4>2. RunHere(s, j, c, g)
        BY <1>2, <1>4, <3>3, <3>5, <3>8 DEF RunHere
      <4>3. QED
        BY <2>3, <3>2, <4>1, <4>2
    <3>9. QED
      BY <1>2, <3>5, <3>6, <3>7, <3>8
  <2>6. QED
    BY <2>4, <2>5
<1>8. QED
  BY <1>6, <1>7

(* Every step of the decoder.                                              *)
LEMMA DecodeStep ==
  ASSUME Decoding, Decode
  PROVE  Decoding'
<1>1. PICK n \in Nat : \E g :
        Sent(script, n, code, g) /\ \E j \in 1 .. n + 1 : Stands(script, n, code, g, j)
  BY DEF Decoding
<1>2. PICK g :
       Sent(script, n, code, g) /\ \E j \in 1 .. n + 1 : Stands(script, n, code, g, j)
  BY <1>1
<1>3. PICK j \in 1 .. n + 1 : Sent(script, n, code, g) /\ Stands(script, n, code, g, j)
  BY <1>2
<1>4. PICK s, c : s = script /\ c = code
  OBVIOUS
<1>5. Here(s, n, c, g, j)
  BY <1>3, <1>4 DEF Here, Decoding
<1>6. ASSUME NEW i, Here(s, n, c, g, i)' PROVE Decoding'
  <2>1. /\ s = script' /\ c = code' /\ damage' \in [cut : Nat, short : Nat]
        /\ Sent(s, n, c, g) /\ i \in 1 .. n + 1 /\ Stands(s, n, c, g, i)'
    BY <1>6 DEF Here
  <2>2. Sent(script', n, code', g) /\ Stands(script, n, code, g, i)'
    BY <2>1
  <2>3. QED
    BY <2>1, <2>2 DEF Decoding
<1>7. Here(s, n, c, g, j)' \/ (j \in 1 .. n /\ Moved(s, n, c, g, j)') => Decoding'
  BY <1>6 DEF Moved
<1>8. CASE at = "start"
  BY <1>5, <1>7, <1>8, StartStep
<1>9. CASE at = "match_next"
  BY <1>5, <1>7, <1>9, NextStep
<1>10. CASE at \in {"loop", "first_literal_run", "match"}
  <2>1. CASE j = n + 1
    BY <1>5, <1>7, <1>10, <2>1, EndStep
  <2>2. CASE j \in 1 .. n
    <3>1. Block(s, n, c, g)
      BY <1>5, HereFacts
    <3>2. s[j].off \in Nat
      BY <2>2, <3>1, PieceHere
    <3>3. CASE s[j].off > 0
      BY <1>5, <1>7, <1>10, <2>2, <3>3, MatchStep
    <3>4. CASE s[j].off = 0
      <4>1. at = "loop"
        BY <1>5, <1>10, <2>2, <3>4, InstructionHere
      <4>2. QED
        BY <1>5, <1>7, <2>2, <3>4, <4>1, LiteralStep
    <3>5. QED
      BY <3>2, <3>3, <3>4
  <2>3. QED
    BY <2>1, <2>2
<1>11. CASE at \notin {"start", "match_next", "loop", "first_literal_run", "match"}
  <2>1. AtMatch => FALSE
    BY <1>11 DEF AtMatch
  <2>2. ~Match4
    BY <2>1 DEF Match4, LongLength
  <2>3. QED
    BY <1>11, <2>1, <2>2 DEF Decode, Start, MatchNext, LoopOverrun, LiteralRun, MatchX, Match1, Match2, Match3
<1>12. QED
  BY <1>8, <1>9, <1>10, <1>11

(* Where an opcode is due there is one.                                    *)
LEMMA OpcodeHere ==
  ASSUME NEW s, NEW n \in Nat, NEW c, NEW g, NEW j, Here(s, n, c, g, j),
         at \in {"start", "loop", "first_literal_run", "match"}
  PROVE  Byte(1) \in 0 .. 255
<1>1. /\ StandsAt(s, n, c, g, j) /\ j \in 1 .. n + 1 /\ Sent(s, n, c, g)
      /\ Block(s, n, c, g) /\ Bounds(s, n, g) /\ BytesAre(n, c, g)
  BY HereFacts DEF Here, Stands
<1>2. ip = g[j]
  <2>1. CASE at = "start"
    <3>1. j = 1 /\ ip = 0
      BY <1>1, <2>1 DEF StandsAt
    <3>2. g[1] = 0
      BY <1>1, BlockFacts
    <3>3. QED
      BY <3>1, <3>2
  <2>2. CASE at # "start"
    BY <2>2, InstructionHere
  <2>3. QED
    BY <2>1, <2>2
<1>3. PICK p \in Nat : p = g[j] /\ p <= g[n + 1] /\ g[n + 1] \in Nat
  <2>1. Places(n, g)
    BY <1>1, BlockFacts
  <2>2. g[j] \in Nat /\ g[n + 1] \in Nat /\ g[j] <= g[n + 1]
    <3>1. n + 1 \in 1 .. n + 1 /\ j \in 1 .. n + 1
      BY <1>1
    <3>2. QED
      BY <2>1, <3>1 DEF Places
  <2>3. QED
    BY <2>2
<1>4. Byte(1) = c[p + 1]
  <2>1. 1 \in Nat /\ 1 >= 1 /\ ip + 1 <= g[n + 1] + 3
    BY <1>2, <1>3
  <2>2. QED
    BY <1>1, <1>2, <1>3, <2>1 DEF BytesAre
<1>5. CASE j = n + 1
  BY <1>1, <1>3, <1>4, <1>5 DEF Sent
<1>6. CASE j \in 1 .. n
  <2>1. PICK q \in Nat : q = g[j + 1] /\ PieceAt(s, n, j, c, p, q) /\ s[j].len \in Nat
    <3>1. g[j + 1] \in Nat /\ PieceAt(s, n, j, c, g[j], g[j + 1]) /\ s[j].len \in Nat
      BY <1>1, <1>6, PieceHere
    <3>2. QED
      BY <1>3, <3>1
  <2>2. CASE s[j].off = 0
    <3>1. LitAt(j, s[j].len, c, p, q)
      BY <2>1, <2>2 DEF PieceAt
    <3>2. PICK h \in Nat :
            \/ h = 0 /\ j > 1 /\ s[j].len <= 3
            \/ h = 1 /\ j = 1 /\ s[j].len <= 238 /\ c[p + 1] = 17 + s[j].len
            \/ h >= 1 /\ s[j].len >= 4 /\ RunAt(s[j].len, c, p, h)
      BY <3>1 DEF LitAt
    <3>3. CASE h = 0 /\ j > 1 /\ s[j].len <= 3
      <4>1. at # "start"
        BY <1>1, <3>3 DEF StandsAt
      <4>2. at = "loop" /\ RunHere(s, j, c, g)
        <5>1. /\ (at = "loop" /\ j <= n /\ s[j].off = 0) => RunHere(s, j, c, g)
              /\ (at # "loop" /\ j <= n) => s[j].off > 0
          BY <4>1, InstructionHere
        <5>2. j <= n /\ ~(s[j].off > 0)
          BY <1>6, <2>2
        <5>3. QED
          BY <2>2, <5>1, <5>2
      <4>3. s[j].len >= 4
        BY <4>2 DEF RunHere
      <4>4. QED
        BY <2>1, <3>3, <4>3
    <3>4. CASE h = 1 /\ j = 1 /\ s[j].len <= 238 /\ c[p + 1] = 17 + s[j].len
      BY <1>4, <2>1, <3>4
    <3>5. CASE h >= 1 /\ s[j].len >= 4 /\ RunAt(s[j].len, c, p, h)
      <4>1. PICK low \in 0 .. 15 : c[p + 1] = low
        BY <3>5 DEF RunAt
      <4>2. QED
        BY <1>4, <4>1
    <3>6. QED
      BY <3>2, <3>3, <3>4, <3>5
  <2>3. CASE s[j].off # 0
    <3>1. MatchAt(Before(s, j), s[j].len, s[j].off, After(s, n, j), c, p, q)
      BY <2>1, <2>3 DEF PieceAt
    <3>2. PICK after \in Counts : after = After(s, n, j)
      <4>1. j + 1 \in Nat /\ s[j].off > 0
        <5>1. s[j].off \in Nat
          BY <1>1, <1>6, PieceHere
        <5>2. QED
          BY <1>6, <2>3, <5>1
      <4>2. QED
        BY <1>1, <1>6, <4>1, BehindMatch
    <3>3. PICK w \in Nat : w >= 2 /\ AllBytes(Window(c, p), w)
      BY <3>1, <3>2 DEF MatchAt, Fits, ReadsWith
    <3>4. 1 \in 1 .. w /\ 1 \in Nat
      BY <3>3
    <3>5. Window(c, p)[1] \in 0 .. 255
      BY <3>3, <3>4 DEF AllBytes
    <3>6. QED
      BY <1>4, <3>4, <3>5, WindowFacts
  <2>4. QED
    BY <2>2, <2>3
<1>7. QED
  BY <1>1, <1>5, <1>6

-----------------------------------------------------------------------------
(* The invariant.                                                          *)

(* Nothing is made yet.                                                    *)
LEMMA InitMakes ==
  ASSUME Init
  PROVE  IInv
<1>1. PICK n \in Nat : n = 0 /\ n + 1 = 1
  OBVIOUS
<1>2. PICK g : g = [j \in 1 .. 1 |-> 0]
  OBVIOUS
<1>3. g[1] = 0 /\ 1 .. n = {} /\ \A j \in 1 .. n + 1 : j = 1
  BY <1>1, <1>2
<1>4. OfPieces(<<>>, n) /\ Script(<<>>, n) /\ CodeBytes(<<>>, g[n + 1])
  <2>1. OfPieces(<<>>, n)
    BY <1>1 DEF OfPieces
  <2>2. Script(<<>>, n)
    BY <1>3 DEF Script
  <2>3. CodeBytes(<<>>, g[n + 1])
    <3>1. g[n + 1] = 0
      BY <1>1, <1>3
    <3>2. \A k \in 1 .. 0 : FALSE
      OBVIOUS
    <3>3. QED
      BY <3>1, <3>2 DEF CodeBytes
  <2>4. QED
    BY <2>1, <2>2, <2>3
<1>5. Places(n, g)
  <2>1. \A j \in 1 .. n + 1 : g[j] \in Nat /\ \A i \in 1 .. j : g[i] <= g[j]
    BY <1>1, <1>3
  <2>2. QED
    BY <1>3, <2>1 DEF Places
<1>6. Block(<<>>, n, <<>>, g)
  BY <1>3, <1>4, <1>5 DEF Block
<1>7. OfLen(<<>>, g[n + 1])
  BY <1>1, <1>3 DEF OfLen
<1>8. IsMade(<<>>, <<>>)
  BY <1>1, <1>6, <1>7 DEF Made, IsMade
<1>9. QED
  BY <1>8 DEF Init, IInv, Compressing

(* A match more.                                                           *)
LEMMA CodeKeeps ==
  ASSUME Compressing, NEW m \in DOMAIN Menu, NEW pair \in Menu[m], NEW shortForm \in BOOLEAN,
         Code(pair, shortForm)
  PROVE  Compressing'
<1>1. PICK lit \in Nat, len \in Nat, off \in Nat :
        lit = pair.lit /\ len = pair.len /\ off = pair.off
  <2>1. pair \in [lit : Nat, len : Nat, off : Nat]
    BY CodecAssumption
  <2>2. QED
    BY <2>1
<1>2. PICK n \in Nat : \E g : Made(script, n, code, g)
  BY DEF Compressing, IsMade
<1>3. PICK g : Made(script, n, code, g)
  BY <1>2
<1>4. PICK e : e = Bytes(script)
  OBVIOUS
<1>5. e = Ends(script, n)
  <2>1. OfPieces(script, n)
    BY <1>3, BlockFacts DEF Made
  <2>2. QED
    BY <1>4, <2>1, BytesEnd
<1>6. /\ Codable(code = <<>>, lit, len, off) /\ off <= e + lit + DictLen
      /\ shortForm \/ (code = <<>> /\ lit >= 4)
      /\ code' = StoreRun(code, lit, shortForm) \o MatchCode(lit, len, off)
      /\ script' = (script \o Literals(e, lit)) \o <<[pos |-> e + lit, len |-> len, off |-> off]>>
      /\ UNCHANGED <<damage, at, ip, op, t, out, result>>
  BY <1>1, <1>4 DEF Code
<1>7. IsMade(script', code')
  BY <1>3, <1>5, <1>6, CodeMakes
<1>8. QED
  BY <1>6, <1>7 DEF Compressing

(* The block is finished and goes its way.                                 *)
LEMMA FinishSends ==
  ASSUME Compressing, NEW lit \in Nat, NEW d \in [cut : Nat, short : Nat], Finish(lit, d)
  PROVE  Decoding'
<1>1. PICK n \in Nat : \E g : Made(script, n, code, g)
  BY DEF Compressing, IsMade
<1>2. PICK g : Made(script, n, code, g)
  BY <1>1
<1>3. PICK e : e = Bytes(script)
  OBVIOUS
<1>4. e = Ends(script, n)
  <2>1. OfPieces(script, n)
    BY <1>2, BlockFacts DEF Made
  <2>2. QED
    BY <1>3, <2>1, BytesEnd
<1>5. /\ code' = StoreRun(code, lit, TRUE) \o EndOfStream
      /\ script' = script \o Literals(e, lit)
      /\ d.cut < Len(code') /\ d.short <= Bytes(script')
      /\ damage' = d /\ at' = "start" /\ UNCHANGED <<ip, op, t, out, result>>
  BY <1>3 DEF Finish
<1>6. IsSent(script', code')
  BY <1>2, <1>4, <1>5, FinishMakes
<1>7. PICK k \in Nat : \E f : Sent(script', k, code', f)
  BY <1>6 DEF IsSent
<1>8. PICK f : Sent(script', k, code', f)
  BY <1>7
<1>9. /\ ip = 0 /\ op = 0 /\ t = 0 /\ out = <<>> /\ result = None
  BY DEF Compressing
<1>10. Len(code') \in Nat /\ Bytes(script') \in Nat
  <2>1. OfLen(code', f[k + 1] + 3) /\ Block(script', k, code', f)
    BY <1>8 DEF Sent
  <2>2. OfPieces(script', k) /\ Ends(script', k) \in Nat
    BY <2>1, BlockFacts
  <2>3. QED
    BY <2>1, <2>2, BytesEnd DEF OfLen
<1>11. PICK j \in 1 .. k + 1 : j = 1 /\ j - 1 = 0
  OBVIOUS
<1>12. Copied(out', script', j - 1) /\ op' = Ends(script', j - 1)
  BY <1>5, <1>9, <1>11 DEF Copied, OfPieces, Ends
<1>13. op' <= Room' /\ ip' \in Nat /\ ip' <= InLen' /\ t' \in 0 .. 3
  <2>1. PICK cut \in Nat, short \in Nat : cut = d.cut /\ short = d.short
    OBVIOUS
  <2>2. Room' = Bytes(script') - short /\ InLen' = Len(code') - cut
    BY <1>5, <2>1 DEF Room, InLen
  <2>3. 0 <= Room' /\ 0 <= InLen'
    <3>1. PICK x \in Nat, y \in Nat : x = Len(code') /\ y = Bytes(script')
      BY <1>10
    <3>2. cut < x /\ short <= y
      BY <1>5, <2>1, <3>1
    <3>3. 0 <= y - short /\ 0 <= x - cut
      BY <3>2
    <3>4. QED
      BY <2>2, <3>1, <3>3
  <2>4. QED
    BY <1>5, <1>9, <2>3
<1>14. StandsAt(script, k, code, f, j)'
  BY <1>5, <1>9, <1>11 DEF StandsAt
<1>15. Stands(script, k, code, f, j)'
  BY <1>5, <1>9, <1>12, <1>13, <1>14 DEF Stands
<1>16. damage' \in [cut : Nat, short : Nat]
  BY <1>5
<1>17. QED
  BY <1>8, <1>15, <1>16 DEF Decoding

(* Every step keeps the invariant.                                         *)
LEMMA Invariance ==
  ASSUME IInv, [Next]_vars
  PROVE  IInv'
<1>1. CASE UNCHANGED vars
  BY <1>1 DEF vars, IInv, Compressing, Decoding, Stands, StandsAt, InLen, Room, Bytes, NeedIp, Refused
<1>2. ASSUME NEW m \in DOMAIN Menu, NEW pair \in Menu[m], NEW shortForm \in BOOLEAN,
             Code(pair, shortForm)
      PROVE  IInv'
  <2>1. Compressing
    <3>1. at = "code"
      BY <1>2 DEF Code
    <3>2. ~Decoding
      BY <3>1 DEF Decoding, Stands, StandsAt
    <3>3. QED
      BY <3>2 DEF IInv
  <2>2. QED
    BY <1>2, <2>1, CodeKeeps DEF IInv
<1>3. ASSUME NEW n \in Tails, NEW d \in Damages, Finish(n, d)
      PROVE  IInv'
  <2>1. Compressing
    <3>1. at = "code"
      BY <1>3 DEF Finish
    <3>2. ~Decoding
      BY <3>1 DEF Decoding, Stands, StandsAt
    <3>3. QED
      BY <3>2 DEF IInv
  <2>2. n \in Nat /\ d \in [cut : Nat, short : Nat]
    BY CodecAssumption
  <2>3. QED
    BY <1>3, <2>1, <2>2, FinishSends DEF IInv
<1>4. CASE Decode
  <2>1. Decoding
    <3>1. ~Compressing
      <4>1. at # "code"
        <5>1. AtMatch => at # "code"
          BY DEF AtMatch
        <5>2. Match4 => AtMatch
          BY DEF Match4, LongLength
        <5>3. QED
          BY <1>4, <5>1, <5>2
             DEF Decode, Start, MatchNext, LoopOverrun, LiteralRun, MatchX, Match1, Match2, Match3
      <4>2. QED
        BY <4>1 DEF Compressing
    <3>2. QED
      BY <3>1 DEF IInv
  <2>2. QED
    BY <1>4, <2>1, DecodeStep DEF IInv
<1>5. CASE Stop
  BY <1>1, <1>5 DEF Stop
<1>6. QED
  BY <1>1, <1>2, <1>3, <1>4, <1>5 DEF Next

(* The invariant holds in every state, for every menu, tail and damage,    *)
(* and with a dictionary of any length.                                    *)
THEOREM CodecInvariant == Spec => []IInv
<1>1. Init => IInv
  BY InitMakes
<1>2. IInv /\ [Next]_vars => IInv'
  BY Invariance
<1>3. QED
  BY <1>1, <1>2, PTL DEF Spec

-----------------------------------------------------------------------------
(* A block is of bytes and literals.                                       *)
LEMMA CodeTyped ==
  ASSUME IInv
  PROVE  Range(code) \subseteq {Lit} \union 0 .. 255
<1>1. PICK q \in Nat : OfLen(code, q) /\ \A k \in 1 .. q : code[k] \in -1 .. 255
  <2>1. CASE Compressing
    <3>1. PICK n \in Nat : \E g : Made(script, n, code, g)
      BY <2>1 DEF Compressing, IsMade
    <3>2. PICK g : Made(script, n, code, g)
      BY <3>1
    <3>3. Block(script, n, code, g) /\ OfLen(code, g[n + 1])
      BY <3>2 DEF Made
    <3>4. CodeBytes(code, g[n + 1]) /\ g[n + 1] \in Nat
      BY <3>3, BlockFacts
    <3>5. QED
      BY <3>3, <3>4 DEF CodeBytes
  <2>2. CASE Decoding
    <3>1. PICK n \in Nat : \E g : Sent(script, n, code, g)
      BY <2>2 DEF Decoding
    <3>2. PICK g : Sent(script, n, code, g)
      BY <3>1
    <3>3. Block(script, n, code, g) /\ OfLen(code, g[n + 1] + 3)
      BY <3>2 DEF Sent
    <3>4. PICK p \in Nat : p = g[n + 1] /\ CodeBytes(code, p)
      BY <3>3, BlockFacts
    <3>5. \A k \in 1 .. p : code[k] \in -1 .. 255
      BY <3>4 DEF CodeBytes
    <3>6. code[p + 1] = 17 /\ code[p + 2] = 0 /\ code[p + 3] = 0
      BY <3>2, <3>4 DEF Sent
    <3>7. \A k \in 1 .. p + 3 : code[k] \in -1 .. 255
      <4>1. \A k \in 1 .. p + 3 : k \in 1 .. p \/ k = p + 1 \/ k = p + 2 \/ k = p + 3
        OBVIOUS
      <4>2. 17 \in -1 .. 255 /\ 0 \in -1 .. 255
        OBVIOUS
      <4>3. QED
        BY <3>5, <3>6, <4>1, <4>2
    <3>8. p + 3 \in Nat /\ OfLen(code, p + 3)
      BY <3>3, <3>4
    <3>9. QED
      BY <3>7, <3>8
  <2>3. QED
    BY <2>1, <2>2 DEF IInv
<1>2. DOMAIN code = 1 .. q
  BY <1>1 DEF OfLen
<1>3. \A x \in -1 .. 255 : x \in {Lit} \union 0 .. 255
  BY DEF Lit
<1>4. \A k \in DOMAIN code : code[k] \in {Lit} \union 0 .. 255
  BY <1>1, <1>2, <1>3
<1>5. QED
  BY <1>4, Zenon DEF Range

(* What a state of the decoder is, for some n, g, j.                       *)
LEMMA DecodingHere ==
  ASSUME Decoding
  PROVE  \E n \in Nat : \E g, j : Here(script, n, code, g, j)
BY DEF Decoding, Here

(* The invariant says the types.                                           *)
LEMMA TypeOKHolds ==
  ASSUME IInv
  PROVE  TypeOK
<1>1. Range(code) \subseteq {Lit} \union 0 .. 255
  BY CodeTyped
<1>2. CASE Compressing
  BY <1>1, <1>2 DEF Compressing, TypeOK
<1>3. CASE Decoding
  <2>1. PICK n \in Nat : \E g, j : Here(script, n, code, g, j)
    BY <1>3, DecodingHere
  <2>2. PICK g, j : Here(script, n, code, g, j)
    BY <2>1
  <2>3. StandsAt(script, n, code, g, j) /\ t \in 0 .. 3 /\ (at # "done" => result = None)
    BY <2>2 DEF Here, Stands
  <2>4. at \in {"start", "loop", "first_literal_run", "match", "match_next", "done"}
    BY <2>3 DEF StandsAt
  <2>5. at = "done" => result \in {"OK", "INPUT_OVERRUN", "OUTPUT_OVERRUN"}
    BY <2>3 DEF StandsAt, Refused
  <2>6. at \in {"start", "loop", "first_literal_run", "match"} => Byte(1) # Lit
    <3> SUFFICES ASSUME at \in {"start", "loop", "first_literal_run", "match"}
                 PROVE  Byte(1) # Lit
      OBVIOUS
    <3>1. Byte(1) \in 0 .. 255
      BY <2>2, OpcodeHere
    <3>2. QED
      BY <3>1 DEF Lit
  <2>7. QED
    BY <1>1, <2>3, <2>4, <2>5, <2>6 DEF TypeOK
<1>4. QED
  BY <1>2, <1>3 DEF IInv

(* What is copied piece by piece is a beginning.                           *)
LEMMA CopiedIsPrefix ==
  ASSUME NEW n \in Nat, NEW s, OfPieces(s, n), NEW j \in 0 .. n, NEW o, Copied(o, s, j)
  PROVE  IsPrefix(o, s) /\ (j = n => o = s)
<1>1. o \in Seq(Pieces) /\ Len(o) = j /\ s \in Seq(Pieces) /\ Len(s) = n
  BY DEF Copied, OfPieces
<1>2. \A k \in 1 .. j : o[k] = s[k]
  BY DEF Copied
<1>3. j = n => o = s
  BY <1>1, <1>2
<1>4. SubSeq(o, 1, Len(o)) = o
  BY <1>1, SubSeqFull
<1>5. PICK p : p = SubSeq(s, 1, j)
  OBVIOUS
<1>6. p = o
  <2>1. 1 \in Int /\ j \in Int /\ \A k \in 1 .. j : s[k] \in Pieces
    BY <1>1, ElementOfSeq
  <2>2. /\ p \in Seq(Pieces)
        /\ Len(p) = IF 1 <= j THEN j - 1 + 1 ELSE 0
        /\ \A k \in 1 .. j - 1 + 1 : p[k] = s[1 + k - 1]
    BY <1>5, <2>1, SubSeqProperties
  <2>3. Len(p) = j /\ \A k \in 1 .. j : p[k] = s[k]
    <3>1. j - 1 + 1 = j /\ (j = 0 \/ 1 <= j) /\ \A k \in 1 .. j : 1 + k - 1 = k
      OBVIOUS
    <3>2. QED
      BY <2>2, <3>1
  <2>4. \A k \in 1 .. Len(o) : o[k] = p[k]
    BY <1>1, <1>2, <2>3
  <2>5. QED
    BY <1>1, <2>2, <2>3, <2>4, SeqEqual
<1>7. Len(o) <= Len(s) /\ SubSeq(s, 1, Len(o)) = o
  BY <1>1, <1>5, <1>6
<1>8. QED
  BY <1>1, <1>3, <1>4, <1>7 DEF IsPrefix

(* The invariant says that the decoder gives back what was compressed.     *)
LEMMA RoundTripHolds ==
  ASSUME IInv
  PROVE  RoundTrip
<1>1. CASE Compressing
  <2>1. PICK n \in Nat : \E g : Made(script, n, code, g)
    BY <1>1 DEF Compressing, IsMade
  <2>2. PICK i \in 0 .. n : OfPieces(script, n) /\ i = 0
    BY <2>1, BlockFacts DEF Made
  <2>3. Copied(out, script, i)
    BY <1>1, <2>2 DEF Compressing, Copied, OfPieces
  <2>4. IsPrefix(out, script)
    BY <2>2, <2>3, CopiedIsPrefix
  <2>5. QED
    BY <1>1, <2>4 DEF Compressing, RoundTrip
<1>2. CASE Decoding
  <2>1. PICK n \in Nat : \E g, j : Here(script, n, code, g, j)
    BY <1>2, DecodingHere
  <2>2. PICK g, j : Here(script, n, code, g, j)
    BY <2>1
  <2>3. /\ StandsAt(script, n, code, g, j) /\ Copied(out, script, j - 1) /\ j \in 1 .. n + 1
        /\ damage \in [cut : Nat, short : Nat]
    BY <2>2 DEF Here, Stands
  <2>4. OfPieces(script, n)
    BY <2>2, HereFacts, BlockFacts
  <2>5. PICK i \in 0 .. n : i = j - 1 /\ (j = n + 1 => i = n)
    BY <2>3
  <2>6. IsPrefix(out, script) /\ (i = n => out = script)
    BY <2>3, <2>4, <2>5, CopiedIsPrefix
  <2>7. at = "done" /\ damage = Whole => result = "OK" /\ j = n + 1
    BY <2>3 DEF StandsAt, Refused, Whole
  <2>8. QED
    BY <2>5, <2>6, <2>7 DEF RoundTrip
<1>3. QED
  BY <1>1, <1>2 DEF IInv

(* The invariant says that damage is refused.                              *)
LEMMA DamageRefusedHolds ==
  ASSUME IInv
  PROVE  DamageRefused
<1>1. CASE Compressing
  BY <1>1 DEF Compressing, DamageRefused
<1>2. CASE Decoding
  <2>1. PICK n \in Nat : \E g, j : Here(script, n, code, g, j)
    BY <1>2, DecodingHere
  <2>2. PICK g, j : Here(script, n, code, g, j)
    BY <2>1
  <2>3. StandsAt(script, n, code, g, j) /\ op <= Room /\ ip <= InLen
    BY <2>2 DEF Here, Stands
  <2>4. at = "done" /\ damage # Whole => Refused
    BY <2>3 DEF StandsAt
  <2>5. QED
    BY <2>3, <2>4 DEF DamageRefused, Refused
<1>3. QED
  BY <1>1, <1>2 DEF IInv

(* Where the decoder expects an opcode there is one, never a literal, and  *)
(* the block is of bytes.                                                  *)
THEOREM CodecTypeCorrect == Spec => []TypeOK
<1>1. IInv => TypeOK
  BY TypeOKHolds
<1>2. QED
  BY CodecInvariant, <1>1, PTL

(* What the decoder of lzo1x_d.ch has written is always a beginning of     *)
(* what was compressed, and of an undamaged block it writes all of it,     *)
(* reads every byte and returns LZO_E_OK.                                  *)
THEOREM CodecRoundTrip == Spec => []RoundTrip
<1>1. IInv => RoundTrip
  BY RoundTripHolds
<1>2. QED
  BY CodecInvariant, <1>1, PTL

(* It never reads or writes outside, and of a block that misses bytes or   *)
(* room it says so.                                                        *)
THEOREM CodecDamageRefused == Spec => []DamageRefused
<1>1. IInv => DamageRefused
  BY DamageRefusedHolds
<1>2. QED
  BY CodecInvariant, <1>1, PTL

-----------------------------------------------------------------------------
(* How long the block becomes.                                             *)
AtMost(b, m) == \E r \in Nat : OfLen(b, r) /\ r <= m

(* A run costs a byte and a sixteenth at most.                             *)
LEMMA RunPriceNat ==
  ASSUME NEW n \in Nat
  PROVE  RunPrice(n) \in Nat /\ RunPrice(n) <= 1 + n \div 16
<1>1. n > 18 => Zeros(n - 18) \in Nat /\ 1 + Zeros(n - 18) <= n \div 16
  BY DEF Zeros
<1>2. n \div 16 \in Nat
  OBVIOUS
<1>3. QED
  BY <1>1, <1>2 DEF RunPrice

(* RunPrice is what the instruction of a run takes.                        *)
LEMMA RunCodeLength ==
  ASSUME NEW n \in Nat, n >= 4
  PROVE  OfLen(RunCode(n), RunPrice(n))
<1>1. CASE n <= 18
  BY <1>1 DEF RunCode, RunPrice, OfLen
<1>2. CASE n > 18
  <2>1. PICK m \in Nat \ {0} : m = n - 18
    BY <1>2
  <2>2. PICK z \in Nat : z = Zeros(m)
    BY ZerosBounds
  <2>3. OfLen(Run(m), z + 1)
    BY <2>2, RunRoundTrip DEF OfLen
  <2>4. OfLen(One(0), 1) /\ 0 \in Int /\ 1 \in Nat /\ z + 1 \in Nat
    BY SmallFacts
  <2>5. OfLen(Cat(One(0), Run(m)), 1 + (z + 1))
    BY <2>3, <2>4, CatFacts
  <2>6. RunCode(n) = Cat(One(0), Run(m))
    BY <1>2, <2>1 DEF RunCode, Cat, One
  <2>7. RunPrice(n) = 1 + (z + 1)
    BY <1>2, <2>1, <2>2 DEF RunPrice
  <2>8. QED
    BY <2>5, <2>6, <2>7
<1>3. QED
  BY <1>1, <1>2

(* Noting a count adds no byte.                                            *)
LEMMA NotedLength ==
  ASSUME NEW q \in Nat, NEW c, OfLen(c, q), NEW n \in Nat
  PROVE  OfLen(Noted(c, n), q)
<1>1. c \in Seq(Int) /\ Len(c) = q
  BY DEF OfLen
<1>2. DOMAIN c = 1 .. q /\ \A k \in 1 .. q : c[k] \in Int
  BY <1>1
<1>3. Noted(c, n) = [k \in 1 .. q |-> IF k = q - 1 THEN c[k] + n ELSE c[k]]
  BY <1>1, <1>2 DEF Noted
<1>4. PICK d : d = Noted(c, n)
  OBVIOUS
<1>5. d \in [1 .. q -> Int]
  BY <1>2, <1>3, <1>4
<1>6. QED
  BY <1>4, <1>5 DEF OfLen

(* The first run may cost a byte more.                                     *)
LEMMA StoredLength ==
  ASSUME NEW q \in Nat, NEW c, OfLen(c, q), NEW n \in Nat, NEW short \in BOOLEAN
  PROVE  AtMost(StoreRun(c, n, short), q + n + RunPrice(n) + (IF c = <<>> THEN 1 ELSE 0))
<1>1. PICK price \in Nat : price = RunPrice(n)
  BY RunPriceNat
<1>2. PICK d : d = StoreRun(c, n, short)
  OBVIOUS
<1>3. PICK m \in Nat : m = q + n + price + (IF c = <<>> THEN 1 ELSE 0)
  OBVIOUS
<1>4. OfLen(Lits(n), n)
  BY LitsFacts
<1>5. CASE n = 0
  <2>1. q <= m
    BY <1>3
  <2>2. d = c /\ q <= m
    BY <1>2, <1>5, <2>1, StoreRunCases
  <2>3. QED
    BY <1>1, <1>2, <1>3, <2>2 DEF AtMost
<1>6. CASE n > 0 /\ c = <<>> /\ n <= 238 /\ short
  <2>1. d = Cat(One(17 + n), Lits(n))
    BY <1>2, <1>6, StoreRunCases
  <2>2. OfLen(One(17 + n), 1) /\ 1 \in Nat
    BY SmallFacts
  <2>3. OfLen(d, 1 + n)
    BY <1>4, <2>1, <2>2, CatFacts
  <2>4. 1 + n \in Nat /\ 1 + n <= m
    BY <1>3, <1>6
  <2>5. QED
    BY <1>1, <1>2, <1>3, <2>3, <2>4 DEF AtMost
<1>7. CASE n > 0 /\ ~(c = <<>> /\ n <= 238 /\ short) /\ n <= 3
  <2>1. d = Cat(Noted(c, n), Lits(n))
    BY <1>2, <1>7, StoreRunCases
  <2>2. OfLen(Noted(c, n), q)
    BY NotedLength
  <2>3. OfLen(d, q + n)
    BY <1>4, <2>1, <2>2, CatFacts
  <2>4. q + n \in Nat /\ q + n <= m
    BY <1>3
  <2>5. QED
    BY <1>1, <1>2, <1>3, <2>3, <2>4 DEF AtMost
<1>8. CASE n > 0 /\ ~(c = <<>> /\ n <= 238 /\ short) /\ n > 3
  <2>1. d = Cat(Cat(c, RunCode(n)), Lits(n))
    BY <1>2, <1>8, StoreRunCases
  <2>2. OfLen(RunCode(n), price)
    BY <1>1, <1>8, RunCodeLength
  <2>3. OfLen(Cat(c, RunCode(n)), q + price)
    BY <2>2, CatFacts
  <2>4. PICK w \in Nat : w = q + price
    OBVIOUS
  <2>5. OfLen(d, w + n)
    BY <1>4, <2>1, <2>3, <2>4, CatFacts
  <2>6. w + n \in Nat /\ w + n <= m
    BY <1>3, <2>4
  <2>7. QED
    BY <1>1, <1>2, <1>3, <2>5, <2>6 DEF AtMost
<1>9. QED
  BY <1>5, <1>6, <1>7, <1>8

(* A match takes its price.                                                *)
LEMMA MatchLength ==
  ASSUME NEW first \in BOOLEAN, NEW lit \in Nat, NEW len \in Nat, NEW off \in Nat,
         Codable(first, lit, len, off)
  PROVE  /\ LenOfCodedMatch(len, off, lit) \in Nat
         /\ OfLen(MatchCode(lit, len, off), LenOfCodedMatch(len, off, lit))
<1>1. Codable(FALSE, lit, len, off)
  BY DEF Codable
<1>2. Coded(MatchCode(lit, len, off), lit, len, off)
  BY <1>1, MatchCoded
<1>3. PICK w \in Nat : OfLen(MatchCode(lit, len, off), w)
  BY <1>2 DEF Coded
<1>4. Len(MatchCode(lit, len, off)) = LenOfCodedMatch(len, off, lit)
  BY PriceIsExact
<1>5. QED
  BY <1>3, <1>4 DEF OfLen

-----------------------------------------------------------------------------
(* A script goes on where it ended.                                        *)
LEMMA RunGrows ==
  ASSUME NEW n \in Nat, NEW s, OfPieces(s, n), NEW e \in Nat, e = Bytes(s), NEW lit \in Nat
  PROVE  /\ \E k \in Nat : OfPieces(s \o Literals(e, lit), k)
         /\ Bytes(s \o Literals(e, lit)) = e + lit
<1>1. CASE lit = 0
  <2>1. s \o Literals(e, lit) = s
    BY <1>1 DEF Literals, OfPieces
  <2>2. OfPieces(s \o Literals(e, lit), n) /\ Bytes(s \o Literals(e, lit)) = e
    BY <2>1
  <2>3. e = e + lit
    BY <1>1
  <2>4. QED
    BY <2>2, <2>3
<1>2. CASE lit > 0
  <2>1. PICK p \in Pieces : p = Piece(e, lit, 0) /\ p.pos = e /\ p.len = lit
    <3>1. 0 \in Nat
      OBVIOUS
    <3>2. /\ Piece(e, lit, 0) \in Pieces
          /\ Piece(e, lit, 0).pos = e /\ Piece(e, lit, 0).len = lit
      BY <3>1, PieceFacts
    <3>3. QED
      BY <3>2
  <2>2. s \o Literals(e, lit) = Plus(s, p)
    BY <1>2, <2>1 DEF Literals, Plus, Piece
  <2>3. OfPieces(Plus(s, p), n + 1) /\ Plus(s, p)[n + 1] = p
    BY PlusFacts
  <2>4. Bytes(Plus(s, p)) = Ends(Plus(s, p), n + 1) /\ n + 1 \in Nat
    BY <2>3, BytesEnd
  <2>5. Ends(Plus(s, p), n + 1) = e + lit
    BY <2>1, <2>3 DEF Ends
  <2>6. QED
    BY <2>2, <2>3, <2>4, <2>5
<1>3. QED
  BY <1>1, <1>2

(* A run and a match.                                                      *)
LEMMA MatchGrows ==
  ASSUME NEW n \in Nat, NEW s, OfPieces(s, n), NEW e \in Nat, e = Bytes(s),
         NEW lit \in Nat, NEW len \in Nat, NEW off \in Nat
  PROVE  Bytes((s \o Literals(e, lit)) \o <<[pos |-> e + lit, len |-> len, off |-> off]>>)
           = e + lit + len
<1>1. PICK r : r = s \o Literals(e, lit)
  OBVIOUS
<1>2. PICK k \in Nat : OfPieces(r, k)
  BY <1>1, RunGrows
<1>3. PICK z \in Nat : z = e + lit
  OBVIOUS
<1>4. PICK p \in Pieces : p = Piece(z, len, off) /\ p.pos = z /\ p.len = len
  BY PieceFacts
<1>5. OfPieces(Plus(r, p), k + 1) /\ Plus(r, p)[k + 1] = p
  BY <1>2, PlusFacts
<1>6. Bytes(Plus(r, p)) = Ends(Plus(r, p), k + 1) /\ k + 1 \in Nat
  BY <1>5, BytesEnd
<1>7. Ends(Plus(r, p), k + 1) = z + len
  BY <1>4, <1>5 DEF Ends
<1>8. Plus(r, p) = r \o <<[pos |-> e + lit, len |-> len, off |-> off]>>
  BY <1>3, <1>4 DEF Plus, Piece
<1>9. QED
  BY <1>1, <1>3, <1>6, <1>7, <1>8

(* What is needed of the block while it is made.                           *)
LEMMA CompressingFacts ==
  ASSUME Compressing
  PROVE  /\ \E n \in Nat : OfPieces(script, n)
         /\ \E q \in Nat : OfLen(code, q) /\ (code = <<>> <=> q = 0)
         /\ Bytes(script) \in Nat
<1>1. PICK n \in Nat : \E g : Made(script, n, code, g)
  BY DEF Compressing, IsMade
<1>2. PICK g : Made(script, n, code, g)
  BY <1>1
<1>3. Block(script, n, code, g) /\ OfLen(code, g[n + 1])
  BY <1>2 DEF Made
<1>4. OfPieces(script, n) /\ Ends(script, n) \in Nat /\ g[n + 1] \in Nat
  BY <1>3, BlockFacts
<1>5. Bytes(script) = Ends(script, n)
  BY <1>4, BytesEnd
<1>6. PICK q \in Nat : q = g[n + 1]
  BY <1>4
<1>7. code = <<>> <=> q = 0
  BY <1>3, <1>6 DEF OfLen
<1>8. QED
  BY <1>3, <1>4, <1>5, <1>6, <1>7

(* What every step of the decoder leaves.                                  *)
Left == UNCHANGED <<script, code>> /\ at' # "code"

(* What every way out of a step leaves.                                    *)
LEMMA Leaving ==
  /\ \A r : Return(r) => Left
  /\ \A h, n, next : CopyLiterals(h, n, next) /\ next # "code" => Left
  /\ \A h, n, off : CopyMatch(h, n, off) => Left
  /\ \A h : End(h) => Left
<1>1. \A r : Return(r) => Left
  BY DEF Return, Left
<1>2. ASSUME NEW h, NEW n, NEW next, CopyLiterals(h, n, next), next # "code" PROVE Left
  BY <1>1, <1>2 DEF CopyLiterals, Left
<1>3. ASSUME NEW h, NEW n, NEW off, CopyMatch(h, n, off) PROVE Left
  BY <1>1, <1>3 DEF CopyMatch, Left
<1>4. \A h : End(h) => Left
  BY DEF End, Left
<1>5. QED
  BY <1>1, <1>2, <1>3, <1>4

(* A step of the decoder leaves the block alone.                           *)
LEMMA DecodeLeaves ==
  ASSUME Decode
  PROVE  Left /\ at # "code"
<1>1. AtMatch => at # "code"
  BY DEF AtMatch
<1>2. CASE Start
  BY <1>2, Leaving DEF Start, Left
<1>3. CASE LoopOverrun
  BY <1>3, Leaving DEF LoopOverrun
<1>4. CASE LiteralRun
  BY <1>4, Leaving DEF LiteralRun, LongLength
<1>5. CASE MatchNext
  BY <1>5, Leaving DEF MatchNext
<1>6. CASE MatchX
  BY <1>6, Leaving DEF MatchX
<1>7. CASE Match1
  BY <1>7, Leaving DEF Match1
<1>8. CASE Match2
  BY <1>1, <1>8, Leaving DEF Match2
<1>9. CASE Match3
  BY <1>1, <1>9, Leaving DEF Match3, LongLength
<1>10. CASE Match4
  BY <1>1, <1>10, Leaving DEF Match4, LongLength
<1>11. QED
  BY <1>2, <1>3, <1>4, <1>5, <1>6, <1>7, <1>8, <1>9, <1>10 DEF Decode

(* Sixteenths of parts are at most those of the whole.                     *)
LEMMA SixteenthsAdd ==
  ASSUME NEW a \in Nat, NEW b \in Nat
  PROVE  /\ a \div 16 \in Nat /\ b \div 16 \in Nat /\ (a + b) \div 16 \in Nat
         /\ a \div 16 + b \div 16 <= (a + b) \div 16
OBVIOUS

(* Every step keeps the bound.                                             *)
LEMMA WorstCaseKept ==
  ASSUME IInv, WorstCase, [Next]_vars
  PROVE  WorstCase'
<1>1. CASE UNCHANGED vars
  BY <1>1 DEF vars, WorstCase, Bytes
<1>2. ASSUME NEW m \in DOMAIN Menu, NEW pair \in Menu[m], NEW shortForm \in BOOLEAN,
             Code(pair, shortForm)
      PROVE  WorstCase'
  <2>1. Compressing /\ at = "code"
    <3>1. at = "code"
      BY <1>2 DEF Code
    <3>2. ~Decoding
      BY <3>1 DEF Decoding, Stands, StandsAt
    <3>3. QED
      BY <3>1, <3>2 DEF IInv
  <2>2. PICK lit \in Nat, len \in Nat, off \in Nat :
          lit = pair.lit /\ len = pair.len /\ off = pair.off
    <3>1. pair \in [lit : Nat, len : Nat, off : Nat]
      BY CodecAssumption
    <3>2. QED
      BY <3>1
  <2>3. PICK n \in Nat : OfPieces(script, n)
    BY <2>1, CompressingFacts
  <2>4. PICK q \in Nat : OfLen(code, q) /\ (code = <<>> <=> q = 0)
    BY <2>1, CompressingFacts
  <2>5. PICK e \in Nat : e = Bytes(script)
    BY <2>1, CompressingFacts
  <2>6. PICK first \in BOOLEAN : first = (code = <<>>)
    OBVIOUS
  <2>7. /\ Codable(first, lit, len, off)
        /\ code' = Cat(StoreRun(code, lit, shortForm), MatchCode(lit, len, off))
        /\ script' = (script \o Literals(e, lit)) \o <<[pos |-> e + lit, len |-> len, off |-> off]>>
        /\ at' = "code"
    BY <1>2, <2>1, <2>2, <2>5, <2>6 DEF Code, Cat
  <2>8. Bytes(script') = e + lit + len
    <3>1. Bytes((script \o Literals(e, lit)) \o <<[pos |-> e + lit, len |-> len, off |-> off]>>)
            = e + lit + len
      BY <2>3, <2>5, MatchGrows
    <3>2. QED
      BY <2>7, <3>1
  <2>9. PICK price \in Nat : price = LenOfCodedMatch(len, off, lit) /\ OfLen(MatchCode(lit, len, off), price)
    BY <2>7, MatchLength
  <2>10. PICK run \in Nat : run = RunPrice(lit)
    BY RunPriceNat
  <2>11. run + price <= len + (lit + len) \div 16
    BY <2>7, <2>9, <2>10, PairPays
  <2>12. PICK r \in Nat : OfLen(StoreRun(code, lit, shortForm), r)
                          /\ r <= q + lit + run + (IF code = <<>> THEN 1 ELSE 0)
    <3>1. AtMost(StoreRun(code, lit, shortForm), q + lit + RunPrice(lit) + (IF code = <<>> THEN 1 ELSE 0))
      BY <2>4, StoredLength
    <3>2. QED
      BY <2>10, <3>1 DEF AtMost
  <2>13. Len(code') = r + price
    <3>1. OfLen(code', r + price)
      BY <2>7, <2>9, <2>12, CatFacts
    <3>2. QED
      BY <3>1 DEF OfLen
  <2>14. q <= e + e \div 16 + 1 /\ (code = <<>> => q = 0)
    BY <2>1, <2>4, <2>5 DEF WorstCase, OfLen
  <2>15. r + price <= (e + lit + len) + (e + lit + len) \div 16 + 1
    <3>1. PICK x \in Nat, y \in Nat, z \in Nat :
            /\ x = e \div 16 /\ y = (lit + len) \div 16 /\ z = (e + lit + len) \div 16
            /\ x + y <= z
      <4>1. PICK both \in Nat : both = lit + len /\ e + lit + len = e + both
        OBVIOUS
      <4>2. QED
        BY <4>1, SixteenthsAdd
    <3>2. run + price <= len + y /\ q <= e + x + 1
      BY <2>11, <2>14, <3>1
    <3>3. CASE code = <<>>
      <4>1. r <= 0 + lit + run + 1
        BY <2>12, <2>14, <3>3
      <4>2. r + price <= (e + lit + len) + z + 1
        BY <3>1, <3>2, <4>1
      <4>3. QED
        BY <3>1, <4>2
    <3>4. CASE code # <<>>
      <4>1. r <= q + lit + run
        BY <2>12, <3>4
      <4>2. r + price <= (e + lit + len) + z + 1
        BY <3>1, <3>2, <4>1
      <4>3. QED
        BY <3>1, <4>2
    <3>5. QED
      BY <3>3, <3>4
  <2>16. QED
    BY <2>7, <2>8, <2>13, <2>15 DEF WorstCase
<1>3. ASSUME NEW lit \in Tails, NEW d \in Damages, Finish(lit, d)
      PROVE  WorstCase'
  <2>1. Compressing /\ at = "code"
    <3>1. at = "code"
      BY <1>3 DEF Finish
    <3>2. ~Decoding
      BY <3>1 DEF Decoding, Stands, StandsAt
    <3>3. QED
      BY <3>1, <3>2 DEF IInv
  <2>2. lit \in Nat /\ 0 \in Nat
    BY CodecAssumption
  <2>3. PICK n \in Nat : OfPieces(script, n)
    BY <2>1, CompressingFacts
  <2>4. PICK q \in Nat : OfLen(code, q) /\ (code = <<>> <=> q = 0)
    BY <2>1, CompressingFacts
  <2>5. PICK e \in Nat : e = Bytes(script)
    BY <2>1, CompressingFacts
  <2>6. /\ code' = Cat(StoreRun(code, lit, TRUE), EndOfStream)
        /\ script' = script \o Literals(e, lit) /\ at' = "start"
    BY <1>3, <2>5 DEF Finish, Cat
  <2>7. Bytes(script') = e + lit
    <3>1. Bytes(script \o Literals(e, lit)) = e + lit
      BY <2>2, <2>3, <2>5, RunGrows
    <3>2. QED
      BY <2>6, <3>1
  <2>8. PICK run \in Nat : run = RunPrice(lit) /\ run <= 1 + lit \div 16
    BY <2>2, RunPriceNat
  <2>9. PICK r \in Nat : OfLen(StoreRun(code, lit, TRUE), r)
                         /\ r <= q + lit + run + (IF code = <<>> THEN 1 ELSE 0)
    <3>1. AtMost(StoreRun(code, lit, TRUE), q + lit + RunPrice(lit) + (IF code = <<>> THEN 1 ELSE 0))
      <4>1. TRUE \in BOOLEAN
        OBVIOUS
      <4>2. QED
        BY <2>2, <2>4, <4>1, StoredLength
    <3>2. QED
      BY <2>8, <3>1 DEF AtMost
  <2>10. Len(code') = r + 3
    <3>1. OfLen(code', r + 3)
      <4>1. 3 \in Nat /\ OfLen(EndOfStream, 3)
        BY EndFacts
      <4>2. QED
        BY <2>6, <2>9, <4>1, CatFacts
    <3>2. QED
      BY <3>1 DEF OfLen
  <2>11. q <= e + e \div 16 + 1 /\ (code = <<>> => q = 0)
    BY <2>1, <2>4, <2>5 DEF WorstCase, OfLen
  <2>12. r + 3 <= (e + lit) + (e + lit) \div 16 + 5
    <3>1. e \div 16 + lit \div 16 <= (e + lit) \div 16 /\ e \div 16 \in Nat
      BY <2>2, SixteenthsAdd
    <3>2. CASE code = <<>>
      BY <2>2, <2>8, <2>9, <2>11, <3>1, <3>2
    <3>3. CASE code # <<>>
      BY <2>2, <2>8, <2>9, <2>11, <3>1, <3>3
    <3>4. QED
      BY <3>2, <3>3
  <2>13. QED
    BY <2>6, <2>7, <2>10, <2>12 DEF WorstCase
<1>4. CASE Decode
  <2>1. UNCHANGED <<script, code>> /\ at # "code" /\ at' # "code"
    BY <1>4, DecodeLeaves DEF Left
  <2>2. QED
    BY <2>1 DEF WorstCase, Bytes
<1>5. CASE Stop
  BY <1>1, <1>5 DEF Stop
<1>6. QED
  BY <1>1, <1>2, <1>3, <1>4, <1>5 DEF Next

(* The block is never longer than the input, a sixteenth of it and five    *)
(* bytes: the buffers of lzo_frag.c and of the GPU programs hold it with   *)
(* 62 to spare.                                                            *)
THEOREM CodecWorstCase == Spec => []WorstCase
<1>1. Init => WorstCase
  BY DEF Init, WorstCase, Bytes
<1>2. IInv /\ WorstCase /\ [Next]_vars => WorstCase'
  BY WorstCaseKept
<1>3. QED
  BY CodecInvariant, <1>1, <1>2, PTL DEF Spec


-----------------------------------------------------------------------------
(* The optimizer: litp and joins name the last run.  places is where      *)
(* the instructions of the block begin; what is not read yet is as it was, *)
(* so that each instruction is whole and the next begins at a place.       *)

(* A set of naturals that is not empty has a least element.                *)
LEMMA LeastNatural ==
  ASSUME NEW T \in SUBSET Nat, T # {}
  PROVE  \E n \in T : \A m \in T : n <= m
<1> DEFINE R == OpToRel(<, Nat)
<1>1. IsWellFoundedOn(R, Nat)
  BY NatLessThanWellFounded
<1>2. \A x, y \in Nat : <<y, x>> \in R <=> y < x
  BY DEF OpToRel
<1>3. \E x \in T : \A y \in T : ~ (<<y, x>> \in R)
  <2> HIDE DEF R
  <2>1. QED
    BY <1>1, WFMin
<1>4. PICK x \in T : \A y \in T : ~ (<<y, x>> \in R)
  BY <1>3
<1>5. ASSUME NEW y \in T
      PROVE  x <= y
  <2>1. ~(y < x) /\ x \in Nat /\ y \in Nat
    BY <1>2, <1>4
  <2>2. QED
    BY <2>1
<1>6. QED
  BY <1>5

(* Blocks that are rewritten keep their size.                              *)
Sized(c, n) == c = [k \in 1 .. n |-> c[k]] /\ Len(c) = n

LEMMA SizedFunction ==
  ASSUME NEW n \in Nat, NEW c, c = [k \in 1 .. n |-> c[k]]
  PROVE  Sized(c, n)
<1> DEFINE S == {c[k] : k \in 1 .. n}
<1>1. c \in [1 .. n -> S]
  OBVIOUS
<1>2. c \in Seq(S)
  <2> HIDE DEF S
  <2>1. QED
    BY <1>1, SeqDef
<1>3. Len(c) \in Nat /\ DOMAIN c = 1 .. Len(c)
  <2> HIDE DEF S
  <2>1. QED
    BY <1>2, LenProperties
<1>4. DOMAIN c = 1 .. n
  OBVIOUS
<1>5. 1 .. Len(c) = 1 .. n
  BY <1>3, <1>4
<1>6. Len(c) = n
  <2>1. PICK l \in Nat : l = Len(c)
    BY <1>3
  <2>2. 1 .. l = 1 .. n
    BY <1>5, <2>1
  <2>3. ~(l > n) /\ ~(l < n)
    BY <2>2
  <2>4. QED
    BY <2>1, <2>3
<1>7. QED
  BY <1>6 DEF Sized

LEMMA SizedExcept ==
  ASSUME NEW n \in Nat, NEW c, Sized(c, n), NEW i \in 1 .. n, NEW e
  PROVE  /\ Sized([c EXCEPT ![i] = e], n)
         /\ [c EXCEPT ![i] = e][i] = e
         /\ \A k \in 1 .. n : k # i => [c EXCEPT ![i] = e][k] = c[k]
<1> DEFINE d == [c EXCEPT ![i] = e]
<1>1. c = [k \in 1 .. n |-> c[k]]
  BY DEF Sized
<1>2. d = [k \in 1 .. n |-> d[k]] /\ d[i] = e /\ \A k \in 1 .. n : k # i => d[k] = c[k]
  BY <1>1
<1>3. Sized(d, n)
  <2> HIDE DEF d
  <2>1. QED
    BY <1>2, SizedFunction
<1>4. QED
  BY <1>2, <1>3

LEMMA SizedPut ==
  ASSUME NEW n \in Nat, NEW c, Sized(c, n), NEW p \in Int, NEW s, Len(s) \in Nat
  PROVE  /\ Sized(Opt!Put(c, p, s), n)
         /\ \A k \in 1 .. n : k < p \/ k >= p + Len(s) => Opt!Put(c, p, s)[k] = c[k]
<1> DEFINE d == Opt!Put(c, p, s)
<1>1. d = [k \in 1 .. n |-> IF k \in p .. p + Len(s) - 1 THEN s[k - p + 1] ELSE c[k]]
  BY DEF Sized, Opt!Put
<1>2. d = [k \in 1 .. n |-> d[k]]
  BY <1>1
<1>3. \A k \in 1 .. n : k < p \/ k >= p + Len(s) => d[k] = c[k]
  BY <1>1
<1>4. Sized(d, n)
  <2> HIDE DEF d
  <2>1. QED
    BY <1>2, SizedFunction
<1>5. QED
  BY <1>3, <1>4

LEMMA CopySize ==
  ASSUME NEW len \in Nat, NEW off
  PROVE  Len(Opt!Copy(off, len)) = len
<1> DEFINE d == Opt!Copy(off, len)
<1>1. d = [k \in 1 .. len |-> d[k]]
  BY DEF Opt!Copy
<1>2. Sized(d, len)
  <2> HIDE DEF d
  <2>1. QED
    BY <1>1, SizedFunction
<1>3. QED
  BY <1>2 DEF Sized

LEMMA LiteralsSize ==
  ASSUME NEW c, NEW p \in Nat, NEW n \in Nat
  PROVE  Len(Opt!Literals(c, p, n)) = n
<1> DEFINE S == {c[k] : k \in p .. p + n - 1}
<1>1. \A k \in p .. p + n - 1 : c[k] \in S
  OBVIOUS
<1>2. Len(SubSeq(c, p, p + n - 1)) = IF p <= p + n - 1 THEN (p + n - 1) - p + 1 ELSE 0
  <2> HIDE DEF S
  <2>1. p \in Int /\ p + n - 1 \in Int
    OBVIOUS
  <2>2. QED
    BY <1>1, <2>1, SubSeqProperties
<1>3. QED
  BY <1>2 DEF Opt!Literals

(* What is read from c is what is read from b.                             *)
Same(c, b, p) == Len(c) = Len(b) /\ \A k \in p .. Len(b) : c[k] = b[k]

(* The first byte that is not zero, and that it is the one Length takes.   *)
FirstAt(c, p, last) ==
  /\ last \in p + 1 .. Len(c) /\ c[last] # 0
  /\ \A j \in p + 1 .. last - 1 : c[j] = 0

LEMMA FirstExists ==
  ASSUME NEW c, NEW p \in Nat, Len(c) \in Nat, Opt!Ends(c, p)
  PROVE  \E last \in Nat : FirstAt(c, p, last)
<1> DEFINE T == {k \in p + 1 .. Len(c) : c[k] # 0}
<1>1. T \in SUBSET Nat /\ T # {}
  BY DEF Opt!Ends
<1>2. PICK last \in T : \A m \in T : last <= m
  <2> HIDE DEF T
  <2>1. QED
    BY <1>1, LeastNatural
<1>3. last \in Nat /\ last \in p + 1 .. Len(c) /\ c[last] # 0
  OBVIOUS
<1>4. ASSUME NEW j \in p + 1 .. last - 1
      PROVE  c[j] = 0
  <2>1. j \in p + 1 .. Len(c) /\ ~(last <= j)
    BY <1>3
  <2>2. j \notin T
    BY <1>2, <2>1
  <2>3. QED
    BY <2>1, <2>2
<1>5. QED
  BY <1>3, <1>4 DEF FirstAt

LEMMA FirstIsChosen ==
  ASSUME NEW c, NEW p \in Nat, NEW last \in Nat, Len(c) \in Nat, FirstAt(c, p, last)
  PROVE  last = CHOOSE k \in p + 1 .. Len(c) : c[k] # 0 /\ \A j \in p + 1 .. k - 1 : c[j] = 0
<1>1. ASSUME NEW k \in p + 1 .. Len(c), c[k] # 0, \A j \in p + 1 .. k - 1 : c[j] = 0
      PROVE  k = last
  <2>1. ~(k < last)
    BY <1>1 DEF FirstAt
  <2>2. ~(last < k)
    BY <1>1 DEF FirstAt
  <2>3. QED
    BY <2>1, <2>2
<1>2. /\ last \in p + 1 .. Len(c) /\ c[last] # 0
      /\ \A j \in p + 1 .. last - 1 : c[j] = 0
  BY DEF FirstAt
<1>3. QED
  BY <1>1, <1>2

ReadsLong(c, p, last, base, plus) ==
  Opt!Length(c, p, base, plus) =
    [h |-> last - p + 1, len |-> 255 * (last - p - 1) + plus + c[last]]

LEMMA LengthRead ==
  ASSUME NEW c, NEW p \in Nat, NEW last \in Nat, Len(c) \in Nat, FirstAt(c, p, last),
         NEW base \in Int, base <= 0, NEW plus
  PROVE  ReadsLong(c, p, last, base, plus)
<1>1. ~(base > 0)
  OBVIOUS
<1>2. last = CHOOSE k \in p + 1 .. Len(c) : c[k] # 0 /\ \A j \in p + 1 .. k - 1 : c[j] = 0
  BY FirstIsChosen
<1>3. QED
  BY <1>1, <1>2, Zenon DEF Opt!Length, ReadsLong

(* The length l with h bytes is read from both.                            *)
ReadFromBoth(c, b, p, base, plus, h, l) ==
  /\ Opt!Length(c, p, base, plus) = [h |-> h, len |-> l]
  /\ Opt!Length(b, p, base, plus) = [h |-> h, len |-> l]
  /\ base > 0 => h = 1 /\ l = base
  /\ base = 0 => h >= 2 /\ l > plus
  /\ p + h <= Len(b) + 1

(* A length of bytes that have not changed; if it is not in the opcode it  *)
(* is more than plus and takes a byte more at least.                       *)
LEMMA LengthSame ==
  ASSUME NEW c, NEW b \in Seq(Nat), NEW p \in 1 .. Len(b), Same(c, b, p),
         NEW base \in Nat, NEW plus \in Nat, base > 0 \/ Opt!Ends(b, p)
  PROVE  \E h \in Nat, l \in Nat : ReadFromBoth(c, b, p, base, plus, h, l)
<1>1. Len(b) \in Nat /\ Len(c) = Len(b) /\ \A k \in p .. Len(b) : c[k] = b[k]
  BY LenProperties DEF Same
<1>2. CASE base > 0
  <2>1. /\ Opt!Length(c, p, base, plus) = [h |-> 1, len |-> base]
        /\ Opt!Length(b, p, base, plus) = [h |-> 1, len |-> base]
    BY <1>2 DEF Opt!Length
  <2>2. 1 \in Nat /\ p + 1 <= Len(b) + 1
    BY <1>1
  <2>3. ReadFromBoth(c, b, p, base, plus, 1, base)
    BY <1>2, <2>1, <2>2 DEF ReadFromBoth
  <2>4. QED
    BY <2>2, <2>3
<1>3. CASE base = 0
  <2>0. p \in Nat /\ base \in Int /\ base <= 0 /\ Len(b) \in Nat /\ Len(c) \in Nat
    BY <1>1, <1>3
  <2>1. PICK last \in Nat : FirstAt(b, p, last)
    BY <1>1, <1>3, FirstExists
  <2>2. last \in p + 1 .. Len(b) /\ b[last] # 0 /\ c[last] = b[last]
    BY <1>1, <2>1 DEF FirstAt
  <2>3. FirstAt(c, p, last)
    BY <1>1, <2>1, <2>2 DEF FirstAt
  <2>4. PICK v \in Nat : v = b[last]
    BY <2>2, ElementOfSeq
  <2>5. PICK h \in Nat, len \in Nat :
          h = last - p + 1 /\ len = 255 * (last - p - 1) + plus + v
    <3>1. p \in Nat /\ last >= p + 1
      BY <1>1, <2>2
    <3>2. last - p + 1 \in Nat /\ 255 * (last - p - 1) + plus + v \in Nat
      BY <3>1
    <3>3. QED
      BY <3>2, Zenon
  <2>6. ReadsLong(b, p, last, base, plus)
    BY <2>0, <2>1, LengthRead
  <2>7. ReadsLong(c, p, last, base, plus)
    BY <2>0, <2>3, LengthRead
  <2>8. /\ Opt!Length(b, p, base, plus) = [h |-> h, len |-> len]
        /\ Opt!Length(c, p, base, plus) = [h |-> h, len |-> len]
    BY <2>2, <2>4, <2>5, <2>6, <2>7, Zenon DEF ReadsLong
  <2>9. h >= 2 /\ len > plus /\ p + h <= Len(b) + 1
    <3>1. v # 0 /\ p \in Nat /\ last >= p + 1 /\ last <= Len(b)
      BY <1>1, <2>2, <2>4
    <3>2. QED
      BY <1>1, <2>5, <3>1
  <2>10. ReadFromBoth(c, b, p, base, plus, h, len)
    BY <1>3, <2>8, <2>9 DEF ReadFromBoth
  <2>11. QED
    BY <2>10
<1>4. QED
  BY <1>2, <1>3

(* A run of literals: four at least, and those told by the opcode alone    *)
(* are eighteen at most.                                                   *)
LEMMA RunSame ==
  ASSUME NEW c, NEW b \in Seq(Nat), NEW p \in 1 .. Len(b), Same(c, b, p),
         b[p] < 16, Opt!Ends(b, p)
  PROVE  \E h \in Nat, len \in Nat :
           /\ Opt!RunAt(c, p) = [h |-> h, len |-> len]
           /\ Opt!RunAt(b, p) = [h |-> h, len |-> len]
           /\ b[p] > 0 => h = 1 /\ len = b[p] + 3
           /\ b[p] = 0 => h >= 2 /\ len > 18
<1>1. c[p] = b[p] /\ b[p] \in Nat
  BY ElementOfSeq DEF Same
<1>2. \E h \in Nat, l \in Nat : ReadFromBoth(c, b, p, b[p], 15, h, l)
  BY <1>1, LengthSame
<1>3. PICK h \in Nat, l \in Nat : ReadFromBoth(c, b, p, b[p], 15, h, l)
  BY <1>2
<1>4. /\ Opt!Length(c, p, c[p], 15) = [h |-> h, len |-> l]
      /\ Opt!Length(b, p, b[p], 15) = [h |-> h, len |-> l]
      /\ b[p] > 0 => h = 1 /\ l = b[p]
      /\ b[p] = 0 => h >= 2 /\ l > 15
  BY <1>1, <1>3 DEF ReadFromBoth
<1>5. [[h |-> h, len |-> l] EXCEPT !.len = @ + 3] = [h |-> h, len |-> l + 3]
  OBVIOUS
<1>6. Opt!RunAt(c, p) = [h |-> h, len |-> l + 3] /\ Opt!RunAt(b, p) = [h |-> h, len |-> l + 3]
  BY <1>4, <1>5 DEF Opt!RunAt
<1>7. PICK len \in Nat : len = l + 3
  OBVIOUS
<1>8. QED
  BY <1>1, <1>4, <1>6, <1>7

(* A match that has not changed: its h bytes are in the block, and its     *)
(* length tells how many they are.                                         *)
MatchOfBoth(c, b, p, before, h) ==
  /\ Opt!MatchAt(c, p, before) = Opt!MatchAt(b, p, before)
  /\ Opt!MatchAt(b, p, before).h = h /\ h >= 2
  /\ b[p] \notin 16 .. 63 => h = 2
  /\ b[p] \in 16 .. 63 /\ Opt!MatchAt(b, p, before).len = 3 => h = 3

LEMMA WholeEnds ==
  ASSUME NEW b \in Seq(Nat), NEW places, NEW p \in 1 .. Len(b), NEW before,
         Opt!WholeMatch(b, places, p, before)
  PROVE  /\ p + Opt!MatchAt(b, p, before).h <= Len(b) + 1
         /\ Opt!Ends(b, p) \/ b[p] = 17
<1> DEFINE m == Opt!MatchAt(b, p, before)
           q == p + m.h
<1>1. Len(b) \in Nat
  BY LenProperties
<1>2. CASE m.off = 0
  <2>1. b[p] = 17 /\ q = Len(b) + 1
    BY <1>2 DEF Opt!WholeMatch, Opt!M4Marker
  <2>2. QED
    BY <1>1, <2>1
<1>3. CASE m.off # 0
  <2>1. q <= Len(b) /\ Opt!Ends(b, p)
    BY <1>3 DEF Opt!WholeMatch
  <2>2. PICK x : x = q
    OBVIOUS
  <2>3. QED
    BY <1>1, <2>1, <2>2
<1>4. QED
  BY <1>2, <1>3

(* An M3 or M4 from its opcode w, its length l with h bytes, and the two   *)
(* bytes of the distance.                                                  *)
FarBase(w) == IF w >= 32 THEN w % 32 ELSE w % 8
FarPlus(w) == IF w >= 32 THEN 31 ELSE 7

FarAs(w, h, l, x, y) ==
  LET d == Opt!FarDistance(x, y) + IF w < 32 THEN 16384 * ((w \div 8) % 2) ELSE 0
  IN [h |-> h + 2, len |-> l + 2,
      off |-> IF w >= 32 THEN 1 + d ELSE IF d = 0 THEN 0 ELSE 16384 + d]

LEMMA FarForm ==
  ASSUME NEW c, NEW p, NEW w, w = c[p], NEW h, NEW l,
         Opt!Length(c, p, FarBase(w), FarPlus(w)) = [h |-> h, len |-> l]
  PROVE  Opt!Far(c, p) = FarAs(w, h, l, c[p + h], c[p + h + 1])
<1> DEFINE r == IF c[p] >= 32 THEN Opt!Length(c, p, c[p] % 32, 31)
                ELSE Opt!Length(c, p, c[p] % 8, 7)
<1>1. r = [h |-> h, len |-> l]
  <2>1. CASE w >= 32
    BY <2>1 DEF FarBase, FarPlus
  <2>2. CASE ~(w >= 32)
    BY <2>2 DEF FarBase, FarPlus
  <2>3. QED
    BY <2>1, <2>2
<1>2. r.h = h /\ r.len = l
  <2> HIDE DEF r
  <2>1. QED
    BY <1>1
<1>3. Opt!Far(c, p) = FarAs(c[p], r.h, r.len, c[p + r.h], c[p + r.h + 1])
  BY DEF Opt!Far, FarAs
<1>4. QED
  <2> HIDE DEF r
  <2>1. QED
    BY <1>2, <1>3

(* Which form is read.                                                     *)
LEMMA FormFar ==
  ASSUME NEW c, NEW p, NEW before, c[p] \in 16 .. 63
  PROVE  Opt!MatchAt(c, p, before) = Opt!Far(c, p)
<1>1. c[p] \in 16 .. 63 /\ ~(c[p] >= 64) /\ ~(c[p] < 16)
  OBVIOUS
<1>2. QED
  BY <1>1, Zenon DEF Opt!MatchAt

LEMMA FormM2 ==
  ASSUME NEW c, NEW p, NEW before, c[p] \in Nat, c[p] >= 64
  PROVE  Opt!MatchAt(c, p, before) =
           [h |-> 2, len |-> Opt!M2Length(c[p]), off |-> Opt!M2Distance(c[p], c[p + 1])]
<1>1. c[p] >= 64 /\ c[p] \notin 16 .. 63 /\ ~(c[p] < 16)
  OBVIOUS
<1>2. QED
  BY <1>1, Zenon DEF Opt!MatchAt

LEMMA FormNear ==
  ASSUME NEW c, NEW p, NEW before, c[p] \in Nat, c[p] < 16
  PROVE  Opt!MatchAt(c, p, before) =
           IF before = "run" THEN Opt!Near(c, p, 3, Opt!M2Max) ELSE Opt!Near(c, p, 2, 0)
<1>1. c[p] < 16 /\ c[p] \notin 16 .. 63 /\ ~(c[p] >= 64)
  OBVIOUS
<1>2. CASE before = "run"
  BY <1>1, <1>2, Zenon DEF Opt!MatchAt
<1>3. CASE before # "run"
  BY <1>1, <1>3, Zenon DEF Opt!MatchAt
<1>4. QED
  BY <1>2, <1>3

LEMMA FarSame ==
  ASSUME NEW c, NEW b \in Seq(Nat), NEW p \in 1 .. Len(b), Same(c, b, p),
         b[p] \in 16 .. 63, Opt!Ends(b, p) \/ b[p] = 17,
         p + Opt!Far(b, p).h <= Len(b) + 1
  PROVE  /\ Opt!Far(c, p) = Opt!Far(b, p)
         /\ Opt!Far(b, p).h \in Nat /\ Opt!Far(b, p).h >= 3
         /\ Opt!Far(b, p).len = 3 => Opt!Far(b, p).h = 3
<1>1. Len(b) \in Nat /\ Len(c) = Len(b) /\ \A k \in p .. Len(b) : c[k] = b[k]
  BY LenProperties DEF Same
<1>2. PICK w \in 16 .. 63 : w = b[p] /\ w = c[p]
  <2>1. p \in p .. Len(b)
    BY <1>1
  <2>2. QED
    BY <1>1, <2>1
<1>3. FarBase(w) \in Nat /\ FarPlus(w) \in Nat /\ FarPlus(w) > 1
  <2>1. CASE w >= 32
    BY <2>1 DEF FarBase, FarPlus
  <2>2. CASE ~(w >= 32)
    BY <2>2 DEF FarBase, FarPlus
  <2>3. QED
    BY <2>1, <2>2
<1>4. FarBase(w) > 0 \/ Opt!Ends(b, p)
  <2>1. w = 17 => FarBase(w) = 1
    BY DEF FarBase
  <2>2. QED
    BY <1>2, <2>1
<1>5. PICK h \in Nat, l \in Nat : ReadFromBoth(c, b, p, FarBase(w), FarPlus(w), h, l)
  <2>1. \E h \in Nat, l \in Nat : ReadFromBoth(c, b, p, FarBase(w), FarPlus(w), h, l)
    BY <1>3, <1>4, LengthSame
  <2>2. QED
    BY <2>1
<1>6. /\ Opt!Length(c, p, FarBase(w), FarPlus(w)) = [h |-> h, len |-> l]
      /\ Opt!Length(b, p, FarBase(w), FarPlus(w)) = [h |-> h, len |-> l]
  BY <1>5 DEF ReadFromBoth
<1>7. h >= 1 /\ (l = 1 => h = 1)
  BY <1>3, <1>5 DEF ReadFromBoth
<1>8. Opt!Far(c, p) = FarAs(w, h, l, c[p + h], c[p + h + 1])
  BY <1>2, <1>6, FarForm
<1>9. Opt!Far(b, p) = FarAs(w, h, l, b[p + h], b[p + h + 1])
  BY <1>2, <1>6, FarForm
<1>10. Opt!Far(b, p).h = h + 2 /\ Opt!Far(b, p).len = l + 2
  BY <1>9 DEF FarAs
<1>11. c[p + h] = b[p + h] /\ c[p + h + 1] = b[p + h + 1]
  <2>1. p + h + 1 <= Len(b) /\ p \in Nat
    BY <1>1, <1>10
  <2>2. p + h \in p .. Len(b) /\ p + h + 1 \in p .. Len(b)
    BY <1>1, <2>1
  <2>3. QED
    BY <1>1, <2>2
<1>12. Opt!Far(c, p) = Opt!Far(b, p)
  BY <1>8, <1>9, <1>11
<1>13. QED
  BY <1>7, <1>10, <1>12

LEMMA MatchSame ==
  ASSUME NEW c, NEW b \in Seq(Nat), NEW places, NEW p \in 1 .. Len(b), NEW before,
         Same(c, b, p), Opt!WholeMatch(b, places, p, before)
  PROVE  \E h \in Nat : MatchOfBoth(c, b, p, before, h)
<1>1. Len(b) \in Nat /\ Len(c) = Len(b) /\ \A k \in p .. Len(b) : c[k] = b[k]
  BY LenProperties DEF Same
<1>2. PICK w \in Nat : w = b[p] /\ w = c[p]
  <2>1. p \in p .. Len(b)
    BY <1>1
  <2>2. QED
    BY <1>1, <2>1, ElementOfSeq
<1>3. /\ p + Opt!MatchAt(b, p, before).h <= Len(b) + 1
      /\ Opt!Ends(b, p) \/ b[p] = 17
  BY WholeEnds
<1>4. CASE w \in 16 .. 63
  <2>1. Opt!MatchAt(b, p, before) = Opt!Far(b, p) /\ Opt!MatchAt(c, p, before) = Opt!Far(c, p)
    BY <1>2, <1>4, FormFar
  <2>2. /\ Opt!Far(c, p) = Opt!Far(b, p)
        /\ Opt!Far(b, p).h \in Nat /\ Opt!Far(b, p).h >= 3
        /\ Opt!Far(b, p).len = 3 => Opt!Far(b, p).h = 3
    BY <1>2, <1>3, <1>4, <2>1, FarSame
  <2>3. PICK h \in Nat : h = Opt!Far(b, p).h
    BY <2>2
  <2>4. MatchOfBoth(c, b, p, before, h)
    BY <1>2, <1>4, <2>1, <2>2, <2>3 DEF MatchOfBoth
  <2>5. QED
    BY <2>4
<1>5. CASE w \notin 16 .. 63
  <2>1. Opt!MatchAt(b, p, before).h = 2
    <3>1. CASE w >= 64
      <4>1. b[p] \in Nat /\ b[p] >= 64
        BY <1>2, <3>1
      <4>2. Opt!MatchAt(b, p, before) =
              [h |-> 2, len |-> Opt!M2Length(b[p]), off |-> Opt!M2Distance(b[p], b[p + 1])]
        BY <4>1, FormM2
      <4>3. QED
        BY <4>2
    <3>2. CASE w < 16
      <4>1. b[p] \in Nat /\ b[p] < 16
        BY <1>2, <3>2
      <4>2. Opt!MatchAt(b, p, before) =
              IF before = "run" THEN Opt!Near(b, p, 3, Opt!M2Max) ELSE Opt!Near(b, p, 2, 0)
        BY <4>1, FormNear
      <4>3. Opt!Near(b, p, 3, Opt!M2Max).h = 2 /\ Opt!Near(b, p, 2, 0).h = 2
        BY DEF Opt!Near
      <4>4. QED
        BY <4>2, <4>3
    <3>3. QED
      BY <1>5, <3>1, <3>2
  <2>2. c[p + 1] = b[p + 1]
    <3>1. p + 1 \in p .. Len(b)
      BY <1>1, <1>3, <2>1
    <3>2. QED
      BY <1>1, <3>1
  <2>3. Opt!MatchAt(c, p, before) = Opt!MatchAt(b, p, before)
    <3>1. CASE w >= 64
      BY <1>2, <2>2, <3>1, FormM2
    <3>2. CASE w < 16
      BY <1>2, <2>2, <3>2, FormNear DEF Opt!Near
    <3>3. QED
      BY <1>5, <3>1, <3>2
  <2>4. MatchOfBoth(c, b, p, before, 2)
    BY <1>2, <1>5, <2>1, <2>3 DEF MatchOfBoth
  <2>5. QED
    BY <2>4
<1>6. QED
  BY <1>4, <1>5

(* All blocks are blocks of whole instructions; MCLzo1xCodec has TLC       *)
(* evaluate this for its own.                                              *)
BlocksWhole == \A b \in Blocks : \E places : Opt!WellFormed(b, places)
PlacesOf(b) == CHOOSE places : Opt!WellFormed(b, places)

Kinds == {"loop", "run", "short"}

OType == /\ block \in Blocks /\ label \in Kinds \cup {"start", "done"}
         /\ read \in Nat /\ litp \in Nat /\ joins \in Nat

(* A rewriting leaves what is not read yet as it was.                      *)
OUnread == Sized(bytes, Len(block)) /\ \A k \in read + 1 .. Len(block) : bytes[k] = block[k]

(* Each instruction begins where one of the block as it was begins.        *)
OPlaced == /\ label = "start" => read = 0
           /\ label \in Kinds => <<read + 1, label>> \in PlacesOf(block)
           /\ label = "done" => read = Len(block)

Told(i, n, v, r, kind) ==
  IF n <= 3 THEN i + 1 + n = r /\ v % 4 = n
  ELSE kind = "run" /\ v = IF n <= 18 THEN n - 3 ELSE 0

ORun == litp # 0 /\ label # "done" =>
          litp \in 1 .. read /\ bytes[litp] \in Nat /\ Told(litp, joins, bytes[litp], read, label)

OInv == OType /\ OUnread /\ OPlaced /\ ORun

LEMMA WholeBlock ==
  ASSUME BlocksWhole, block \in Blocks
  PROVE  Opt!WellFormed(block, PlacesOf(block))
<1>1. \E places : Opt!WellFormed(block, places)
  BY DEF BlocksWhole
<1>2. QED
  BY <1>1, Zenon DEF PlacesOf

LEMMA PlaceInBlock ==
  ASSUME NEW b, NEW places, Opt!WellFormed(b, places), NEW p, NEW kind, <<p, kind>> \in places
  PROVE  /\ b \in Seq(Nat) /\ Len(b) \in Nat
         /\ p \in 1 .. Len(b) /\ b[p] \in Nat /\ kind \in Kinds
<1>1. b \in Seq(Nat) /\ places \subseteq (1 .. Len(b)) \X Kinds
  BY DEF Opt!WellFormed, Kinds
<1>2. p \in 1 .. Len(b) /\ kind \in Kinds
  BY <1>1
<1>3. QED
  BY <1>1, <1>2, LenProperties, ElementOfSeq

LEMMA RunPlace ==
  ASSUME NEW b, NEW places, Opt!WellFormed(b, places), NEW p,
         <<p, "loop">> \in places, b[p] < 16
  PROVE  Opt!WholeRun(b, places, p)
<1>1. \A x \in places :
        IF x[2] = "loop" /\ b[x[1]] < 16 THEN Opt!WholeRun(b, places, x[1])
        ELSE Opt!WholeMatch(b, places, x[1], x[2])
  BY DEF Opt!WellFormed
<1>2. <<p, "loop">>[1] = p /\ <<p, "loop">>[2] = "loop"
  OBVIOUS
<1>3. PICK x \in places : x = <<p, "loop">>
  OBVIOUS
<1>4. x[1] = p /\ x[2] = "loop"
  BY <1>2, <1>3
<1>5. QED
  BY <1>1, <1>4, Zenon

LEMMA MatchPlace ==
  ASSUME NEW b, NEW places, Opt!WellFormed(b, places), NEW p, NEW kind,
         <<p, kind>> \in places, ~(kind = "loop" /\ b[p] < 16)
  PROVE  Opt!WholeMatch(b, places, p, kind)
<1>1. \A x \in places :
        IF x[2] = "loop" /\ b[x[1]] < 16 THEN Opt!WholeRun(b, places, x[1])
        ELSE Opt!WholeMatch(b, places, x[1], x[2])
  BY DEF Opt!WellFormed
<1>2. PICK x \in places : x = <<p, kind>>
  OBVIOUS
<1>3. x[1] = p /\ x[2] = kind
  BY <1>2
<1>4. QED
  BY <1>1, <1>3, Zenon

(* The match at hand, whose bytes are h: it has not changed, and neither   *)
(* has what follows it.                                                    *)
HereIs(h) ==
  /\ h >= 2 /\ Opt!M.h = h /\ Opt!After = read + 1 + h
  /\ bytes[read + 1] \in Nat
  /\ bytes[read + 1] \in 16 .. 63 /\ Opt!M.len = 3 => h = 3
  /\ bytes[read + 1] \notin 16 .. 63 => h = 2
  /\ Opt!M.off = 0 => read + h = Len(block)
  /\ Opt!M.off # 0 =>
       /\ read + 1 + h <= Len(block)
       /\ bytes[read + h - 1] \in Nat /\ Opt!NL = bytes[read + h - 1] % 4
       /\ bytes[read + 1 + h] = block[read + 1 + h]
       /\ <<read + 1 + h + Opt!NL, IF Opt!NL = 0 THEN "loop" ELSE "short">> \in PlacesOf(block)

LEMMA MatchAtHand ==
  ASSUME BlocksWhole, OInv, Opt!Here
  PROVE  \E h \in Nat : HereIs(h)
<1> DEFINE p == read + 1
           places == PlacesOf(block)
<1>1. Opt!WellFormed(block, places)
  BY WholeBlock DEF OInv, OType
<1>2. label \in Kinds /\ <<p, label>> \in places /\ read \in Nat
  BY DEF Opt!Here, OInv, OType, OPlaced, Kinds
<1>3. /\ block \in Seq(Nat) /\ Len(block) \in Nat
      /\ p \in 1 .. Len(block) /\ block[p] \in Nat
  <2> HIDE DEF p, places
  <2>1. QED
    BY <1>1, <1>2, PlaceInBlock
<1>4. Len(bytes) = Len(block) /\ \A k \in p .. Len(block) : bytes[k] = block[k]
  BY DEF OInv, OUnread, Sized
<1>5. bytes[p] = block[p]
  BY <1>3, <1>4
<1>6. Opt!WholeMatch(block, places, p, label)
  <2>1. ~(label = "loop" /\ block[p] < 16)
    BY <1>5 DEF Opt!Here
  <2> HIDE DEF p, places
  <2>2. QED
    BY <1>1, <1>2, <2>1, MatchPlace
<1>7. PICK h \in Nat : MatchOfBoth(bytes, block, p, label, h)
  <2>1. Same(bytes, block, p)
    BY <1>4 DEF Same
  <2> HIDE DEF p, places
  <2>2. QED
    BY <1>3, <1>6, <2>1, MatchSame
<1>8. /\ Opt!M = Opt!MatchAt(block, p, label) /\ Opt!M.h = h /\ h >= 2
      /\ block[p] \notin 16 .. 63 => h = 2
      /\ block[p] \in 16 .. 63 /\ Opt!M.len = 3 => h = 3
  BY <1>7 DEF MatchOfBoth, Opt!M
<1>9. Opt!After = read + 1 + h
  <2>1. Opt!After = read + Opt!M.h + 1
    BY DEF Opt!After
  <2>2. QED
    BY <1>2, <1>8, <2>1
<1>10. ASSUME Opt!M.off = 0
       PROVE  read + h = Len(block)
  <2>1. p + Opt!M.h = Len(block) + 1
    BY <1>6, <1>8, <1>10 DEF Opt!WholeMatch
  <2>2. QED
    BY <1>2, <1>3, <1>8, <2>1
<1>11. ASSUME Opt!M.off # 0
       PROVE  /\ read + 1 + h <= Len(block)
              /\ bytes[read + h - 1] \in Nat /\ Opt!NL = bytes[read + h - 1] % 4
              /\ bytes[read + 1 + h] = block[read + 1 + h]
              /\ <<read + 1 + h + Opt!NL, IF Opt!NL = 0 THEN "loop" ELSE "short">> \in places
  <2> DEFINE q == read + 1 + h
             n == block[q - 2] % 4
  <2>1. p + Opt!M.h = q
    BY <1>2, <1>8
  <2>2. q <= Len(block) /\ <<q + n, IF n = 0 THEN "loop" ELSE "short">> \in places
    <3> HIDE DEF q, p, places
    <3>1. QED
      BY <1>6, <1>8, <1>11, <2>1 DEF Opt!WholeMatch
  <2>3. q - 2 = read + h - 1 /\ q - 2 \in p .. Len(block) /\ q \in p .. Len(block)
    BY <1>2, <1>3, <1>8, <2>2
  <2>4. bytes[q - 2] = block[q - 2] /\ bytes[q] = block[q] /\ block[q - 2] \in Nat
    <3>1. q - 2 \in 1 .. Len(block)
      BY <1>2, <1>3, <2>3
    <3> HIDE DEF q, p, n, places
    <3>2. QED
      BY <1>3, <1>4, <2>3, <3>1, ElementOfSeq
  <2>5. Opt!NL = n
    <3>1. Opt!NL = bytes[q - 2] % 4
      BY <1>9 DEF Opt!NL
    <3>2. QED
      BY <2>4, <3>1
  <2>6. read + 1 + h <= Len(block) /\ bytes[read + 1 + h] = block[read + 1 + h]
    BY <2>2, <2>4
  <2>7. bytes[read + h - 1] \in Nat /\ Opt!NL = bytes[read + h - 1] % 4
    <3>1. bytes[q - 2] \in Nat /\ Opt!NL = bytes[q - 2] % 4
      BY <2>4, <2>5
    <3> HIDE DEF q, n
    <3>2. QED
      BY <2>3, <3>1
  <2>8. <<read + 1 + h + Opt!NL, IF Opt!NL = 0 THEN "loop" ELSE "short">> \in places
    <3>1. q = read + 1 + h
      OBVIOUS
    <3> HIDE DEF q, n, places
    <3>2. QED
      BY <2>2, <2>5, <3>1
  <2>9. QED
    BY <2>6, <2>7, <2>8
<1>12. HereIs(h)
  <2>1. bytes[read + 1] \in Nat
    BY <1>3, <1>5
  <2>2. /\ bytes[read + 1] \in 16 .. 63 /\ Opt!M.len = 3 => h = 3
        /\ bytes[read + 1] \notin 16 .. 63 => h = 2
    BY <1>5, <1>8
  <2>3. QED
    BY <1>8, <1>9, <1>10, <1>11, <2>1, <2>2, Zenon DEF HereIs
<1>13. QED
  BY <1>12

(* A run of one to fifteen and three literals after a match.               *)
LEMMA RunAhead ==
  ASSUME BlocksWhole, OInv, NEW q, <<q, "loop">> \in PlacesOf(block), block[q] \in 1 .. 15
  PROVE  q \in Nat /\ <<q + 1 + (block[q] + 3), "run">> \in PlacesOf(block)
<1> DEFINE places == PlacesOf(block)
<1>1. Opt!WellFormed(block, places)
  BY WholeBlock DEF OInv, OType
<1>2. block \in Seq(Nat) /\ Len(block) \in Nat /\ q \in 1 .. Len(block)
  BY <1>1, PlaceInBlock
<1>3. block[q] < 16 /\ block[q] > 0
  OBVIOUS
<1>4. Opt!WholeRun(block, places, q)
  BY <1>1, <1>3, RunPlace
<1>5. Opt!Ends(block, q) /\ <<q + Opt!RunAt(block, q).h + Opt!RunAt(block, q).len, "run">> \in places
  BY <1>4 DEF Opt!WholeRun
<1>6. PICK h \in Nat, len \in Nat :
        Opt!RunAt(block, q) = [h |-> h, len |-> len] /\ h = 1 /\ len = block[q] + 3
  <2>1. Same(block, block, q)
    BY DEF Same
  <2>2. QED
    BY <1>2, <1>3, <1>5, <2>1, RunSame
<1>7. Opt!RunAt(block, q).h = 1 /\ Opt!RunAt(block, q).len = block[q] + 3
  BY <1>6
<1>8. QED
  BY <1>2, <1>5, <1>7

(* What a rewriting has before it.                                         *)
MayRewrite(h) ==
  /\ Sized(bytes, Len(block)) /\ Len(block) \in Nat
  /\ read \in Nat /\ litp \in 1 .. read /\ joins \in Nat /\ bytes[litp] \in Nat
  /\ Told(litp, joins, bytes[litp], read, label)
  /\ h \in Nat /\ h >= 2 /\ Opt!M.h = h /\ Opt!After = read + 1 + h /\ read + 1 + h <= Len(block)
  /\ bytes[read + 1 + h] = block[read + 1 + h]
  /\ <<read + 1 + h, "loop">> \in PlacesOf(block)

LEMMA BeforeFacts ==
  ASSUME BlocksWhole, OInv, NEW h \in Nat, HereIs(h), Opt!Rewritable, Opt!NL = 0
  PROVE  MayRewrite(h)
<1>1. /\ Opt!M.h = h /\ h >= 2 /\ Opt!After = read + 1 + h /\ read + 1 + h <= Len(block)
      /\ bytes[read + 1 + h] = block[read + 1 + h]
      /\ <<read + 1 + h + Opt!NL, IF Opt!NL = 0 THEN "loop" ELSE "short">> \in PlacesOf(block)
  BY DEF HereIs, Opt!Rewritable
<1>2. litp # 0 /\ label # "done"
  BY DEF Opt!Rewritable, Opt!Here
<1>3. litp \in 1 .. read /\ bytes[litp] \in Nat /\ Told(litp, joins, bytes[litp], read, label)
  BY <1>2 DEF OInv, ORun
<1>4. read \in Nat /\ joins \in Nat /\ Sized(bytes, Len(block))
  BY DEF OInv, OType, OUnread
<1>5. Len(block) \in Nat
  BY <1>1, WholeBlock, PlaceInBlock DEF OInv, OType
<1>6. <<read + 1 + h, "loop">> \in PlacesOf(block)
  <2>1. read + 1 + h + 0 = read + 1 + h
    BY <1>4
  <2>2. QED
    BY <1>1, <2>1
<1>7. QED
  BY <1>1, <1>3, <1>4, <1>5, <1>6 DEF MayRewrite

LEMMA JoinShortKeeps ==
  ASSUME BlocksWhole, OInv, NEW len \in Nat, MayRewrite(len), joins + len = 3,
         Opt!JoinShort(len)
  PROVE  OInv'
<1> DEFINE n == Len(block)
           v == bytes[litp] - (bytes[litp] % 4) + joins + len
           c == [bytes EXCEPT ![litp] = v]
           s == Opt!Copy(Opt!M.off, len)
<1>1. /\ Sized(bytes, n) /\ n \in Nat /\ read \in Nat /\ litp \in 1 .. read /\ joins \in Nat
      /\ bytes[litp] \in Nat /\ Opt!M.h = len /\ Opt!After = read + 1 + len
      /\ read + 1 + len <= n /\ <<read + 1 + len, "loop">> \in PlacesOf(block)
  BY DEF MayRewrite
<1>2. /\ bytes' = Opt!Put(c, Opt!After - len, s)
      /\ joins' = joins + len /\ read' = read + Opt!M.h /\ label' = "loop"
      /\ block' = block /\ litp' = litp
  BY DEF Opt!JoinShort
<1>3. Opt!After - len = read + 1
  BY <1>1
<1>4. litp \in 1 .. n
  BY <1>1
<1>5. Sized(c, n) /\ c[litp] = v /\ \A k \in 1 .. n : k # litp => c[k] = bytes[k]
  <2> HIDE DEF n, v
  <2>1. QED
    BY <1>1, <1>4, SizedExcept
<1>6. Len(s) = len
  BY CopySize
<1>7. Sized(bytes', n) /\ \A k \in 1 .. n : k < read + 1 \/ k >= read + 1 + len => bytes'[k] = c[k]
  <2>1. read + 1 \in Int
    BY <1>1
  <2> HIDE DEF n, c, s
  <2>2. QED
    BY <1>1, <1>2, <1>3, <1>5, <1>6, <2>1, SizedPut
<1>8. bytes'[litp] = v /\ \A k \in read + len + 1 .. n : bytes'[k] = bytes[k]
  <2> HIDE DEF n, v, c
  <2>1. litp < read + 1
    BY <1>1
  <2>2. bytes'[litp] = v
    BY <1>4, <1>5, <1>7, <2>1
  <2>3. ASSUME NEW k \in read + len + 1 .. n
        PROVE  bytes'[k] = bytes[k]
    <3>1. k \in 1 .. n /\ k # litp /\ k >= read + 1 + len
      BY <1>1
    <3>2. QED
      BY <1>5, <1>7, <3>1
  <2>4. QED
    BY <2>2, <2>3
<1>9. read' = read + len /\ joins' = 3
  BY <1>1, <1>2
<1>10. OType'
  BY <1>1, <1>2, <1>9 DEF OInv, OType, Kinds
<1>11. OUnread'
  <2>1. \A k \in read + 1 .. n : bytes[k] = block[k]
    BY DEF OInv, OUnread
  <2>2. ASSUME NEW k \in read + len + 1 .. n
        PROVE  bytes'[k] = block[k]
    <3>1. k \in read + 1 .. n
      BY <1>1
    <3> HIDE DEF n
    <3>2. QED
      BY <1>8, <2>1, <3>1
  <2>3. QED
    BY <1>2, <1>7, <1>9, <2>2 DEF OUnread
<1>12. OPlaced'
  <2>1. read' + 1 = read + 1 + len
    BY <1>1, <1>9
  <2>2. QED
    BY <1>1, <1>2, <2>1 DEF OPlaced
<1>13. ORun'
  <2>1. v \in Nat /\ v % 4 = 3
    <3>1. PICK x \in Nat : x = bytes[litp]
      BY <1>1
    <3>2. PICK y \in Nat : y = x - (x % 4) /\ (y + 3) % 4 = 3
      OBVIOUS
    <3>3. v = y + joins + len
      BY <3>1, <3>2
    <3>4. joins \in Nat
      BY <1>1
    <3>5. y + joins + len = y + 3
      BY <3>4
    <3> HIDE DEF v
    <3>6. QED
      BY <3>2, <3>3, <3>5
  <2>2. litp + 1 + joins = read
    <3>1. joins <= 3
      BY <1>1
    <3>2. QED
      BY <3>1 DEF MayRewrite, Told
  <2>3. litp \in 1 .. read' /\ litp + 1 + 3 = read'
    BY <1>1, <1>9, <2>2
  <2>4. Told(litp, 3, v, read', "loop")
    BY <2>1, <2>3 DEF Told
  <2>5. QED
    <3> HIDE DEF v
    <3>1. QED
      BY <1>2, <1>8, <1>9, <2>1, <2>3, <2>4 DEF ORun
<1>14. QED
  BY <1>10, <1>11, <1>12, <1>13 DEF OInv

LEMMA ToldLong ==
  ASSUME NEW i, NEW n \in 4 .. 18, NEW r
  PROVE  Told(i, n, n - 3, r, "run")
<1>1. ~(n <= 3) /\ n <= 18
  OBVIOUS
<1>2. QED
  BY <1>1, Zenon DEF Told

(* What both rewritings end in: a run of n literals from i on that is told *)
(* by the byte there, up to g literals after the place q.                  *)
Joined(q, g, i, n) ==
  /\ block' = block /\ litp' = i /\ joins' = n /\ read' = q + g /\ label' = "run"
  /\ Sized(bytes', Len(block)) /\ bytes'[i] = n - 3
  /\ \A k \in q + g + 1 .. Len(block) : bytes'[k] = block[k]

RunWaits(q, g) ==
  <<q, "loop">> \in PlacesOf(block) /\ block[q] \in 1 .. 15 /\ g = block[q] + 3

LEMMA JoinedKeeps ==
  ASSUME BlocksWhole, OInv, NEW q \in Nat, NEW g \in Nat, NEW i \in 1 .. q, NEW n \in 4 .. 18,
         RunWaits(q, g), Joined(q, g, i, n)
  PROVE  OInv'
<1>1. q + g \in Nat /\ i \in Nat /\ n \in Nat /\ n - 3 \in Nat /\ i \in 1 .. q + g
      /\ q + g + 1 = q + 1 + g
  OBVIOUS
<1>2. OType'
  BY <1>1 DEF OInv, OType, Kinds, Joined
<1>3. OUnread'
  BY DEF OUnread, Joined
<1>4. OPlaced'
  <2>1. <<q + 1 + g, "run">> \in PlacesOf(block)
    BY RunAhead DEF RunWaits
  <2>2. QED
    BY <1>1, <2>1 DEF OPlaced, Joined
<1>5. ORun'
  <2>1. Told(i, n, n - 3, q + g, "run")
    BY ToldLong
  <2>2. QED
    BY <1>1, <2>1 DEF ORun, Joined
<1>6. QED
  BY <1>2, <1>3, <1>4, <1>5 DEF OInv

LEMMA JoinAheadKeeps ==
  ASSUME BlocksWhole, OInv, NEW len \in 2 .. 3, MayRewrite(len), joins <= 3, Opt!RunFollows(len),
         Opt!JoinAhead(len)
  PROVE  OInv'
<1> DEFINE n == Len(block)
           v == bytes[litp] - (bytes[litp] % 4)
           c == [bytes EXCEPT ![litp] = v]
           s == Opt!Copy(Opt!M.off, len)
           d == Opt!Put(c, Opt!After - len + 1, s)
           u == Opt!Literals(d, litp + 2, joins)
           moved == Opt!Put(d, litp + 3, u)
           t0 == bytes[Opt!After] + 3
<1>0. read \in Nat /\ litp \in 1 .. read /\ joins \in Nat
  BY DEF MayRewrite
<1>1. /\ Sized(bytes, n) /\ n \in Nat /\ read \in Nat /\ litp \in 1 .. read /\ joins \in Nat
      /\ Opt!After = read + 1 + len /\ read + 1 + len <= n
      /\ bytes[read + 1 + len] = block[read + 1 + len]
      /\ <<read + 1 + len, "loop">> \in PlacesOf(block)
  BY DEF MayRewrite
<1>2. litp + 1 + joins = read
  BY DEF MayRewrite, Told
<1>3. PICK q \in Nat : q = read + 1 + len
  BY <1>1
<1>4. Opt!After = q /\ q <= n /\ bytes[q] = block[q] /\ <<q, "loop">> \in PlacesOf(block)
  BY <1>1, <1>3
<1>5. bytes[q] \in 1 .. 15 /\ joins + len + bytes[q] < 16
  BY <1>4 DEF Opt!RunFollows
<1>6. PICK g \in 4 .. 18 : g = bytes[q] + 3 /\ joins + len + g < 19
  <2>1. PICK x \in 1 .. 15 : x = bytes[q]
    BY <1>5
  <2>2. x + 3 \in 4 .. 18 /\ joins + len + (x + 3) < 19
    <3>1. joins + len + x < 16
      BY <1>5, <2>1
    <3>2. QED
      BY <1>0, <3>1
  <2>3. QED
    BY <2>1, <2>2, Zenon
<1>7. PICK w \in 4 .. 18 : w = joins + len + g
  <2>1. joins + len + g \in 4 .. 18
    BY <1>0, <1>6
  <2>2. QED
    BY <2>1
<1>8. /\ bytes' = [moved EXCEPT ![litp + 2] = w - 3]
      /\ litp' = litp + 2 /\ joins' = w /\ read' = q + g /\ label' = "run"
      /\ block' = block
  <2>1. /\ bytes' = [moved EXCEPT ![litp + 2] = joins + len + t0 - 3]
        /\ litp' = litp + 2 /\ joins' = joins + len + t0 /\ read' = Opt!After + t0
        /\ label' = "run" /\ block' = block
    BY Zenon DEF Opt!JoinAhead
  <2>2. t0 = g
    BY <1>4, <1>6
  <2> HIDE DEF moved, t0
  <2>3. QED
    <3>1. joins + len + t0 = w
      BY <1>7, <2>2
    <3>2. Opt!After + t0 = q + g
      BY <1>4, <2>2
    <3>3. joins + len + t0 - 3 = w - 3
      BY <1>0, <1>7, <2>2
    <3>4. bytes' = [moved EXCEPT ![litp + 2] = w - 3]
      BY <2>1, <3>3, Zenon
    <3>5. QED
      BY <2>1, <3>1, <3>2, <3>4, Zenon
<1>9. litp \in 1 .. n /\ litp + 2 \in 1 .. n /\ litp + 2 \in 1 .. q
  <2> HIDE DEF n
  <2>1. QED
    BY <1>1, <1>2, <1>3, <1>4
<1>10. Opt!After - len + 1 = read + 2
  BY <1>1, <1>3, <1>4
<1>11. Sized(c, n) /\ \A k \in 1 .. n : k # litp => c[k] = bytes[k]
  <2> HIDE DEF n, v
  <2>1. QED
    BY <1>1, <1>9, SizedExcept
<1>12. Len(s) = len
  BY CopySize
<1>13. Sized(d, n) /\ \A k \in 1 .. n : k < read + 2 \/ k >= read + 2 + len => d[k] = c[k]
  <2>1. read + 2 \in Int /\ len \in Nat
    BY <1>1
  <2>2. d = Opt!Put(c, read + 2, s)
    BY <1>10
  <2> HIDE DEF n, c, s, d
  <2>3. QED
    BY <1>1, <1>11, <1>12, <2>1, <2>2, SizedPut
<1>14. Len(u) = joins
  <2>1. litp + 2 \in Nat
    BY <1>9
  <2> HIDE DEF d
  <2>2. QED
    BY <1>1, <2>1, LiteralsSize
<1>15. Sized(moved, n) /\ \A k \in 1 .. n : k < litp + 3 \/ k >= litp + 3 + joins => moved[k] = d[k]
  <2>1. litp + 3 \in Int
    BY <1>9
  <2> HIDE DEF n, d, u
  <2>2. QED
    BY <1>1, <1>13, <1>14, <2>1, SizedPut
<1>16. /\ Sized(bytes', n) /\ bytes'[litp + 2] = w - 3
       /\ \A k \in 1 .. n : k # litp + 2 => bytes'[k] = moved[k]
  <2> DEFINE f == [moved EXCEPT ![litp + 2] = w - 3]
  <2>1. /\ Sized(f, n) /\ f[litp + 2] = w - 3
        /\ \A k \in 1 .. n : k # litp + 2 => f[k] = moved[k]
    <3>0. Sized(moved, n)
      BY <1>15
    <3>1. n \in Nat
      BY <1>1
    <3> HIDE DEF n, moved
    <3>2. PICK i \in 1 .. n : i = litp + 2
      BY <1>9
    <3>3. PICK x : x = w - 3
      OBVIOUS
    <3>4. /\ Sized([moved EXCEPT ![i] = x], n) /\ [moved EXCEPT ![i] = x][i] = x
          /\ \A k \in 1 .. n : k # i => [moved EXCEPT ![i] = x][k] = moved[k]
      BY <3>0, <3>1, SizedExcept
    <3>5. QED
      BY <3>2, <3>3, <3>4
  <2>2. bytes' = f
    BY <1>8
  <2> HIDE DEF n, moved, f
  <2>3. QED
    BY <2>1, <2>2
<1>17. \A k \in q + g + 1 .. n : bytes'[k] = block[k]
  <2>1. \A k \in read + 1 .. n : bytes[k] = block[k]
    BY DEF OInv, OUnread
  <2>2. ASSUME NEW k \in q + g + 1 .. n
        PROVE  bytes'[k] = block[k]
    <3>1. /\ k \in 1 .. n /\ k \in read + 1 .. n /\ k # litp /\ k # litp + 2
          /\ k >= read + 2 + len /\ k >= litp + 3 + joins
      <4> HIDE DEF n
      <4>1. QED
        BY <1>1, <1>2, <1>3
    <3> HIDE DEF n, c, d, moved
    <3>2. QED
      BY <1>11, <1>13, <1>15, <1>16, <2>1, <3>1
  <2>3. QED
    BY <2>2
<1>18. RunWaits(q, g)
  BY <1>4, <1>5, <1>6, Zenon DEF RunWaits
<1>19. Joined(q, g, litp + 2, w)
  <2> HIDE DEF moved
  <2>1. QED
    BY <1>8, <1>16, <1>17, Zenon DEF Joined
<1>20. g \in Nat
  OBVIOUS
<1>21. QED
  BY <1>9, <1>18, <1>19, <1>20, JoinedKeeps

LEMMA JoinRunsKeeps ==
  ASSUME BlocksWhole, OInv, MayRewrite(2), joins > 3, Opt!RunFollows(3), Opt!JoinRuns
  PROVE  OInv'
<1> DEFINE n == Len(block)
           s == Opt!Copy(Opt!M.off, 3)
           d == Opt!Put(bytes, Opt!After - 2, s)
           t0 == bytes[Opt!After] + 3
<1>0. read \in Nat /\ litp \in 1 .. read /\ joins \in Nat
  BY DEF MayRewrite
<1>1. /\ Sized(bytes, n) /\ n \in Nat /\ read \in Nat /\ litp \in 1 .. read /\ joins \in Nat
      /\ Opt!After = read + 1 + 2 /\ read + 1 + 2 <= n
      /\ bytes[read + 1 + 2] = block[read + 1 + 2]
      /\ <<read + 1 + 2, "loop">> \in PlacesOf(block)
  BY DEF MayRewrite
<1>2. PICK q \in Nat : q = read + 1 + 2
  BY <1>1
<1>3. Opt!After = q /\ q <= n /\ bytes[q] = block[q] /\ <<q, "loop">> \in PlacesOf(block)
  BY <1>1, <1>2
<1>4. bytes[q] \in 1 .. 15 /\ joins + 3 + bytes[q] < 16
  BY <1>3 DEF Opt!RunFollows
<1>5. PICK g \in 4 .. 18 : g = bytes[q] + 3 /\ joins + 3 + g < 19
  <2>1. PICK x \in 1 .. 15 : x = bytes[q]
    BY <1>4
  <2>2. x + 3 \in 4 .. 18 /\ joins + 3 + (x + 3) < 19
    <3>1. joins + 3 + x < 16
      BY <1>4, <2>1
    <3>2. QED
      BY <1>0, <3>1
  <2>3. QED
    BY <2>1, <2>2, Zenon
<1>6. PICK w \in 4 .. 18 : w = joins + 3 + g
  <2>1. joins + 3 + g \in 4 .. 18
    BY <1>0, <1>5
  <2>2. QED
    BY <2>1
<1>7. /\ bytes' = [d EXCEPT ![litp] = w - 3]
      /\ litp' = litp /\ joins' = w /\ read' = q + g /\ label' = "run" /\ block' = block
  <2>1. /\ bytes' = [d EXCEPT ![litp] = joins + 3 + t0 - 3]
        /\ litp' = litp /\ joins' = joins + 3 + t0 /\ read' = Opt!After + t0
        /\ label' = "run" /\ block' = block
    BY Zenon DEF Opt!JoinRuns
  <2>2. t0 = g
    BY <1>3, <1>5
  <2> HIDE DEF d, t0
  <2>3. QED
    <3>1. joins + 3 + t0 = w
      BY <1>6, <2>2
    <3>2. Opt!After + t0 = q + g
      BY <1>3, <2>2
    <3>3. joins + 3 + t0 - 3 = w - 3
      BY <1>0, <1>6, <2>2
    <3>4. bytes' = [d EXCEPT ![litp] = w - 3]
      BY <2>1, <3>3, Zenon
    <3>5. QED
      BY <2>1, <3>1, <3>2, <3>4, Zenon
<1>8. litp \in 1 .. n /\ litp \in 1 .. q /\ Opt!After - 2 = read + 1
  <2> HIDE DEF n
  <2>1. QED
    BY <1>1, <1>2
<1>9. Len(s) = 3
  BY CopySize
<1>10. Sized(d, n) /\ \A k \in 1 .. n : k < read + 1 \/ k >= read + 1 + 3 => d[k] = bytes[k]
  <2>1. read + 1 \in Int /\ Len(s) \in Nat
    BY <1>0, <1>9
  <2>2x. n \in Nat /\ Sized(bytes, n)
    BY <1>1
  <2>2. d = Opt!Put(bytes, read + 1, s)
    BY <1>8
  <2> HIDE DEF n, s, d
  <2>3. /\ Sized(Opt!Put(bytes, read + 1, s), n)
        /\ \A k \in 1 .. n : k < read + 1 \/ k >= read + 1 + Len(s) =>
             Opt!Put(bytes, read + 1, s)[k] = bytes[k]
    BY <2>2x, <2>1, SizedPut
  <2>4. QED
    BY <1>9, <2>2, <2>3
<1>11. /\ Sized(bytes', n) /\ bytes'[litp] = w - 3
       /\ \A k \in 1 .. n : k # litp => bytes'[k] = d[k]
  <2> DEFINE f == [d EXCEPT ![litp] = w - 3]
  <2>1. /\ Sized(f, n) /\ f[litp] = w - 3
        /\ \A k \in 1 .. n : k # litp => f[k] = d[k]
    <3> HIDE DEF n, d
    <3>1. QED
      BY <1>1, <1>8, <1>10, SizedExcept
  <2>2. bytes' = f
    BY <1>7
  <2> HIDE DEF n, d, f
  <2>3. QED
    BY <2>1, <2>2
<1>12. \A k \in q + g + 1 .. n : bytes'[k] = block[k]
  <2>1. \A k \in read + 1 .. n : bytes[k] = block[k]
    BY DEF OInv, OUnread
  <2>2. ASSUME NEW k \in q + g + 1 .. n
        PROVE  bytes'[k] = block[k]
    <3>1. k \in 1 .. n /\ k \in read + 1 .. n /\ k # litp /\ k >= read + 1 + 3
      <4> HIDE DEF n
      <4>1. QED
        BY <1>1, <1>2
    <3> HIDE DEF n, d
    <3>2. QED
      BY <1>10, <1>11, <2>1, <3>1
  <2>3. QED
    BY <2>2
<1>13. RunWaits(q, g)
  BY <1>3, <1>4, <1>5, Zenon DEF RunWaits
<1>14. Joined(q, g, litp, w)
  <2> HIDE DEF d
  <2>1. QED
    BY <1>7, <1>11, <1>12, Zenon DEF Joined
<1>15. g \in Nat
  OBVIOUS
<1>16. QED
  BY <1>8, <1>13, <1>14, <1>15, JoinedKeeps

LEMMA StartKeeps ==
  ASSUME BlocksWhole, OInv, Opt!Start
  PROVE  OInv'
<1> DEFINE places == PlacesOf(block)
           v == block[1] - 17
<1>1. Opt!WellFormed(block, places)
  BY WholeBlock DEF OInv, OType
<1>2. read = 0 /\ label = "start" /\ litp = 0
  <2>1. label = "start" /\ read = 0
    BY DEF Opt!Start, OInv, OPlaced
  <2>2. litp # 0 => litp \in 1 .. 0
    BY <2>1 DEF OInv, ORun
  <2>3. QED
    BY <2>1, <2>2
<1>3. IF v <= 0 THEN <<1, "loop">> \in places
      ELSE <<2 + v, IF v < 4 THEN "short" ELSE "run">> \in places
  BY <1>1 DEF Opt!WellFormed
<1>4. 1 \in 1 .. Len(block) /\ block[1] \in Nat
  <2>1. Len(block) \in Nat /\ block \in Seq(Nat)
    BY <1>1, <1>3, PlaceInBlock
  <2>2. Len(block) >= 1
    <3>1. CASE v <= 0
      <4>1. 1 \in 1 .. Len(block)
        BY <1>1, <1>3, <3>1, PlaceInBlock
      <4>2. QED
        BY <2>1, <4>1
    <3>2. CASE ~(v <= 0)
      <4>1. 2 + v \in 1 .. Len(block)
        <5> HIDE DEF v
        <5>1. QED
          BY <1>1, <1>3, <3>2, PlaceInBlock
      <4>2. QED
        BY <2>1, <4>1
    <3>3. QED
      BY <3>1, <3>2
  <2>3. 1 \in 1 .. Len(block)
    BY <2>1, <2>2
  <2>4. QED
    BY <2>1, <2>3, ElementOfSeq
<1>5. bytes[1] = block[1]
  BY <1>2, <1>4 DEF OInv, OUnread
<1>6. v \in Int
  BY <1>4
<1>7. block' = block /\ bytes' = bytes /\ litp' = 0 /\ joins' = joins
  BY <1>2 DEF Opt!Start
<1>8. IF v <= 0 THEN label' = "loop" /\ read' = 0
      ELSE label' = (IF v < 4 THEN "short" ELSE "run") /\ read' = 1 + v
  BY <1>2, <1>5 DEF Opt!Start
<1>9. /\ read' \in Nat /\ label' \in Kinds /\ <<read' + 1, label'>> \in places
  <2>1. CASE v <= 0
    <3>1. 0 + 1 = 1
      OBVIOUS
    <3> HIDE DEF v, places
    <3>2. QED
      BY <1>3, <1>8, <2>1, <3>1 DEF Kinds
  <2>2. CASE ~(v <= 0)
    <3> HIDE DEF v, places
    <3>1. read' + 1 = 2 + v /\ read' \in Nat
      BY <1>6, <1>8, <2>2
    <3>2. QED
      BY <1>3, <1>8, <2>2, <3>1 DEF Kinds
  <2>3. QED
    BY <2>1, <2>2
<1>10. OType'
  BY <1>7, <1>9 DEF OInv, OType
<1>11. OUnread'
  <2>1. Len(block) \in Nat /\ Sized(bytes, Len(block)) /\ \A k \in 1 .. Len(block) : bytes[k] = block[k]
    BY <1>1, <1>2, <1>3, <1>4, PlaceInBlock DEF OInv, OUnread
  <2>2. \A k \in read' + 1 .. Len(block) : bytes[k] = block[k]
    <3>1. PICK r \in Nat : r = read'
      BY <1>9
    <3>2. \A k \in r + 1 .. Len(block) : k \in 1 .. Len(block)
      BY <2>1
    <3>3. QED
      BY <2>1, <3>1, <3>2
  <2>3. QED
    BY <1>7, <2>1, <2>2 DEF OUnread
<1>12. OPlaced'
  BY <1>7, <1>9 DEF OPlaced, Kinds
<1>13. ORun'
  BY <1>7 DEF ORun
<1>14. QED
  BY <1>10, <1>11, <1>12, <1>13 DEF OInv

LEMMA LiteralRunKeeps ==
  ASSUME BlocksWhole, OInv, Opt!LiteralRun
  PROVE  OInv'
<1> DEFINE places == PlacesOf(block)
<1>1. Opt!WellFormed(block, places)
  BY WholeBlock DEF OInv, OType
<1>2. read \in Nat /\ <<read + 1, "loop">> \in places
  BY DEF Opt!LiteralRun, OInv, OType, OPlaced, Kinds
<1>3. PICK p \in Nat : p = read + 1
  BY <1>2
<1>4. block \in Seq(Nat) /\ Len(block) \in Nat /\ p \in 1 .. Len(block) /\ block[p] \in Nat
  <2>1. <<p, "loop">> \in places
    BY <1>2, <1>3
  <2> HIDE DEF places
  <2>2. QED
    BY <1>1, <2>1, PlaceInBlock
<1>5. Sized(bytes, Len(block)) /\ \A k \in p .. Len(block) : bytes[k] = block[k]
  BY <1>3 DEF OInv, OUnread
<1>6. Same(bytes, block, p) /\ bytes[p] = block[p]
  <2>1. Len(bytes) = Len(block)
    BY <1>5 DEF Sized
  <2>2. p \in p .. Len(block)
    BY <1>4
  <2>3. QED
    BY <1>5, <2>1, <2>2 DEF Same
<1>7. block[p] < 16
  BY <1>3, <1>6 DEF Opt!LiteralRun
<1>8. Opt!Ends(block, p)
      /\ <<p + Opt!RunAt(block, p).h + Opt!RunAt(block, p).len, "run">> \in places
  <2>1. <<p, "loop">> \in places
    BY <1>2, <1>3
  <2> HIDE DEF places
  <2>2. QED
    BY <1>1, <1>7, <2>1, RunPlace DEF Opt!WholeRun
<1>9. PICK h \in Nat, len \in Nat :
        /\ Opt!RunAt(bytes, p) = [h |-> h, len |-> len]
        /\ Opt!RunAt(block, p) = [h |-> h, len |-> len]
        /\ block[p] > 0 => h = 1 /\ len = block[p] + 3
        /\ block[p] = 0 => h >= 2 /\ len > 18
  BY <1>4, <1>6, <1>7, <1>8, RunSame
<1>10. /\ Opt!RunAt(bytes, p).h = h /\ Opt!RunAt(bytes, p).len = len
       /\ Opt!RunAt(block, p).h = h /\ Opt!RunAt(block, p).len = len
  BY <1>9
<1>11. PICK r \in Nat : r = read + h + len /\ r + 1 = p + h + len /\ r >= p
  <2>1. h >= 1
    BY <1>4, <1>9
  <2>2. read + h + len \in Nat /\ read + h + len + 1 = p + h + len /\ read + h + len >= p
    BY <1>2, <1>3, <2>1
  <2>3. QED
    BY <2>2
<1>12. litp' = p /\ joins' = len /\ read' = r /\ label' = "run" /\ block' = block /\ bytes' = bytes
  BY <1>3, <1>10, <1>11 DEF Opt!LiteralRun
<1>13. OType'
  BY <1>12 DEF OInv, OType, Kinds
<1>14. OUnread'
  <2>1. \A k \in r + 1 .. Len(block) : bytes[k] = block[k]
    BY <1>4, <1>5, <1>11
  <2>2. QED
    BY <1>5, <1>12, <2>1 DEF OUnread
<1>15. OPlaced'
  <2>1. <<r + 1, "run">> \in places
    BY <1>8, <1>10, <1>11
  <2>2. QED
    BY <1>12, <2>1 DEF OPlaced
<1>16. ORun'
  <2>1. ~(len <= 3) /\ block[p] = IF len <= 18 THEN len - 3 ELSE 0
    BY <1>4, <1>7, <1>9
  <2>2. Told(p, len, block[p], r, "run")
    BY <2>1 DEF Told
  <2>3. p \in 1 .. r
    BY <1>4, <1>11
  <2>4. QED
    BY <1>4, <1>6, <1>12, <2>2, <2>3 DEF ORun
<1>17. QED
  BY <1>13, <1>14, <1>15, <1>16 DEF OInv

LEMMA CopyMatchKeeps ==
  ASSUME BlocksWhole, OInv, NEW h \in Nat, HereIs(h), Opt!CopyMatch
  PROVE  OInv'
<1>1. /\ h >= 2 /\ Opt!M.h = h /\ Opt!After = read + 1 + h /\ read + 1 + h <= Len(block)
      /\ bytes[read + h - 1] \in Nat /\ Opt!NL = bytes[read + h - 1] % 4
      /\ <<read + 1 + h + Opt!NL, IF Opt!NL = 0 THEN "loop" ELSE "short">> \in PlacesOf(block)
  BY DEF HereIs, Opt!CopyMatch
<1>2. read \in Nat /\ Sized(bytes, Len(block)) /\ Len(block) \in Nat
      /\ \A k \in read + 1 .. Len(block) : bytes[k] = block[k]
  BY <1>1, WholeBlock, PlaceInBlock DEF OInv, OType, OUnread
<1>3. PICK n \in 0 .. 3 : n = Opt!NL
  <2>1. PICK x \in Nat : x = bytes[read + h - 1]
    BY <1>1
  <2>2. x % 4 \in 0 .. 3
    OBVIOUS
  <2>3. QED
    BY <1>1, <2>1, <2>2
<1>4. PICK i \in Nat, r \in Nat :
        /\ i = read + h - 1 /\ r = read + h + n
        /\ i = (read + 1 + h) - 2 /\ r + 1 = read + 1 + h + n /\ i \in 1 .. r /\ i + 1 + n = r
  <2>1. h >= 2 /\ read \in Nat
    BY <1>1, <1>2
  <2>2. /\ read + h - 1 \in Nat /\ read + h + n \in Nat /\ read + h - 1 = (read + 1 + h) - 2
        /\ read + h + n + 1 = read + 1 + h + n /\ read + h - 1 \in 1 .. read + h + n
        /\ read + h - 1 + 1 + n = read + h + n
    BY <2>1
  <2>3. QED
    BY <2>2
<1>5. /\ litp' = i /\ joins' = n /\ read' = r
      /\ label' = (IF n = 0 THEN "loop" ELSE "short") /\ block' = block /\ bytes' = bytes
  <2>1. litp' = Opt!After - 2 /\ read' = read + Opt!M.h + Opt!NL
    BY DEF Opt!CopyMatch
  <2>2. litp' = i /\ read' = r
    BY <1>1, <1>3, <1>4, <2>1, Zenon
  <2>3. QED
    BY <1>3, <2>2 DEF Opt!CopyMatch
<1>6. bytes[i] \in Nat /\ bytes[i] % 4 = n
  BY <1>1, <1>3, <1>4
<1>7. OType'
  BY <1>5 DEF OInv, OType, Kinds
<1>8. OUnread'
  <2>1. r >= read
    BY <1>2, <1>4
  <2>2. \A k \in r + 1 .. Len(block) : bytes[k] = block[k]
    BY <1>2, <2>1
  <2>3. QED
    BY <1>2, <1>5, <2>2 DEF OUnread
<1>9. OPlaced'
  <2>1. <<r + 1, IF n = 0 THEN "loop" ELSE "short">> \in PlacesOf(block)
    BY <1>1, <1>3, <1>4
  <2>2. QED
    BY <1>5, <2>1 DEF OPlaced
<1>10. ORun'
  <2>1. Told(i, n, bytes[i], r, label')
    BY <1>4, <1>6 DEF Told
  <2>2. QED
    BY <1>4, <1>5, <1>6, <2>1 DEF ORun
<1>11. QED
  BY <1>7, <1>8, <1>9, <1>10 DEF OInv

LEMMA EofFoundKeeps ==
  ASSUME OInv, NEW h \in Nat, HereIs(h), Opt!EofFound
  PROVE  OInv'
<1>1. Opt!M.h = h /\ read + h = Len(block) /\ h >= 2
  BY DEF HereIs, Opt!EofFound
<1>2. /\ read' = Len(block) /\ label' = "done" /\ block' = block /\ bytes' = bytes
      /\ litp' = litp /\ joins' = joins
  BY <1>1 DEF Opt!EofFound
<1>3. read \in Nat /\ Len(block) \in Nat
  BY <1>1 DEF OInv, OType
<1>4. OType'
  BY <1>2, <1>3 DEF OInv, OType
<1>5. OUnread'
  <2>1. \A k \in read + 1 .. Len(block) : bytes[k] = block[k]
    BY DEF OInv, OUnread
  <2>2. \A k \in Len(block) + 1 .. Len(block) : bytes[k] = block[k]
    BY <1>3
  <2>3. QED
    BY <1>2, <2>2 DEF OInv, OUnread
<1>6. OPlaced' /\ ORun'
  BY <1>2 DEF OPlaced, ORun, Kinds
<1>7. QED
  BY <1>4, <1>5, <1>6 DEF OInv

(* A rewriting finds a match whose bytes are as many as its literals, two  *)
(* for an M1, three for an M3, or two and the byte of the run that follows *)
(* for an M2.                                                              *)
LEMMA JoinKeeps ==
  ASSUME BlocksWhole, OInv, NEW h \in Nat, HereIs(h),
         \/ Opt!JoinM1Short \/ Opt!JoinM1Ahead \/ Opt!JoinM2
         \/ Opt!JoinM3Short \/ Opt!JoinM3Ahead
  PROVE  OInv'
<1>1. /\ bytes[read + 1] \in Nat
      /\ bytes[read + 1] \in 16 .. 63 /\ Opt!M.len = 3 => h = 3
      /\ bytes[read + 1] \notin 16 .. 63 => h = 2
  BY DEF HereIs
<1>2. CASE Opt!JoinM1Short
  <2>1. /\ Opt!Rewritable /\ bytes[read + 1] < 16 /\ Opt!NL = 0 /\ joins = 1 /\ Opt!JoinShort(2)
    BY <1>2 DEF Opt!JoinM1Short, Opt!M1, Opt!M1BeforeMatch
  <2>2. h = 2 /\ joins + 2 = 3
    BY <1>1, <2>1
  <2>3. MayRewrite(2)
    BY <2>1, <2>2, BeforeFacts
  <2>4. QED
    BY <2>1, <2>2, <2>3, JoinShortKeeps
<1>3. CASE Opt!JoinM1Ahead
  <2>1. /\ Opt!Rewritable /\ bytes[read + 1] < 16 /\ label # "run" /\ Opt!NL = 0
        /\ Opt!RunFollows(2) /\ Opt!JoinAhead(2)
    BY <1>3 DEF Opt!JoinM1Ahead, Opt!M1, Opt!M1BeforeRun
  <2>2. h = 2
    BY <1>1, <2>1
  <2>3. MayRewrite(2)
    BY <2>1, <2>2, BeforeFacts
  <2>4. joins <= 3
    BY <2>1, <2>3 DEF MayRewrite, Told
  <2>5. 2 \in 2 .. 3
    OBVIOUS
  <2>6. QED
    BY <2>1, <2>3, <2>4, <2>5, JoinAheadKeeps
<1>4. CASE Opt!JoinM2
  <2>1. /\ Opt!Rewritable /\ bytes[read + 1] >= 64 /\ Opt!NL = 0 /\ joins > 3
        /\ Opt!RunFollows(3) /\ Opt!JoinRuns
    BY <1>4 DEF Opt!JoinM2, Opt!M2BetweenRuns
  <2>2. h = 2
    BY <1>1, <2>1
  <2>3. MayRewrite(2)
    BY <2>1, <2>2, BeforeFacts
  <2>4. QED
    BY <2>1, <2>3, JoinRunsKeeps
<1>5. CASE Opt!JoinM3Short
  <2>1. /\ Opt!Rewritable /\ bytes[read + 1] \in 16 .. 63 /\ Opt!M.len = 3 /\ Opt!NL = 0
        /\ joins = 0 /\ Opt!JoinShort(3)
    BY <1>5 DEF Opt!JoinM3Short, Opt!M3AfterMatch
  <2>2. h = 3 /\ joins + 3 = 3
    BY <1>1, <2>1
  <2>3. MayRewrite(3)
    BY <2>1, <2>2, BeforeFacts
  <2>4. QED
    BY <2>1, <2>2, <2>3, JoinShortKeeps
<1>6. CASE Opt!JoinM3Ahead
  <2>1. /\ Opt!Rewritable /\ bytes[read + 1] \in 16 .. 63 /\ Opt!M.len = 3 /\ Opt!NL = 0
        /\ joins <= 3 /\ Opt!RunFollows(3) /\ Opt!JoinAhead(3)
    BY <1>6 DEF Opt!JoinM3Ahead, Opt!M3BeforeRun
  <2>2. h = 3 /\ 3 \in 2 .. 3
    BY <1>1, <2>1
  <2>3. MayRewrite(3)
    BY <2>1, <2>2, BeforeFacts
  <2>4. QED
    BY <2>1, <2>2, <2>3, JoinAheadKeeps
<1>7. QED
  BY <1>2, <1>3, <1>4, <1>5, <1>6

(* Of every block of whole instructions: litp is where the length of the   *)
(* last run is kept and joins is that length, as lzo1x_oo.ch asserts, after  *)
(* every instruction and every rewriting (RunRemembered), and the pass     *)
(* ends only after the end marker.                                         *)
THEOREM OptimizerRemembersRun ==
  ASSUME BlocksWhole
  PROVE  Opt!Spec => [](RunRemembered /\ (label = "done" => read = Len(block)))
<1>1. ASSUME Opt!Init
      PROVE  OInv
  <2>1. block \in Blocks /\ bytes = block /\ label = "start" /\ read = 0 /\ litp = 0 /\ joins = 0
    BY <1>1 DEF Opt!Init
  <2>2. Opt!WellFormed(block, PlacesOf(block))
    BY <2>1, WholeBlock
  <2>3. block \in Seq(Nat)
    BY <2>2 DEF Opt!WellFormed
  <2>4. block = [k \in 1 .. Len(block) |-> block[k]]
    BY <2>3
  <2>5. OUnread
    BY <2>1, <2>4 DEF OUnread, Sized
  <2>6. OType /\ OPlaced /\ ORun
    BY <2>1 DEF OType, OPlaced, ORun, Kinds
  <2>7. QED
    BY <2>5, <2>6 DEF OInv
<1>2. ASSUME OInv, [Opt!Next]_(Opt!vars)
      PROVE  OInv'
  <2>1. ASSUME Opt!Here
        PROVE  \E h \in Nat : HereIs(h)
    BY <1>2, <2>1, MatchAtHand
  <2>2. CASE Opt!Start
    BY <1>2, <2>2, StartKeeps
  <2>3. CASE Opt!LiteralRun
    BY <1>2, <2>3, LiteralRunKeeps
  <2>4. CASE Opt!CopyMatch
    <3>1. Opt!Here
      BY <2>4 DEF Opt!CopyMatch
    <3>2. PICK h \in Nat : HereIs(h)
      BY <2>1, <3>1
    <3>3. QED
      BY <1>2, <2>4, <3>2, CopyMatchKeeps
  <2>5. CASE Opt!EofFound
    <3>1. Opt!Here
      BY <2>5 DEF Opt!EofFound
    <3>2. PICK h \in Nat : HereIs(h)
      BY <2>1, <3>1
    <3>3. QED
      BY <1>2, <2>5, <3>2, EofFoundKeeps
  <2>6. CASE \/ Opt!JoinM1Short \/ Opt!JoinM1Ahead \/ Opt!JoinM2
             \/ Opt!JoinM3Short \/ Opt!JoinM3Ahead
    <3>1. Opt!Here
      BY <2>6 DEF Opt!JoinM1Short, Opt!JoinM1Ahead, Opt!JoinM2, Opt!JoinM3Short,
                  Opt!JoinM3Ahead, Opt!Rewritable
    <3>2. PICK h \in Nat : HereIs(h)
      BY <2>1, <3>1
    <3>3. QED
      BY <1>2, <2>6, <3>2, JoinKeeps
  <2>7. CASE Opt!Stop \/ UNCHANGED Opt!vars
    <3>1. /\ block' = block /\ bytes' = bytes /\ label' = label /\ read' = read
          /\ litp' = litp /\ joins' = joins
      BY <2>7 DEF Opt!Stop, Opt!vars
    <3>2. QED
      BY <1>2, <3>1 DEF OInv, OType, OUnread, OPlaced, ORun
  <2>8. QED
    BY <1>2, <2>2, <2>3, <2>4, <2>5, <2>6, <2>7 DEF Opt!Next
<1>3. OInv => RunRemembered /\ (label = "done" => read = Len(block))
  BY DEF OInv, OPlaced, ORun, Told, RunRemembered, Opt!RunRemembered
<1>4. QED
  BY <1>1, <1>2, <1>3, PTL DEF Opt!Spec
=============================================================================
