-------------------------- MODULE Lzo1xFast_proofs --------------------------
(***************************************************************************)
(* Whatever the text, the hash and the chunk, lzo1x_1_compress cuts the    *)
(* text into literal runs and true repetitions that the format can say:    *)
(* Lzo1xFast implements LzParse.  The invariant this needs is that all     *)
(* positions the dictionary holds lie behind the one that is looked at.    *)
(***************************************************************************)
EXTENDS Lzo1xFast, WellFoundedInduction, SequenceTheorems, TLAPS

-----------------------------------------------------------------------------
(* The invariant.                                                          *)

TypeOK ==
  /\ text \in Texts /\ at \in {"driver", "search", "done"}
  /\ in \in Nat /\ ip \in Nat /\ ii \in Nat /\ ti \in Nat
  /\ dict \in [Slots -> Nat]

(* Between chunks all pointers are where the next one begins.              *)
AtChunk == at = "driver" => ii = in /\ ip = in

(* The bytes not coded yet begin in the text, at or before ii, and ii is   *)
(* in the chunk.                                                           *)
InText ==
  /\ in <= Len(text)
  /\ at # "done" => ti <= ii
  /\ at = "search" => Left > Margin /\ in <= ii /\ ii <= ip /\ ii <= InEnd

(* A match is a repetition of earlier bytes, never of itself.              *)
Behind == at = "search" => \A k \in Slots : in + dict[k] < ip

(* Before anything is coded four literals are passed at least.             *)
FourFirst == at = "search" /\ ii = ti => ip >= 4

FInv == TypeOK /\ AtChunk /\ InText /\ Behind /\ FourFirst

-----------------------------------------------------------------------------
(* A set of naturals that is not empty has a least element.                *)
LEMMA LeastNatural ==
  ASSUME NEW T \in SUBSET Nat, T # {}
  PROVE  \E n \in T : \A m \in T : n <= m
<1> DEFINE R == OpToRel(<, Nat)
<1>1. IsWellFoundedOn(R, Nat)
  BY NatLessThanWellFounded
<1>2. \A x, y \in Nat : <<y, x>> \in R <=> y < x
  BY DEF OpToRel
<1>3. \E x \in T : \A y \in T : ~ (<<y, x>> \in R)
  <2> HIDE DEF R
  <2>1. QED
    BY <1>1, WFMin
<1>4. PICK x \in T : \A y \in T : ~ (<<y, x>> \in R)
  BY <1>3
<1>5. ASSUME NEW y \in T
      PROVE  x <= y
  <2>1. ~(y < x) /\ x \in Nat /\ y \in Nat
    BY <1>2, <1>4
  <2>2. QED
    BY <2>1
<1>6. QED
  BY <1>5

(* Min and Max of the community modules are what they are called.          *)
LEMMA MinIsLeast ==
  ASSUME NEW S \in SUBSET Nat, S # {}
  PROVE  Min(S) \in S /\ \A m \in S : Min(S) <= m
<1>1. \E n \in S : \A m \in S : n <= m
  BY LeastNatural
<1>2. QED
  BY <1>1 DEF Min

LEMMA MaxIsGreatest ==
  ASSUME NEW K \in Nat, NEW S \in SUBSET (0 .. K), S # {}
  PROVE  Max(S) \in S /\ \A m \in S : m <= Max(S)
<1> DEFINE T == {K - n : n \in S}
<1>1. T \in SUBSET Nat /\ T # {}
  <2>1. PICK n \in S : TRUE
    OBVIOUS
  <2>2. K - n \in T
    BY <2>1
  <2>3. \A m \in S : K - m \in Nat
    OBVIOUS
  <2>4. \A x \in T : x \in Nat
    BY <2>3
  <2>5. QED
    BY <2>2, <2>4
<1>2. PICK x \in T : \A y \in T : x <= y
  <2> HIDE DEF T
  <2>1. QED
    BY <1>1, LeastNatural
<1>3. PICK n \in S : x = K - n
  BY <1>2
<1>4. ASSUME NEW m \in S
      PROVE  n >= m
  <2>1. K - m \in T
    OBVIOUS
  <2>2. K - n <= K - m
    BY <1>2, <1>3, <2>1
  <2>3. QED
    BY <2>2
<1>5. \E x1 \in S : \A y \in S : x1 >= y
  BY <1>4
<1>6. Max(S) \in S /\ \A m \in S : Max(S) >= m
  BY <1>5 DEF Max
<1>7. QED
  BY <1>6

(* A text is a sequence of naturals.                                       *)
LEMMA TextFacts ==
  ASSUME text \in Texts
  PROVE  /\ Len(text) \in Nat
         /\ \A k \in 1 .. Len(text) : text[k] \in Bytes /\ text[k] \in Nat
<1>1. text \in Seq(Bytes) /\ Bytes \subseteq Nat
  BY SearchAssumption
<1>2. Len(text) \in Nat
  BY <1>1, LenProperties
<1>3. \A k \in 1 .. Len(text) : text[k] \in Bytes
  BY <1>1, ElementOfSeq
<1>4. QED
  BY <1>1, <1>2, <1>3

(* The chunk ends in the text; a search begins far enough from its end to  *)
(* read four bytes and to compare two groups.                              *)
LEMMA ChunkFacts ==
  ASSUME TypeOK, InText
  PROVE  /\ Group \in Nat \ {0} /\ Chunk \in Nat /\ Margin = 4 + 2 * Group
         /\ Len(text) \in Nat /\ InEnd \in Nat /\ IpEnd \in Int
         /\ in <= InEnd /\ InEnd <= Len(text) /\ InEnd <= in + Chunk
         /\ IpEnd = InEnd - Margin
<1>1. Len(text) \in Nat
  BY TextFacts DEF TypeOK
<1>2. Group \in Nat \ {0} /\ Chunk \in Nat /\ Margin = 4 + 2 * Group
  BY SearchAssumption
<1>3. in \in Nat /\ in <= Len(text)
  BY DEF TypeOK, InText
<1>4. Left \in Nat /\ Left = Len(text) - in
  BY <1>1, <1>3 DEF Left
<1>5. Min2(Left, Chunk) \in Nat /\ Min2(Left, Chunk) <= Left /\ Min2(Left, Chunk) <= Chunk
  BY <1>2, <1>4 DEF Min2
<1>6. QED
  BY <1>1, <1>2, <1>3, <1>4, <1>5 DEF InEnd, IpEnd

(* The four bytes hashed are bytes of the text.                            *)
LEMMA HashFacts ==
  ASSUME FInv, at = "search", ip < IpEnd
  PROVE  /\ DIndex[DV(ip)] \in Slots
         /\ MPos \in Nat /\ MPos < ip /\ in <= MPos /\ MPos = in + dict[DIndex[DV(ip)]]
<1>1. /\ Len(text) \in Nat /\ ip \in Nat /\ in \in Nat
      /\ \A k \in 1 .. Len(text) : text[k] \in Bytes
  BY TextFacts DEF FInv, TypeOK
<1>2. ip + 3 < Len(text)
  BY <1>1, ChunkFacts DEF FInv
<1>3. \A i \in 0 .. 3 : Byte(ip + i) \in Bytes
  BY <1>1, <1>2 DEF Byte
<1>4. DV(ip) \in [0 .. 3 -> Bytes]
  BY <1>3 DEF DV
<1>5. DIndex[DV(ip)] \in Slots
  BY <1>4, SearchAssumption
<1>6. dict[DIndex[DV(ip)]] \in Nat /\ in + dict[DIndex[DV(ip)]] < ip
  BY <1>5 DEF FInv, TypeOK, Behind
<1>7. QED
  BY <1>1, <1>5, <1>6 DEF MPos

(* Where the comparison of groups ends: at most a group behind ip_end, and *)
(* two groups before the end of the chunk.                                 *)
LEMMA GroupLimit ==
  ASSUME NEW p \in Nat, NEW e \in Int, NEW c \in Nat, NEW g \in Nat \ {0},
         p < e, e - p <= c
  PROVE  LET limit == Min({n \in 1 .. c : p + 4 + g * n >= e})
         IN limit \in Nat /\ limit >= 1 /\ p + 4 + g * limit < e + 4 + g
<1> DEFINE S == {n \in 1 .. c : p + 4 + g * n >= e}
           m == Min(S)
<1>1. c \in S
  <2>1. c >= 1 /\ g >= 1
    OBVIOUS
  <2>2. g * c >= c
    BY <2>1
  <2>3. QED
    BY <2>1, <2>2
<1>2. S \in SUBSET Nat /\ S # {}
  BY <1>1
<1>3. m \in S /\ \A n \in S : m <= n
  <2> HIDE DEF S
  <2>1. QED
    BY <1>2, MinIsLeast
<1>4. CASE m = 1
  <2>1. g * m = g
    BY <1>4
  <2>2. QED
    BY <1>3, <1>4, <2>1
<1>5. CASE m # 1
  <2> HIDE DEF m
  <2>1. m \in 1 .. c
    BY <1>3
  <2>2. m - 1 \in 1 .. c /\ m - 1 \notin S
    BY <1>3, <1>5, <2>1
  <2>3. p + 4 + g * (m - 1) < e
    BY <2>2
  <2>4. g * (m - 1) = g * m - g
    BY <2>1
  <2>5. g * m \in Int
    BY <2>1
  <2>6. p + 4 + g * m < e + 4 + g
    BY <2>3, <2>4, <2>5
  <2>7. QED
    BY <2>1, <2>6 DEF m
<1>6. QED
  BY <1>4, <1>5

(* A match is four bytes long at least, stays in the chunk and repeats     *)
(* every byte.                                                             *)
LEMMA MatchFacts ==
  ASSUME FInv, at = "search", ip < IpEnd, DV(ip) = DV(MPos)
  PROVE  /\ MLen \in Nat /\ MLen >= 4 /\ ip + MLen <= InEnd
         /\ \A i \in 0 .. MLen - 1 : Byte(ip + i) = Byte(MPos + i)
<1> DEFINE limit == Min({n \in 1 .. Chunk : ip + 4 + Group * n >= IpEnd})
           K     == 4 + Group * limit
           S     == {n \in 4 .. K : \A i \in 4 .. n - 1 : Byte(ip + i) = Byte(MPos + i)}
<1>1. /\ Group \in Nat \ {0} /\ Chunk \in Nat /\ Margin = 4 + 2 * Group
      /\ InEnd \in Nat /\ IpEnd \in Int /\ IpEnd = InEnd - Margin /\ InEnd <= in + Chunk
  BY ChunkFacts DEF FInv
<1>2. in \in Nat /\ ip \in Nat /\ in <= ip
  BY DEF FInv, TypeOK, InText
<1>3. IpEnd - ip <= Chunk
  BY <1>1, <1>2
<1>4. limit \in Nat /\ limit >= 1 /\ ip + 4 + Group * limit < IpEnd + 4 + Group
  <2> HIDE DEF limit
  <2>1. LET l == Min({n \in 1 .. Chunk : ip + 4 + Group * n >= IpEnd})
        IN l \in Nat /\ l >= 1 /\ ip + 4 + Group * l < IpEnd + 4 + Group
    BY <1>1, <1>2, <1>3, GroupLimit
  <2>2. QED
    BY <2>1 DEF limit
<1>5. K \in Nat /\ K >= 4 /\ ip + K <= InEnd
  <2> HIDE DEF limit
  <2>1. Group * limit \in Nat
    BY <1>1, <1>4
  <2>2. QED
    BY <1>1, <1>2, <1>4, <2>1
<1>6. MLen = Max(S)
  BY DEF MLen
<1>7. S \in SUBSET (0 .. K) /\ 4 \in S
  <2> HIDE DEF K
  <2>1. QED
    BY <1>5
<1>8. Max(S) \in S
  <2> HIDE DEF S, K
  <2>1. QED
    BY <1>5, <1>7, MaxIsGreatest
<1>9. /\ MLen \in 4 .. K
      /\ \A i \in 4 .. MLen - 1 : Byte(ip + i) = Byte(MPos + i)
  <2> HIDE DEF K
  <2>1. QED
    BY <1>6, <1>8
<1>10. \A i \in 0 .. 3 : Byte(ip + i) = Byte(MPos + i)
  <2>1. \A i \in 0 .. 3 : DV(ip)[i] = Byte(ip + i) /\ DV(MPos)[i] = Byte(MPos + i)
    BY DEF DV
  <2>2. QED
    BY <2>1
<1>11. QED
  <2> HIDE DEF K
  <2>1. MLen \in Nat /\ MLen >= 4 /\ ip + MLen <= InEnd
    BY <1>2, <1>5, <1>9, <1>1
  <2>2. ASSUME NEW i \in 0 .. MLen - 1
        PROVE  Byte(ip + i) = Byte(MPos + i)
    <3>1. i \in 0 .. 3 \/ i \in 4 .. MLen - 1
      BY <2>1
    <3>2. QED
      BY <1>9, <1>10, <3>1
  <2>3. QED
    BY <2>1, <2>2

(* A literal moves on by a byte at least.                                  *)
LEMMA SkipsOn ==
  ASSUME NEW p \in Nat, NEW from \in Nat, from <= p
  PROVE  Skipped(p, from) \in Nat /\ Skipped(p, from) > p
<1>1. SkipAfter \in Nat \ {0} /\ p - from \in Nat
  BY SearchAssumption
<1>2. (p - from) \div SkipAfter \in Nat
  BY <1>1
<1>3. QED
  BY <1>2 DEF Skipped

-----------------------------------------------------------------------------
(* Every step keeps the invariant.                                         *)

LEMMA FInvInit ==
  ASSUME Init
  PROVE  FInv
<1>1. TypeOK
  BY DEF Init, TypeOK
<1>2. Len(text) \in Nat
  BY <1>1, TextFacts DEF TypeOK
<1>3. QED
  BY <1>1, <1>2 DEF Init, FInv, AtChunk, InText, Behind, FourFirst

LEMMA BeginChunkKeeps ==
  ASSUME FInv, BeginChunk
  PROVE  FInv'
<1> DEFINE start == in + (IF ti < 4 THEN 4 - ti ELSE 0)
<1>1. in \in Nat /\ ip \in Nat /\ ii \in Nat /\ ti \in Nat /\ ii = in /\ ti <= ii /\ at = "driver"
  BY DEF FInv, TypeOK, AtChunk, InText, BeginChunk
<1>2. start \in Nat /\ in <= start /\ (in = ti => start >= 4)
  BY <1>1
<1>3. ip' \in Nat /\ ip' > start
  <2>1. ip' = Skipped(start, in)
    BY DEF BeginChunk
  <2> HIDE DEF start
  <2>2. QED
    BY <1>1, <1>2, <2>1, SkipsOn
<1>4. /\ dict' = [k \in Slots |-> 0] /\ ii' = in /\ at' = "search"
      /\ text' = text /\ in' = in /\ ti' = ti /\ Left > Margin
  BY DEF BeginChunk
<1>5. InEnd' = InEnd /\ Left' = Left
  BY <1>4 DEF InEnd, Left
<1>6. in <= InEnd /\ InEnd \in Nat
  BY ChunkFacts DEF FInv
<1> HIDE DEF start
<1>7. TypeOK'
  BY <1>1, <1>3, <1>4 DEF FInv, TypeOK
<1>8. AtChunk'
  BY <1>4 DEF AtChunk
<1>9. InText'
  BY <1>1, <1>2, <1>3, <1>4, <1>5, <1>6 DEF FInv, InText
<1>10. Behind'
  BY <1>1, <1>2, <1>3, <1>4 DEF Behind
<1>11. FourFirst'
  BY <1>1, <1>2, <1>3, <1>4 DEF FourFirst
<1>12. QED
  BY <1>7, <1>8, <1>9, <1>10, <1>11 DEF FInv

LEMMA EndChunkKeeps ==
  ASSUME FInv, EndChunk
  PROVE  FInv'
<1>1. /\ in \in Nat /\ ii \in Nat /\ ti \in Nat /\ ti <= ii /\ ii <= InEnd
      /\ at = "search" /\ text \in Texts /\ dict \in [Slots -> Nat]
  BY DEF FInv, TypeOK, InText, EndChunk
<1>2. InEnd \in Nat /\ InEnd <= Len(text) /\ Len(text) \in Nat
  BY ChunkFacts DEF FInv
<1>3. /\ ti' = InEnd - (ii - ti) /\ in' = InEnd /\ ip' = InEnd /\ ii' = InEnd
      /\ at' = "driver" /\ text' = text /\ dict' = dict
  BY DEF EndChunk
<1>4. ti' \in Nat /\ ti' <= ii'
  BY <1>1, <1>2, <1>3
<1>5. TypeOK'
  BY <1>1, <1>2, <1>3, <1>4 DEF TypeOK
<1>6. AtChunk' /\ InText' /\ Behind' /\ FourFirst'
  BY <1>2, <1>3, <1>4 DEF AtChunk, InText, Behind, FourFirst
<1>7. QED
  BY <1>5, <1>6 DEF FInv

(* Update notes the position that is looked at; whatever is looked at next *)
(* is further on.                                                          *)
LEMMA UpdateKeeps ==
  ASSUME FInv, at = "search", ip < IpEnd, Update, in' = in, NEW q \in Nat, q > ip
  PROVE  dict' \in [Slots -> Nat] /\ \A k \in Slots : in' + dict'[k] < q
<1>1. /\ in \in Nat /\ ip \in Nat /\ in <= ip /\ dict \in [Slots -> Nat]
      /\ \A k \in Slots : in + dict[k] < ip
  BY DEF FInv, TypeOK, InText, Behind
<1>2. PICK h \in Slots : h = DIndex[DV(ip)]
  BY HashFacts
<1>3. dict' = [dict EXCEPT ![h] = ip - in]
  BY <1>2 DEF Update
<1>4. ip - in \in Nat
  BY <1>1
<1>5. dict' \in [Slots -> Nat]
  BY <1>1, <1>3, <1>4
<1>6. ASSUME NEW k \in Slots
      PROVE  in + dict'[k] < q
  <2>1. dict'[k] = dict[k] \/ dict'[k] = ip - in
    BY <1>1, <1>3
  <2>2. dict[k] \in Nat /\ in + dict[k] < ip
    BY <1>1
  <2>3. QED
    BY <1>1, <2>1, <2>2
<1>7. QED
  BY <1>5, <1>6

LEMMA LiteralKeeps ==
  ASSUME FInv, Literal
  PROVE  FInv'
<1>1. /\ at = "search" /\ ip < IpEnd /\ Update /\ ip' = Skipped(ip, ii)
      /\ text' = text /\ at' = at /\ in' = in /\ ii' = ii /\ ti' = ti
  BY DEF Literal
<1>2. ip \in Nat /\ ii \in Nat /\ ii <= ip
  BY <1>1 DEF FInv, TypeOK, InText
<1>3. ip' \in Nat /\ ip' > ip
  BY <1>1, <1>2, SkipsOn
<1>4. dict' \in [Slots -> Nat] /\ \A k \in Slots : in' + dict'[k] < ip'
  BY <1>1, <1>3, UpdateKeeps
<1>5. InEnd' = InEnd /\ Left' = Left
  BY <1>1 DEF InEnd, Left
<1>6. TypeOK'
  BY <1>1, <1>3, <1>4 DEF FInv, TypeOK
<1>7. AtChunk'
  BY <1>1 DEF AtChunk
<1>8. InText'
  BY <1>1, <1>2, <1>3, <1>5 DEF FInv, InText
<1>9. Behind'
  BY <1>4 DEF Behind
<1>10. FourFirst'
  BY <1>1, <1>2, <1>3 DEF FInv, FourFirst
<1>11. QED
  BY <1>6, <1>7, <1>8, <1>9, <1>10 DEF FInv

LEMMA MatchKeeps ==
  ASSUME FInv, Match
  PROVE  FInv'
<1>1. /\ at = "search" /\ ip < IpEnd /\ DV(ip) = DV(MPos) /\ Update
      /\ ip' = ip + MLen /\ ii' = ip + MLen /\ ti' = 0
      /\ text' = text /\ at' = at /\ in' = in
  BY DEF Match
<1>2. MLen \in Nat /\ MLen >= 4 /\ ip + MLen <= InEnd
  BY <1>1, MatchFacts
<1>3. in \in Nat /\ ip \in Nat /\ ii \in Nat /\ in <= ii /\ ii <= ip
  BY <1>1 DEF FInv, TypeOK, InText
<1>4. ip' \in Nat /\ ip' > ip /\ ii' = ip'
  BY <1>1, <1>2, <1>3
<1>5. dict' \in [Slots -> Nat] /\ \A k \in Slots : in' + dict'[k] < ip'
  BY <1>1, <1>4, UpdateKeeps
<1>6. InEnd' = InEnd /\ Left' = Left
  BY <1>1 DEF InEnd, Left
<1>7. TypeOK'
  BY <1>1, <1>4, <1>5 DEF FInv, TypeOK
<1>8. AtChunk'
  BY <1>1 DEF AtChunk
<1>9. InText'
  BY <1>1, <1>2, <1>3, <1>4, <1>6 DEF FInv, InText
<1>10. Behind'
  BY <1>5 DEF Behind
<1>11. FourFirst'
  BY <1>1, <1>2, <1>3 DEF FourFirst
<1>12. QED
  BY <1>7, <1>8, <1>9, <1>10, <1>11 DEF FInv

LEMMA FinishKeeps ==
  ASSUME FInv, Finish
  PROVE  FInv'
<1>1. /\ at = "driver" /\ ti' = ti + Left /\ ii' = Len(text) /\ at' = "done"
      /\ text' = text /\ in' = in /\ ip' = ip /\ dict' = dict
  BY DEF Finish
<1>2. in \in Nat /\ in <= Len(text) /\ Len(text) \in Nat /\ ti \in Nat
  BY ChunkFacts DEF FInv, TypeOK, InText
<1>3. Left \in Nat
  BY <1>2 DEF Left
<1>4. TypeOK'
  BY <1>1, <1>2, <1>3 DEF FInv, TypeOK
<1>5. AtChunk' /\ InText' /\ Behind' /\ FourFirst'
  BY <1>1, <1>2 DEF AtChunk, InText, Behind, FourFirst
<1>6. QED
  BY <1>4, <1>5 DEF FInv

LEMMA FInvStep ==
  ASSUME FInv, [Next]_vars
  PROVE  FInv'
<1>1. CASE BeginChunk
  BY <1>1, BeginChunkKeeps
<1>2. CASE EndChunk
  BY <1>2, EndChunkKeeps
<1>3. CASE Literal
  BY <1>3, LiteralKeeps
<1>4. CASE Match
  BY <1>4, MatchKeeps
<1>5. CASE Finish
  BY <1>5, FinishKeeps
<1>6. CASE Stop \/ UNCHANGED vars
  BY <1>6 DEF Stop, vars, FInv, TypeOK, AtChunk, InText, Behind, FourFirst, Left, InEnd
<1>7. QED
  BY <1>1, <1>2, <1>3, <1>4, <1>5, <1>6 DEF Next

(* All positions in the dictionary lie behind the one that is looked at,   *)
(* so that no chunk is searched with what another left in it, and the      *)
(* pointers stay in the text.                                              *)
THEOREM SearchInvariant ==
  Spec => []FInv
<1>1. Init => FInv
  BY FInvInit
<1>2. FInv /\ [Next]_vars => FInv'
  BY FInvStep
<1>3. QED
  BY <1>1, <1>2, PTL DEF Spec

-----------------------------------------------------------------------------
(* Every step codes a piece that the format can say, ends, or codes        *)
(* nothing.                                                                *)

(* What a match repeats, in the positions of LzParse.                      *)
LEMMA MatchRepeats ==
  ASSUME FInv, at = "search", ip < IpEnd, DV(ip) = DV(MPos), Coded = ii - ti
  PROVE  Parse!Repeats(ip - (ii - ti), MLen, ip - MPos)
<1>1. text \in Seq(Bytes)
  BY SearchAssumption DEF FInv, TypeOK
<1>2. <<>> \o text = text
  BY <1>1, ConcatEmptySeq
<1>3. Len(<<>>) = 0
  BY EmptySeq
<1>4. /\ ip \in Nat /\ ii \in Nat /\ ti \in Nat /\ Len(text) \in Nat /\ InEnd <= Len(text)
      /\ InEnd \in Nat
  BY ChunkFacts DEF FInv, TypeOK
<1>5. MPos \in Nat /\ MPos < ip
  BY HashFacts
<1>6. /\ MLen \in Nat /\ MLen >= 4 /\ ip + MLen <= InEnd
      /\ \A i \in 0 .. MLen - 1 : Byte(ip + i) = Byte(MPos + i)
  BY MatchFacts
<1>7. Len(<<>>) + Coded + (ip - (ii - ti)) = ip
  BY <1>3, <1>4
<1>8. ip - MPos \in 1 .. ip /\ ip + MLen <= Len(text)
  BY <1>4, <1>5, <1>6
<1>9. ASSUME NEW k \in ip + 1 .. ip + MLen
      PROVE  text[k] = text[k - (ip - MPos)]
  <2>1. PICK i \in 0 .. MLen - 1 : k = ip + i + 1
    <3>1. k - ip - 1 \in 0 .. MLen - 1 /\ k = ip + (k - ip - 1) + 1
      BY <1>4, <1>6
    <3>2. QED
      BY <3>1
  <2>2. Byte(ip + i) = Byte(MPos + i)
    BY <1>6
  <2>3. ip + i < Len(text) /\ MPos + i < Len(text)
    BY <1>4, <1>5, <1>6, <1>8
  <2>4. Byte(ip + i) = text[ip + i + 1] /\ Byte(MPos + i) = text[MPos + i + 1]
    BY <2>3 DEF Byte
  <2>5. k - (ip - MPos) = MPos + i + 1
    BY <1>4, <1>5, <2>1
  <2>6. QED
    BY <2>1, <2>2, <2>4, <2>5
<1>10. QED
  BY <1>2, <1>7, <1>8, <1>9 DEF Parse!Repeats

(* The format can say it: it is longer than the forms with limits of their *)
(* own, no distance is beyond the chunk, and the first run is long enough. *)
LEMMA MatchAllowed ==
  ASSUME FInv, at = "search", ip < IpEnd, DV(ip) = DV(MPos), Coded = ii - ti
  PROVE  Parse!Allowed(ip - (ii - ti), MLen, ip - MPos)
<1>1. /\ ip \in Nat /\ ii \in Nat /\ ti \in Nat /\ in \in Nat
      /\ InEnd \in Nat /\ InEnd <= in + Chunk /\ Chunk \in Nat
  BY ChunkFacts DEF FInv, TypeOK
<1>2. MPos \in Nat /\ in <= MPos
  BY HashFacts
<1>3. MLen \in Nat /\ MLen >= 4 /\ ip + MLen <= InEnd
  BY MatchFacts
<1>4. ip - MPos <= M4Max
  BY <1>1, <1>2, <1>3, ChunkAssumption
<1>5. Coded = 0 => ip - (ii - ti) >= 4
  BY <1>1 DEF FInv, FourFirst
<1>6. QED
  BY <1>3, <1>4, <1>5 DEF Parse!Allowed

LEMMA CodesNothing ==
  ASSUME text' = text, piece' = piece, at # "done", at' # "done", ii' - ti' = ii - ti
  PROVE  UNCHANGED Parse!vars
BY DEF Parse!vars, Coded

LEMMA ParseStep ==
  ASSUME FInv, [Next]_vars
  PROVE  [Parse!Next]_(Parse!vars)
<1>1. CASE BeginChunk
  <2>1. ii' = ii /\ ti' = ti /\ text' = text /\ piece' = piece /\ at # "done" /\ at' # "done"
    BY <1>1 DEF BeginChunk, FInv, AtChunk
  <2>2. QED
    BY <2>1, CodesNothing
<1>2. CASE EndChunk
  <2>1. text' = text /\ piece' = piece /\ at # "done" /\ at' # "done"
    BY <1>2 DEF EndChunk
  <2>2. ii \in Nat /\ ti \in Nat /\ InEnd \in Nat
    BY ChunkFacts DEF FInv, TypeOK
  <2>3. ii' - ti' = ii - ti
    BY <1>2, <2>2 DEF EndChunk
  <2>4. QED
    BY <2>1, <2>3, CodesNothing
<1>3. CASE Literal
  <2>1. ii' = ii /\ ti' = ti /\ text' = text /\ piece' = piece /\ at # "done" /\ at' # "done"
    BY <1>3 DEF Literal
  <2>2. QED
    BY <2>1, CodesNothing
<1>4. CASE Match
  <2>1. /\ at = "search" /\ ip < IpEnd /\ DV(ip) = DV(MPos)
        /\ ii' = ip + MLen /\ ti' = 0 /\ text' = text /\ at' = at
        /\ piece' = [lit |-> ip - (ii - ti), len |-> MLen, off |-> ip - MPos]
    BY <1>4 DEF Match
  <2>2. Coded = ii - ti
    BY <2>1 DEF Coded
  <2>3. /\ piece'.lit = ip - (ii - ti) /\ piece'.len = MLen /\ piece'.off = ip - MPos
    BY <2>1
  <2>4. Parse!Allowed(piece'.lit, piece'.len, piece'.off)
    BY <2>1, <2>2, <2>3, MatchAllowed
  <2>5. Parse!Repeats(piece'.lit, piece'.len, piece'.off)
    BY <2>1, <2>2, <2>3, MatchRepeats
  <2>6. Coded' = Coded + piece'.lit + piece'.len
    <3>1. MLen \in Nat /\ ip \in Nat /\ ii \in Nat /\ ti \in Nat
      BY <2>1, MatchFacts DEF FInv, TypeOK
    <3>2. Coded' = ip + MLen
      BY <2>1, <3>1 DEF Coded
    <3>3. QED
      BY <2>2, <2>3, <3>1, <3>2
  <2>7. ~(at = "done") /\ (at' = "done") = (at = "done")
    BY <2>1
  <2>8. Parse!Pair(piece')
    BY <2>1, <2>4, <2>5, <2>6, <2>7 DEF Parse!Pair
  <2>9. QED
    BY <2>8 DEF Parse!Next
<1>5. CASE Finish
  <2>1. at # "done" /\ at' = "done" /\ text' = text /\ piece' = piece
    BY <1>5 DEF Finish
  <2>2. Coded' = Len(text)
    BY <2>1 DEF Coded
  <2>3. Parse!End
    BY <2>1, <2>2 DEF Parse!End
  <2>4. QED
    BY <2>3 DEF Parse!Next
<1>6. CASE Stop \/ UNCHANGED vars
  BY <1>6 DEF Stop, vars, Parse!vars, Coded
<1>7. QED
  BY <1>1, <1>2, <1>3, <1>4, <1>5, <1>6 DEF Next

(* lzo1x_1_compress cuts any text, whatever the hash, into literals and    *)
(* true repetitions that the format can say, as long as no distance in a   *)
(* chunk is beyond M4_MAX_OFFSET.                                          *)
THEOREM FastImplementsParse ==
  Spec => FastParses
<1>1. Init => Parse!Init
  BY DEF Init, Parse!Init, Coded
<1>2. FInv /\ [Next]_vars => [Parse!Next]_(Parse!vars)
  BY ParseStep
<1>3. QED
  BY <1>1, <1>2, SearchInvariant, PTL DEF Spec, FastParses, Parse!Spec
=============================================================================
