---------------------------- MODULE Lzo1xFormat ----------------------------
(***************************************************************************)
(* The instructions of an LZO1X or LZO1Y stream, as code_match and         *)
(* STORE_RUN of lzo1x_9x.c write them (the fast compressor, lzo1x_c.ch,    *)
(* writes the same bytes) and as lzo1x_d.ch takes them apart.  A match of  *)
(* len bytes at distance off that follows lit literals has five forms:     *)
(*   M1  2 bytes, near, after one to three literals                        *)
(*   M2  3 to M2MaxLen bytes, near                                         *)
(*   MX  3 bytes, a little further, after four literals or more            *)
(*   M3  any length, distance up to M3Max                                  *)
(*   M4  any length, distance up to M4Max                                  *)
(* The two low bits of a match's last byte but one are left free for the   *)
(* number of literals, up to three, that follow it.                        *)
(***************************************************************************)
EXTENDS Integers, Sequences

CONSTANT
  M2Low     (* Distances in the first byte of an M2: 8 in LZO1X, 4 in 1Y.  *)

ASSUME M2LowAssumption == M2Low \in {4, 8}

M1Max    == 1024
M2Max    == 256 * M2Low
M2MaxLen == 48 \div M2Low + 2
MXMax    == M1Max + M2Max
M3Max    == 16384
M3MaxLen == 33
M4Max    == 49151
M4MaxLen == 9

(* M3_MARKER, M4_MARKER; M2_MARKER is 64, M1_MARKER 0.                     *)
M3Marker == 32
M4Marker == 16

EndOfStream == <<M4Marker + 1, 0, 0>>

(* What is left of a length: a zero byte for every 255 as long as more     *)
(* than 255 is left, then the rest, which is never zero.                   *)
Zeros(n) == (n - 1) \div 255
Run(n)   == [k \in 1 .. Zeros(n) + 1 |-> IF k <= Zeros(n) THEN 0 ELSE n - 255 * Zeros(n)]

(* Which form code_match takes: the first of these, or else an M4.         *)
IsM1(lit, len, off) == len = 2
IsM2(lit, len, off) == len >= 3 /\ len <= M2MaxLen /\ off <= M2Max
IsMX(lit, len, off) == len = 3 /\ off > M2Max /\ off <= MXMax /\ lit >= 4
IsM3(lit, len, off) == off <= M3Max

(* The opcode with a length up to maxLen in it, or a zero and a run.       *)
Lengthened(marker, maxLen, len) ==
  IF len <= maxLen THEN <<marker + len - 2>> ELSE <<marker>> \o Run(len - maxLen)

(* "LZO_BYTE(m_off << 2)" and "LZO_BYTE(m_off >> 6)".                      *)
Distance(d) == <<4 * (d % 64), (d \div 64) % 256>>

(* "(m_off & 0x4000) >> 14", for a distance counted from 0x4000.           *)
HighBit(d) == d \div 16384

(* An M1 or MX: distance d, counted from 0.                                *)
NearCode(d) == <<4 * (d % 4), d \div 4>>

M2Code(len, d) == <<64 + 4 * M2Low * (len - 3) + 4 * (d % M2Low), d \div M2Low>>

(* code_match, lzo1x_9x.c, and the end of do_compress, lzo1x_c.ch.         *)
MatchCode(lit, len, off) ==
  IF IsM1(lit, len, off) THEN NearCode(off - 1)
  ELSE IF IsM2(lit, len, off) THEN M2Code(len, off - 1)
  ELSE IF IsMX(lit, len, off) THEN NearCode(off - 1 - M2Max)
  ELSE IF IsM3(lit, len, off)
    THEN Lengthened(M3Marker, M3MaxLen, len) \o Distance(off - 1)
  ELSE LET d == off - M3Max
       IN Lengthened(M4Marker + 8 * HighBit(d), M4MaxLen, len) \o Distance(d)

(* Slip: three distant bytes are coded after any literals. *)
CodableFar(first, lit, len, off) ==
  /\ len >= 2 /\ off >= 1 /\ off <= M4Max
  /\ first => lit > 0
  /\ len = 2 => ~first /\ lit \in 1 .. 3 /\ off <= M1Max

(* What a compressor asks code_match for: two bytes only as an M1, which   *)
(* cannot be the first match; no match before the first literal; and not   *)
(* three distant bytes after four literals or more, which would not pay.   *)
Codable(first, lit, len, off) ==
  /\ len >= 2 /\ off >= 1 /\ off <= M4Max
  /\ first => lit > 0
  /\ len = 2 => ~first /\ lit \in 1 .. 3 /\ off <= M1Max
  /\ len = 3 /\ off > MXMax => lit < 4

(* len_of_coded_match: the price the lazy search compares; 0 if the match  *)
(* cannot be coded.                                                        *)
LenOfCodedMatch(len, off, lit) ==
  LET Long(maxLen) == IF len <= maxLen THEN 3 ELSE 4 + Zeros(len - maxLen)
  IN IF len < 2 THEN 0
     ELSE IF IsM1(lit, len, off) THEN (IF off <= M1Max /\ lit > 0 /\ lit < 4 THEN 2 ELSE 0)
     ELSE IF IsM2(lit, len, off) \/ IsMX(lit, len, off) THEN 2
     ELSE IF IsM3(lit, len, off) THEN Long(M3MaxLen)
     ELSE IF off <= M4Max THEN Long(M4MaxLen) ELSE 0

(* The parts the decoder gets back: the form by the opcode t, then lengths *)
(* and distances from it and the bytes b, c that follow.                   *)
M2Length(t)      == (t - 64) \div (4 * M2Low) + 3
M2Distance(t, b) == 1 + ((t \div 4) % M2Low) + M2Low * b
NearDistance(t, b) == 1 + t \div 4 + 4 * b
FarDistance(b, c)  == b \div 4 + 64 * c
=============================================================================
