----------------------------- MODULE Lzo1xFast -----------------------------
(***************************************************************************)
(* How lzo1x_1_compress (lzo1x_c.ch) finds matches: the text is cut into   *)
(* chunks, each searched with an empty dictionary of positions, one per    *)
(* hash of four bytes; literals that a chunk leaves over go before the     *)
(* first match of the next.  This is the branch LZO_DETERMINISTIC selects  *)
(* (lzo1x_1.c), with the 64 bit comparison.  Positions count from 0; a     *)
(* step is one turn of the search loop.                                    *)
(***************************************************************************)
EXTENDS Integers, Sequences, FiniteSetsExt

CONSTANTS
  Bytes,      (* The values of a byte.                                     *)
  Texts,      (* The texts to compress.                                    *)
  Chunk,      (* 49152: no distance inside a chunk is beyond M4_MAX_OFFSET.*)
  Margin,     (* 20, which is 4 + 2 * Group: the search stops that far     *)
              (* before the chunk's end.                                   *)
  Group,      (* 8: bytes compared at a time.                              *)
  SkipAfter,  (* 32: literals after which the search skips one more byte.  *)
  DIndex,     (* The hash of four bytes: any function will do.             *)
  Slots,      (* Its values.                                               *)
  M1Max, M2Max, M4Max     (* Limits of distances, for LzParse.             *)

(* What the search takes for granted of them.                              *)
ASSUME SearchAssumption ==
  /\ Bytes \subseteq Nat /\ Texts \subseteq Seq(Bytes)
  /\ Group \in Nat \ {0} /\ SkipAfter \in Nat \ {0}
  /\ Margin = 4 + 2 * Group /\ Chunk \in Nat /\ Chunk > Margin
  /\ DIndex \in [[0 .. 3 -> Bytes] -> Slots]
ASSUME ChunkAssumption == M4Max \in Nat /\ Chunk <= M4Max + 1

VARIABLES
  text,
  at,       (* "driver" in DO_COMPRESS, "search" in do_compress, "done".   *)
  in,       (* Where the chunk begins.                                     *)
  ip,       (* What is looked at.                                          *)
  ii,       (* What is not coded yet begins ti bytes before ii.            *)
  ti,
  dict,     (* Positions in the chunk, 0 to begin with.                    *)
  piece     (* The last run and match written.                             *)

vars == <<text, at, in, ip, ii, ti, dict, piece>>

Min2(a, b) == IF a <= b THEN a ELSE b

Left  == Len(text) - in
InEnd == in + Min2(Left, Chunk)
IpEnd == InEnd - Margin

(* Beyond the text is what no text has.                                    *)
Byte(k) == IF k < Len(text) THEN text[k + 1] ELSE -1
DV(k)   == [i \in 0 .. 3 |-> Byte(k + i)]

(* "literal: ip += 1 + ((ip - ii) >> 5)".                                  *)
Skipped(p, from) == p + 1 + (p - from) \div SkipAfter

Init ==
  /\ text \in Texts
  /\ at = "driver" /\ in = 0 /\ ip = 0 /\ ii = 0 /\ ti = 0
  /\ dict = [k \in Slots |-> 0]
  /\ piece = [lit |-> 0, len |-> 0, off |-> 0]

(* Slip: the loop is entered at "next". *)
BeginChunkAtNext ==
  /\ at = "driver" /\ Left > Margin
  /\ dict' = [k \in Slots |-> 0]
  /\ ip' = in + (IF ti < 4 THEN 4 - ti ELSE 0)
  /\ ii' = in
  /\ at' = "search"
  /\ UNCHANGED <<text, in, ti, piece>>

(* A chunk begins with four literals at least; the loop is entered at      *)
(* "literal", so that the position 0 of an unused slot is always behind.   *)
BeginChunk ==
  /\ at = "driver" /\ Left > Margin
  /\ dict' = [k \in Slots |-> 0]
  /\ ip' = Skipped(in + (IF ti < 4 THEN 4 - ti ELSE 0), in)
  /\ ii' = in
  /\ at' = "search"
  /\ UNCHANGED <<text, in, ti, piece>>

(* do_compress returns what it leaves over; DO_COMPRESS goes on behind it. *)
EndChunk ==
  /\ at = "search" /\ ip >= IpEnd
  /\ ti' = InEnd - (ii - ti)
  /\ in' = InEnd /\ ip' = InEnd /\ ii' = InEnd
  /\ at' = "driver"
  /\ UNCHANGED <<text, dict, piece>>

MPos == in + dict[DIndex[DV(ip)]]
Update == dict' = [dict EXCEPT ![DIndex[DV(ip)]] = ip - in]

Literal ==
  /\ at = "search" /\ ip < IpEnd /\ DV(ip) # DV(MPos)
  /\ Update
  /\ ip' = Skipped(ip, ii)
  /\ UNCHANGED <<text, at, in, ii, ti, piece>>

(* As far as the bytes agree, but no group is compared that begins at      *)
(* ip_end or behind.                                                       *)
MLen ==
  LET limit == Min({n \in 1 .. Chunk : ip + 4 + Group * n >= IpEnd})
  IN Max({n \in 4 .. 4 + Group * limit : \A i \in 4 .. n - 1 : Byte(ip + i) = Byte(MPos + i)})

Match ==
  /\ at = "search" /\ ip < IpEnd /\ DV(ip) = DV(MPos)
  /\ Update
  /\ piece' = [lit |-> ip - (ii - ti), len |-> MLen, off |-> ip - MPos]
  /\ ip' = ip + MLen /\ ii' = ip + MLen /\ ti' = 0
  /\ UNCHANGED <<text, at, in>>

(* The last run and the end marker.                                        *)
Finish ==
  /\ at = "driver" /\ Left <= Margin
  /\ ti' = ti + Left /\ ii' = Len(text)
  /\ at' = "done"
  /\ UNCHANGED <<text, in, ip, dict, piece>>

Stop == at = "done" /\ UNCHANGED vars

Next == BeginChunk \/ EndChunk \/ Literal \/ Match \/ Finish \/ Stop

Spec == Init /\ [][Next]_vars

Coded == IF at = "done" THEN Len(text) ELSE ii - ti

-----------------------------------------------------------------------------
(* The fast compressor has no dictionary but the text.                     *)
Parse == INSTANCE LzParse WITH
  dict <- <<>>, coded <- Coded, ended <- at = "done", MinFirst <- 4,
  MXMax <- M1Max + M2Max

(* lzo1x_1_compress cuts any text into literals and true repetitions that  *)
(* the format can say: no match with itself, with another chunk's bytes,   *)
(* or across the end; and the first run is long enough to need no match    *)
(* before it (lzo1x_c.ch).                                                 *)
FastParses == Parse!Spec
=============================================================================
