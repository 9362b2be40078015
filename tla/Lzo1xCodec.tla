----------------------------- MODULE Lzo1xCodec -----------------------------
(***************************************************************************)
(* One block through the LZO1X format: a compressor writes literal runs    *)
(* and matches of its choice (code_run, STORE_RUN and code_match,          *)
(* lzo1x_9x.c; do_compress, lzo1x_c.ch), the block is kept, and the        *)
(* checked decoder of lzo1x_d.ch (the COPY_DICT variant of lzo1x_d3.c,     *)
(* which without a dictionary is lzo1x_decompress_safe) reads it, perhaps  *)
(* less than all of it, perhaps with too little room.  Without the checks  *)
(* the same code is lzo1x_decompress.                                      *)
(*                                                                         *)
(* A step of the decoder is one instruction; `at' is its label.  A literal *)
(* byte is Lit whatever it stands for, which no opcode is.                 *)
(***************************************************************************)
EXTENDS Lzo1xFormat, SequencesExt

CONSTANTS
  Menu,       (* The literal run and match tried: Menu[k] is the set of    *)
              (* [lit, len, off] for the k-th match, its length a bound.   *)
  Tails,      (* The lengths tried for the run after the last match.       *)
  Damages,    (* What becomes of a block: [cut, short], the bytes missing  *)
              (* at its end and in the output buffer.                      *)
  DictLen     (* Bytes of the dictionary both sides share.                 *)

ASSUME CodecAssumption ==
  /\ Menu \in Seq(SUBSET [lit : Nat, len : Nat, off : Nat])
  /\ Tails \subseteq Nat
  /\ Damages \subseteq [cut : Nat, short : Nat]
  /\ DictLen \in Nat

VARIABLES
  script,   (* The pieces coded: where in the text, how long, from which   *)
            (* distance; a literal run has distance 0.                     *)
  code,     (* The block, in bytes.                                        *)
  damage,   (* What was done to it.                                        *)
  at,       (* The label of the decoder; "code" while the block is made.   *)
  ip,       (* Bytes read.                                                 *)
  op,       (* Bytes written.                                              *)
  t,        (* The literals to copy at match_next.                         *)
  out,      (* The pieces decoded.                                         *)
  result    (* The error code, and None before.                            *)

vars == <<script, code, damage, at, ip, op, t, out, result>>

Lit  == -1
None == "none"

Matches == Len(SelectSeq(script, LAMBDA p : p.off > 0))

(* Where the text ends that the pieces stand for.                          *)
Bytes(pieces) == IF pieces = <<>> THEN 0 ELSE Last(pieces).pos + Last(pieces).len

Literals(pos, n) == IF n = 0 THEN <<>> ELSE <<[pos |-> pos, len |-> n, off |-> 0]>>

Whole == [cut |-> 0, short |-> 0]
InLen == Len(code) - damage.cut
Room  == Bytes(script) - damage.short

-----------------------------------------------------------------------------
(* The compressor.                                                         *)

(* STORE_RUN: a first run may say its length in one byte (the core of the  *)
(* fast compressor does not use that form); up to three literals are noted *)
(* in the match before; more have an instruction of their own.             *)
Noted(done, n) == [done EXCEPT ![Len(done) - 1] = @ + n]
RunCode(n)     == IF n <= 18 THEN <<n - 3>> ELSE <<0>> \o Run(n - 18)

StoreRun(done, n, shortForm) ==
  LET literals == [k \in 1 .. n |-> Lit]
  IN CASE n = 0 -> done
       [] n > 0 /\ done = <<>> /\ n <= 238 /\ shortForm -> <<17 + n>> \o literals
       [] OTHER -> (IF n <= 3 THEN Noted(done, n) ELSE done \o RunCode(n)) \o literals

Init ==
  /\ script = <<>> /\ code = <<>> /\ damage = Whole
  /\ at = "code" /\ ip = 0 /\ op = 0 /\ t = 0 /\ out = <<>> /\ result = None

Code(pair, shortForm) ==
  /\ at = "code"
  /\ Codable(code = <<>>, pair.lit, pair.len, pair.off)
  /\ pair.off <= Bytes(script) + pair.lit + DictLen
  /\ shortForm \/ (code = <<>> /\ pair.lit >= 4)
  /\ code' = StoreRun(code, pair.lit, shortForm) \o MatchCode(pair.lit, pair.len, pair.off)
  /\ script' = (script \o Literals(Bytes(script), pair.lit))
                \o <<[pos |-> Bytes(script) + pair.lit, len |-> pair.len, off |-> pair.off]>>
  /\ UNCHANGED <<damage, at, ip, op, t, out, result>>

(* The final run and the end marker; then the block goes its way.          *)
Finish(n, d) ==
  /\ at = "code"
  /\ code' = StoreRun(code, n, TRUE) \o EndOfStream
  /\ script' = script \o Literals(Bytes(script), n)
  /\ d.cut < Len(code') /\ d.short <= Bytes(script')
  /\ damage' = d
  /\ at' = "start"
  /\ UNCHANGED <<ip, op, t, out, result>>

-----------------------------------------------------------------------------
(* The decoder.                                                            *)

(* The k-th byte from ip; beyond the input, whatever follows it in memory. *)
Byte(k) == IF ip + k \in 1 .. Len(code) THEN code[ip + k] ELSE 0

Return(r) ==
  /\ result' = r /\ at' = "done"
  /\ UNCHANGED <<script, code, damage, ip, op, t, out>>

NeedIp(n) == InLen - ip >= n      (* "goto input_overrun" otherwise        *)
NeedOp(n) == Room - op >= n       (* "goto output_overrun" otherwise       *)

(* Slip: the output is not checked. *)
CopyLiteralsFreely(h, n, next) ==
  IF ~NeedIp(h + n + 3) THEN Return("INPUT_OVERRUN")
  ELSE /\ ip' = ip + h + n /\ op' = op + n /\ out' = out \o Literals(op, n)
       /\ at' = next
       /\ UNCHANGED <<script, code, damage, t, result>>

(* n literals after a header of h bytes, then on to the label next.  The   *)
(* three bytes beyond them are the shortest that can follow.               *)
CopyLiterals(h, n, next) ==
  CASE ~NeedOp(n) -> Return("OUTPUT_OVERRUN")
    [] NeedOp(n) /\ ~NeedIp(h + n + 3) -> Return("INPUT_OVERRUN")
    [] OTHER ->
         /\ ip' = ip + h + n /\ op' = op + n /\ out' = out \o Literals(op, n)
         /\ at' = next
         /\ UNCHANGED <<script, code, damage, t, result>>

(* Slip: the literals are noted in the last byte of the match. *)
CopyMatchLast(h, len, off) ==
  CASE ~NeedOp(len) -> Return("OUTPUT_OVERRUN")
    [] NeedOp(len) /\ off > op + DictLen -> Return("LOOKBEHIND_OVERRUN")
    [] OTHER ->
         LET literals == Byte(h) % 4
         IN /\ ip' = ip + h /\ op' = op + len
            /\ out' = Append(out, [pos |-> op, len |-> len, off |-> off])
            /\ t' = literals
            /\ at' = IF literals = 0 THEN "loop" ELSE "match_next"
            /\ UNCHANGED <<script, code, damage, result>>

(* copy_match and match_done: an instruction of h bytes copies len bytes   *)
(* from distance off.                                                      *)
CopyMatch(h, len, off) ==
  CASE ~NeedOp(len) -> Return("OUTPUT_OVERRUN")
    [] NeedOp(len) /\ off > op + DictLen -> Return("LOOKBEHIND_OVERRUN")
    [] OTHER ->
         LET literals == Byte(h - 1) % 4
         IN /\ ip' = ip + h /\ op' = op + len
            /\ out' = Append(out, [pos |-> op, len |-> len, off |-> off])
            /\ t' = literals
            /\ at' = IF literals = 0 THEN "loop" ELSE "match_next"
            /\ UNCHANGED <<script, code, damage, result>>

(* A length of base or, if that is 0, plus + what the run says; Then(h, l) *)
(* goes on with the header's length h and the length l of the run.         *)
LongLength(base, plus, need, Then(_, _)) ==
  IF base > 0 THEN Then(1, base)
  ELSE LET ends == {k \in 2 .. InLen - ip : Byte(k) # 0 /\ \A j \in 2 .. k - 1 : Byte(j) = 0}
       IN IF ends = {} THEN Return("INPUT_OVERRUN")
          ELSE \E k \in ends :
                 IF NeedIp(k + need) THEN Then(k, 255 * (k - 2) + plus + Byte(k))
                 ELSE Return("INPUT_OVERRUN")

(* The first byte may be a run of literals.                                *)
Start ==
  /\ at = "start"
  /\ IF ~NeedIp(1) THEN Return("INPUT_OVERRUN")
     ELSE LET n == Byte(1) - 17
          IN CASE n >= 4 -> CopyLiterals(1, n, "first_literal_run")
               [] n \in 1 .. 3 ->
                    /\ ip' = ip + 1 /\ t' = n /\ at' = "match_next"
                    /\ UNCHANGED <<script, code, damage, op, out, result>>
               [] OTHER ->
                    /\ at' = "loop"
                    /\ UNCHANGED <<script, code, damage, ip, op, t, out, result>>

LoopOverrun == at = "loop" /\ ~NeedIp(3) /\ Return("INPUT_OVERRUN")

LiteralRun ==
  /\ at = "loop" /\ NeedIp(3) /\ Byte(1) < 16
  /\ LongLength(Byte(1), 15, 0, LAMBDA h, n : CopyLiterals(h, n + 3, "first_literal_run"))

MatchNext == at = "match_next" /\ CopyLiterals(0, t, "match")

(* Slip: after a run too, a low opcode is a near match. *)
MatchXNear ==
  /\ at = "first_literal_run" /\ Byte(1) < 16
  /\ CopyMatch(2, 3, NearDistance(Byte(1), Byte(2)))

(* After a run of its own, a low opcode is a three byte match.             *)
MatchX ==
  /\ at = "first_literal_run" /\ Byte(1) < 16
  /\ CopyMatch(2, 3, M2Max + NearDistance(Byte(1), Byte(2)))

(* "match:", wherever it is reached from.                                  *)
AtMatch ==
  \/ at = "match"
  \/ at = "first_literal_run" /\ Byte(1) >= 16
  \/ at = "loop" /\ NeedIp(3) /\ Byte(1) >= 16

Match1 == at = "match" /\ Byte(1) < 16 /\ CopyMatch(2, 2, NearDistance(Byte(1), Byte(2)))

Match2 ==
  /\ AtMatch /\ Byte(1) >= 64
  /\ CopyMatch(2, M2Length(Byte(1)), M2Distance(Byte(1), Byte(2)))

Match3 ==
  /\ AtMatch /\ Byte(1) \in 32 .. 63
  /\ LongLength(Byte(1) % 32, 31, 2,
                LAMBDA h, n : CopyMatch(h + 2, n + 2, 1 + FarDistance(Byte(h + 1), Byte(h + 2))))

(* eof_found; the input should end there.                                  *)
End(h) ==
  /\ ip' = ip + h
  /\ result' = IF ip + h = InLen THEN "OK"
               ELSE IF ip + h < InLen THEN "INPUT_NOT_CONSUMED" ELSE "INPUT_OVERRUN"
  /\ at' = "done"
  /\ UNCHANGED <<script, code, damage, op, t, out>>

Match4 ==
  /\ AtMatch /\ Byte(1) \in 16 .. 31
  /\ LongLength(Byte(1) % 8, 7, 2,
       LAMBDA h, n :
         LET d == 16384 * ((Byte(1) \div 8) % 2) + FarDistance(Byte(h + 1), Byte(h + 2))
         IN IF d = 0 THEN End(h + 2) ELSE CopyMatch(h + 2, n + 2, d + 16384))

Decode ==
  \/ Start \/ LoopOverrun \/ LiteralRun \/ MatchNext
  \/ MatchX \/ Match1 \/ Match2 \/ Match3 \/ Match4

Stop == at = "done" /\ UNCHANGED vars

Next ==
  \/ \E m \in DOMAIN Menu :
       m = Matches + 1 /\ \E pair \in Menu[m], shortForm \in BOOLEAN : Code(pair, shortForm)
  \/ \E n \in Tails, d \in Damages : Finish(n, d)
  \/ Decode
  \/ Stop

Spec == Init /\ [][Next]_vars
-----------------------------------------------------------------------------
(* The types; an opcode is always a byte, never a literal.                 *)
TypeOK ==
  /\ Range(code) \subseteq {Lit} \union 0 .. 255
  /\ at \in {"code", "start", "loop", "first_literal_run", "match", "match_next", "done"}
  /\ at \in {"start", "loop", "first_literal_run", "match"} => Byte(1) # Lit
  /\ t \in 0 .. 3
  /\ result \in {None, "OK", "INPUT_OVERRUN", "OUTPUT_OVERRUN", "LOOKBEHIND_OVERRUN",
                 "INPUT_NOT_CONSUMED"}

(* The decoder gives back what was compressed, piece by piece: what it has *)
(* written is always the beginning of it, whatever the damage, and an      *)
(* undamaged block comes back whole, with LZO_E_OK, every byte of the      *)
(* input read (lzo1x_d.ch, against lzo1x_9x.c and lzo1x_c.ch).             *)
RoundTrip ==
  /\ IsPrefix(out, script)
  /\ at = "done" /\ damage = Whole => result = "OK" /\ out = script

(* Of a block that misses bytes, or that has too little room, the checked  *)
(* decoder says so, and it has neither read nor written outside.           *)
DamageRefused ==
  /\ at # "code" => ip <= InLen /\ op <= Room
  /\ at = "done" /\ damage # Whole =>
       \/ damage.short > 0 /\ result = "OUTPUT_OVERRUN"
       \/ damage.cut > 0 /\ result = "INPUT_OVERRUN"

(* What was chosen for coding never costs more than it saves by more than *)
(* a sixteenth of the input; a first run of up to three literals may add a *)
(* byte, a last one another, and the end marker three: the buffer          *)
(* lzo_frag.c and the GPU programs allocate, the input, a sixteenth of it  *)
(* and 67 bytes, is enough with 62 to spare.                               *)
WorstCase ==
  LET total == Bytes(script)
  IN Len(code) <= total + total \div 16 + IF at = "code" THEN 1 ELSE 5
=============================================================================
