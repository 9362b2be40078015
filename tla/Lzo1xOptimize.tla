--------------------------- MODULE Lzo1xOptimize ---------------------------
(***************************************************************************)
(* lzo1x_optimize (lzo1x_oo.ch) rewrites a compressed block in place: a    *)
(* match of two or three bytes between runs of literals costs as much as   *)
(* the literals, which decode faster, so the match becomes literals and    *)
(* the runs around it become one.  The bytes that tell the length of the   *)
(* run before it have been read long ago; litp remembers where.            *)
(*                                                                         *)
(* A step is one instruction of the block; `at' tells what kinds of        *)
(* instruction may be next.  Blocks have the room of their text, so that   *)
(* the loop conditions TEST_IP and TEST_OP never end it early.             *)
(***************************************************************************)
EXTENDS Lzo1xFormat, SequencesExt

CONSTANT
  Blocks    (* The blocks to optimize.  A literal is a number above 255,   *)
            (* told apart from every other literal of the block.           *)

VARIABLES
  block,    (* The block as it was.                                        *)
  code,     (* The block as it is.                                         *)
  at,       (* What is next: "start", "loop" (no literals before), "run"   *)
            (* (a run before), "short" (one to three), "done".             *)
  ip,       (* Bytes read.                                                 *)
  out,      (* What is decoded.                                            *)
  litp,     (* Where the length of the last run is kept, 0 for NULL.       *)
  lit       (* The literals that may be joined with those that follow.     *)

vars == <<block, code, at, ip, out, litp, lit>>

-----------------------------------------------------------------------------
(* What the bytes of c from place p on say.                                *)

(* A length of base or, if that is 0, plus + what the zeros say, and the   *)
(* bytes it takes with the first.                                          *)
Length(c, p, base, plus) ==
  IF base > 0 THEN [h |-> 1, len |-> base]
  ELSE LET last == CHOOSE k \in p + 1 .. Len(c) :
                     c[k] # 0 /\ \A j \in p + 1 .. k - 1 : c[j] = 0
       IN [h |-> last - p + 1, len |-> 255 * (last - p - 1) + plus + c[last]]

RunAt(c, p) == LET l == Length(c, p, c[p], 15) IN [l EXCEPT !.len = @ + 3]

Near(c, p, len, beyond) ==
  [h |-> 2, len |-> len, off |-> beyond + NearDistance(c[p], c[p + 1])]

(* A match of 16 or more; the end of the stream has distance 0.            *)
Far(c, p) ==
  LET t == c[p]
      l == IF t >= 32 THEN Length(c, p, t % 32, 31) ELSE Length(c, p, t % 8, 7)
      d == FarDistance(c[p + l.h], c[p + l.h + 1])
           + IF t < 32 THEN 16384 * ((t \div 8) % 2) ELSE 0
  IN [h |-> l.h + 2, len |-> l.len + 2,
      off |-> IF t >= 32 THEN 1 + d ELSE IF d = 0 THEN 0 ELSE 16384 + d]

MatchAt(c, p, before) ==
  CASE c[p] >= 64                   -> [h |-> 2, len |-> M2Length(c[p]),
                                        off |-> M2Distance(c[p], c[p + 1])]
    [] c[p] \in 16 .. 63            -> Far(c, p)
    [] c[p] < 16 /\ before = "run"  -> Near(c, p, 3, M2Max)
    [] c[p] < 16 /\ before # "run"  -> Near(c, p, 2, 0)

Copied(text, m) ==
  [k \in 1 .. m.len |-> text[Len(text) - m.off + 1 + ((k - 1) % m.off)]]

Literals(c, p, n) == SubSeq(c, p, p + n - 1)

(* b is a block: places holds where each instruction begins and what kinds  *)
(* may be next there, all are whole, and the end marker is the end.        *)
Ends(c, p) == \E k \in p + 1 .. Len(c) : c[k] # 0

WholeRun(b, places, p) ==
  LET r == RunAt(b, p)
  IN Ends(b, p) /\ <<p + r.h + r.len, "run">> \in places

WholeMatch(b, places, p, before) ==
  LET m == MatchAt(b, p, before)
      q == p + m.h
      n == b[q - 2] % 4
  IN IF m.off = 0 THEN b[p] = M4Marker + 1 /\ q = Len(b) + 1
     ELSE /\ q <= Len(b) /\ Ends(b, p)
          /\ <<q + n, IF n = 0 THEN "loop" ELSE "short">> \in places

WellFormed(b, places) ==
  /\ b \in Seq(Nat) /\ places \subseteq (1 .. Len(b)) \X {"loop", "run", "short"}
  /\ LET n == b[1] - 17
     IN IF n <= 0 THEN <<1, "loop">> \in places
        ELSE <<2 + n, IF n < 4 THEN "short" ELSE "run">> \in places
  /\ \A x \in places :
       IF x[2] = "loop" /\ b[x[1]] < 16 THEN WholeRun(b, places, x[1])
       ELSE WholeMatch(b, places, x[1], x[2])

-----------------------------------------------------------------------------
Init ==
  /\ block \in Blocks /\ code = block
  /\ at = "start" /\ ip = 0 /\ out = <<>> /\ litp = 0 /\ lit = 0

Start ==
  /\ at = "start"
  /\ LET n == code[1] - 17
     IN IF n <= 0 THEN at' = "loop" /\ UNCHANGED <<ip, out>>
        ELSE /\ at' = IF n < 4 THEN "short" ELSE "run"
             /\ ip' = 1 + n /\ out' = Literals(code, 2, n)
  /\ UNCHANGED <<block, code, litp, lit>>

LiteralRun ==
  /\ at = "loop" /\ code[ip + 1] < 16
  /\ LET r == RunAt(code, ip + 1)
     IN /\ litp' = ip + 1 /\ lit' = r.len
        /\ ip' = ip + r.h + r.len
        /\ out' = out \o Literals(code, ip + r.h + 1, r.len)
  /\ at' = "run"
  /\ UNCHANGED <<block, code>>

(* The instruction at hand, the place after it, and the byte there.        *)
M     == MatchAt(code, ip + 1, at)
Here  == at \in {"loop", "run", "short"} /\ ~(at = "loop" /\ code[ip + 1] < 16)
After == ip + M.h + 1
NL    == code[After - 2] % 4       (* nl: the literals noted in the match   *)

RunFollows(len) == code[After] \in 1 .. 15 /\ lit + len + code[After] < 16

(* The conditions in front of each rewriting.                              *)
M1BeforeMatch == M.len = 2 /\ NL = 0 /\ lit = 1 /\ code[After] >= 16
M1BeforeRun   == M.len = 2 /\ NL = 0 /\ RunFollows(2)
M2BetweenRuns == code[ip + 1] >= 64 /\ M.len = 3 /\ lit > 3 /\ NL = 0 /\ RunFollows(3)
M3AfterMatch  == code[ip + 1] \in 16 .. 63 /\ M.len = 3 /\ lit = 0 /\ NL = 0
                 /\ code[After] >= 16
M3BeforeRun   == code[ip + 1] \in 16 .. 63 /\ M.len = 3 /\ lit <= 3 /\ NL = 0
                 /\ RunFollows(3)

(* An M1 is one only after a short run; a match after a long run that      *)
(* looks like one is copied before anything is asked.                      *)
M1         == Here /\ at # "run" /\ code[ip + 1] < 16
Rewritable == Here /\ litp # 0 /\ M.off # 0 /\ (code[ip + 1] >= 16 \/ M1)

-----------------------------------------------------------------------------
(* Slip: the distance of 2 is not told apart, and a byte is read that is   *)
(* not written yet.                                                        *)
CopyPlain(off, len) ==
  LET Pos(k) == LET p == Len(out) - off + k
                IN IF p <= Len(out) THEN out[p] ELSE 0
  IN [k \in 1 .. len |-> IF off = 1 THEN Pos(1) ELSE Pos(k)]

(* copy2, copy3: the literals that replace a match, which may overlap it.  *)
Copy(off, len) ==
  LET Pos(k) == out[Len(out) - off + k]
  IN [k \in 1 .. len |-> CASE off = 1            -> Pos(1)
                           [] off = 2 /\ k = 3   -> Pos(1)
                           [] OTHER              -> Pos(k)]

(* c with the bytes s from place p on.                                     *)
Put(c, p, s) == [k \in 1 .. Len(c) |-> IF k \in p .. p + Len(s) - 1 THEN s[k - p + 1] ELSE c[k]]

(* Slip: the longer run is written, not remembered.                        *)
JoinShortForgotten(len) ==
  /\ code' = Put([code EXCEPT ![litp] = @ - (@ % 4) + lit + len],
                 After - len, Copy(M.off, len))
  /\ out' = out \o Copied(out, M)
  /\ ip' = ip + M.h /\ at' = "loop"
  /\ UNCHANGED <<block, litp, lit>>

(* The match becomes literals of the short run before it, and another      *)
(* match follows: lit and litp stay for it.                                *)
JoinShort(len) ==
  /\ code' = Put([code EXCEPT ![litp] = @ - (@ % 4) + lit + len],
                 After - len, Copy(M.off, len))
  /\ lit' = lit + len
  /\ out' = out \o Copied(out, M)
  /\ ip' = ip + M.h /\ at' = "loop"
  /\ UNCHANGED <<block, litp>>

(* The match becomes literals in front of the run that follows; the short  *)
(* run before moves on by a byte to make room for the new length, and the  *)
(* byte of the old length takes the last of the literals.                  *)
JoinAhead(len) ==
  LET t       == code[After] + 3
      cleared == [code EXCEPT ![litp] = @ - (@ % 4)]
      copied  == Put(cleared, After - len + 1, Copy(M.off, len))
      moved   == Put(copied, litp + 3, Literals(copied, litp + 2, lit))
  IN /\ code' = [moved EXCEPT ![litp + 2] = lit + len + t - 3]
     /\ litp' = litp + 2 /\ lit' = lit + len + t
     /\ out' = (out \o Copied(out, M)) \o Literals(code, After + 1, t)
     /\ ip' = After + t /\ at' = "run"
     /\ UNCHANGED block

(* An M2 and the length after it become the three literals between two     *)
(* long runs.                                                              *)
JoinRuns ==
  LET t == code[After] + 3
  IN /\ code' = [Put(code, After - 2, Copy(M.off, 3)) EXCEPT ![litp] = lit + 3 + t - 3]
     /\ lit' = lit + 3 + t
     /\ out' = (out \o Copied(out, M)) \o Literals(code, After + 1, t)
     /\ ip' = After + t /\ at' = "run"
     /\ UNCHANGED <<block, litp>>

JoinM1Short == Rewritable /\ M1 /\ M1BeforeMatch /\ JoinShort(2)
JoinM1Ahead == Rewritable /\ M1 /\ ~M1BeforeMatch /\ M1BeforeRun /\ JoinAhead(2)
JoinM2      == Rewritable /\ M2BetweenRuns /\ JoinRuns
JoinM3Short == Rewritable /\ M3AfterMatch /\ JoinShort(3)
JoinM3Ahead == Rewritable /\ ~M3AfterMatch /\ M3BeforeRun /\ JoinAhead(3)

Joins ==
  /\ Rewritable
  /\ \/ M1 /\ (M1BeforeMatch \/ M1BeforeRun)
     \/ M2BetweenRuns \/ M3AfterMatch \/ M3BeforeRun

(* copy_m, match_done, match_next: a match stays, and with it the literals *)
(* it notes.                                                               *)
CopyMatch ==
  /\ Here /\ M.off # 0 /\ ~Joins
  /\ out' = (out \o Copied(out, M)) \o Literals(code, After, NL)
  /\ ip' = ip + M.h + NL
  /\ lit' = NL /\ litp' = After - 2
  /\ at' = IF NL = 0 THEN "loop" ELSE "short"
  /\ UNCHANGED <<block, code>>

EofFound ==
  /\ Here /\ M.off = 0
  /\ ip' = ip + M.h /\ at' = "done"
  /\ UNCHANGED <<block, code, out, litp, lit>>

Stop == at = "done" /\ UNCHANGED vars

Next ==
  \/ Start \/ LiteralRun \/ CopyMatch \/ EofFound \/ Stop
  \/ JoinM1Short \/ JoinM1Ahead \/ JoinM2 \/ JoinM3Short \/ JoinM3Ahead

Spec == Init /\ [][Next]_vars

-----------------------------------------------------------------------------
(* litp is where the length of the run before is kept, and lit is that     *)
(* length: the assertions of lzo1x_oo.ch, also after a rewriting has       *)
(* left both to the next instruction.                                      *)
RunRemembered ==
  litp # 0 /\ at # "done" =>
    IF lit <= 3 THEN litp + 1 + lit = ip /\ code[litp] % 4 = lit
    ELSE at = "run" /\ code[litp] = IF lit <= 18 THEN lit - 3 ELSE 0
=============================================================================
