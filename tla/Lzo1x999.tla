------------------------------ MODULE Lzo1x999 ------------------------------
(***************************************************************************)
(* How lzo1x_999_compress_internal (lzo1x_9x.c) finds matches: a window of *)
(* N bytes in a ring, searched along chains of positions with the same     *)
(* hash (lzo_swd.ch, lzo_mchw.ch), and a lazy choice: a match is put off   *)
(* when one that begins a byte or two later pays better.                   *)
(*                                                                         *)
(* s is the lzo_swd_t, with the fields of LZO1X_999_T the search needs;    *)
(* one step is one turn of a loop of compress_internal.  The limits of     *)
(* config1x.h are constants so that they can be small.                     *)
(***************************************************************************)
EXTENDS Integers, Sequences, FiniteSetsExt, SequencesExt

CONSTANTS
  N,          (* SWD_N, M4_MAX_OFFSET: bytes in the window.                *)
  F,          (* SWD_F: the longest match; 2 * F < N.                      *)
  M1Max, M2Max, M3Max,
  M2MaxLen, M3MaxLen, M4MaxLen,
  Bytes,      (* The values of a byte; 0 is one of them.                   *)
  Head3,      (* The hash of three bytes,                                  *)
  Keys,       (* and its values.                                           *)
  Levels,     (* Rows like compress_level's: [lazy, good, max, chain, best]; *)
              (* its nice_length is never passed on, and is F.             *)
  Inputs      (* The [dict, text] to compress.                             *)

(* "LZO_COMPILE_TIME_ASSERT(!(0ul + 2 * SWD_F >= SWD_N))"; and what        *)
(* swd_search takes for granted of the hash: it tells third bytes apart.   *)
(* MCLzParse assumes it.                                                   *)
Limits ==
  /\ 2 * F < N /\ F >= 3 /\ 0 \in Bytes
  /\ Head3 \in [Bytes \X Bytes \X Bytes -> Keys]
  /\ \A a, b, c, d \in Bytes : Head3[a, b, c] = Head3[a, b, d] => c = d

VARIABLES
  dict, text, level,
  s,        (* The window.                                                 *)
  at,       (* "begin", "loop", "lazy" as a match is put off, "done".      *)
  lit,      (* Literals before the match or before c->bp.                  *)
  mLen, mOff,       (* The match in hand.                                  *)
  ahead, maxAhead,  (* Bytes it is put off by, and may be.                 *)
  piece     (* The last run and match written.                             *)

vars == <<dict, text, level, s, at, lit, mLen, mOff, ahead, maxAhead, piece>>

Size    == N + F                  (* b_size                                *)
BestOff == Max({M2MaxLen, M3MaxLen, M4MaxLen}) + 1
MXMax   == M1Max + M2Max
Nil     == -1                     (* SWD_UINT_MAX, NIL2                    *)
Unset   == -2                     (* What memory holds before it is set.   *)

Min2(a, b) == IF a <= b THEN a ELSE b

-----------------------------------------------------------------------------
(* The window: lzo_swd.ch.                                                 *)

Key(w, p) == Head3[w.b[p], w.b[p + 1], w.b[p + 2]]
Two(w, p) == <<w.b[p], w.b[p + 1]>>       (* HEAD2: the bytes themselves.  *)

Link(w, node) ==
  LET key == Key(w, node)
  IN [w EXCEPT !.succ3[node] = IF w.llen3[key] = 0 THEN Nil ELSE w.head3[key],
               !.head3[key] = node, !.llen3[key] = @ + 1]

Insert(w, node) == [Link(w, node) EXCEPT !.best3[node] = F + 1, !.head2[Two(w, node)] = node]

(* Slip: a position that leaves the window stays in its list. *)
RemoveNodeNever(w) == IF w.nodes > 0 THEN [w EXCEPT !.nodes = @ - 1] ELSE w

(* swd_remove_node: what is N bytes back leaves the lists.                 *)
RemoveNode(w) ==
  IF w.nodes > 0 THEN [w EXCEPT !.nodes = @ - 1]
  ELSE [w EXCEPT !.llen3[Key(w, w.rp)] = @ - 1,
                 !.head2[Two(w, w.rp)] = IF @ = w.rp THEN Nil ELSE @]

Wrap(k) == IF k + 1 = Size THEN 0 ELSE k + 1

(* swd_getbyte: the next byte, or a zero behind the last, at ip and, for   *)
(* the first F cells, once more behind the ring.                           *)
GetByte(w) ==
  LET more == w.fed < Len(text)
      byte == IF more THEN text[w.fed + 1] ELSE 0
  IN [w EXCEPT !.fed  = IF more THEN @ + 1 ELSE @,
               !.look = IF ~more /\ @ > 0 THEN @ - 1 ELSE @,
               !.b = [@ EXCEPT ![w.ip] = byte,
                               ![IF w.ip < F THEN w.ip + Size ELSE w.ip] = byte],
               !.ip = Wrap(@), !.bp = Wrap(@), !.rp = Wrap(@)]

(* swd_accept: n bytes pass without a search.                              *)
Accept(w, n) ==
  FoldLeft(LAMBDA v, i : GetByte(Insert(RemoveNode(v), v.bp)), w, [i \in 1 .. n |-> i])

(* How far node agrees with bp; the first three bytes are not compared.    *)
Agreement(w, node) ==
  Max({n \in 3 .. w.look : \A j \in 3 .. n - 1 : w.b[w.bp + j] = w.b[node + j]})

(* One turn of swd_search: the last byte of the best match so far, the one *)
(* after it and the first two decide whether node is looked at.            *)
Visit(w, node) ==
  LET Same(j) == w.b[node + j] = w.b[w.bp + j]
      n       == Agreement(w, node)
  IN IF ~(Same(w.mLen - 1) /\ Same(w.mLen) /\ Same(0) /\ Same(1)) THEN w
     ELSE LET noted == IF n < BestOff /\ w.bestPos[n] = 0
                       THEN [w EXCEPT !.bestPos[n] = node + 1] ELSE w
          IN IF n > w.mLen THEN [noted EXCEPT !.mLen = n, !.mPos = node] ELSE noted

(* swd_search: along the chain for at most cnt positions, until the match  *)
(* is as long as the lookahead or longer than node's own was.              *)
Turn(r, v) ==
  [w |-> v, node |-> v.succ3[r.node],
   stop |-> v.mLen > r.w.mLen /\ (v.mLen = v.look \/ v.mLen > v.best3[r.node])]

Search(w, cnt) ==
  FoldLeft(LAMBDA r, i : IF r.stop THEN r ELSE Turn(r, Visit(r.w, r.node)),
           [w |-> w, node |-> w.succ3[w.bp], stop |-> FALSE], [i \in 1 .. cnt |-> i]).w

(* swd_search2: two bytes at least.                                        *)
Search2(w, pos) ==
  [w EXCEPT !.bestPos[2] = IF @ = 0 THEN pos + 1 ELSE @, !.mLen = 2, !.mPos = pos]

(* The positions searched: those with the hash of bp before bp, at most    *)
(* max_chain unless that is 0.                                             *)
Cnt(w, before) == IF w.chain > 0 THEN Min2(before, w.chain) ELSE before

Searched(w) ==
  IF w.head2[Two(w, w.bp)] = Nil THEN w
  ELSE IF w.look < 3 THEN Search2(w, w.head2[Two(w, w.bp)])
  ELSE Search(Search2(w, w.head2[Two(w, w.bp)]), Cnt(w, w.llen3[Key(w, w.bp)] - 1))

Offset(w, pos) == IF w.bp > pos THEN w.bp - pos ELSE Size - (pos - w.bp)   (* swd_pos2off *)

Noted(w) ==
  [w EXCEPT !.mOff = IF w.mLen > 1 THEN Offset(w, w.mPos) ELSE @,
            !.best3[w.bp] = w.mLen,
            !.bestOff = IF ~level.best THEN @
              ELSE [i \in 2 .. BestOff - 1 |->
                      IF w.bestPos[i] > 0 THEN Offset(w, w.bestPos[i] - 1) ELSE 0]]

(* swd_findbest.                                                           *)
FindBest(w) ==
  [RemoveNode(IF w.look <= 1 THEN [Link(w, w.bp) EXCEPT !.best3[w.bp] = F + 1]
              ELSE Noted(Searched(Link(w, w.bp))))
   EXCEPT !.head2[Two(w, w.bp)] = w.bp]

(* find_match: after n bytes; cLook is 0 at the end of the text.           *)
Begun(w, chain) ==
  [w EXCEPT !.mLen = 1, !.mOff = 0, !.chain = chain,
            !.bestPos = IF level.best THEN [i \in 2 .. BestOff - 1 |-> 0] ELSE @,
            !.atEnd = w.look = 0]

Seen(w) ==
  [w EXCEPT !.cLook = IF w.atEnd THEN 0 ELSE w.look + 1, !.mLen = IF w.atEnd THEN 0 ELSE @]

FindMatch(w, chain, n) == Seen(GetByte(FindBest(Begun(Accept(w, n), chain))))

(* swd_init, with swd_initdict and swd_insertdict.                         *)
Window(d, tx) ==
  LET size == Min2(Len(d), N)
      look == Min2(Len(tx), F)
      b    == [k \in 0 .. N + F + F - 1 |->
                 IF k < size THEN d[Len(d) - size + k + 1]
                 ELSE IF k < size + look THEN tx[k - size + 1] ELSE Unset]
      filled == size > 0 /\ look >= 2
      nodes  == IF filled THEN N - size ELSE N
      first  == IF filled THEN 0 ELSE size
      new == [b |-> b, ip |-> IF size + look = Size THEN 0 ELSE size + look, bp |-> size,
              rp |-> IF first >= nodes THEN first - nodes ELSE first + Size - nodes,
              look |-> look, fed |-> look, nodes |-> nodes,
              head3 |-> [k \in Keys |-> Nil], llen3 |-> [k \in Keys |-> 0],
              succ3 |-> [k \in 0 .. Size - 1 |-> Unset], best3 |-> [k \in 0 .. Size - 1 |-> Unset],
              head2 |-> [p \in Bytes \X Bytes |-> Nil],
              bestPos |-> [i \in 2 .. BestOff - 1 |-> 0], bestOff |-> [i \in 2 .. BestOff - 1 |-> 0],
              mLen |-> 0, mOff |-> 0, mPos |-> 0, cLook |-> 0, chain |-> 0, atEnd |-> FALSE]
      full == IF filled THEN FoldLeft(Insert, new, [k \in 1 .. size |-> k - 1]) ELSE new
  IN IF look >= 3 THEN full
     ELSE [full EXCEPT !.b = [k \in DOMAIN b |->
             IF k \in size + look .. size + look + 2 THEN 0 ELSE full.b[k]]]

-----------------------------------------------------------------------------
(* The lazy choice: lzo1x_9x.c.                                            *)

(* len_of_coded_match, as in Lzo1xFormat but with these limits; no match   *)
(* is more than 255 bytes too long for its opcode.                         *)
Price(len, off, lits) ==
  IF len < 2 THEN 0
  ELSE IF len = 2 THEN (IF off <= M1Max /\ lits > 0 /\ lits < 4 THEN 2 ELSE 0)
  ELSE IF (len <= M2MaxLen /\ off <= M2Max) \/ (len = 3 /\ off <= MXMax /\ lits >= 4) THEN 2
  ELSE IF off <= M3Max THEN (IF len <= M3MaxLen THEN 3 ELSE 4)
  ELSE IF off <= N THEN (IF len <= M4MaxLen THEN 3 ELSE 4)
  ELSE 0

(* min_gain; a negative gain is 0.                                         *)
MinGain(lit1, lit2, l1, l2, l3, by) ==
  LET more == IF lit1 <= 3 THEN (IF lit2 <= 3 THEN 0 ELSE 2)
              ELSE IF lit1 <= 18 /\ lit2 > 18 THEN 1 ELSE 0
  IN Max({0, by + more + (l2 - l1) * 2 - (IF l3 > 0 THEN (by - l3) * 2 ELSE 0)})

(* better_match: a match that is a byte or two shorter but much nearer.    *)
Better(w, len, off) ==
  LET Near(by, limit) == w.bestOff[len - by] > 0 /\ w.bestOff[len - by] <= limit
  IN IF ~level.best \/ len <= 3 \/ off <= M2Max THEN <<len, off>>
     ELSE IF len <= M2MaxLen + 1 /\ Near(1, M2Max) THEN <<len - 1, w.bestOff[len - 1]>>
     ELSE IF off > M3Max /\ len > M4MaxLen /\ len <= M2MaxLen + 2 /\ Near(2, M2Max)
       THEN <<len - 2, w.bestOff[len - 2]>>
     ELSE IF off > M3Max /\ len > M4MaxLen /\ len <= M3MaxLen + 1 /\ Near(1, M3Max)
       THEN <<len - 1, w.bestOff[len - 1]>>
     ELSE <<len, off>>

Bp    == s.fed - s.cLook                          (* c->bp                 *)
Coded == IF at = "done" THEN Len(text) ELSE Bp - lit - ahead    (* ii      *)

Init ==
  /\ \E i \in Inputs : dict = i.dict /\ text = i.text
  /\ level \in Levels
  /\ s = [fed |-> 0, cLook |-> 0]
  /\ at = "begin" /\ lit = 0 /\ mLen = 0 /\ mOff = 0 /\ ahead = 0 /\ maxAhead = 0
  /\ piece = [lit |-> 0, len |-> 0, off |-> 0]

(* init_match and the first find_match.                                    *)
Begin ==
  /\ at = "begin" /\ at' = "loop"
  /\ s' = FindMatch(Window(dict, text), level.chain, 0)
  /\ UNCHANGED <<dict, text, level, lit, mLen, mOff, ahead, maxAhead, piece>>

(* What the format can say, and what pays.                                 *)
Taken(len, off) ==
  /\ len >= 2
  /\ len = 2 => off <= M1Max /\ lit \in 1 .. 3 /\ Coded > 0
  /\ Coded = 0 => lit > 0
  /\ len = 3 => ~(off > MXMax /\ lit >= 4)

Literal ==
  /\ at = "loop" /\ s.cLook > 0 /\ ~Taken(s.mLen, s.mOff)
  /\ lit' = lit + 1
  /\ s' = FindMatch(s, level.chain, 0)
  /\ UNCHANGED <<dict, text, level, at, mLen, mOff, ahead, maxAhead, piece>>

Found ==
  /\ at = "loop" /\ s.cLook > 0 /\ Taken(s.mLen, s.mOff)
  /\ LET m == Better(s, s.mLen, s.mOff)
     IN /\ mLen' = m[1] /\ mOff' = m[2]
        /\ maxAhead' = IF level.lazy = 0 \/ m[1] >= level.max THEN 0
                       ELSE Min2(level.lazy, Price(m[1], m[2], lit) - 1)
  /\ at' = "lazy" /\ ahead' = 0
  /\ UNCHANGED <<dict, text, level, s, lit, piece>>

(* The match is put off by one more byte; if what is found there pays, it  *)
(* is dropped, or cut to the bytes before, and the loop goes on with that. *)
PutOff ==
  /\ at = "lazy" /\ ahead < maxAhead /\ s.cLook > mLen
  /\ LET w    == FindMatch(s, IF mLen >= level.good THEN level.chain \div 4 ELSE level.chain, 0)
         by   == ahead + 1
         m    == Better(w, w.mLen, w.mOff)
         l2   == Price(m[1], m[2], lit + by)
         l3   == IF Coded = 0 THEN 0 ELSE Price(by, mOff, lit)
         pays == /\ w.mLen >= mLen /\ ~(w.mLen = mLen /\ w.mOff >= mOff)
                 /\ l2 > 0
                 /\ m[1] >= mLen + MinGain(lit, lit + by, Price(mLen, mOff, lit), l2, l3, by)
         cut  == pays /\ l3 > 0
     IN /\ s' = IF pays THEN [w EXCEPT !.mLen = m[1], !.mOff = m[2]] ELSE w
        /\ ahead' = IF pays THEN 0 ELSE by
        /\ at' = IF pays THEN "loop" ELSE "lazy"
        /\ lit' = IF cut THEN 0 ELSE IF pays THEN lit + by ELSE lit
        /\ piece' = IF cut THEN [lit |-> lit, len |-> by, off |-> mOff] ELSE piece
  /\ UNCHANGED <<dict, text, level, mLen, mOff, maxAhead>>

Take ==
  /\ at = "lazy" /\ ~(ahead < maxAhead /\ s.cLook > mLen)
  /\ piece' = [lit |-> lit, len |-> mLen, off |-> mOff]
  /\ lit' = 0 /\ ahead' = 0 /\ at' = "loop"
  /\ s' = FindMatch(s, level.chain, mLen - (1 + ahead))
  /\ UNCHANGED <<dict, text, level, mLen, mOff, maxAhead>>

(* The last run and the end marker.                                        *)
Finish ==
  /\ at = "loop" /\ s.cLook = 0
  /\ at' = "done"
  /\ UNCHANGED <<dict, text, level, s, lit, mLen, mOff, ahead, maxAhead, piece>>

Stop == at = "done" /\ UNCHANGED vars

Next == Begin \/ Literal \/ Found \/ PutOff \/ Take \/ Finish \/ Stop

Spec == Init /\ [][Next]_vars
=============================================================================
