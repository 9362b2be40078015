--------------------------- MODULE FragFile_proofs ---------------------------
(***************************************************************************)
(* What the files on disk are worth after any sequence of runs of the CPU  *)
(* driver, some of them killed, for any sizes, block limits and thread     *)
(* counts.                                                                 *)
(***************************************************************************)
EXTENDS FragFile, FragLayout_proofs, FiniteSetTheorems, WellFoundedInduction

(* Files and images are records; the table of files has one for each mode. *)
IsFile(f) == f = [what |-> f.what, bytes |-> f.bytes]

Shapes ==
  /\ DOMAIN disk = Modes /\ IsFile(disk["c"]) /\ IsFile(disk["d"])
  /\ pc \in {"compress", "pack", "verify"} => call.mode = "c"
  /\ pc \in {"parse", "decompress"} => call.mode = "d"
  /\ pc = "verify" => call.verify
  /\ pc \in {"open", "write", "close"} => ~call.verify
  /\ call.mode = "c" /\ pc \in {"pack", "verify", "open", "write", "close"} =>
       product \in Images /\ product.size = input /\ product.blk > 0
  /\ call.mode = "d" /\ pc \in {"open", "write", "close"} =>
       product \in PlainContents
  /\ pc \in {"write", "close"} => disk[call.mode].what = product

(* A run that will write has taken back what earlier runs answered.        *)
Rewrites(m) == call.mode = m /\ ~call.verify
Rewriting(m) == pc # "idle" /\ Rewrites(m)

TakenBack ==
  /\ Rewriting("c") => exit["c"] = "none" /\ exit["d"] = "none"
  /\ Rewriting("d") => exit["d"] = "none"

(* A decompression that goes on, or that answered, has the whole archive.  *)
Whole == disk["c"].bytes = ImageBytes(disk["c"].what)

WholeArchive ==
  /\ call.mode = "d" /\ pc = "parse" => archive \in {disk["c"], NoFile}
  /\ call.mode = "d" /\ pc \in {"decompress", "open", "write", "close"} =>
       archive = disk["c"] /\ Whole
  /\ exit["d"] = "0" => Whole

(* What a run that met no fault makes, and what it leaves.                 *)
GoodImage(img) == img.size = src /\ Restores(img)
Copy == Plain(disk["c"].what.size, Restores(disk["c"].what))

MadeImage ==
  ignored["c"] = {} /\ Rewriting("c") =>
    /\ pc \in {"compress", "pack", "open", "write", "close"} => input = src
    /\ pc \in {"pack", "open", "write", "close"} => GoodImage(product)

MadeCopy ==
  ignored["d"] = {} /\ Rewriting("d") /\ pc \in {"open", "write", "close"} =>
    product = Copy

GoodProducts ==
  /\ MadeImage
  /\ MadeCopy
  /\ ignored["c"] = {} /\ exit["c"] = "0" => GoodImage(disk["c"].what)
  /\ ignored["d"] = {} /\ exit["d"] = "0" =>
       disk["d"] = [what |-> Copy, bytes |-> Copy.size]

FInv == TypeOK /\ Shapes /\ TakenBack /\ WholeArchive /\ GoodProducts

-----------------------------------------------------------------------------
(* A set of naturals that is not empty has a least element.                *)
LEMMA LeastNatural ==
  ASSUME NEW T \in SUBSET Nat, T # {}
  PROVE  \E n \in T : \A m \in T : n <= m
<1> DEFINE R == OpToRel(<, Nat)
<1>1. IsWellFoundedOn(R, Nat)
  BY NatLessThanWellFounded
<1>2. \A x, y \in Nat : <<y, x>> \in R <=> y < x
  BY DEF OpToRel
<1>3. \E x \in T : \A y \in T : ~ (<<y, x>> \in R)
  <2> HIDE DEF R
  <2>1. QED
  BY <1>1, WFMin
<1>4. PICK x \in T : \A y \in T : ~ (<<y, x>> \in R)
  BY <1>3
<1>5. ASSUME NEW y \in T
      PROVE  x <= y
  <2>1. ~(y < x) /\ x \in Nat /\ y \in Nat
    BY <1>2, <1>4
  <2>2. QED
    BY <2>1
<1>6. QED
  BY <1>5

(* Induction, with a set in the place of a predicate.                      *)
LEMMA NatSetInduction ==
  ASSUME NEW S, 0 \in S, \A n \in Nat : n \in S => n + 1 \in S
  PROVE  Nat \subseteq S
<1> SUFFICES ASSUME Nat \ S # {} PROVE FALSE
  OBVIOUS
<1>1. PICK n \in Nat \ S : \A m \in Nat \ S : n <= m
  BY LeastNatural
<1>2. n # 0 /\ n - 1 \in Nat /\ n - 1 \in S
  BY <1>1
<1>3. QED
  BY <1>1, <1>2

(* A sum over a set takes its elements one at a time: g holds the sums of  *)
(* the sets in D.                                                          *)
Pick(s) == CHOOSE x \in s : TRUE
Sums(g, f, D) ==
  g = [s \in D |-> IF s = {} THEN 0 ELSE f[Pick(s)] + g[s \ {Pick(s)}]]

(* The sum of the community modules is defined by such a g.                *)
LEMMA SumIsSums ==
  ASSUME NEW f, NEW S
  PROVE  SumFunctionOnSet(f, S) = (CHOOSE g : Sums(g, f, SUBSET S))[S]
BY Zenon DEF SumFunctionOnSet, FoldFunctionOnSet, MapThenFoldSet, Sums, Pick

(* What is left when one element is taken.                                 *)
LEMMA PickSmaller ==
  ASSUME NEW s, IsFiniteSet(s), s # {}
  PROVE  /\ Pick(s) \in s
         /\ IsFiniteSet(s \ {Pick(s)})
         /\ Cardinality(s \ {Pick(s)}) = Cardinality(s) - 1
         /\ Cardinality(s) \in Nat
<1>1. Pick(s) \in s
  BY DEF Pick
<1>2. QED
  BY <1>1, FS_RemoveElement, FS_CardinalityType

(* There is such a g for the subsets of a finite set: one for those of at  *)
(* most n elements extends to those of n + 1.                              *)
LEMMA SumsExist ==
  ASSUME NEW S, IsFiniteSet(S), NEW f
  PROVE  \E g : Sums(g, f, SUBSET S)
<1> DEFINE Upto(n) == {s \in SUBSET S : Cardinality(s) <= n}
<1>0. ASSUME NEW n \in Nat, NEW s
      PROVE  s \in Upto(n) <=> s \subseteq S /\ Cardinality(s) <= n
  OBVIOUS
<1>1. ASSUME NEW s, s \subseteq S
      PROVE  /\ IsFiniteSet(s) /\ Cardinality(s) \in Nat
             /\ Cardinality(s) <= Cardinality(S)
             /\ Cardinality(s) = 0 <=> s = {}
  BY <1>1, FS_Subset, FS_CardinalityType, FS_EmptySet
<1> HIDE DEF Upto
<1>2. \E g : Sums(g, f, Upto(0))
  <2>1. ASSUME NEW s \in Upto(0)
        PROVE  s = {}
    <3>1. s \subseteq S /\ Cardinality(s) <= 0
      BY <1>0
    <3>2. QED
      BY <1>1, <3>1
  <2>2. Sums([s \in Upto(0) |-> 0], f, Upto(0))
    BY <2>1, Zenon DEF Sums
  <2>3. QED
    BY <2>2
<1>3. ASSUME NEW n \in Nat, NEW g, Sums(g, f, Upto(n))
      PROVE  \E h : Sums(h, f, Upto(n + 1))
  <2> DEFINE rest(s) == s \ {Pick(s)}
             h == [s \in Upto(n + 1) |-> IF s = {} THEN 0 ELSE f[Pick(s)] + g[rest(s)]]
  <2>1. ASSUME NEW s \in Upto(n + 1), s # {}
        PROVE  rest(s) \in Upto(n)
    <3>1. s \subseteq S /\ Cardinality(s) <= n + 1
      BY <1>0
    <3>2. Cardinality(rest(s)) = Cardinality(s) - 1 /\ Cardinality(s) \in Nat
      BY <1>1, <2>1, <3>1, PickSmaller
    <3>3. rest(s) \subseteq S /\ Cardinality(rest(s)) <= n
      BY <3>1, <3>2
    <3>4. QED
      BY <1>0, <3>3
  <2>2. ASSUME NEW s \in Upto(n)
        PROVE  h[s] = g[s]
    <3>1. s \subseteq S /\ Cardinality(s) <= n
      BY <1>0
    <3>2. Cardinality(s) <= n + 1
      BY <1>1, <3>1
    <3>3. s \in Upto(n + 1)
      BY <1>0, <3>1, <3>2
    <3>4. g[s] = IF s = {} THEN 0 ELSE f[Pick(s)] + g[rest(s)]
      BY <1>3, Zenon DEF Sums
    <3>5. QED
      BY <3>3, <3>4
  <2>3. \A s \in Upto(n + 1) : s # {} => h[rest(s)] = g[rest(s)]
    BY <2>1, <2>2
  <2>4. h = [s \in Upto(n + 1) |-> IF s = {} THEN 0 ELSE f[Pick(s)] + h[rest(s)]]
    BY <2>3
  <2>5. Sums(h, f, Upto(n + 1))
    BY <2>4, Zenon DEF Sums
  <2>6. QED
    BY <2>5
<1> DEFINE Good == {n \in Nat : \E g : Sums(g, f, Upto(n))}
<1>4. Nat \subseteq Good
  <2>1. 0 \in Good
    BY <1>2
  <2>2. \A n \in Nat : n \in Good => n + 1 \in Good
    BY <1>3
  <2> HIDE DEF Good
  <2>3. QED
    BY <2>1, <2>2, NatSetInduction
<1>5. Cardinality(S) \in Nat
  BY <1>1
<1>6. \E g : Sums(g, f, Upto(Cardinality(S)))
  BY <1>4, <1>5
<1>7. Upto(Cardinality(S)) = SUBSET S
  <2>1. \A s : s \in Upto(Cardinality(S)) <=> s \subseteq S
    BY <1>0, <1>1, <1>5, Zenon
  <2>2. QED
    BY <2>1, Zenon
<1>8. QED
  BY <1>6, <1>7, Zenon

(* A finite sum of naturals is a natural.                                  *)
LEMMA SumType ==
  ASSUME NEW S, IsFiniteSet(S), NEW f, \A s \in S : f[s] \in Nat
  PROVE  SumFunctionOnSet(f, S) \in Nat
<1> DEFINE g == CHOOSE g : Sums(g, f, SUBSET S)
           Good == {n \in Nat : \A s \in SUBSET S : Cardinality(s) = n => g[s] \in Nat}
<1>1. Sums(g, f, SUBSET S)
  BY SumsExist
<1> HIDE DEF g
<1>2. \A s \in SUBSET S : g[s] = IF s = {} THEN 0 ELSE f[Pick(s)] + g[s \ {Pick(s)}]
  BY <1>1, Zenon DEF Sums
<1>3. \A s \in SUBSET S : IsFiniteSet(s) /\ (Cardinality(s) = 0 => s = {})
  BY FS_Subset, FS_EmptySet
<1>4. 0 \in Good
  BY <1>2, <1>3
<1>5. ASSUME NEW n \in Nat, n \in Good
      PROVE  n + 1 \in Good
  <2> SUFFICES ASSUME NEW s \in SUBSET S, Cardinality(s) = n + 1
               PROVE  g[s] \in Nat
    OBVIOUS
  <2>1. s # {}
    BY FS_EmptySet
  <2>2. Pick(s) \in s /\ Cardinality(s \ {Pick(s)}) = n
    BY <1>3, <2>1, PickSmaller
  <2>3. g[s \ {Pick(s)}] \in Nat
    BY <1>5, <2>2
  <2>4. g[s] = f[Pick(s)] + g[s \ {Pick(s)}] /\ f[Pick(s)] \in Nat
    BY <1>2, <2>1, <2>2
  <2>5. QED
    BY <2>3, <2>4
<1>6. Nat \subseteq Good
  BY <1>4, <1>5, NatSetInduction
<1>7. g[S] \in Nat
  BY <1>6, FS_CardinalityType
<1>8. QED
  BY <1>7, SumIsSums DEF g

-----------------------------------------------------------------------------
(* The images compress_file can build: their block size is never 0, their  *)
(* table has one length per chunk, and they are so many bytes long.        *)
LEMMA ImageFacts ==
  ASSUME NEW n \in Nat, NEW t \in Nat \ {0}, NEW L \in SUBSET Nat,
         NEW img \in ImagesOf(n, t, L)
  PROVE  /\ img.size = n /\ img.blk \in Nat \ {0}
         /\ BlocksOf(img) = 0 .. ChunkCount(n, img.blk) - 1
         /\ \A c \in BlocksOf(img) : img.lens[c] \in L
         /\ IsFiniteSet(BlocksOf(img))
         /\ Cardinality(BlocksOf(img)) = ChunkCount(n, img.blk)
         /\ TableBytes(img) \in Nat
         /\ SumFunctionOnSet(img.lens, BlocksOf(img)) \in Nat
<1> DEFINE blk == ChooseBlockSize(n, t)
           k == ChunkCount(n, blk)
<1>1. blk \in Nat \ {0}
  <2>1. blk \in 1 .. MaxBlock
    BY BlockSizeInRange
  <2>2. QED
    BY <2>1, LayoutAssumption
<1> HIDE DEF blk
<1>2. k \in Nat
  BY <1>1, CeilDivBounds DEF ChunkCount
<1> HIDE DEF k
<1>3. PICK f \in [0 .. k - 1 -> L] : img = [size |-> n, blk |-> blk, lens |-> f]
  BY DEF ImagesOf, blk, k
<1>4. BlocksOf(img) = 0 .. k - 1 /\ \A c \in BlocksOf(img) : img.lens[c] \in L
  BY <1>3 DEF BlocksOf
<1>5. IsFiniteSet(0 .. k - 1) /\ Cardinality(0 .. k - 1) = k
  BY <1>2, FS_Interval
<1>6. SumFunctionOnSet(img.lens, BlocksOf(img)) \in Nat
  BY <1>4, <1>5, SumType
<1>7. TableBytes(img) \in Nat
  BY <1>2, <1>4, <1>5 DEF TableBytes
<1>8. QED
  BY <1>1, <1>3, <1>4, <1>5, <1>6, <1>7 DEF k

(* A block that was compressed is put back where it was taken from.        *)
LEMMA CompressedRestores ==
  ASSUME NEW n \in Nat, NEW t \in Nat \ {0}, NEW img \in ImagesOf(n, t, CompSizes)
  PROVE  Restores(img)
<1>1. CompSizes \in SUBSET Nat /\ 0 \notin CompSizes
  BY FileAssumption
<1>2. /\ img.size = n /\ img.blk \in Nat \ {0}
      /\ BlocksOf(img) = 0 .. ChunkCount(n, img.blk) - 1
      /\ \A c \in BlocksOf(img) : img.lens[c] \in CompSizes
      /\ Cardinality(BlocksOf(img)) = ChunkCount(n, img.blk)
  BY <1>1, ImageFacts
<1>3. ASSUME NEW c \in BlocksOf(img)
      PROVE  /\ img.lens[c] > 0
             /\ RebuildOffset(img.blk, c) = SplitOffset(img.blk, c)
             /\ RebuildLength(img.size, img.blk, Cardinality(BlocksOf(img)), c)
                  = SplitLength(img.size, img.blk, c)
  <2>1. img.lens[c] \in Nat \ {0}
    BY <1>1, <1>2
  <2>2. c \in 0 .. ChunkCount(n, img.blk) - 1
    BY <1>2
  <2>3. /\ RebuildOffset(img.blk, c) = SplitOffset(img.blk, c)
        /\ RebuildLength(n, img.blk, ChunkCount(n, img.blk), c) = SplitLength(n, img.blk, c)
    BY <1>2, <2>2, RebuildMatchesSplit
  <2>4. QED
    BY <1>2, <2>1, <2>3
<1>4. QED
  BY <1>3 DEF Restores

(* An image is one of some input for some thread count.                    *)
LEMMA ImagesAre ==
  ASSUME NEW img \in Images
  PROVE  \E n \in Sizes \union {0}, t \in 1 .. MaxThreads :
           img \in ImagesOf(n, t, CompSizes \union {0})
<1> DEFINE Of(n) ==
      UNION {ImagesOf(n, t, CompSizes \union {0}) : t \in 1 .. MaxThreads}
<1>1. PICK n \in Sizes \union {0} : img \in Of(n)
  BY DEF Images
<1>2. PICK t \in 1 .. MaxThreads : img \in ImagesOf(n, t, CompSizes \union {0})
  BY <1>1
<1>3. QED
  BY <1>2

(* Any image in memory or on disk has a length.                            *)
LEMMA ImageParts ==
  ASSUME NEW img \in Images \union {NoImage}
  PROVE  /\ TableBytes(img) \in Nat
         /\ SumFunctionOnSet(img.lens, BlocksOf(img)) \in Nat
<1>1. CASE img = NoImage
  <2>1. BlocksOf(img) = {}
    BY <1>1 DEF NoImage, BlocksOf
  <2>2. SumFunctionOnSet(img.lens, {}) \in Nat
    BY SumType, FS_EmptySet
  <2>3. QED
    BY <2>1, <2>2, FS_EmptySet DEF TableBytes
<1>2. CASE img \in Images
  <2>1. PICK n \in Sizes \union {0}, t \in 1 .. MaxThreads :
          img \in ImagesOf(n, t, CompSizes \union {0})
    BY <1>2, ImagesAre
  <2>2. n \in Nat /\ t \in Nat \ {0} /\ CompSizes \union {0} \in SUBSET Nat
    BY FileAssumption
  <2>3. QED
    BY <2>1, <2>2, ImageFacts
<1>3. QED
  BY <1>1, <1>2

(* And so has the file it is written to.                                   *)
LEMMA ImageBytesNat ==
  ASSUME NEW img \in Images \union {NoImage}
  PROVE  ImageBytes(img) \in Nat
BY ImageParts DEF ImageBytes, Header

(* An image of the input for any thread count is one of these.             *)
LEMMA ImagesHold ==
  ASSUME NEW n \in Sizes \union {0}, NEW t \in 1 .. MaxThreads,
         NEW L \in SUBSET (CompSizes \union {0}), NEW img \in ImagesOf(n, t, L)
  PROVE  img \in Images /\ img.size = n /\ img.blk > 0 /\ img.blk \in Nat
<1>1. n \in Nat /\ t \in Nat \ {0} /\ L \in SUBSET Nat
  BY FileAssumption
<1>2. img.size = n /\ img.blk \in Nat \ {0}
  BY <1>1, ImageFacts
<1>3. img \in ImagesOf(n, t, CompSizes \union {0})
  BY DEF ImagesOf
<1> DEFINE Of(k) == UNION {ImagesOf(k, u, CompSizes \union {0}) : u \in 1 .. MaxThreads}
<1>4. img \in Of(n)
  BY <1>3
<1>5. img \in Images
  <2> HIDE DEF Of
  <2>1. img \in UNION {Of(k) : k \in Sizes \union {0}}
    BY <1>4
  <2>2. QED
    BY <2>1, Zenon DEF Images, Of
<1>6. QED
  BY <1>2, <1>5

(* The size it says is one an input may have.                              *)
LEMMA ImageSize ==
  ASSUME NEW img \in Images
  PROVE  img.size \in Sizes \union {0}
<1>1. PICK n \in Sizes \union {0}, t \in 1 .. MaxThreads :
        img \in ImagesOf(n, t, CompSizes \union {0})
  BY ImagesAre
<1>2. QED
  BY <1>1, ImagesHold

-----------------------------------------------------------------------------
(* The files keep their types and shapes.                                  *)
FilesOK(d) ==
  /\ DOMAIN d = Modes /\ IsFile(d["c"]) /\ IsFile(d["d"])
  /\ ArchiveFile(d["c"])
  /\ d["d"].what \in PlainContents /\ d["d"].bytes \in 0 .. d["d"].what.size

(* They have them as long as the variables have theirs.                    *)
LEMMA FilesHold ==
  ASSUME TypeOK, Shapes
  PROVE  FilesOK(disk) /\ ignored \in [Modes -> SUBSET Faults]
BY DEF TypeOK, Shapes, FilesOK

(* What may stand in the file of a mode.                                   *)
Contents(m, what, n) ==
  /\ m = "c" => what \in Images /\ n \in 0 .. ImageBytes(what)
  /\ m = "d" => what \in PlainContents /\ n \in 0 .. what.size

(* Writing to one file leaves the other, and keeps what it should hold.    *)
LEMMA FilePut ==
  ASSUME NEW d, FilesOK(d), NEW m \in Modes, NEW f, IsFile(f),
         Contents(m, f.what, f.bytes), NEW e, e = [d EXCEPT ![m] = f]
  PROVE  FilesOK(e)
<1>1. DOMAIN e = Modes /\ e[m] = f
  BY DEF FilesOK
<1>2. \A k \in Modes : k # m => e[k] = d[k]
  BY DEF FilesOK
<1>3. CASE m = "c"
  BY <1>1, <1>2, <1>3 DEF FilesOK, IsFile, ArchiveFile, Modes, Contents
<1>4. CASE m = "d"
  BY <1>1, <1>2, <1>4 DEF FilesOK, IsFile, ArchiveFile, Modes, Contents
<1>5. QED
  BY <1>1, <1>3, <1>4 DEF Modes

(* What ends a run keeps the types and the shapes.                         *)
LEMMA LeaveHolds ==
  ASSUME TypeOK, Shapes, NEW code \in {"0", "1", "dead"}, Leave(code), src' = src,
         FilesOK(disk'), ignored' \in [Modes -> SUBSET Faults]
  PROVE  TypeOK' /\ Shapes'
<1>1. NoCall \in Calls /\ NoCall.mode = "c"
  BY FileAssumption DEF NoCall, Calls, Modes
<1>2. ArchiveFile(NoFile)
  <2>1. ImageBytes(NoImage) \in Nat
    BY ImageBytesNat
  <2>2. NoFile.what = NoImage /\ NoFile.bytes = 0
    BY DEF NoFile
  <2>3. QED
    BY <2>1, <2>2 DEF ArchiveFile
<1>3. exit' \in [Modes -> {"none", "0", "1", "dead"}]
  BY DEF Leave, TypeOK, Calls
<1>4. src' \in Sizes
  BY DEF TypeOK
<1>5. /\ pc' = "idle" /\ call' = NoCall /\ input' = 0 /\ archive' = NoFile
  BY DEF Leave
<1>6. TypeOK'
  BY <1>1, <1>2, <1>3, <1>4, <1>5 DEF FilesOK, TypeOK
<1>7. Shapes'
  BY <1>1, <1>5 DEF FilesOK, Shapes
<1>8. QED
  BY <1>6, <1>7

(* A fault that is met is remembered among the faults.                     *)
LEMMA MeetHolds ==
  ASSUME TypeOK, NEW fault, Meet(fault)
  PROVE  ignored' \in [Modes -> SUBSET Faults]
BY DEF TypeOK, Meet, Calls

(* The step of every action that ends a run without touching a file.       *)
LEMMA LeaveStep ==
  ASSUME TypeOK, Shapes, NEW code \in {"0", "1", "dead"}, Leave(code),
         UNCHANGED <<src, disk>>, ignored' \in [Modes -> SUBSET Faults]
  PROVE  TypeOK' /\ Shapes'
<1>1. FilesOK(disk')
  BY FilesHold
<1>2. QED
  BY <1>1, LeaveHolds

(* The step of every action that goes on without touching a file, from the *)
(* facts about where it goes.                                              *)
LEMMA GoOnStep ==
  ASSUME TypeOK, Shapes, NEW next, GoOn(next), UNCHANGED <<src, disk>>,
         next \in {"compress", "pack", "verify", "parse", "decompress", "open"},
         ignored' \in [Modes -> SUBSET Faults],
         input' \in {0, src}, ArchiveFile(archive'),
         next \in {"compress", "pack", "verify"} => call.mode = "c",
         next \in {"parse", "decompress"} => call.mode = "d",
         next = "open" => ~call.verify, next = "verify" => call.verify,
         call.mode = "c" /\ next # "compress" =>
           product' \in Images /\ product'.size = input' /\ product'.blk > 0,
         call.mode = "d" /\ next = "open" => product' \in PlainContents
  PROVE  TypeOK' /\ Shapes'
<1>1. pc' = next /\ call' = call /\ exit' = exit
  BY DEF GoOn
<1>2. TypeOK'
  <2>1. /\ src' \in Sizes /\ call' \in Calls /\ input' \in {0, src'}
        /\ exit' \in [Modes -> {"none", "0", "1", "dead"}]
    BY <1>1 DEF TypeOK
  <2>2. ArchiveFile(disk'["c"]) /\ disk'["d"].what \in PlainContents
        /\ disk'["d"].bytes \in 0 .. disk'["d"].what.size
    BY DEF TypeOK
  <2>3. pc' \in {"pack", "verify"} => product' \in Images /\ product'.blk > 0
    BY <1>1
  <2>4. QED
    BY <1>1, <2>1, <2>2, <2>3 DEF TypeOK
<1>3. Shapes'
  BY <1>1 DEF Shapes, TypeOK, Calls, Modes
<1>4. QED
  BY <1>2, <1>3

(* What is written is so many bytes long.                                  *)
LEMMA ProductHolds ==
  ASSUME TypeOK, Shapes, pc \in {"open", "write", "close"}
  PROVE  /\ ProductBytes \in Nat
         /\ call.mode = "c" => product \in Images /\ ProductBytes = ImageBytes(product)
         /\ call.mode = "d" => product \in PlainContents /\ ProductBytes = product.size
         /\ call.mode \in Modes
<1>1. call.mode \in Modes
  BY DEF TypeOK, Calls
<1>2. CASE call.mode = "c"
  <2>1. product \in Images
    BY <1>2 DEF Shapes
  <2>2. ImageBytes(product) \in Nat
    BY <2>1, ImageBytesNat
  <2>3. QED
    BY <1>2, <2>1, <2>2 DEF ProductBytes, Modes
<1>3. CASE call.mode = "d"
  <2>1. product \in PlainContents
    BY <1>3 DEF Shapes
  <2>2. product.size \in Nat
    <3>1. product.size \in Sizes \union {0}
      BY <2>1, Zenon DEF PlainContents
    <3>2. \A x \in Sizes \union {0} : x \in Nat
      BY FileAssumption
    <3>3. QED
      BY <3>1, <3>2, Zenon
  <2>3. ProductBytes = product.size
    BY <1>3 DEF ProductBytes
  <2>4. QED
    BY <1>1, <1>3, <2>1, <2>2, <2>3
<1>4. QED
  BY <1>1, <1>2, <1>3 DEF Modes

(* A file that is opened or written to holds part of the product.          *)
LEMMA WriteHolds ==
  ASSUME TypeOK, Shapes, pc \in {"open", "write", "close"}, NEW n \in 0 .. ProductBytes,
         \/ disk' = [disk EXCEPT ![call.mode] = [what |-> product, bytes |-> n]]
         \/ pc # "open" /\ disk' = [disk EXCEPT ![call.mode].bytes = n]
  PROVE  FilesOK(disk') /\ disk'[call.mode] = [what |-> product, bytes |-> n]
<1>1. PICK m \in Modes : m = call.mode
  BY ProductHolds
<1>2. FilesOK(disk)
  BY FilesHold
<1>3. disk' = [disk EXCEPT ![m] = [what |-> product, bytes |-> n]]
  <2>1. CASE disk' = [disk EXCEPT ![call.mode] = [what |-> product, bytes |-> n]]
    BY <1>1, <2>1
  <2>2. CASE pc # "open" /\ disk' = [disk EXCEPT ![call.mode].bytes = n]
    <3>1. disk[m].what = product
      BY <1>1, <2>2 DEF Shapes
    <3>2. disk[m] = [what |-> product, bytes |-> disk[m].bytes]
      BY <1>2, <3>1 DEF FilesOK, IsFile, Modes
    <3>3. [disk[m] EXCEPT !.bytes = n] = [what |-> product, bytes |-> n]
      BY <3>2
    <3>4. disk' = [disk EXCEPT ![m] = [disk[m] EXCEPT !.bytes = n]]
      BY <1>1, <2>2
    <3>5. QED
      BY <3>3, <3>4
  <2>3. QED
    BY <2>1, <2>2
<1>4. /\ m = "c" => product \in Images /\ n \in 0 .. ImageBytes(product)
      /\ m = "d" => product \in PlainContents /\ n \in 0 .. product.size
  <2>1. /\ call.mode = "c" => product \in Images /\ ProductBytes = ImageBytes(product)
        /\ call.mode = "d" => product \in PlainContents /\ ProductBytes = product.size
    BY ProductHolds
  <2>2. QED
    BY <1>1, <2>1
<1>5. FilesOK(disk') /\ disk'[m] = [what |-> product, bytes |-> n]
  <2>1. PICK d, e, f : d = disk /\ e = disk' /\ f = [what |-> product, bytes |-> n]
    OBVIOUS
  <2>2. FilesOK(d) /\ e = [d EXCEPT ![m] = f]
    BY <1>2, <1>3, <2>1
  <2>3. IsFile(f) /\ Contents(m, f.what, f.bytes)
    BY <1>4, <2>1 DEF Contents, IsFile
  <2>4. FilesOK(e)
    BY <2>2, <2>3, FilePut
  <2>5. e[m] = f
    BY <2>2 DEF FilesOK
  <2>6. QED
    BY <2>1, <2>4, <2>5
<1>6. QED
  BY <1>1, <1>5

(* The step that writes and goes on.                                       *)
LEMMA WriteStep ==
  ASSUME TypeOK, Shapes, pc \in {"open", "write"}, NEW n \in 0 .. ProductBytes,
         NEW next \in {"write", "close"}, GoOn(next),
         UNCHANGED <<src, input, archive, product, ignored>>,
         \/ disk' = [disk EXCEPT ![call.mode] = [what |-> product, bytes |-> n]]
         \/ pc # "open" /\ disk' = [disk EXCEPT ![call.mode].bytes = n]
  PROVE  TypeOK' /\ Shapes'
<1>1. FilesOK(disk') /\ disk'[call.mode] = [what |-> product, bytes |-> n]
  BY WriteHolds
<1>2. disk'[call.mode].what = product
  BY <1>1
<1>3. pc' = next /\ call' = call /\ exit' = exit
  BY DEF GoOn
<1>4. TypeOK'
  <2>1. /\ src' \in Sizes /\ call' \in Calls /\ input' \in {0, src'}
        /\ exit' \in [Modes -> {"none", "0", "1", "dead"}]
        /\ ignored' \in [Modes -> SUBSET Faults]
        /\ ArchiveFile(archive')
    BY <1>3 DEF TypeOK
  <2>2. QED
    BY <1>1, <1>3, <2>1 DEF TypeOK, FilesOK
<1>5. Shapes'
  BY <1>1, <1>2, <1>3 DEF Shapes, FilesOK
<1>6. QED
  BY <1>4, <1>5

-----------------------------------------------------------------------------
(* Every step of a compression that is not a write keeps the types and the *)
(* shapes.                                                                 *)
LEMMA CompressTypes ==
  ASSUME TypeOK, Shapes, ReadSource \/ TooLarge \/ Compress \/ Pack \/ Verify
  PROVE  TypeOK' /\ Shapes'
<1>1. /\ call.threads \in 1 .. MaxThreads /\ input \in Sizes \union {0}
      /\ ignored \in [Modes -> SUBSET Faults] /\ ArchiveFile(archive)
      /\ input \in {0, src}
  BY DEF TypeOK, Calls
<1>2. ASSUME ReadSource
      PROVE  TypeOK' /\ Shapes'
  <2>1. ignored' \in [Modes -> SUBSET Faults]
    BY <1>1, <1>2, MeetHolds DEF ReadSource
  <2>2. QED
    BY <1>1, <1>2, <2>1, GoOnStep DEF ReadSource
<1>3. ASSUME TooLarge
      PROVE  TypeOK' /\ Shapes'
  BY <1>1, <1>3, LeaveStep DEF TooLarge
<1>4. ASSUME Compress
      PROVE  TypeOK' /\ Shapes'
  <2>1. ignored' \in [Modes -> SUBSET Faults]
    BY <1>1, <1>4, MeetHolds DEF Compress
  <2>2. ASSUME NEW code, Leave(code), code \in {"1", "dead"}
        PROVE  TypeOK' /\ Shapes'
    BY <1>4, <2>1, <2>2, LeaveStep DEF Compress
  <2>3. ASSUME NEW L \in SUBSET (CompSizes \union {0}),
               product' \in ImagesOf(input, call.threads, L), GoOn("pack"),
               UNCHANGED <<input, archive>>
        PROVE  TypeOK' /\ Shapes'
    <3>1. product' \in Images /\ product'.size = input /\ product'.blk > 0
      BY <1>1, <2>3, ImagesHold
    <3>2. pc = "compress" /\ UNCHANGED <<src, disk>>
      BY <1>4 DEF Compress
    <3>3. call.mode = "c"
      BY <3>2 DEF Shapes
    <3>4. QED
      BY <1>1, <2>1, <2>3, <3>1, <3>2, <3>3, GoOnStep
  <2>4. QED
    BY <1>4, <2>2, <2>3 DEF Compress
<1>5. ASSUME Pack
      PROVE  TypeOK' /\ Shapes'
  <2>1. pc = "pack" /\ UNCHANGED <<src, disk, ignored>>
    BY <1>5 DEF Pack
  <2>2. CASE Leave("1")
    BY <1>1, <2>1, <2>2, LeaveStep
  <2>3. CASE GoOn(IF call.verify THEN "verify" ELSE "open")
             /\ UNCHANGED <<input, archive, product>>
    <3>1. call.mode = "c" /\ product \in Images /\ product.size = input /\ product.blk > 0
      BY <2>1 DEF Shapes
    <3>2. CASE call.verify
      BY <1>1, <2>1, <2>3, <3>1, <3>2, GoOnStep
    <3>3. CASE ~call.verify
      BY <1>1, <2>1, <2>3, <3>1, <3>3, GoOnStep
    <3>4. QED
      BY <3>2, <3>3
  <2>4. QED
    BY <1>5, <2>2, <2>3 DEF Pack
<1>6. ASSUME Verify
      PROVE  TypeOK' /\ Shapes'
  <2>1. ignored' \in [Modes -> SUBSET Faults]
    BY <1>1, <1>6, MeetHolds DEF Verify
  <2>2. \E code \in {"0", "1", "dead"} : Leave(code)
    BY <1>6 DEF Verify
  <2>3. QED
    BY <1>6, <2>1, <2>2, LeaveStep DEF Verify
<1>7. QED
  BY <1>2, <1>3, <1>4, <1>5, <1>6

(* Every step of a decompression that is not a write.                      *)
LEMMA DecompressTypes ==
  ASSUME TypeOK, Shapes, ReadArchive \/ ParseRefuses \/ Parse \/ Decompress
  PROVE  TypeOK' /\ Shapes'
<1>1. /\ ignored \in [Modes -> SUBSET Faults] /\ ArchiveFile(archive)
      /\ input \in {0, src} /\ call.verify \in BOOLEAN
  BY DEF TypeOK, Calls
<1>2. ASSUME ReadArchive
      PROVE  TypeOK' /\ Shapes'
  <2>1. ArchiveFile(disk["c"]) /\ ArchiveFile(NoFile)
    <3>1. ImageBytes(NoImage) \in Nat
      BY ImageBytesNat
    <3>2. NoFile.what = NoImage /\ NoFile.bytes = 0
      BY DEF NoFile
    <3>3. ArchiveFile(NoFile)
      BY <3>1, <3>2 DEF ArchiveFile
    <3>4. QED
      BY <3>3 DEF TypeOK
  <2>2. ArchiveFile(archive')
    BY <1>2, <2>1 DEF ReadArchive
  <2>3. QED
    BY <1>1, <1>2, <2>2, GoOnStep DEF ReadArchive
<1>3. ASSUME ParseRefuses
      PROVE  TypeOK' /\ Shapes'
  BY <1>1, <1>3, LeaveStep DEF ParseRefuses
<1>4. ASSUME Parse
      PROVE  TypeOK' /\ Shapes'
  <2>1. pc = "parse" /\ UNCHANGED <<src, disk, ignored>>
    BY <1>4 DEF Parse
  <2>2. CASE Leave("1")
    BY <1>1, <2>1, <2>2, LeaveStep
  <2>3. CASE GoOn("decompress") /\ UNCHANGED <<input, archive, product>>
    <3>1. call.mode = "d"
      BY <2>1 DEF Shapes
    <3>2. QED
      BY <1>1, <2>1, <2>3, <3>1, GoOnStep
  <2>4. QED
    BY <1>4, <2>2, <2>3 DEF Parse
<1>5. ASSUME Decompress
      PROVE  TypeOK' /\ Shapes'
  <2> DEFINE img == archive.what
             Answer(right) ==
               IF call.verify THEN Leave("0")
               ELSE /\ product' = Plain(img.size, right)
                    /\ GoOn("open")
                    /\ UNCHANGED <<input, archive>>
  <2>1. pc = "decompress" /\ UNCHANGED <<src, disk>> /\ call.mode = "d"
    BY <1>5 DEF Decompress, Shapes
  <2>2. ignored' \in [Modes -> SUBSET Faults]
    BY <1>1, <1>5, MeetHolds DEF Decompress
  <2>3. \/ \E code \in {"0", "1", "dead"} : Leave(code)
        \/ \E right \in BOOLEAN : ~call.verify /\ Answer(right)
    <3>1. Restores(img) \in BOOLEAN
      BY DEF Restores
    <3>2. QED
      BY <1>5, <3>1, Zenon DEF Decompress
  <2>4. img.size \in Sizes \union {0}
    <3>1. CASE img \in Images
      BY <3>1, ImageSize
    <3>2. CASE img = NoImage
      BY <3>2 DEF NoImage
    <3>3. QED
      BY <1>1, <3>1, <3>2 DEF ArchiveFile
  <2>5. CASE \E code \in {"0", "1", "dead"} : Leave(code)
    BY <2>1, <2>2, <2>5, LeaveStep
  <2>6. ASSUME NEW right \in BOOLEAN, ~call.verify, Answer(right)
        PROVE  TypeOK' /\ Shapes'
    <3>1. /\ product' = Plain(img.size, right) /\ GoOn("open")
          /\ UNCHANGED <<input, archive>>
      BY <2>6
    <3>2. product' \in PlainContents
      BY <2>4, <3>1 DEF Plain, PlainContents
    <3>3. QED
      BY <1>1, <2>1, <2>2, <2>6, <3>1, <3>2, GoOnStep
  <2>7. QED
    BY <2>3, <2>5, <2>6
<1>6. QED
  BY <1>2, <1>3, <1>4, <1>5

(* Every step of write_entire.                                             *)
LEMMA WriteTypes ==
  ASSUME TypeOK, Shapes, OpenFails \/ Open \/ Write \/ WriteShort \/ Close \/ CloseFails
  PROVE  TypeOK' /\ Shapes'
<1>1. ignored \in [Modes -> SUBSET Faults]
  BY DEF TypeOK
<1>2. pc \in {"open", "write", "close"}
  BY DEF OpenFails, Open, Write, WriteShort, Close, CloseFails
<1>3. ProductBytes \in Nat
  BY <1>2, ProductHolds
<1>4. ASSUME OpenFails
      PROVE  TypeOK' /\ Shapes'
  BY <1>1, <1>4, LeaveStep DEF OpenFails
<1>5. ASSUME Open
      PROVE  TypeOK' /\ Shapes'
  <2>1. 0 \in 0 .. ProductBytes
    BY <1>3
  <2>2. QED
    BY <1>5, <2>1, WriteStep DEF Open
<1>6. ASSUME Write
      PROVE  TypeOK' /\ Shapes'
  <2>1. PICK n \in 0 .. ProductBytes : disk' = [disk EXCEPT ![call.mode].bytes = n]
    BY <1>6 DEF Write
  <2>2. QED
    BY <1>6, <2>1, WriteStep DEF Write
<1>7. ASSUME NEW n \in 0 .. ProductBytes, pc # "open",
             disk' = [disk EXCEPT ![call.mode].bytes = n], src' = src, ignored' = ignored,
             NEW code \in {"0", "1"}, Leave(code)
      PROVE  TypeOK' /\ Shapes'
  <2>1. FilesOK(disk')
    BY <1>2, <1>7, WriteHolds
  <2>2. QED
    BY <1>1, <1>7, <2>1, LeaveHolds
<1>8. ASSUME WriteShort
      PROVE  TypeOK' /\ Shapes'
  <2>1. PICK n \in 0 .. ProductBytes - 1 : disk' = [disk EXCEPT ![call.mode].bytes = n]
    BY <1>8 DEF WriteShort
  <2>2. n \in 0 .. ProductBytes
    BY <1>3
  <2>3. QED
    BY <1>7, <1>8, <2>1, <2>2 DEF WriteShort
<1>9. ASSUME Close
      PROVE  TypeOK' /\ Shapes'
  <2>1. PICK n \in 0 .. ProductBytes : n = ProductBytes
    BY <1>3
  <2>2. disk' = [disk EXCEPT ![call.mode].bytes = n]
    BY <1>9, <2>1 DEF Close
  <2>3. QED
    BY <1>7, <1>9, <2>2 DEF Close
<1>10. ASSUME CloseFails
       PROVE  TypeOK' /\ Shapes'
  BY <1>10, MeetHolds, LeaveStep DEF CloseFails
<1>11. QED
  BY <1>4, <1>5, <1>6, <1>8, <1>9, <1>10

(* Every step, the start of a run and its death among them.                *)
LEMMA TypeStep ==
  ASSUME TypeOK, Shapes, [Next]_vars
  PROVE  TypeOK' /\ Shapes'
<1>1. ignored \in [Modes -> SUBSET Faults]
  BY DEF TypeOK
<1>2. ASSUME Start
      PROVE  TypeOK' /\ Shapes'
  <2>1. /\ exit' \in [Modes -> {"none", "0", "1", "dead"}]
        /\ ignored' \in [Modes -> SUBSET Faults]
    BY <1>2 DEF Start, TypeOK
  <2>2. /\ pc' = "read" /\ call' \in Calls
        /\ UNCHANGED <<src, disk, input, archive, product>>
    BY <1>2 DEF Start
  <2>3. QED
    BY <2>1, <2>2 DEF TypeOK, Shapes
<1>3. ASSUME Kill
      PROVE  TypeOK' /\ Shapes'
  BY <1>1, <1>3, LeaveStep DEF Kill
<1>4. ASSUME UNCHANGED vars
      PROVE  TypeOK' /\ Shapes'
  BY <1>4 DEF vars, TypeOK, Shapes
<1>5. QED
  BY <1>2, <1>3, <1>4, CompressTypes, DecompressTypes, WriteTypes DEF Next

(* The files are there, empty, and nobody runs.                            *)
LEMMA FileInit ==
  ASSUME Init
  PROVE  FInv
<1>1. disk["c"] = NoFile /\ disk["d"] = [what |-> Plain(0, TRUE), bytes |-> 0]
      /\ DOMAIN disk = Modes
  BY DEF Init, Modes
<1>2. NoFile.what = NoImage /\ NoFile.bytes = 0 /\ IsFile(NoFile)
  BY DEF NoFile, IsFile
<1>3. ImageBytes(NoImage) \in Nat
  BY ImageBytesNat
<1>4. ArchiveFile(NoFile)
  BY <1>2, <1>3 DEF ArchiveFile
<1>5. Plain(0, TRUE) \in PlainContents /\ Plain(0, TRUE).size = 0
  BY DEF Plain, PlainContents
<1>6. NoCall \in Calls /\ NoCall.mode = "c"
  BY FileAssumption DEF NoCall, Calls, Modes
<1>7. TypeOK
  <2>1. /\ src \in Sizes /\ pc = "idle" /\ call = NoCall /\ input = 0 /\ archive = NoFile
        /\ exit \in [Modes -> {"none", "0", "1", "dead"}]
        /\ ignored \in [Modes -> SUBSET Faults]
    BY DEF Init
  <2>2. disk["d"].what = Plain(0, TRUE) /\ disk["d"].bytes = 0
    BY <1>1
  <2>3. disk["d"].what \in PlainContents /\ disk["d"].bytes \in 0 .. disk["d"].what.size
    <3>1. disk["d"].what \in PlainContents /\ disk["d"].what.size = 0
      BY <1>5, <2>2, Zenon
    <3>2. 0 \in 0 .. 0
      OBVIOUS
    <3>3. QED
      BY <2>2, <3>1, <3>2
  <2>4. QED
    BY <1>1, <1>4, <1>6, <2>1, <2>3 DEF TypeOK
<1>8. Shapes
  BY <1>1, <1>2, <1>6 DEF Init, Shapes, IsFile
<1>9. TakenBack /\ WholeArchive /\ GoodProducts
  <2>1. /\ pc = "idle" /\ call = NoCall /\ exit["c"] = "none" /\ exit["d"] = "none"
    BY DEF Init, Modes
  <2>2. QED
    BY <1>6, <2>1 DEF TakenBack, WholeArchive, GoodProducts, MadeImage, MadeCopy, Rewriting,
       Rewrites
<1>10. QED
  BY <1>7, <1>8, <1>9 DEF FInv

-----------------------------------------------------------------------------
(* What a step other than the start of a run does to the answers: it goes  *)
(* on with them, or ends the run with one more.                            *)
LEMMA LeaveFacts ==
  ASSUME TypeOK, NEW code, Leave(code)
  PROVE  /\ pc' = "idle"
         /\ \A m \in Modes : exit'[m] = IF Rewrites(m) THEN code ELSE exit[m]
BY DEF TypeOK, Leave, Rewrites, Calls

(* A fault that a writing run meets is put down for its mode.              *)
LEMMA MeetFacts ==
  ASSUME TypeOK, NEW fault, Meet(fault)
  PROVE  /\ \A m \in Modes : Rewrites(m) => ignored'[m] # {}
         /\ \A m \in Modes : ignored'[m] = {} => ignored[m] = {}
BY DEF TypeOK, Meet, Rewrites, Calls

(* The kinds of steps there are.                                           *)
LEMMA StepKinds ==
  ASSUME TypeOK, Next, ~Start
  PROVE  /\ src' = src /\ pc # "idle"
         /\ \/ GoOn(pc')
            \/ Leave("1") \/ Leave("dead")
            \/ Leave("0") /\ (Verify \/ Decompress \/ Close \/ CloseFails)
         /\ \/ ignored' = ignored
            \/ \E fault : Meet(fault)
<1>1. CASE ReadSource
  BY <1>1 DEF ReadSource, GoOn
<1>2. CASE TooLarge
  BY <1>2 DEF TooLarge
<1>3. CASE Compress
  BY <1>3 DEF Compress, GoOn
<1>4. CASE Pack
  BY <1>4 DEF Pack, GoOn
<1>5. CASE Verify
  <2> HIDE DEF Verify
  <2>1. pc = "verify" /\ src' = src
    BY <1>5 DEF Verify
  <2>2. (Leave("0") \/ Leave("dead") \/ Leave("1")) /\ (ignored' = ignored \/ \E fault : Meet(fault))
    BY <1>5, Zenon DEF Verify
  <2>3. QED
    BY <1>5, <2>1, <2>2
<1>6. CASE ReadArchive
  BY <1>6 DEF ReadArchive, GoOn
<1>7. CASE ParseRefuses
  BY <1>7 DEF ParseRefuses
<1>8. CASE Parse
  BY <1>8 DEF Parse, GoOn
<1>9. CASE Decompress
  <2>1. pc = "decompress" /\ src' = src
    BY <1>9 DEF Decompress
  <2>2. (Leave("0") \/ Leave("dead") \/ Leave("1") \/ GoOn("open"))
        /\ (ignored' = ignored \/ \E fault : Meet(fault))
    BY <1>9, Zenon DEF Decompress
  <2>3. GoOn("open") => GoOn(pc')
    BY DEF GoOn
  <2>4. QED
    BY <1>9, <2>1, <2>2, <2>3
<1>10. CASE OpenFails \/ Open \/ Write \/ WriteShort
  BY <1>10 DEF OpenFails, Open, Write, WriteShort, GoOn
<1>11. CASE Close \/ CloseFails
  BY <1>11 DEF Close, CloseFails
<1>12. CASE Kill
  BY <1>12 DEF Kill
<1>13. QED
  BY <1>1, <1>2, <1>3, <1>4, <1>5, <1>6, <1>7, <1>8, <1>9, <1>10, <1>11, <1>12 DEF Next

(* A file changes only under a writing run of its mode, in write_entire,   *)
(* and then to the product.                                                *)
LEMMA FileChanges ==
  ASSUME TypeOK, Shapes, Next, NEW m \in Modes, disk'[m] # disk[m]
  PROVE  /\ call.mode = m /\ ~call.verify /\ pc \in {"open", "write", "close"}
         /\ Open \/ Write \/ WriteShort \/ Close
         /\ disk'[m].what = product
<1>1. Open \/ Write \/ WriteShort \/ Close
  <2>1. disk' # disk
    OBVIOUS
  <2>2. QED
    BY <2>1 DEF Next, Start, ReadSource, TooLarge, Compress, Pack, Verify, ReadArchive,
       ParseRefuses, Parse, Decompress, OpenFails, CloseFails, Kill
<1>2. pc \in {"open", "write", "close"}
  BY <1>1 DEF Open, Write, WriteShort, Close
<1>3. ~call.verify
  BY <1>2 DEF Shapes
<1>4. ProductBytes \in Nat
  BY <1>2, ProductHolds
<1>5. \E n \in 0 .. ProductBytes :
        \/ disk' = [disk EXCEPT ![call.mode] = [what |-> product, bytes |-> n]]
        \/ pc # "open" /\ disk' = [disk EXCEPT ![call.mode].bytes = n]
  <2>1. CASE Open
    <3>1. 0 \in 0 .. ProductBytes
      BY <1>4
    <3>2. QED
      BY <2>1, <3>1 DEF Open
  <2>2. CASE Write
    BY <2>2 DEF Write
  <2>3. CASE WriteShort
    <3>1. PICK n \in 0 .. ProductBytes - 1 : disk' = [disk EXCEPT ![call.mode].bytes = n]
      BY <2>3 DEF WriteShort
    <3>2. n \in 0 .. ProductBytes /\ pc # "open"
      BY <1>4, <2>3 DEF WriteShort
    <3>3. QED
      BY <3>1, <3>2
  <2>4. CASE Close
    <3>1. PICK n \in 0 .. ProductBytes : n = ProductBytes
      BY <1>4
    <3>2. disk' = [disk EXCEPT ![call.mode].bytes = n] /\ pc # "open"
      BY <2>4, <3>1 DEF Close
    <3>3. QED
      BY <3>2
  <2>5. QED
    BY <1>1, <2>1, <2>2, <2>3, <2>4
<1>6. PICK n \in 0 .. ProductBytes :
        \/ disk' = [disk EXCEPT ![call.mode] = [what |-> product, bytes |-> n]]
        \/ pc # "open" /\ disk' = [disk EXCEPT ![call.mode].bytes = n]
  BY <1>5
<1>7. disk'[call.mode] = [what |-> product, bytes |-> n]
  BY <1>2, <1>6, WriteHolds
<1>8. call.mode = m
  BY <1>6 DEF Shapes
<1>9. QED
  BY <1>1, <1>2, <1>3, <1>7, <1>8

(* What the start of a run does to the answers.                            *)
LEMMA StartFacts ==
  ASSUME TypeOK, Start
  PROVE  /\ pc = "idle" /\ pc' = "read" /\ call' \in Calls
         /\ UNCHANGED <<src, disk, input, archive, product>>
         /\ Rewrites("c")' => exit'["c"] = "none" /\ exit'["d"] = "none"
         /\ Rewrites("d")' => exit'["d"] = "none"
         /\ \A m \in Modes :
              exit'[m] # "none" => exit'[m] = exit[m] /\ ignored'[m] = ignored[m]
<1>1. /\ pc = "idle" /\ pc' = "read" /\ call' \in Calls
      /\ UNCHANGED <<src, disk, input, archive, product>>
  BY DEF Start
<1> DEFINE restarted == CASE call'.verify       -> {}
                          [] call'.mode = "c"   -> Modes
                          [] call'.mode = "d"   -> {"d"}
<1>2. /\ exit' = [m \in Modes |-> IF m \in restarted THEN "none" ELSE exit[m]]
      /\ ignored' = [m \in Modes |-> IF m \in restarted THEN {} ELSE ignored[m]]
  BY DEF Start
<1>3. call'.mode \in Modes /\ call'.verify \in BOOLEAN
  BY <1>1 DEF Calls
<1>4. /\ Rewrites("c")' => restarted = Modes
      /\ Rewrites("d")' => restarted = {"d"}
  BY <1>3 DEF Rewrites, Modes
<1> HIDE DEF restarted
<1>5. "c" \in Modes /\ "d" \in Modes
  BY DEF Modes
<1>6. QED
  BY <1>1, <1>2, <1>4, <1>5

(* The answers that a run will change stay taken back while it runs.       *)
LEMMA TakenBackStep ==
  ASSUME TypeOK, TakenBack, Next
  PROVE  TakenBack'
<1>1. CASE Start
  <2>1. /\ Rewrites("c")' => exit'["c"] = "none" /\ exit'["d"] = "none"
        /\ Rewrites("d")' => exit'["d"] = "none"
    BY <1>1, StartFacts
  <2>2. QED
    BY <2>1 DEF TakenBack, Rewriting
<1>2. CASE ~Start
  <2>1. pc # "idle" /\ (GoOn(pc') \/ \E code : Leave(code))
    BY <1>2, StepKinds
  <2>2. CASE GoOn(pc')
    <3>1. call' = call /\ exit' = exit
      BY <2>2 DEF GoOn
    <3>2. QED
      BY <2>1, <3>1 DEF TakenBack, Rewriting, Rewrites
  <2>3. CASE \E code : Leave(code)
    <3>1. pc' = "idle"
      BY <2>3, LeaveFacts
    <3>2. QED
      BY <3>1 DEF TakenBack, Rewriting
  <2>4. QED
    BY <2>1, <2>2, <2>3
<1>3. QED
  BY <1>1, <1>2

(* A decompression gets past the header only with the whole archive.       *)
LEMMA ParseWhole ==
  ASSUME TypeOK, Shapes, WholeArchive, Parse
  PROVE  archive = disk["c"] /\ Whole
<1>1. call.mode = "d" /\ pc = "parse"
  BY DEF Parse, Shapes
<1>2. archive \in {disk["c"], NoFile}
  BY <1>1 DEF WholeArchive
<1>3. ~(archive.bytes < Header) /\ ~TruncatedPayload(archive)
  BY DEF Parse, TooSmall
<1>4. archive = disk["c"]
  BY <1>2, <1>3 DEF NoFile, Header
<1>5. ArchiveFile(disk["c"])
  BY DEF TypeOK
<1> DEFINE img == disk["c"].what
           sum == SumFunctionOnSet(img.lens, BlocksOf(img))
<1>6. ImageBytes(img) \in Nat /\ disk["c"].bytes \in 0 .. ImageBytes(img)
  BY <1>5, ImageBytesNat DEF ArchiveFile
<1>7. sum \in Nat /\ TableBytes(img) \in Nat
  BY <1>5, ImageParts DEF ArchiveFile
<1>8. ImageBytes(img) = Header + TableBytes(img) + sum
  BY DEF ImageBytes
<1>9. ~(sum > disk["c"].bytes - Header - TableBytes(img))
  BY <1>3, <1>4 DEF TruncatedPayload, PayloadSize
<1>10. Header = 14
  BY DEF Header
<1> HIDE DEF sum, img
<1>11. disk["c"].bytes = ImageBytes(img)
  BY <1>6, <1>7, <1>8, <1>9, <1>10
<1>12. QED
  BY <1>4, <1>11 DEF Whole, img

(* It keeps the archive it read, and answers only then.                    *)
LEMMA WholeArchiveStep ==
  ASSUME TypeOK, Shapes, TakenBack, WholeArchive, Next
  PROVE  WholeArchive'
<1>0. "c" \in Modes /\ "d" \in Modes /\ call.mode \in Modes
  BY DEF Modes, TypeOK, Calls
<1>1. CASE Start
  <2>1. /\ pc' = "read" /\ disk' = disk
        /\ exit'["d"] # "none" => exit'["d"] = exit["d"]
    BY <1>0, <1>1, StartFacts
  <2>2. QED
    BY <2>1 DEF WholeArchive, Whole
<1>2. CASE ~Start
  <2>1. pc # "idle"
    BY <1>2, StepKinds
  <2>2. ASSUME disk'["c"] # disk["c"]
        PROVE  exit'["d"] = "none" /\ (pc' = "idle" \/ call'.mode = "c")
    <3>1. call.mode = "c" /\ ~call.verify
      BY <1>0, <2>2, FileChanges
    <3>2. exit["d"] = "none"
      BY <2>1, <3>1 DEF TakenBack, Rewriting, Rewrites
    <3>3. GoOn(pc') \/ \E code : Leave(code)
      BY <1>2, StepKinds
    <3>4. CASE GoOn(pc')
      BY <3>1, <3>2, <3>4 DEF GoOn
    <3>5. CASE \E code : Leave(code)
      BY <1>0, <3>1, <3>2, <3>5, LeaveFacts DEF Rewrites
    <3>6. QED
      BY <3>3, <3>4, <3>5
  <2>3. ASSUME disk'["c"] = disk["c"], call'.mode = "d", pc' = "parse"
        PROVE  archive' \in {disk'["c"], NoFile}
    <3>1. ReadArchive
      BY <1>2, <2>3 DEF Next, ReadSource, TooLarge, Compress, Pack, Verify, ReadArchive,
         ParseRefuses, Parse, Decompress, OpenFails, Open, Write, WriteShort, Close,
         CloseFails, Kill, Leave, GoOn
    <3>2. QED
      BY <2>3, <3>1 DEF ReadArchive
  <2>4. ASSUME disk'["c"] = disk["c"], call'.mode = "d",
               pc' \in {"decompress", "open", "write", "close"}
        PROVE  archive' = disk'["c"] /\ Whole'
    <3>1. GoOn(pc')
      BY <1>2, <2>4, StepKinds, LeaveFacts
    <3>2. call.mode = "d"
      BY <2>4, <3>1 DEF GoOn
    <3>3. CASE Parse
      <4>1. archive' = archive
        BY <2>4, <3>3 DEF Parse, Leave
      <4>2. QED
        BY <2>4, <3>3, <4>1, ParseWhole DEF Whole
    <3>4. CASE ~Parse
      <4>1. archive' = archive /\ pc \in {"decompress", "open", "write", "close"}
        BY <1>2, <2>4, <3>2, <3>4 DEF Next, ReadSource, TooLarge, Compress, Pack, Verify,
           ReadArchive, ParseRefuses, Decompress, OpenFails, Open, Write, WriteShort, Close,
           CloseFails, Kill, Leave, GoOn, Shapes
      <4>2. QED
        BY <2>4, <3>2, <4>1 DEF WholeArchive, Whole
    <3>5. QED
      BY <3>3, <3>4
  <2>5. ASSUME disk'["c"] = disk["c"], exit'["d"] = "0"
        PROVE  Whole'
    <3>1. CASE exit["d"] = "0"
      BY <2>5, <3>1 DEF WholeArchive, Whole
    <3>2. CASE exit["d"] # "0"
      <4>1. /\ Leave("0") /\ (Verify \/ Decompress \/ Close \/ CloseFails)
            /\ call.mode = "d" /\ ~call.verify
        BY <1>0, <1>2, <2>5, <3>2, StepKinds, LeaveFacts DEF GoOn, Rewrites
      <4>2. pc \in {"decompress", "close"}
        BY <4>1 DEF Verify, Decompress, Close, CloseFails, Shapes
      <4>3. QED
        BY <2>5, <4>1, <4>2 DEF WholeArchive, Whole
    <3>3. QED
      BY <3>1, <3>2
  <2>6. QED
    BY <2>2, <2>3, <2>4, <2>5 DEF WholeArchive
<1>3. QED
  BY <1>1, <1>2

-----------------------------------------------------------------------------
(* A compression without a fault makes a good image of the source.         *)
LEMMA MadeImageStep ==
  ASSUME TypeOK, Shapes, MadeImage, Next
  PROVE  MadeImage'
<1>0. "c" \in Modes /\ call.threads \in 1 .. MaxThreads /\ input \in Sizes \union {0}
  BY DEF Modes, TypeOK, Calls
<1> SUFFICES ASSUME ignored'["c"] = {}, Rewriting("c")'
             PROVE  /\ pc' \in {"compress", "pack", "open", "write", "close"} => input' = src'
                    /\ pc' \in {"pack", "open", "write", "close"} => GoodImage(product)'
  BY DEF MadeImage
<1>1. CASE Start
  BY <1>1, StartFacts
<1>2. CASE ~Start /\ GoOn(pc')
  <2>1. call' = call /\ Rewrites("c") /\ pc # "idle" /\ src' = src
    BY <1>2, StepKinds DEF GoOn, Rewriting, Rewrites
  <2>2. ~(\E fault : Meet(fault))
    BY <1>0, <2>1, MeetFacts
  <2>3. ignored["c"] = {}
    BY <1>2, <2>2, StepKinds
  <2>4. call.mode = "c" /\ ~call.verify
    BY <2>1 DEF Rewrites
  <2>5. CASE ReadSource
    BY <2>1, <2>2, <2>5 DEF ReadSource, GoOn
  <2>6. CASE Compress
    <3>1. pc = "compress" /\ pc' = "pack" /\ input' = input
          /\ product' \in ImagesOf(input, call.threads, CompSizes)
      <4>1. ~Leave("1") /\ ~Leave("dead")
        BY LeaveFacts DEF Rewriting
      <4>2. QED
        BY <2>2, <2>6, <4>1 DEF Compress, GoOn
    <3>2. input = src
      BY <2>1, <2>3, <3>1 DEF MadeImage, Rewriting
    <3>3. input \in Nat /\ call.threads \in Nat \ {0}
      BY <1>0, FileAssumption
    <3>4. Restores(product')
      BY <3>1, <3>3, CompressedRestores
    <3>5. product'.size = input
      BY <1>0, <3>1, ImagesHold
    <3>6. QED
      BY <2>1, <3>1, <3>2, <3>4, <3>5 DEF GoodImage
  <2>7. CASE Pack \/ Open \/ Write
    <3>1. /\ UNCHANGED <<input, product>>
          /\ pc \in {"pack", "open", "write"}
      <4>1. ~Leave("1")
        BY LeaveFacts DEF Rewriting
      <4>2. QED
        BY <2>7, <4>1 DEF Pack, Open, Write
    <3>2. input = src /\ GoodImage(product)
      BY <2>1, <2>3, <3>1 DEF MadeImage, Rewriting
    <3>3. GoodImage(product)'
      BY <2>1, <3>1, <3>2 DEF GoodImage
    <3>4. QED
      BY <2>1, <3>1, <3>2, <3>3
  <2>8. CASE ReadArchive \/ Parse \/ Decompress
    BY <2>4, <2>8 DEF ReadArchive, Parse, Decompress, Shapes
  <2>9. ~Leave("1") /\ ~Leave("0") /\ ~Leave("dead")
    BY LeaveFacts DEF Rewriting
  <2>10. ~TooLarge /\ ~Verify /\ ~ParseRefuses /\ ~OpenFails /\ ~WriteShort /\ ~Close
         /\ ~CloseFails /\ ~Kill
    BY <2>9, Zenon DEF TooLarge, Verify, ParseRefuses, OpenFails, WriteShort, Close,
       CloseFails, Kill
  <2>11. QED
    BY <1>2, <2>5, <2>6, <2>7, <2>8, <2>10 DEF Next
<1>3. CASE ~Start /\ ~GoOn(pc')
  BY <1>3, StepKinds, LeaveFacts DEF Rewriting
<1>4. QED
  BY <1>1, <1>2, <1>3

(* A decompression has what the archive says, and it is right if every     *)
(* block of the archive was compressed.                                    *)
LEMMA MadeCopyStep ==
  ASSUME TypeOK, Shapes, WholeArchive, MadeCopy, Next
  PROVE  MadeCopy'
<1>0. "c" \in Modes /\ "d" \in Modes
  BY DEF Modes
<1> SUFFICES ASSUME ignored'["d"] = {}, Rewriting("d")', pc' \in {"open", "write", "close"}
             PROVE  product' = Copy'
  BY DEF MadeCopy
<1>1. ~Start
  BY StartFacts
<1>2. /\ ~Leave("1") /\ ~Leave("0") /\ ~Leave("dead")
  BY LeaveFacts DEF Rewriting
<1>3. GoOn(pc') /\ pc # "idle" /\ src' = src
  BY <1>1, <1>2, StepKinds
<1>4. call' = call /\ Rewrites("d") /\ call.mode = "d" /\ ~call.verify
  BY <1>3 DEF GoOn, Rewriting, Rewrites
<1>5. ~(\E fault : Meet(fault))
  BY <1>0, <1>4, MeetFacts
<1>6. ignored["d"] = {}
  BY <1>1, <1>5, StepKinds
<1>7. disk'["c"] = disk["c"]
  BY <1>0, <1>4, FileChanges
<1>8. Copy' = Copy
  BY <1>7 DEF Copy
<1>9. CASE Decompress
  <2>1. pc = "decompress"
    BY <1>9 DEF Decompress
  <2>2. archive = disk["c"]
    BY <1>4, <2>1 DEF WholeArchive
  <2>3. product' = Plain(archive.what.size, Restores(archive.what))
    BY <1>2, <1>4, <1>5, <1>9, Zenon DEF Decompress
  <2>4. QED
    BY <1>8, <2>2, <2>3 DEF Copy
<1>10. CASE Open \/ Write
  <2>1. product' = product /\ pc \in {"open", "write"}
    BY <1>10 DEF Open, Write
  <2>2. product = Copy
    BY <1>4, <1>6, <2>1 DEF MadeCopy, Rewriting
  <2>3. QED
    BY <1>8, <2>1, <2>2
<1>11. CASE ReadSource \/ Compress \/ Pack
  BY <1>4, <1>11 DEF ReadSource, Compress, Pack, Shapes
<1>12. CASE ReadArchive \/ Parse
  BY <1>2, <1>12 DEF ReadArchive, Parse, GoOn
<1>13. ~TooLarge /\ ~Verify /\ ~ParseRefuses /\ ~OpenFails /\ ~WriteShort /\ ~Close
       /\ ~CloseFails /\ ~Kill
  BY <1>2, Zenon DEF TooLarge, Verify, ParseRefuses, OpenFails, WriteShort, Close,
     CloseFails, Kill
<1>14. QED
  BY <1>1, <1>9, <1>10, <1>11, <1>12, <1>13 DEF Next

(* What the file of a mode holds after a run of that mode answered 0 with  *)
(* no fault met: the product it made.                                      *)
LEMMA AnswerLeaves ==
  ASSUME TypeOK, Shapes, TakenBack, Next, NEW m \in Modes,
         ignored'[m] = {}, exit'[m] = "0"
  PROVE  /\ src' = src
         /\ \/ exit[m] = "0" /\ ignored[m] = {} /\ disk'[m] = disk[m]
            \/ /\ Rewriting(m) /\ pc = "close" /\ ignored[m] = {} /\ exit[m] = "none"
               /\ disk'[m] = [what |-> product, bytes |-> ProductBytes]
<1>1. CASE Start
  BY <1>1, StartFacts
<1>2. CASE ~Start
  <2>1. src' = src /\ pc # "idle"
    BY <1>2, StepKinds
  <2>2. ignored[m] = {}
    BY <1>2, StepKinds, MeetFacts
  <2>3. CASE exit[m] = "0"
    <3>1. ~Rewriting(m)
      BY <2>3 DEF TakenBack, Modes
    <3>2. disk'[m] = disk[m]
      BY <2>1, <3>1, FileChanges DEF Rewriting, Rewrites
    <3>3. QED
      BY <2>1, <2>2, <2>3, <3>2
  <2>4. CASE exit[m] # "0"
    <3>1. Leave("0") /\ (Verify \/ Decompress \/ Close \/ CloseFails) /\ Rewrites(m)
      BY <1>2, <2>4, StepKinds, LeaveFacts DEF GoOn
    <3>2. ~Verify
      BY <3>1 DEF Verify, Shapes, Rewrites
    <3>3. ~(\E fault : Meet(fault))
      BY <3>1, MeetFacts
    <3>4. ~Decompress
      <4>1. ~call.verify /\ pc' # "open"
        BY <3>1, LeaveFacts DEF Rewrites
      <4>2. ~GoOn("open")
        BY <4>1 DEF GoOn
      <4>3. ~Leave("1") /\ ~Leave("dead")
        BY <2>4, <3>1, LeaveFacts
      <4>4. QED
        BY <3>3, <4>1, <4>2, <4>3, Zenon DEF Decompress
    <3>5. Close
      BY <3>1, <3>2, <3>3, <3>4 DEF CloseFails
    <3>6. pc = "close" /\ disk' = [disk EXCEPT ![call.mode].bytes = ProductBytes]
      BY <3>5 DEF Close
    <3>7. ProductBytes \in Nat
      BY <3>6, ProductHolds
    <3>8. PICK n \in 0 .. ProductBytes : n = ProductBytes
      BY <3>7
    <3>9. disk'[call.mode] = [what |-> product, bytes |-> n]
      BY <3>6, <3>8, WriteHolds
    <3>10. call.mode = m /\ Rewriting(m)
      BY <2>1, <3>1 DEF Rewriting, Rewrites
    <3>11. exit[m] = "none"
      BY <3>10 DEF TakenBack, Modes
    <3>12. QED
      BY <2>1, <2>2, <3>6, <3>8, <3>9, <3>10, <3>11
  <2>5. QED
    BY <2>3, <2>4
<1>3. QED
  BY <1>1, <1>2

(* What the runs that met no fault left is good, whatever comes after.     *)
LEMMA GoodProductsStep ==
  ASSUME FInv, Next
  PROVE  GoodProducts'
<1>0. /\ TypeOK /\ Shapes /\ TakenBack /\ WholeArchive /\ GoodProducts
      /\ MadeImage /\ MadeCopy /\ "c" \in Modes /\ "d" \in Modes
  BY DEF FInv, GoodProducts, Modes
<1>1. MadeImage'
  BY <1>0, MadeImageStep
<1>2. MadeCopy'
  BY <1>0, MadeCopyStep
<1>3. ASSUME ignored'["c"] = {}, exit'["c"] = "0"
      PROVE  GoodImage(disk["c"].what)'
  <2>1. src' = src
    BY <1>0, <1>3, AnswerLeaves
  <2>2. CASE exit["c"] = "0" /\ ignored["c"] = {} /\ disk'["c"] = disk["c"]
    BY <1>0, <2>1, <2>2 DEF GoodProducts, GoodImage
  <2>3. CASE /\ Rewriting("c") /\ pc = "close" /\ ignored["c"] = {}
             /\ disk'["c"] = [what |-> product, bytes |-> ProductBytes]
    <3>1. GoodImage(product)
      BY <1>0, <2>3 DEF MadeImage
    <3>2. disk'["c"].what = product
      BY <2>3
    <3>3. QED
      BY <2>1, <3>1, <3>2 DEF GoodImage
  <2>4. QED
    BY <1>0, <1>3, <2>2, <2>3, AnswerLeaves
<1>4. ASSUME ignored'["d"] = {}, exit'["d"] = "0"
      PROVE  disk'["d"] = [what |-> Copy, bytes |-> Copy.size]'
  <2>1. disk'["c"] = disk["c"]
    <3>1. exit["d"] = "0" \/ Rewriting("d")
      BY <1>0, <1>4, AnswerLeaves
    <3>2. ~Rewriting("c")
      BY <1>0, <3>1 DEF TakenBack, Rewriting, Rewrites
    <3>3. QED
      BY <1>0, <3>2, FileChanges DEF Rewriting, Rewrites
  <2>2. Copy' = Copy
    BY <2>1 DEF Copy
  <2>3. CASE exit["d"] = "0" /\ ignored["d"] = {} /\ disk'["d"] = disk["d"]
    BY <1>0, <2>2, <2>3 DEF GoodProducts
  <2>4. CASE /\ Rewriting("d") /\ pc = "close" /\ ignored["d"] = {}
             /\ disk'["d"] = [what |-> product, bytes |-> ProductBytes]
    <3>1. product = Copy
      BY <1>0, <2>4 DEF MadeCopy
    <3>2. ProductBytes = product.size
      BY <2>4 DEF ProductBytes, Rewriting, Rewrites
    <3>3. QED
      BY <2>2, <2>4, <3>1, <3>2
  <2>5. QED
    BY <1>0, <1>4, <2>3, <2>4, AnswerLeaves
<1>5. QED
  BY <1>1, <1>2, <1>3, <1>4 DEF GoodProducts

-----------------------------------------------------------------------------
(* The inductive invariant.                                                *)
LEMMA FileInvHolds == Spec => []FInv
<1>1. Init => FInv
  BY FileInit
<1>2. FInv /\ [Next]_vars => FInv'
  <2> SUFFICES ASSUME FInv, [Next]_vars
               PROVE  FInv'
    OBVIOUS
  <2>1. CASE Next
    <3>1. TypeOK' /\ Shapes'
      BY TypeStep DEF FInv
    <3>2. TakenBack' /\ WholeArchive'
      BY <2>1, TakenBackStep, WholeArchiveStep DEF FInv
    <3>3. GoodProducts'
      BY <2>1, GoodProductsStep
    <3>4. QED
      BY <3>1, <3>2, <3>3 DEF FInv
  <2>2. CASE UNCHANGED vars
    BY <2>2 DEF vars, FInv, TypeOK, Shapes, TakenBack, WholeArchive, GoodProducts, MadeImage,
       MadeCopy, Rewriting, Rewrites, Whole, Copy, GoodImage
  <2>3. QED
    BY <2>1, <2>2
<1>3. QED
  BY <1>1, <1>2, PTL DEF Spec

(* Whatever is run and killed, the variables keep their types: no header   *)
(* gets a block size of 0, and no file is longer than what it should hold. *)
THEOREM FileTypeCorrect == Spec => []TypeOK
<1>1. FInv => TypeOK
  BY DEF FInv
<1>2. QED
  BY <1>1, FileInvHolds, PTL

(* A decompression that exits 0 read a complete archive, for any sizes of  *)
(* the input and of the compressed blocks.                                 *)
THEOREM FileTruncationDetected == Spec => []TruncationDetected
<1>1. FInv => TruncationDetected
  BY DEF FInv, WholeArchive, Whole, TruncationDetected
<1>2. QED
  BY <1>1, FileInvHolds, PTL

(* When a compression and the decompression of its archive exit 0 and no   *)
(* fault was passed over, the restored file is the source.                 *)
THEOREM FileRoundTrip == Spec => []RoundTrip
<1>1. ASSUME FInv
      PROVE  RoundTrip
  <2> SUFFICES ASSUME \A m \in Modes : exit[m] = "0" /\ ignored[m] = {}
               PROVE  Restored
    BY DEF RoundTrip
  <2>1. /\ GoodImage(disk["c"].what)
        /\ disk["d"] = [what |-> Copy, bytes |-> Copy.size]
    BY <1>1 DEF FInv, GoodProducts, Modes
  <2>2. disk["c"].what.size = src /\ (Restores(disk["c"].what) = TRUE)
    BY <2>1, Zenon DEF GoodImage, Restores
  <2>3. Copy = Plain(src, TRUE)
    BY <2>2, Zenon DEF Copy
  <2>4. Plain(src, TRUE).size = src
    BY DEF Plain
  <2>5. QED
    BY <2>1, <2>3, <2>4 DEF Restored
<1>2. FInv => RoundTrip
  BY <1>1
<1>3. QED
  BY <1>2, FileInvHolds, PTL

(* A file changes only in a writing run of its mode, to what that run made *)
(* in memory before: no failure before that touches an earlier output.     *)
THEOREM FilePreviousOutputSurvives == Spec => PreviousOutputSurvives
<1> DEFINE Step ==
      \A m \in Modes : disk'[m] # disk[m] =>
        /\ call.mode = m /\ ~call.verify
        /\ disk'[m].what = product
        /\ m = "c" => product.size = input /\ product.blk > 0
<1>1. ASSUME FInv, Next
      PROVE  Step
  <2> SUFFICES ASSUME NEW m \in Modes, disk'[m] # disk[m]
               PROVE  /\ call.mode = m /\ ~call.verify
                      /\ disk'[m].what = product
                      /\ m = "c" => product.size = input /\ product.blk > 0
    OBVIOUS
  <2>1. TypeOK /\ Shapes
    BY <1>1 DEF FInv
  <2>2. /\ call.mode = m /\ ~call.verify /\ pc \in {"open", "write", "close"}
        /\ disk'[m].what = product
    BY <1>1, <2>1, FileChanges
  <2>3. QED
    BY <2>1, <2>2 DEF Shapes
<1>2. FInv /\ [Next]_vars => [Step]_vars
  BY <1>1
<1>3. QED
  BY <1>2, FileInvHolds, PTL DEF Spec, PreviousOutputSurvives
=============================================================================
