-------------------------- MODULE LocalBuild_proofs --------------------------
(***************************************************************************)
(* Theorems about the local build: its types, that a build which exits     *)
(* with 0 left every table made from sources that were all there, and that *)
(* the corpus holds every article whole.                                   *)
(*                                                                         *)
(* The chunker's functions recur along a sequence.  A property of the      *)
(* numbers up to its length is proved of the set of those that have it,    *)
(* which has no least exception (UpTo); so is what the packing of an       *)
(* article keeps (PackedSoFar).                                            *)
(*                                                                         *)
(* The argument for the build rests on the order of the steps: no step     *)
(* fills a table from one that a later step makes, and the last step that  *)
(* makes a table does more than create it (StepOrder).  So, while no step  *)
(* has failed, every table whose last step is behind the build is full     *)
(* (Inv).                                                                  *)
(***************************************************************************)
EXTENDS LocalBuild, SequenceTheorems, FiniteSetTheorems, WellFoundedInduction, TLAPS

-----------------------------------------------------------------------------
(* Induction.  A property of the numbers up to k is the set of those that  *)
(* have it, so that no lemma takes an operator.                            *)

(* The intervals 0..x with x in T are finite sets, and one has no other    *)
(* inside it.                                                              *)
LEMMA LeastNumber ==
  ASSUME NEW T, T \subseteq Nat, T # {}
  PROVE  \E x \in T : \A y \in T : x =< y
<1> DEFINE W == {0..x : x \in T}
<1>1. W \subseteq FiniteSubsetsOf(Nat) /\ W # {}
  <2> SUFFICES ASSUME NEW x \in T PROVE 0..x \subseteq Nat /\ IsFiniteSet(0..x)
    BY DEF FiniteSubsetsOf
  <2> QED
    BY FS_Interval
<1>2. PICK w \in W : \A v \in W : ~ (<<v, w>> \in StrictSubsetOrdering(Nat))
  <2> HIDE DEF W
  <2> QED
    BY <1>1, FS_StrictSubsetOrderingWellFounded, WFMin
<1>3. PICK x \in T : w = 0..x
  OBVIOUS
<1>4. SUFFICES ASSUME NEW y \in T, y < x PROVE FALSE
  OBVIOUS
<1>5. x \in 0..x /\ x \notin 0..y /\ 0..y \subseteq 0..x
  BY <1>4
<1>6. <<0..y, 0..x>> \in (SUBSET Nat) \X (SUBSET Nat)
  OBVIOUS
<1>7. <<0..y, w>> \in StrictSubsetOrdering(Nat)
  BY <1>3, <1>5, <1>6 DEF StrictSubsetOrdering
<1> QED
  BY <1>2, <1>7

LEMMA UpTo ==
  ASSUME NEW k \in Nat, NEW S, 0 \in S, \A n \in 1..k : n - 1 \in S => n \in S
  PROVE  0..k \subseteq S
<1> DEFINE T == (0..k) \ S
<1>1. SUFFICES ASSUME T # {} PROVE FALSE
  OBVIOUS
<1>2. PICK x \in T : \A y \in T : x =< y
  <2>1. T \subseteq Nat
    OBVIOUS
  <2> HIDE DEF T
  <2> QED
    BY <1>1, <2>1, LeastNumber
<1>3. x \in 1..k /\ x - 1 \in 0..k /\ x - 1 \notin T
  BY <1>2
<1> QED
  BY <1>3

StepsOn(k, A) == [1..k -> [A -> A]]

(* g starts at base and goes on by the steps F. *)
Follows(k, A, base, F, g) ==
  g \in [0..k -> A] /\ g[0] = base /\ \A n \in 1..k : g[n] = F[n][g[n - 1]]

LEMMA Recursion ==
  ASSUME NEW k \in Nat, NEW A, NEW base \in A, NEW F \in StepsOn(k, A)
  PROVE  \E g : Follows(k, A, base, F, g)
<1> DEFINE S == {m \in 0..k : \E g : Follows(m, A, base, F, g)}
<1>1. 0 \in S
  <2> DEFINE g == [n \in 0..0 |-> base]
  <2>1. Follows(0, A, base, F, g)
    BY DEF Follows
  <2> HIDE DEF g
  <2> QED
    BY <2>1
<1>2. ASSUME NEW m \in 1..k, m - 1 \in S
      PROVE  m \in S
  <2>1. PICK g : Follows(m - 1, A, base, F, g)
    BY <1>2
  <2> DEFINE h == [n \in 0..m |-> IF n = m THEN F[m][g[m - 1]] ELSE g[n]]
  <2>2. F[m][g[m - 1]] \in A
    BY <2>1 DEF Follows, StepsOn
  <2>3. Follows(m, A, base, F, h)
    BY <2>1, <2>2 DEF Follows
  <2> HIDE DEF h
  <2> QED
    BY <2>3
<1>3. 0..k \subseteq S
  <2> HIDE DEF S
  <2> QED
    BY <1>1, <1>2, UpTo
<1> QED
  BY <1>3
-----------------------------------------------------------------------------
(* The functions of the chunker and of Whole, each by its values on the     *)
(* prefixes of what it is given.                                            *)

LEMMA PartsAre ==
  ASSUME NEW content \in Seq(Part)
  PROVE  /\ Len(content) \in Nat
         /\ \A n \in 1..Len(content) : content[n] \in Part /\ content[n].size \in Nat
<1>1. Len(content) \in Nat /\ \A n \in 1..Len(content) : content[n] \in Part
  BY LenProperties, ElementOfSeq
<1> QED
  BY <1>1 DEF Part

Sums(texts, sum) ==
  /\ sum \in [0..Len(texts) -> Nat] /\ sum[0] = 0
  /\ \A n \in 1..Len(texts) : sum[n] = sum[n - 1] + texts[n].size

LEMMA SizesIs ==
  ASSUME NEW texts \in Seq(Part)
  PROVE  \E sum : Sums(texts, sum) /\ Sizes(texts) = sum[Len(texts)]
<1> DEFINE Sum(g) == g = [n \in 0..Len(texts) |-> IF n = 0 THEN 0 ELSE g[n - 1] + texts[n].size]
<1>1. PICK k \in Nat : k = Len(texts)
  BY PartsAre
<1>2. PICK F \in StepsOn(k, Nat) :
        \A n \in 1..k : \A x \in Nat : F[n][x] = x + texts[n].size
  <2> DEFINE G == [n \in 1..k |-> [x \in Nat |-> x + texts[n].size]]
  <2>1. G \in StepsOn(k, Nat)
    BY <1>1, PartsAre DEF StepsOn
  <2> QED
    BY <2>1
<1>3. \E g : Sum(g)
  <2>1. 0 \in Nat
    OBVIOUS
  <2>2. PICK g : Follows(k, Nat, 0, F, g)
    BY <2>1, Recursion, Zenon
  <2>3. ASSUME NEW n \in 1..k PROVE g[n] = g[n - 1] + texts[n].size
    <3>1. g[n] = F[n][g[n - 1]] /\ g[n - 1] \in Nat
      BY <2>2 DEF Follows
    <3> QED
      BY <1>2, <3>1
  <2>4. Sum(g)
    BY <1>1, <2>2, <2>3 DEF Follows
  <2> QED
    BY <2>4
<1>4. PICK sum : Sum(sum) /\ Sizes(texts) = sum[k]
  BY <1>1, <1>3 DEF Sizes
<1> DEFINE S == {n \in 0..k : sum[n] \in Nat}
<1>5. \A n \in 0..k : sum[n] = IF n = 0 THEN 0 ELSE sum[n - 1] + texts[n].size
  BY <1>1, <1>4
<1>6. 0..k \subseteq S
  <2>1. 0 \in S
    BY <1>5
  <2>2. ASSUME NEW n \in 1..k, n - 1 \in S PROVE n \in S
    <3>1. texts[n].size \in Nat /\ sum[n] = sum[n - 1] + texts[n].size
      BY <1>1, <1>5, PartsAre
    <3>2. sum[n - 1] \in Nat
      BY <2>2
    <3> QED
      BY <3>1, <3>2
  <2> HIDE DEF S
  <2> QED
    BY <2>1, <2>2, UpTo
<1>7. sum \in [0..k -> Nat]
  BY <1>1, <1>4, <1>6
<1>8. sum[0] = 0 /\ \A n \in 1..k : sum[n] = sum[n - 1] + texts[n].size
  BY <1>5
<1> QED
  BY ONLY <1>1, <1>4, <1>7, <1>8 DEF Sums

(* One more paragraph: the values on the prefixes are those of before. *)
LEMMA SizesOne ==
  ASSUME NEW texts \in Seq(Part), NEW p \in Part
  PROVE  /\ Sizes(texts) \in Nat /\ Sizes(<<>>) = 0
         /\ Sizes(Append(texts, p)) = Sizes(texts) + p.size
<1>1. PICK k \in Nat : k = Len(texts)
  BY PartsAre
<1>2. PICK f : Sums(texts, f) /\ Sizes(texts) = f[k]
  BY <1>1, SizesIs
<1>3. /\ Append(texts, p) \in Seq(Part) /\ Len(Append(texts, p)) = k + 1
      /\ \A n \in 1..k : Append(texts, p)[n] = texts[n]
      /\ Append(texts, p)[k + 1] = p
  BY <1>1, AppendProperties
<1>4. PICK g : Sums(Append(texts, p), g) /\ Sizes(Append(texts, p)) = g[k + 1]
  BY <1>3, SizesIs
<1> DEFINE S == {n \in 0..k : g[n] = f[n]}
<1>5. 0..k \subseteq S
  <2>1. 0 \in S /\ \A n \in 1..k : n - 1 \in S => n \in S
    BY <1>1, <1>2, <1>3, <1>4 DEF Sums
  <2> HIDE DEF S
  <2> QED
    BY <2>1, UpTo
<1>6. g[k] = f[k]
  BY <1>5
<1>7. g[k + 1] = g[k] + p.size /\ f[k] \in Nat
  BY <1>1, <1>2, <1>3, <1>4 DEF Sums
<1>8. Sizes(<<>>) = 0
  <2>1. <<>> \in Seq(Part) /\ Len(<<>>) = 0
    OBVIOUS
  <2> QED
    BY <2>1, SizesIs DEF Sums
<1> QED
  BY <1>2, <1>4, <1>6, <1>7, <1>8

ChunkSet == [section : STRING \cup {"none"}, texts : Seq(Part)]

LEMMA ChunksAre ==
  ASSUME NEW chunks \in Seq(ChunkSet)
  PROVE  /\ Len(chunks) \in Nat
         /\ \A n \in 1..Len(chunks) : chunks[n] \in ChunkSet /\ chunks[n].texts \in Seq(Part)
<1>1. Len(chunks) \in Nat /\ \A n \in 1..Len(chunks) : chunks[n] \in ChunkSet
  BY LenProperties, ElementOfSeq
<1> QED
  BY <1>1 DEF ChunkSet

(* Adjoin, Keep and Pack are seen below only by the types of their results. *)
LEMMA AdjoinIs ==
  ASSUME NEW texts \in Seq(Part), NEW c \in ChunkSet
  PROVE  Adjoin(texts, c) \in Seq(Part)
BY ConcatProperties DEF Adjoin, ChunkSet

Together(chunks, all) ==
  /\ all \in [0..Len(chunks) -> Seq(Part)] /\ all[0] = <<>>
  /\ \A n \in 1..Len(chunks) : all[n] = Adjoin(all[n - 1], chunks[n])

LEMMA TextsIs ==
  ASSUME NEW chunks \in Seq(ChunkSet)
  PROVE  \E all : Together(chunks, all) /\ Texts(chunks) = all[Len(chunks)]
<1> DEFINE Rec(g) == g = [n \in 0..Len(chunks) |-> IF n = 0 THEN <<>> ELSE Adjoin(g[n - 1], chunks[n])]
<1>1. PICK k \in Nat : k = Len(chunks)
  BY ChunksAre
<1>2. PICK F \in StepsOn(k, Seq(Part)) :
        \A n \in 1..k : \A x \in Seq(Part) : F[n][x] = Adjoin(x, chunks[n])
  <2> DEFINE G == [n \in 1..k |-> [x \in Seq(Part) |-> Adjoin(x, chunks[n])]]
  <2>1. G \in StepsOn(k, Seq(Part))
    BY <1>1, ChunksAre, AdjoinIs DEF StepsOn
  <2> QED
    BY <2>1
<1>3. <<>> \in Seq(Part)
  OBVIOUS
<1>4. \E g : Rec(g)
  <2>1. PICK g : Follows(k, Seq(Part), <<>>, F, g)
    BY <1>3, Recursion, Zenon
  <2>2. ASSUME NEW n \in 1..k PROVE g[n] = Adjoin(g[n - 1], chunks[n])
    <3>1. g[n] = F[n][g[n - 1]] /\ g[n - 1] \in Seq(Part)
      BY <2>1 DEF Follows
    <3> QED
      BY <1>2, <3>1
  <2>3. Rec(g)
    BY <1>1, <2>1, <2>2 DEF Follows
  <2> QED
    BY <2>3
<1>5. PICK all : Rec(all) /\ Texts(chunks) = all[k]
  BY <1>1, <1>4 DEF Texts
<1>6. all[0] = <<>> /\ \A n \in 1..k : all[n] = Adjoin(all[n - 1], chunks[n])
  BY <1>1, <1>5
<1> DEFINE S == {n \in 0..k : all[n] \in Seq(Part)}
<1>7. 0..k \subseteq S
  <2>1. 0 \in S
    <3>1. all[0] \in Seq(Part)
      BY <1>3, <1>6
    <3> QED
      BY <3>1
  <2>2. ASSUME NEW n \in 1..k, n - 1 \in S PROVE n \in S
    <3>1. chunks[n] \in ChunkSet /\ all[n - 1] \in Seq(Part)
      BY <1>1, <2>2, ChunksAre
    <3>2. all[n] \in Seq(Part)
      BY <1>6, <3>1, AdjoinIs
    <3> QED
      BY <3>2
  <2> HIDE DEF S
  <2> QED
    BY <2>1, <2>2, UpTo
<1>8. all \in [0..k -> Seq(Part)]
  BY <1>1, <1>5, <1>7
<1> QED
  BY ONLY <1>1, <1>5, <1>6, <1>8 DEF Together

(* One more chunk. *)
LEMMA TextsOne ==
  ASSUME NEW chunks \in Seq(ChunkSet), NEW c \in ChunkSet
  PROVE  /\ Texts(chunks) \in Seq(Part) /\ Texts(<<>>) = <<>>
         /\ Texts(Append(chunks, c)) = Texts(chunks) \o c.texts
<1>1. PICK k \in Nat : k = Len(chunks)
  BY ChunksAre
<1>2. PICK f : Together(chunks, f) /\ Texts(chunks) = f[k]
  BY <1>1, TextsIs
<1>3. /\ Append(chunks, c) \in Seq(ChunkSet) /\ Len(Append(chunks, c)) = k + 1
      /\ \A n \in 1..k : Append(chunks, c)[n] = chunks[n]
      /\ Append(chunks, c)[k + 1] = c
  BY <1>1, AppendProperties
<1>4. PICK g : Together(Append(chunks, c), g) /\ Texts(Append(chunks, c)) = g[k + 1]
  BY <1>3, TextsIs
<1> DEFINE S == {n \in 0..k : g[n] = f[n]}
<1>5. 0..k \subseteq S
  <2>1. 0 \in S /\ \A n \in 1..k : n - 1 \in S => n \in S
    BY <1>1, <1>2, <1>3, <1>4 DEF Together
  <2> HIDE DEF S
  <2> QED
    BY <2>1, UpTo
<1>6. g[k] = f[k]
  BY <1>5
<1>7. g[k + 1] = Adjoin(g[k], c)
  <2>1. g[k + 1] = Adjoin(g[k + 1 - 1], Append(chunks, c)[k + 1])
    BY <1>3, <1>4 DEF Together
  <2> QED
    BY <1>3, <2>1
<1>9. f[k] \in Seq(Part)
  BY <1>1, <1>2 DEF Together
<1>8. Texts(<<>>) = <<>>
  <2>1. <<>> \in Seq(ChunkSet) /\ Len(<<>>) = 0
    OBVIOUS
  <2> QED
    BY <2>1, TextsIs DEF Together
<1> QED
  BY <1>2, <1>4, <1>6, <1>7, <1>8, <1>9 DEF Adjoin

LEMMA KeepIs ==
  ASSUME NEW kept \in Seq(Part), NEW p \in Part
  PROVE  Keep(kept, p) \in Seq(Part)
BY AppendProperties DEF Keep

Keeping(content, kept) ==
  /\ kept \in [0..Len(content) -> Seq(Part)] /\ kept[0] = <<>>
  /\ \A n \in 1..Len(content) : kept[n] = Keep(kept[n - 1], content[n])

LEMMA ParagraphsIs ==
  ASSUME NEW content \in Seq(Part)
  PROVE  \E kept : Keeping(content, kept) /\ Paragraphs(content) = kept[Len(content)]
<1> DEFINE Rec(g) == g = [n \in 0..Len(content) |-> IF n = 0 THEN <<>> ELSE Keep(g[n - 1], content[n])]
<1>1. PICK k \in Nat : k = Len(content)
  BY PartsAre
<1>2. PICK F \in StepsOn(k, Seq(Part)) :
        \A n \in 1..k : \A x \in Seq(Part) : F[n][x] = Keep(x, content[n])
  <2> DEFINE G == [n \in 1..k |-> [x \in Seq(Part) |-> Keep(x, content[n])]]
  <2>1. G \in StepsOn(k, Seq(Part))
    BY <1>1, PartsAre, KeepIs DEF StepsOn
  <2> QED
    BY <2>1
<1>3. <<>> \in Seq(Part)
  OBVIOUS
<1>4. \E g : Rec(g)
  <2>1. PICK g : Follows(k, Seq(Part), <<>>, F, g)
    BY <1>3, Recursion, Zenon
  <2>2. ASSUME NEW n \in 1..k PROVE g[n] = Keep(g[n - 1], content[n])
    <3>1. g[n] = F[n][g[n - 1]] /\ g[n - 1] \in Seq(Part)
      BY <2>1 DEF Follows
    <3> QED
      BY <1>2, <3>1
  <2>3. Rec(g)
    BY <1>1, <2>1, <2>2 DEF Follows
  <2> QED
    BY <2>3
<1>5. PICK kept : Rec(kept) /\ Paragraphs(content) = kept[k]
  BY <1>1, <1>4 DEF Paragraphs
<1>6. kept[0] = <<>> /\ \A n \in 1..k : kept[n] = Keep(kept[n - 1], content[n])
  BY <1>1, <1>5
<1> DEFINE S == {n \in 0..k : kept[n] \in Seq(Part)}
<1>7. 0..k \subseteq S
  <2>1. 0 \in S
    <3>1. kept[0] \in Seq(Part)
      BY <1>3, <1>6
    <3> QED
      BY <3>1
  <2>2. ASSUME NEW n \in 1..k, n - 1 \in S PROVE n \in S
    <3>1. content[n] \in Part /\ kept[n - 1] \in Seq(Part)
      BY <1>1, <2>2, PartsAre
    <3>2. kept[n] \in Seq(Part)
      BY <1>6, <3>1, KeepIs
    <3> QED
      BY <3>2
  <2> HIDE DEF S
  <2> QED
    BY <2>1, <2>2, UpTo
<1>8. kept \in [0..k -> Seq(Part)]
  BY <1>1, <1>5, <1>7
<1> QED
  BY ONLY <1>1, <1>5, <1>6, <1>8 DEF Keeping

Packings == [chunks : Seq(ChunkSet), buf : Seq(Part), section : STRING \cup {"none"}]

LEMMA UnpackedIs == Unpacked \in Packings
<1>1. <<>> \in Seq(ChunkSet) /\ <<>> \in Seq(Part)
  BY EmptySeq
<1>2. "none" \in STRING \cup {"none"}
  OBVIOUS
<1> QED
  BY <1>1, <1>2, Zenon DEF Unpacked, Packings

LEMMA PackIs ==
  ASSUME NEW acc \in Packings, NEW p \in Part
  PROVE  Pack(acc, p) \in Packings
<1>1. CASE p.heading
  BY <1>1 DEF Pack, Packings, Part
<1>2. Append(acc.buf, p) \in Seq(Part) /\ <<p>> \in Seq(Part)
  BY AppendProperties DEF Packings
<1>3. Append(acc.chunks, Chunk(acc.section, acc.buf)) \in Seq(ChunkSet)
  <2>1. Chunk(acc.section, acc.buf) \in ChunkSet
    BY DEF Chunk, ChunkSet, Packings
  <2> QED
    BY <2>1, AppendProperties DEF Packings
<1>4. CASE ~p.heading
  BY <1>2, <1>3, <1>4 DEF Pack, Packings
<1> QED
  BY <1>1, <1>4

Packing(content, packed) ==
  /\ packed \in [0..Len(content) -> Packings] /\ packed[0] = Unpacked
  /\ \A n \in 1..Len(content) : packed[n] = Pack(packed[n - 1], content[n])

LEMMA DocumentIs ==
  ASSUME NEW content \in Seq(Part)
  PROVE  \E packed : Packing(content, packed) /\ ChunkDocument(content) = Flush(packed[Len(content)])
<1> DEFINE Rec(g) == g = [n \in 0..Len(content) |-> IF n = 0 THEN Unpacked ELSE Pack(g[n - 1], content[n])]
<1>1. PICK k \in Nat : k = Len(content)
  BY PartsAre
<1>2. PICK F \in StepsOn(k, Packings) :
        \A n \in 1..k : \A x \in Packings : F[n][x] = Pack(x, content[n])
  <2> DEFINE G == [n \in 1..k |-> [x \in Packings |-> Pack(x, content[n])]]
  <2>1. G \in StepsOn(k, Packings)
    BY <1>1, PartsAre, PackIs DEF StepsOn
  <2> QED
    BY <2>1
<1>3. Unpacked \in Packings
  BY UnpackedIs
<1>4. \E g : Rec(g)
  <2>1. PICK g : Follows(k, Packings, Unpacked, F, g)
    BY <1>3, Recursion, Zenon
  <2>2. ASSUME NEW n \in 1..k PROVE g[n] = Pack(g[n - 1], content[n])
    <3>1. g[n] = F[n][g[n - 1]] /\ g[n - 1] \in Packings
      BY <2>1 DEF Follows
    <3> QED
      BY <1>2, <3>1
  <2>3. Rec(g)
    BY <1>1, <2>1, <2>2 DEF Follows
  <2> QED
    BY <2>3
<1>5. PICK packed : Rec(packed) /\ ChunkDocument(content) = Flush(packed[k])
  BY <1>1, <1>4 DEF ChunkDocument
<1>6. packed[0] = Unpacked /\ \A n \in 1..k : packed[n] = Pack(packed[n - 1], content[n])
  BY <1>1, <1>5
<1> DEFINE S == {n \in 0..k : packed[n] \in Packings}
<1>7. 0..k \subseteq S
  <2>1. 0 \in S
    <3>1. packed[0] \in Packings
      BY <1>3, <1>6
    <3> QED
      BY <3>1
  <2>2. ASSUME NEW n \in 1..k, n - 1 \in S PROVE n \in S
    <3>1. content[n] \in Part /\ packed[n - 1] \in Packings
      BY <1>1, <2>2, PartsAre
    <3>2. packed[n] \in Packings
      BY <1>6, <3>1, PackIs
    <3> QED
      BY <3>2
  <2> HIDE DEF S
  <2> QED
    BY <2>1, <2>2, UpTo
<1>8. packed \in [0..k -> Packings]
  BY <1>1, <1>5, <1>7
<1> QED
  BY ONLY <1>1, <1>5, <1>6, <1>8 DEF Packing

-----------------------------------------------------------------------------
(* Packing *)

(* A chunk as it is closed: within the limit, or one paragraph. *)
Fits(texts) == texts # <<>> /\ (Len(texts) = 1 \/ Sizes(texts) <= MaxChunkChars)

(* The third conjunct of Whole. *)
Parted(chunks) ==
  \A i \in 1..(Len(chunks) - 1) :
    Sizes(chunks[i].texts) + Head(chunks[i + 1].texts).size > MaxChunkChars

(* What packing keeps: kept is what it was given so far. *)
PackedSoFar(acc, kept) ==
  /\ acc \in Packings /\ kept \in Seq(Part)
  /\ Texts(acc.chunks) \o acc.buf = kept
  /\ \A i \in 1..Len(acc.chunks) : Fits(acc.chunks[i].texts)
  /\ Parted(acc.chunks)
  /\ acc.buf # <<>> => Fits(acc.buf)
  /\ acc.chunks # <<>> =>
       /\ acc.buf # <<>>
       /\ Sizes(Last(acc.chunks).texts) + Head(acc.buf).size > MaxChunkChars

LEMMA Regroup == \A s, t, u \in Seq(Part) : (s \o t) \o u = s \o (t \o u)
BY ConcatAssociative, SMTT(30)

LEMMA HeadStays ==
  ASSUME NEW s \in Seq(Part), s # <<>>, NEW t \in Seq(Part)
  PROVE  Head(s \o t) = Head(s)
<1>1. Len(s) \in Nat /\ Len(s) >= 1 /\ Len(t) \in Nat
  BY EmptySeq, LenProperties
<1>2. Len(s \o t) = Len(s) + Len(t) /\ (s \o t)[1] = s[1]
  BY <1>1, ConcatProperties
<1> QED
  BY <1>1, <1>2

LEMMA PackingStarts == PackedSoFar(Unpacked, <<>>)
<1>1. /\ Unpacked \in Packings /\ Unpacked.chunks = <<>> /\ Unpacked.buf = <<>>
  BY UnpackedIs DEF Unpacked
<1>2. <<>> \in Seq(ChunkSet) /\ <<>> \in Seq(Part) /\ Len(<<>>) = 0
  BY EmptySeq
<1>3. Texts(<<>>) = <<>>
  <2>1. Chunk("none", <<>>) \in ChunkSet
    BY <1>2 DEF Chunk, ChunkSet
  <2> QED
    BY <1>2, <2>1, TextsOne
<1>4. <<>> \o <<>> = <<>>
  BY <1>2, ConcatEmptySeq
<1> QED
  BY <1>1, <1>2, <1>3, <1>4 DEF PackedSoFar, Parted

(* A chunk that is closed joins chunks that stay parted. *)
LEMMA Closed ==
  ASSUME NEW acc \in Packings, NEW kept, PackedSoFar(acc, kept), acc.buf # <<>>,
         NEW c \in ChunkSet, c.texts = acc.buf
  PROVE  /\ Append(acc.chunks, c) \in Seq(ChunkSet) /\ Append(acc.chunks, c) # <<>>
         /\ Last(Append(acc.chunks, c)) = c
         /\ Texts(Append(acc.chunks, c)) = kept
         /\ \A i \in 1..Len(Append(acc.chunks, c)) : Fits(Append(acc.chunks, c)[i].texts)
         /\ Parted(Append(acc.chunks, c))
<1> DEFINE chunks == acc.chunks
           r == Append(chunks, c)
<1>1. chunks \in Seq(ChunkSet) /\ Len(chunks) \in Nat
  BY LenProperties DEF Packings
<1>2. /\ r \in Seq(ChunkSet) /\ r # <<>> /\ Len(r) = Len(chunks) + 1
      /\ \A i \in 1..Len(chunks) : r[i] = chunks[i]
      /\ r[Len(chunks) + 1] = c
  BY <1>1, AppendProperties
<1>3. Texts(r) = kept
  BY <1>1, TextsOne DEF PackedSoFar
<1>4. Last(r) = c
  BY <1>2 DEF Last
<1>5. chunks # <<>> => Len(chunks) >= 1 /\ Last(chunks) = chunks[Len(chunks)]
  BY <1>1, EmptySeq DEF Last
<1>6. ASSUME NEW i \in 1..(Len(r) - 1)
      PROVE  Sizes(r[i].texts) + Head(r[i + 1].texts).size > MaxChunkChars
  <2>1. i \in 1..Len(chunks) /\ r[i] = chunks[i]
    BY <1>1, <1>2
  <2>2. CASE i = Len(chunks)
    <3>1. r[i + 1] = c /\ chunks # <<>> /\ r[i] = Last(chunks)
      BY <1>1, <1>2, <1>5, <2>1, <2>2, EmptySeq
    <3> QED
      BY <3>1 DEF PackedSoFar
  <2>3. CASE i # Len(chunks)
    <3>1. i \in 1..(Len(chunks) - 1) /\ r[i + 1] = chunks[i + 1]
      BY <1>1, <1>2, <2>1, <2>3
    <3> QED
      BY <2>1, <3>1 DEF PackedSoFar, Parted
  <2> QED
    BY <2>2, <2>3
<1>7. ASSUME NEW i \in 1..Len(r) PROVE Fits(r[i].texts)
  <2>1. CASE i \in 1..Len(chunks)
    BY <1>2, <2>1 DEF PackedSoFar
  <2>2. CASE i = Len(chunks) + 1
    BY <1>2, <2>2 DEF PackedSoFar
  <2> QED
    BY <1>1, <1>2, <2>1, <2>2
<1> HIDE DEF r
<1>8. Parted(r)
  BY <1>6 DEF Parted
<1> QED
  BY <1>2, <1>3, <1>4, <1>7, <1>8 DEF r

LEMMA PackingKeeps ==
  ASSUME NEW acc, NEW kept, PackedSoFar(acc, kept), NEW p \in Part
  PROVE  PackedSoFar(Pack(acc, p), Keep(kept, p))
<1>1. /\ acc \in Packings /\ kept \in Seq(Part)
      /\ acc.chunks \in Seq(ChunkSet) /\ acc.buf \in Seq(Part)
  BY DEF PackedSoFar, Packings
<1>2. Pack(acc, p) \in Packings /\ Keep(kept, p) \in Seq(Part)
  BY <1>1, PackIs, KeepIs
<1>3. CASE p.heading
  <2>1. /\ Pack(acc, p).chunks = acc.chunks /\ Pack(acc, p).buf = acc.buf /\ Keep(kept, p) = kept
    BY <1>1, <1>3 DEF Pack, Keep, Packings
  <2> QED
    BY <1>2, <2>1 DEF PackedSoFar
<1>4. CASE ~p.heading /\ acc.buf # <<>> /\ Sizes(acc.buf) + p.size > MaxChunkChars
  <2> DEFINE c == Chunk(acc.section, acc.buf)
  <2>1. c \in ChunkSet /\ c.texts = acc.buf
    BY <1>1 DEF Chunk, ChunkSet, Packings
  <2>2. Pack(acc, p).chunks = Append(acc.chunks, c) /\ Pack(acc, p).buf = <<p>>
    BY <1>1, <1>4 DEF Pack, Packings
  <2>3. Keep(kept, p) = kept \o <<p>>
    BY <1>1, <1>4, AppendIsConcat DEF Keep
  <2>4. <<p>> # <<>> /\ Len(<<p>>) = 1 /\ Head(<<p>>) = p
    OBVIOUS
  <2> HIDE DEF c
  <2>5. /\ Append(acc.chunks, c) # <<>> /\ Last(Append(acc.chunks, c)) = c
        /\ Texts(Append(acc.chunks, c)) = kept
        /\ \A i \in 1..Len(Append(acc.chunks, c)) : Fits(Append(acc.chunks, c)[i].texts)
        /\ Parted(Append(acc.chunks, c))
    BY <1>1, <1>4, <2>1, Closed
  <2>6. Fits(<<p>>)
    BY <2>4 DEF Fits
  <2>7. Sizes(c.texts) + p.size > MaxChunkChars
    BY <1>4, <2>1
  <2> QED
    BY ONLY <1>2, <2>2, <2>3, <2>4, <2>5, <2>6, <2>7 DEF PackedSoFar
<1>5. CASE ~p.heading /\ (acc.buf = <<>> \/ Sizes(acc.buf) + p.size <= MaxChunkChars)
  <2> DEFINE buf == Append(acc.buf, p)
  <2>1. Pack(acc, p).chunks = acc.chunks /\ Pack(acc, p).buf = buf
    <3>1. Sizes(acc.buf) \in Nat /\ p.size \in Nat
      BY <1>1, SizesOne DEF Part
    <3>2. ~(acc.buf # <<>> /\ Sizes(acc.buf) + p.size > MaxChunkChars)
      BY <1>5, <3>1 DEF MaxChunkChars
    <3>3. Pack(acc, p) = [acc EXCEPT !.buf = Append(@, p)]
      BY <1>5, <3>2, Zenon DEF Pack
    <3> QED
      BY <1>1, <3>3 DEF Packings
  <2>2. Texts(acc.chunks) \o buf = Keep(kept, p)
    <3>1. Texts(acc.chunks) \in Seq(Part)
      <4>1. Chunk(acc.section, acc.buf) \in ChunkSet
        BY <1>1 DEF Chunk, ChunkSet, Packings
      <4> QED
        BY <1>1, <4>1, TextsOne
    <3>2. buf = acc.buf \o <<p>> /\ Append(kept, p) = kept \o <<p>>
      BY <1>1, AppendIsConcat
    <3>4. Keep(kept, p) = Append(kept, p)
      BY <1>5 DEF Keep
    <3>5. <<p>> \in Seq(Part)
      OBVIOUS
    <3>3. (Texts(acc.chunks) \o acc.buf) \o <<p>> = Texts(acc.chunks) \o (acc.buf \o <<p>>)
      <4> HIDE DEF buf
      <4> QED
        BY <1>1, <3>1, <3>5, Regroup, ZenonT(60)
    <3> QED
      BY <3>2, <3>3, <3>4, Zenon DEF PackedSoFar
  <2>3. buf # <<>> /\ Len(buf) = Len(acc.buf) + 1
    BY <1>1, AppendProperties
  <2>4. Fits(buf)
    <3>1. CASE acc.buf = <<>>
      BY <2>3, <3>1, EmptySeq DEF Fits
    <3>2. CASE Sizes(acc.buf) + p.size <= MaxChunkChars
      BY <1>1, <2>3, <3>2, SizesOne DEF Fits
    <3> QED
      BY <1>5, <3>1, <3>2
  <2>5. acc.buf # <<>> => Head(buf) = Head(acc.buf)
    BY <1>1, HeadTailAppend
  <2> HIDE DEF buf
  <2> QED
    BY <1>2, <2>1, <2>2, <2>3, <2>4, <2>5 DEF PackedSoFar
<1>6. Sizes(acc.buf) \in Nat /\ p.size \in Nat
  BY <1>1, SizesOne DEF Part
<1> QED
  BY <1>3, <1>4, <1>5, <1>6 DEF MaxChunkChars

(* What Whole asks of a chunk's texts. *)
Within(texts) ==
  \E n \in 1..Len(texts) :
    /\ n = 1 \/ Sizes(SubSeq(texts, 1, n)) <= MaxChunkChars
    /\ n = Len(texts) \/ Joined(SubSeq(texts, n + 1, Len(texts))) < MinChunkChars

LEMMA FitsWithin ==
  ASSUME NEW texts \in Seq(Part), Fits(texts)
  PROVE  Within(texts)
<1>1. Len(texts) \in 1..Len(texts) /\ SubSeq(texts, 1, Len(texts)) = texts
  BY EmptySeq, LenProperties, SubSeqFull DEF Fits
<1> QED
  BY <1>1 DEF Fits, Within

(* A short rest may join. *)
LEMMA JoinedWithin ==
  ASSUME NEW texts \in Seq(Part), Fits(texts),
         NEW rest \in Seq(Part), rest # <<>>, Joined(rest) < MinChunkChars
  PROVE  Within(texts \o rest)
<1> DEFINE both == texts \o rest
           n == Len(texts)
<1>1. n \in Nat /\ n >= 1 /\ Len(rest) \in Nat /\ Len(rest) >= 1
  BY EmptySeq, LenProperties DEF Fits
<1>2. Len(both) = n + Len(rest)
  BY ConcatProperties
<1>3. SubSeq(both, 1, n) = texts
  BY <1>1, SubSeqOfConcat1, SubSeqFull
<1>4. SubSeq(both, n + 1, Len(both)) = rest
  <2>1. n + 1 \in (n + 1)..(n + Len(rest)) /\ Len(both) \in (n + 1)..(n + Len(rest))
    BY <1>1, <1>2
  <2>2. SubSeq(both, n + 1, Len(both)) = SubSeq(rest, (n + 1) - n, Len(both) - n)
    BY <2>1, SubSeqOfConcat2
  <2>3. (n + 1) - n = 1 /\ Len(both) - n = Len(rest)
    BY <1>1, <1>2
  <2> QED
    BY <2>2, <2>3, SubSeqFull
<1> HIDE DEF both
<1>5. n \in 1..Len(both)
  BY <1>1, <1>2
<1>6. n = 1 \/ Sizes(SubSeq(both, 1, n)) <= MaxChunkChars
  BY <1>3 DEF Fits
<1>7. Joined(SubSeq(both, n + 1, Len(both))) < MinChunkChars
  BY <1>4
<1> HIDE DEF n
<1>8. Within(both)
  BY <1>5, <1>6, <1>7 DEF Within
<1> QED
  BY <1>8 DEF both

LEMMA PackingEnds ==
  ASSUME NEW acc, NEW kept, PackedSoFar(acc, kept)
  PROVE  /\ Texts(Flush(acc)) = kept /\ Parted(Flush(acc))
         /\ \A i \in DOMAIN Flush(acc) : Within(Flush(acc)[i].texts)
<1> DEFINE chunks == acc.chunks
           buf == acc.buf
<1>1. /\ acc \in Packings /\ kept \in Seq(Part) /\ chunks \in Seq(ChunkSet) /\ buf \in Seq(Part)
      /\ Len(chunks) \in Nat
  BY LenProperties DEF PackedSoFar, Packings
<1>2. \A cs \in Seq(ChunkSet) : (\A i \in 1..Len(cs) : Fits(cs[i].texts))
                                   => \A i \in 1..Len(cs) : Within(cs[i].texts)
  BY ChunksAre, FitsWithin
<1>3. \A cs \in Seq(ChunkSet) : DOMAIN cs = 1..Len(cs)
  BY LenProperties
<1>4. \A i \in 1..Len(chunks) : Fits(chunks[i].texts)
  BY DEF PackedSoFar
<1>5. CASE buf = <<>>
  <2>1. Flush(acc) = chunks
    BY <1>5 DEF Flush
  <2>2. Texts(chunks) \in Seq(Part)
    <3>1. Chunk(acc.section, acc.buf) \in ChunkSet
      BY <1>1 DEF Chunk, ChunkSet, Packings
    <3> QED
      BY <1>1, <3>1, TextsOne
  <2>3. Texts(chunks) = kept
    <3>1. Texts(chunks) \o <<>> = Texts(chunks)
      BY <2>2, ConcatEmptySeq
    <3> QED
      BY <1>5, <3>1 DEF PackedSoFar
  <2>4. Parted(chunks)
    BY DEF PackedSoFar
  <2> QED
    BY <1>1, <1>2, <1>3, <1>4, <2>1, <2>3, <2>4
<1>6. CASE buf # <<>> /\ chunks # <<>> /\ Joined(buf) < MinChunkChars
  <2> DEFINE m == Len(chunks)
             front == Front(chunks)
             last == Last(chunks)
             new == [last EXCEPT !.texts = @ \o buf]
             r == Append(front, new)
  <2>1. m \in Nat /\ m >= 1
    BY <1>1, <1>6, EmptySeq
  <2>2. last = chunks[m] /\ last \in ChunkSet /\ last.texts \in Seq(Part) /\ Fits(last.texts)
    BY <1>1, <1>4, <2>1, ChunksAre DEF Last
  <2>3. /\ front \in Seq(ChunkSet) /\ Len(front) = m - 1
        /\ \A i \in 1..(m - 1) : front[i] = chunks[i]
    <3>1. \A i \in 1..(m - 1) : chunks[i] \in ChunkSet
      BY <1>1, <2>1, ChunksAre
    <3>2. /\ SubSeq(chunks, 1, m - 1) \in Seq(ChunkSet)
          /\ Len(SubSeq(chunks, 1, m - 1)) = m - 1
          /\ \A i \in 1..(m - 1) : SubSeq(chunks, 1, m - 1)[i] = chunks[i]
      BY <2>1, <3>1, SubSeqProperties
    <3> QED
      BY <3>2 DEF Front
  <2>4. new \in ChunkSet /\ new.texts = last.texts \o buf
    <3>1. last.texts \o buf \in Seq(Part)
      BY <1>1, <2>2, ConcatProperties
    <3> QED
      BY <2>2, <3>1 DEF ChunkSet
  <2> HIDE DEF front, last, new
  <2>5. /\ r \in Seq(ChunkSet) /\ Len(r) = m
        /\ \A i \in 1..(m - 1) : r[i] = chunks[i]
        /\ r[m] = new
    BY <2>1, <2>3, <2>4, AppendProperties
  <2>6. Flush(acc) = r
    BY <1>6 DEF Flush, front, last, new
  <2>7. chunks = Append(front, last)
    <3>1. Append(front, last) \in Seq(ChunkSet) /\ Len(Append(front, last)) = m
      BY <2>1, <2>2, <2>3, AppendProperties
    <3>2. \A i \in 1..m : chunks[i] = Append(front, last)[i]
      BY <2>1, <2>2, <2>3, AppendProperties
    <3> QED
      BY <1>1, <3>1, <3>2, SeqEqual
  <2>8. Texts(r) = kept
    <3>1. /\ Texts(r) = Texts(front) \o (last.texts \o buf) /\ Texts(front) \in Seq(Part)
          /\ Texts(chunks) = Texts(front) \o last.texts
      BY <2>2, <2>3, <2>4, <2>7, TextsOne
    <3>2. (Texts(front) \o last.texts) \o buf = Texts(front) \o (last.texts \o buf)
      BY <1>1, <2>2, <3>1, Regroup, Zenon
    <3> QED
      BY <3>1, <3>2, Zenon DEF PackedSoFar
  <2>9. Head(new.texts) = Head(last.texts)
    <3>1. last.texts # <<>>
      BY <2>2 DEF Fits
    <3> QED
      BY <1>1, <2>2, <2>4, <3>1, HeadStays
  <2> HIDE DEF r
  <2>10. Parted(r)
    <3>1. SUFFICES ASSUME NEW i \in 1..(m - 1)
                   PROVE  Sizes(r[i].texts) + Head(r[i + 1].texts).size > MaxChunkChars
      BY <2>5 DEF Parted
    <3>2. Sizes(chunks[i].texts) + Head(chunks[i + 1].texts).size > MaxChunkChars
      BY <1>1 DEF PackedSoFar, Parted
    <3>3. r[i] = chunks[i]
      BY <2>5
    <3>4. Head(r[i + 1].texts) = Head(chunks[i + 1].texts)
      <4>1. CASE i = m - 1
        BY <2>1, <2>2, <2>5, <2>9, <4>1
      <4>2. CASE i # m - 1
        <5>1. i + 1 \in 1..(m - 1)
          BY <2>1, <4>2
        <5> QED
          BY <2>5, <5>1
      <4> QED
        BY <4>1, <4>2
    <3> QED
      BY <3>2, <3>3, <3>4
  <2>11. \A i \in 1..m : Within(r[i].texts)
    <3>1. Within(new.texts)
      BY <1>1, <1>6, <2>2, <2>4, JoinedWithin
    <3>2. ASSUME NEW i \in 1..(m - 1) PROVE Within(r[i].texts)
      <4>1. i \in 1..m /\ r[i] = chunks[i]
        BY <2>1, <2>5
      <4>2. Within(chunks[i].texts)
        BY <1>1, <1>2, <1>4, <4>1
      <4> QED
        BY <4>1, <4>2
    <3> QED
      BY <2>1, <2>5, <3>1, <3>2
  <2> QED
    BY <1>3, <2>5, <2>6, <2>8, <2>10, <2>11
<1>7. CASE buf # <<>> /\ ~(chunks # <<>> /\ Joined(buf) < MinChunkChars)
  <2> DEFINE c == Chunk(acc.section, buf)
  <2>1. c \in ChunkSet /\ c.texts = buf
    BY <1>1 DEF Chunk, ChunkSet, Packings
  <2>2. Flush(acc) = Append(chunks, c)
    BY <1>7, Zenon DEF Flush
  <2> HIDE DEF c
  <2>3. /\ Append(chunks, c) \in Seq(ChunkSet)
        /\ Texts(Append(chunks, c)) = kept
        /\ \A i \in 1..Len(Append(chunks, c)) : Fits(Append(chunks, c)[i].texts)
        /\ Parted(Append(chunks, c))
    BY <1>1, <1>7, <2>1, Closed
  <2> QED
    BY <1>2, <1>3, <2>2, <2>3
<1> QED
  BY <1>5, <1>6, <1>7

(* The chunker keeps every article whole, however long. *)
THEOREM ChunkerKeepsWhole ==
  ASSUME NEW content \in Seq(Part)
  PROVE  Whole(content, ChunkDocument(content))
<1>1. PICK k \in Nat : k = Len(content)
  BY PartsAre
<1>2. PICK packed : Packing(content, packed) /\ ChunkDocument(content) = Flush(packed[k])
  BY <1>1, DocumentIs
<1>3. PICK kept : Keeping(content, kept) /\ Paragraphs(content) = kept[k]
  BY <1>1, ParagraphsIs
<1> DEFINE S == {n \in 0..k : PackedSoFar(packed[n], kept[n])}
<1>4. 0 \in S
  BY <1>2, <1>3, PackingStarts DEF Packing, Keeping
<1>5. ASSUME NEW n \in 1..k, n - 1 \in S PROVE n \in S
  <2>1. packed[n] = Pack(packed[n - 1], content[n]) /\ kept[n] = Keep(kept[n - 1], content[n])
    BY <1>1, <1>2, <1>3 DEF Packing, Keeping
  <2>2. content[n] \in Part /\ PackedSoFar(packed[n - 1], kept[n - 1])
    BY <1>1, <1>5, PartsAre
  <2>3. PackedSoFar(packed[n], kept[n])
    BY <2>1, <2>2, PackingKeeps
  <2> QED
    BY <2>3
<1>6. 0..k \subseteq S
  <2> HIDE DEF S
  <2> QED
    BY <1>4, <1>5, UpTo
<1>7. PackedSoFar(packed[k], kept[k])
  BY <1>6
<1> QED
  BY <1>2, <1>3, <1>7, PackingEnds DEF Whole, Within, Parted
-----------------------------------------------------------------------------
(* The steps *)

(* The step that makes t for the last time. *)
LastMade(t) ==
  CASE t = "schemas" -> 1
    [] t = "raw" -> 8
    [] t = "stgCustomer" -> 9
    [] t = "stgOrders" -> 10
    [] t = "stgService" -> 11
    [] t = "core" -> 12
    [] t = "orders" -> 13
    [] t = "support" -> 14
    [] t = "features" -> 15
    [] t = "scores" -> 16
    [] t = "customer360" -> 17
    [] t = "coreViews" -> 18
    [] t = "apiViews" -> 19
    [] t = "rules" -> 20
    [] t = "ruleViews" -> 21
    [] t = "rejected" -> 22
    [] t = "dictionary" -> 23
    [] t = "lineage" -> 24
    [] t = "results" -> 25
    [] t = "corpus" -> 26

LEMMA StepsAre ==
  /\ Len(Steps) = 26 /\ DOMAIN Steps = 1..26
  /\ Steps[1] = View("schemas", {})
  /\ Steps[2] = Ddl({"raw", "rejected"})
  /\ Steps[3] = Ddl({"stgCustomer", "stgOrders", "stgService"})
  /\ Steps[4] = Ddl({"core"})
  /\ Steps[5] = Ddl({"orders", "support", "customer360"})
  /\ Steps[6] = Ddl({"features", "scores", "corpus"})
  /\ Steps[7] = Ddl({"rules", "results", "dictionary", "lineage"})
  /\ Steps[8] = LoadRaw
  /\ Steps[9] = Insert("stgCustomer", {"raw"})
  /\ Steps[10] = Insert("stgOrders", {"raw"})
  /\ Steps[11] = Insert("stgService", {"raw"})
  /\ Steps[12] = Insert("core", {"stgCustomer", "stgOrders", "stgService"})
  /\ Steps[13] = Insert("orders", {"core"})
  /\ Steps[14] = Insert("support", {"core", "orders"})
  /\ Steps[15] = Features
  /\ Steps[16] = Scores
  /\ Steps[17] = Customer360
  /\ Steps[18] = View("coreViews", {"core"})
  /\ Steps[19] = View("apiViews", {"customer360", "features", "scores", "rules"})
  /\ Steps[20] = Insert("rules", {})
  /\ Steps[21] = View("ruleViews", {"raw", "stgOrders", "core", "customer360", "results"})
  /\ Steps[22] = Insert("rejected", {"raw", "stgCustomer", "stgOrders"})
  /\ Steps[23] = Insert("dictionary", {})
  /\ Steps[24] = Insert("lineage", {})
  /\ Steps[25] = RunAll
  /\ Steps[26] = BuildCorpus
BY DEF Steps, DdlScripts, TransformScripts, Staging, Analytics, ViewScripts, DqScripts,
       GovernanceScripts

(* t is made for the last time at step n. *)
MadeAt(t, n) == LastMade(t) = n /\ n \in 1..26 /\ t \in Steps[n].makes

LEMMA MadeAtIs ==
  /\ MadeAt("schemas", 1) /\ MadeAt("raw", 8) /\ MadeAt("stgCustomer", 9) /\ MadeAt("stgOrders", 10)
  /\ MadeAt("stgService", 11) /\ MadeAt("core", 12) /\ MadeAt("orders", 13) /\ MadeAt("support", 14)
  /\ MadeAt("features", 15) /\ MadeAt("scores", 16) /\ MadeAt("customer360", 17) /\ MadeAt("coreViews", 18)
  /\ MadeAt("apiViews", 19) /\ MadeAt("rules", 20) /\ MadeAt("ruleViews", 21) /\ MadeAt("rejected", 22)
  /\ MadeAt("dictionary", 23) /\ MadeAt("lineage", 24) /\ MadeAt("results", 25) /\ MadeAt("corpus", 26)
BY StepsAre DEF MadeAt, LastMade, View, Ddl, Insert, LoadRaw, Features, Scores, Customer360,
                Summaries, RunAll, BuildCorpus

(* What a step makes it makes now or again later, and again later if it     *)
(* only creates the table; what it fills from was made before.              *)
InOrder(i) ==
  LET s == Steps[i] IN
  /\ s.kind \in {"table", "view", "insert", "load", "corpus"}
  /\ \A t \in s.makes : /\ i =< LastMade(t)
                        /\ s.kind = "table" => i < LastMade(t)
                        /\ LastMade(t) \in 1..26 /\ t \in Steps[LastMade(t)].makes
                        /\ t = "corpus" => s.kind \in {"table", "corpus"}
  /\ Fills(s) => \A r \in s.reads : /\ LastMade(r) < i
                                    /\ LastMade(r) \in 1..26 /\ r \in Steps[LastMade(r)].makes

LEMMA StepOrder == \A i \in DOMAIN Steps : InOrder(i)
<1>1. InOrder(1)
  BY StepsAre, MadeAtIs DEF InOrder, MadeAt, Fills, View
<1>2. InOrder(2)
  BY StepsAre, MadeAtIs DEF InOrder, MadeAt, Fills, Ddl
<1>3. InOrder(3)
  BY StepsAre, MadeAtIs DEF InOrder, MadeAt, Fills, Ddl
<1>4. InOrder(4)
  BY StepsAre, MadeAtIs DEF InOrder, MadeAt, Fills, Ddl
<1>5. InOrder(5)
  BY StepsAre, MadeAtIs DEF InOrder, MadeAt, Fills, Ddl
<1>6. InOrder(6)
  BY StepsAre, MadeAtIs DEF InOrder, MadeAt, Fills, Ddl
<1>7. InOrder(7)
  BY StepsAre, MadeAtIs DEF InOrder, MadeAt, Fills, Ddl
<1>8. InOrder(8)
  BY StepsAre, MadeAtIs DEF InOrder, MadeAt, Fills, LoadRaw
<1>9. InOrder(9)
  BY StepsAre, MadeAtIs DEF InOrder, MadeAt, Fills, Insert
<1>10. InOrder(10)
  BY StepsAre, MadeAtIs DEF InOrder, MadeAt, Fills, Insert
<1>11. InOrder(11)
  BY StepsAre, MadeAtIs DEF InOrder, MadeAt, Fills, Insert
<1>12. InOrder(12)
  BY StepsAre, MadeAtIs DEF InOrder, MadeAt, Fills, Insert
<1>13. InOrder(13)
  BY StepsAre, MadeAtIs DEF InOrder, MadeAt, Fills, Insert
<1>14. InOrder(14)
  BY StepsAre, MadeAtIs DEF InOrder, MadeAt, Fills, Insert
<1>15. InOrder(15)
  BY StepsAre, MadeAtIs DEF InOrder, MadeAt, Fills, Features, Summaries, Insert
<1>16. InOrder(16)
  BY StepsAre, MadeAtIs DEF InOrder, MadeAt, Fills, Scores, Insert
<1>17. InOrder(17)
  BY StepsAre, MadeAtIs DEF InOrder, MadeAt, Fills, Customer360, Summaries, Insert
<1>18. InOrder(18)
  BY StepsAre, MadeAtIs DEF InOrder, MadeAt, Fills, View
<1>19. InOrder(19)
  BY StepsAre, MadeAtIs DEF InOrder, MadeAt, Fills, View
<1>20. InOrder(20)
  BY StepsAre, MadeAtIs DEF InOrder, MadeAt, Fills, Insert
<1>21. InOrder(21)
  BY StepsAre, MadeAtIs DEF InOrder, MadeAt, Fills, View
<1>22. InOrder(22)
  BY StepsAre, MadeAtIs DEF InOrder, MadeAt, Fills, Insert
<1>23. InOrder(23)
  BY StepsAre, MadeAtIs DEF InOrder, MadeAt, Fills, Insert
<1>24. InOrder(24)
  BY StepsAre, MadeAtIs DEF InOrder, MadeAt, Fills, Insert
<1>25. InOrder(25)
  BY StepsAre, MadeAtIs DEF InOrder, MadeAt, Fills, RunAll
<1>26. InOrder(26)
  BY StepsAre, MadeAtIs DEF InOrder, MadeAt, Fills, BuildCorpus
<1> QED
  BY StepsAre, <1>1, <1>2, <1>3, <1>4, <1>5, <1>6, <1>7, <1>8, <1>9, <1>10, <1>11, <1>12, <1>13, <1>14, <1>15, <1>16, <1>17, <1>18, <1>19, <1>20, <1>21, <1>22, <1>23, <1>24, <1>25, <1>26

-----------------------------------------------------------------------------
(* The invariant *)

States == {"absent", "empty", "part", "full"}
Written == {<<>>} \cup Articles
Chunked == {<<>>} \cup {ChunkDocument(a) : a \in Articles}
Contents == [table : [Tables -> States], article : Written, chunks : Chunked]
Builds == [n : 0..MaxBuilds, step : 0..27, inode : Nat, errors : Nat, exit : {"none", "0", "1"}]

Inside ==
  /\ build \in Builds /\ files \in Seq(Contents)
  /\ build.inode =< Len(files) /\ path \in 0..Len(files) /\ conn \in 0..Len(files)
  /\ failures \in 0..MaxFailures
  /\ build.errors = 0 \/ build.errors < build.step

(* Every step that makes t is behind the build. *)
Behind(t, step) == \A j \in DOMAIN Steps : t \in Steps[j].makes => j < step

FilledSoFar(f, step) == \A t \in Tables : Behind(t, step) => f.table[t] = "full"

(* Until the next build begins its file stays at the path, and without an   *)
(* error the tables behind it are full.                                     *)
Sound ==
  /\ IF build.inode = 0 THEN build.step =< 1 ELSE path = build.inode
  /\ build.inode # 0 /\ build.errors = 0 => FilledSoFar(files[build.inode], build.step)
  /\ build.exit = "0" => build.inode # 0 /\ build.errors = 0 /\ build.step = 27

(* The corpus of a file is full only with the chunks of its article. *)
Cut(f) ==
  f.table["corpus"] = "full" => f.article \in Articles /\ f.chunks = ChunkDocument(f.article)
CutWhole == \A i \in DOMAIN files : Cut(files[i])

Inv == Inside /\ Sound /\ CutWhole

LEMMA TablesAre ==
  /\ \A i \in DOMAIN Steps : Steps[i].makes \subseteq Tables
  /\ "corpus" \in Tables
<1>1. \A i \in DOMAIN Steps : Steps[i].makes \subseteq Tables
  BY DEF Tables
<1>2. 26 \in DOMAIN Steps /\ Steps[26].makes = {"corpus"}
  BY StepsAre DEF BuildCorpus
<1> QED
  BY <1>1, <1>2

LEMMA NewFileIs == NewFile \in Contents /\ Cut(NewFile)
BY TablesAre DEF NewFile, Contents, States, Written, Chunked, Cut

LEMMA WithIs ==
  ASSUME NEW f \in Contents, NEW s, NEW what \in States
  PROVE  /\ With(f, s, what) \in Contents
         /\ With(f, s, what).article = f.article /\ With(f, s, what).chunks = f.chunks
         /\ \A t \in Tables :
              With(f, s, what).table[t] = IF t \in s.makes THEN what ELSE f.table[t]
BY DEF With, Contents

LEMMA MadeIs ==
  ASSUME NEW f \in Contents, NEW i \in DOMAIN Steps
  PROVE  /\ Made(f, Steps[i]) \in States
         /\ Steps[i].kind = "table" => Made(f, Steps[i]) = "empty"
         /\ Steps[i].kind = "view" => Made(f, Steps[i]) = "full"
         /\ Fills(Steps[i]) /\ (\A r \in Steps[i].reads : f.table[r] = "full")
              => Made(f, Steps[i]) = "full"
<1>1. Steps[i].kind \in {"table", "view", "insert", "load", "corpus"}
  BY StepOrder DEF InOrder
<1> QED
  BY <1>1 DEF Made, Fills, States

(* A step done on a file whose tables behind it are full leaves those full  *)
(* and fills the ones it makes for the last time.                           *)
LEMMA FilledByStep ==
  ASSUME NEW f \in Contents, NEW i \in DOMAIN Steps, FilledSoFar(f, i)
  PROVE  FilledSoFar(With(f, Steps[i], Made(f, Steps[i])), i + 1)
<1> SUFFICES ASSUME NEW t \in Tables, Behind(t, i + 1)
             PROVE  With(f, Steps[i], Made(f, Steps[i])).table[t] = "full"
  BY DEF FilledSoFar
<1>1. InOrder(i) /\ i \in 1..26 /\ DOMAIN Steps = 1..26
  BY StepOrder, StepsAre
<1>2. With(f, Steps[i], Made(f, Steps[i])).table[t]
        = IF t \in Steps[i].makes THEN Made(f, Steps[i]) ELSE f.table[t]
  BY WithIs, MadeIs
<1>3. CASE t \notin Steps[i].makes
  <2>1. Behind(t, i)
    BY <1>1, <1>3 DEF Behind
  <2> QED
    BY <1>2, <1>3, <2>1 DEF FilledSoFar
<1>4. CASE t \in Steps[i].makes
  <2>1. Steps[i].kind # "table"
    BY <1>1, <1>4 DEF InOrder, Behind
  <2>2. ASSUME Fills(Steps[i]), NEW r \in Steps[i].reads PROVE f.table[r] = "full"
    <3>1. LastMade(r) < i /\ LastMade(r) \in 1..26 /\ r \in Steps[LastMade(r)].makes
      BY <1>1, <2>2 DEF InOrder
    <3>2. r \in Tables
      BY <1>1, <3>1, TablesAre
    <3>3. Behind(r, i)
      <4> SUFFICES ASSUME NEW j \in 1..26, r \in Steps[j].makes PROVE j < i
        BY <1>1 DEF Behind
      <4>1. j =< LastMade(r)
        BY <1>1, StepOrder DEF InOrder
      <4> QED
        BY <1>1, <3>1, <4>1
    <3> QED
      BY <3>2, <3>3 DEF FilledSoFar
  <2>3. Made(f, Steps[i]) = "full"
    BY <1>1, <2>1, <2>2, MadeIs DEF InOrder, Fills
  <2> QED
    BY <1>2, <1>4, <2>3
<1> QED
  BY <1>3, <1>4

LEMMA NothingBehind == \A f : FilledSoFar(f, 1)
<1> SUFFICES ASSUME NEW t \in Tables PROVE ~Behind(t, 1)
  BY DEF FilledSoFar
<1>1. PICK i \in DOMAIN Steps : t \in Steps[i].makes
  BY DEF Tables
<1> QED
  BY <1>1, StepsAre DEF Behind

(* A step that makes no table for good leaves what is behind it.            *)
LEMMA FilledBefore ==
  ASSUME NEW f \in Contents, NEW i \in DOMAIN Steps, FilledSoFar(f, i), NEW what \in States
  PROVE  FilledSoFar(With(f, Steps[i], what), i)
BY WithIs, StepsAre DEF FilledSoFar, Behind

-----------------------------------------------------------------------------
(* What the actions do to the files *)

LEMMA KeptIs ==
  ASSUME Inside, CutWhole, NEW open, files' = Kept(open)
  PROVE  /\ files' \in Seq(Contents) /\ Len(files') = Len(files) /\ CutWhole'
         /\ \A i \in DOMAIN files : i \in open => files'[i] = files[i]
<1>1. DOMAIN files = 1..Len(files) /\ Len(files) \in Nat /\ \A i \in DOMAIN files : files[i] \in Contents
  BY DEF Inside
<1>2. /\ DOMAIN files' = 1..Len(files)
      /\ \A i \in DOMAIN files : files'[i] = IF i \in open THEN files[i] ELSE NewFile
  BY <1>1 DEF Kept
<1>3. files' = [i \in 1..Len(files) |-> files'[i]]
  BY <1>1 DEF Kept
<1>4. files' \in Seq(Contents) /\ Len(files') = Len(files)
  BY <1>1, <1>2, <1>3, NewFileIs
<1>5. CutWhole'
  BY <1>1, <1>2, NewFileIs DEF CutWhole, Cut
<1> QED
  BY <1>2, <1>4, <1>5

LEMMA ConnectIs ==
  ASSUME Inside, CutWhole, Connect
  PROVE  /\ files' \in Seq(Contents) /\ Len(files) =< Len(files') /\ CutWhole'
         /\ path' = Attached /\ Attached \in 1..Len(files')
         /\ path # 0 => Attached = path
         /\ \A i \in DOMAIN files : files'[i] = files[i]
         /\ path = 0 => files'[Attached] = NewFile
<1>1. CASE path # 0
  BY <1>1 DEF Connect, Attached, Inside, CutWhole, Cut
<1>2. CASE path = 0
  <2>1. /\ files' \in Seq(Contents) /\ Len(files') = Len(files) + 1 /\ Len(files) \in Nat
        /\ files'[Len(files) + 1] = NewFile /\ \A i \in 1..Len(files) : files'[i] = files[i]
    BY <1>2, NewFileIs DEF Connect, Inside
  <2>2. DOMAIN files = 1..Len(files) /\ DOMAIN files' = 1..(Len(files) + 1)
    BY <2>1 DEF Inside
  <2>3. CutWhole'
    BY <2>1, <2>2, NewFileIs DEF CutWhole, Cut
  <2> QED
    BY <1>2, <2>1, <2>2, <2>3 DEF Connect, Attached
<1> QED
  BY <1>1, <1>2

LEMMA WriteIs ==
  ASSUME Inside, CutWhole, build.inode # 0, NEW f \in Contents, Cut(f),
         files' = [files EXCEPT ![build.inode] = f]
  PROVE  /\ files' \in Seq(Contents) /\ Len(files') = Len(files) /\ CutWhole'
         /\ files'[build.inode] = f
<1>1. /\ DOMAIN files = 1..Len(files) /\ Len(files) \in Nat
      /\ build.inode \in DOMAIN files
  BY DEF Inside, Builds
<1>2. /\ DOMAIN files' = DOMAIN files /\ files'[build.inode] = f
      /\ \A i \in DOMAIN files : i # build.inode => files'[i] = files[i]
  BY <1>1
<1>3. files' \in Seq(Contents) /\ Len(files') = Len(files)
  BY <1>1 DEF Inside
<1>4. CutWhole'
  BY <1>2 DEF CutWhole, Cut
<1> QED
  BY <1>2, <1>3, <1>4

-----------------------------------------------------------------------------
(* The actions *)

LEMMA InitInv == Init => Inv
BY LocalBuildAssumption DEF Init, NoBuild, Inv, Inside, Builds, Sound, CutWhole

LEMMA StartInv ==
  ASSUME Inv, Start
  PROVE  Inv'
<1>1. /\ files' \in Seq(Contents) /\ Len(files') = Len(files) /\ CutWhole'
  BY KeptIs DEF Inv, Start
<1>2. build' = [n |-> build.n + 1, step |-> 1, inode |-> 0, errors |-> 0, exit |-> "none"]
  BY DEF Start, NoBuild
<1>3. build' \in Builds
  BY <1>2, LocalBuildAssumption DEF Inv, Inside, Builds, Start
<1>4. conn' \in 0..Len(files') /\ path' = 0 /\ failures' \in 0..MaxFailures /\ Len(files') \in Nat
  BY <1>1 DEF Inv, Inside, Start
<1>5. build'.inode = 0 /\ build'.errors = 0 /\ build'.step = 1 /\ build'.exit = "none"
  BY <1>2
<1>6. Inside'
  BY <1>1, <1>3, <1>4, <1>5 DEF Inside
<1>7. Sound'
  BY <1>5 DEF Sound
<1> QED
  BY <1>1, <1>6, <1>7 DEF Inv

LEMMA OpenInv ==
  ASSUME Inv, Open
  PROVE  Inv'
<1>1. /\ build.inode = 0 /\ build.step = 1 /\ build.exit = "none" /\ build.errors = 0
      /\ build \in Builds /\ UNCHANGED <<conn, failures>>
  <2>1. /\ build.inode = 0 /\ build.step > 0 /\ build.step =< 1 /\ build.exit = "none"
        /\ build \in Builds /\ (build.errors = 0 \/ build.errors < build.step)
        /\ UNCHANGED <<conn, failures>>
    BY DEF Inv, Inside, Sound, Open, Running
  <2>2. build.step \in Nat /\ build.errors \in Nat
    BY <2>1 DEF Builds
  <2> QED
    BY <2>1, <2>2
<1>2. CASE Connect /\ build' = [build EXCEPT !.inode = Attached]
  <2>1. /\ files' \in Seq(Contents) /\ Len(files) =< Len(files') /\ CutWhole'
        /\ path' = Attached /\ Attached \in 1..Len(files') /\ Len(files') \in Nat
    BY <1>2, ConnectIs DEF Inv
  <2>2. /\ build' \in Builds /\ build'.inode = Attached /\ build'.step = 1
        /\ build'.errors = 0 /\ build'.exit = "none"
    <3>1. Attached \in Nat
      BY <2>1
    <3> QED
      BY ONLY <1>1, <1>2, <3>1 DEF Builds
  <2>3. Inside'
    BY <1>1, <2>1, <2>2 DEF Inv, Inside
  <2>4. Sound'
    BY <2>1, <2>2, NothingBehind DEF Sound
  <2> QED
    BY <2>1, <2>3, <2>4 DEF Inv
<1>3. CASE build' = [build EXCEPT !.exit = "1"] /\ UNCHANGED <<files, path>>
  <2>1. /\ build' \in Builds /\ build'.inode = 0 /\ build'.step = 1
        /\ build'.errors = 0 /\ build'.exit = "1"
    BY <1>1, <1>3 DEF Builds
  <2> QED
    BY <1>1, <1>3, <2>1 DEF Inv, Inside, Sound, CutWhole, Cut
<1> QED
  BY <1>2, <1>3 DEF Open
(* What a step of a running build begins with. *)
LEMMA AtStepIs ==
  ASSUME Inv, NEW kinds, AtStep(kinds)
  PROVE  /\ build \in Builds /\ build.inode # 0 /\ build.exit = "none"
         /\ build.step \in DOMAIN Steps /\ build.step \in 1..26 /\ Step = Steps[build.step]
         /\ Steps[build.step].kind \in kinds /\ InOrder(build.step)
         /\ File \in Contents /\ Cut(File) /\ path = build.inode
         /\ build.errors = 0 => FilledSoFar(File, build.step)
<1>1. build.inode \in DOMAIN files
  BY DEF Inv, Inside, Builds, AtStep
<1>2. files[build.inode] \in Contents /\ Cut(files[build.inode])
  BY <1>1 DEF Inv, Inside, CutWhole
<1> QED
  BY <1>2, StepsAre, StepOrder DEF Inv, Inside, Sound, AtStep, Running, Step, File

LEMMA StepDoneInv ==
  ASSUME Inv, StepDone
  PROVE  Inv'
<1> DEFINE f == With(File, Step, Made(File, Step))
<1>1. /\ build \in Builds /\ build.inode # 0 /\ build.exit = "none"
      /\ build.step \in DOMAIN Steps /\ build.step \in 1..26 /\ Step = Steps[build.step]
      /\ Steps[build.step].kind \in {"table", "view", "insert", "load"} /\ InOrder(build.step)
      /\ File \in Contents /\ Cut(File) /\ path = build.inode
      /\ build.errors = 0 => FilledSoFar(File, build.step)
  BY AtStepIs DEF StepDone
<1>2. f \in Contents
  BY <1>1, MadeIs, WithIs
<1>3. Cut(f)
  <2>1. "corpus" \in Step.makes => Made(File, Step) # "full"
    <3>1. "corpus" \in Step.makes => Steps[build.step].kind = "table"
      BY <1>1 DEF InOrder
    <3> QED
      BY <1>1, <3>1, MadeIs
  <2>2. /\ f.article = File.article /\ f.chunks = File.chunks
        /\ f.table["corpus"] = IF "corpus" \in Step.makes THEN Made(File, Step)
                               ELSE File.table["corpus"]
    BY <1>1, MadeIs, WithIs, TablesAre
  <2> QED
    BY <1>1, <2>1, <2>2 DEF Cut
<1>4. build.errors = 0 => FilledSoFar(f, build.step + 1)
  BY <1>1, FilledByStep
<1>5. files' = [files EXCEPT ![build.inode] = f]
  BY DEF StepDone, File
<1> HIDE DEF f
<1>6. files' \in Seq(Contents) /\ Len(files') = Len(files) /\ CutWhole' /\ files'[build.inode] = f
  BY <1>1, <1>2, <1>3, <1>5, WriteIs DEF Inv
<1>7. /\ build' \in Builds /\ build'.inode = build.inode /\ build'.step = build.step + 1
      /\ build'.errors = build.errors /\ build'.exit = "none"
      /\ UNCHANGED <<path, conn, failures>>
  BY <1>1 DEF StepDone, Builds
<1>8. Inside'
  <2>1. build.errors \in Nat /\ build.step \in Nat
    BY <1>1 DEF Builds
  <2>2. /\ build.inode =< Len(files) /\ path \in 0..Len(files) /\ conn \in 0..Len(files)
        /\ failures \in 0..MaxFailures /\ (build.errors = 0 \/ build.errors < build.step)
    BY DEF Inv, Inside
  <2> QED
    BY <1>6, <1>7, <2>1, <2>2 DEF Inside
<1>9. Sound'
  BY <1>1, <1>4, <1>6, <1>7 DEF Sound
<1> QED
  BY <1>6, <1>8, <1>9 DEF Inv

(* A failed step leaves no table full that it was to fill, and those behind *)
(* the build as they were.                                                  *)
LEMMA FailsIs ==
  ASSUME Inv, NEW kinds, AtStep(kinds), Fails
  PROVE  /\ files' \in Seq(Contents) /\ Len(files') = Len(files) /\ CutWhole'
         /\ build.errors = 0 => FilledSoFar(files'[build.inode], build.step)
         /\ failures' \in 0..MaxFailures /\ UNCHANGED <<path, conn>>
<1>1. /\ build.inode # 0 /\ build.step \in DOMAIN Steps /\ Step = Steps[build.step]
      /\ File \in Contents /\ Cut(File)
      /\ build.errors = 0 => FilledSoFar(File, build.step)
  BY AtStepIs
<1>2. PICK f \in Failing(File, Step) : files' = [files EXCEPT ![build.inode] = f]
  BY DEF Fails
<1>3. CASE f = File
  <2>1. files' \in Seq(Contents) /\ Len(files') = Len(files) /\ CutWhole' /\ files'[build.inode] = f
    BY <1>1, <1>2, <1>3, WriteIs DEF Inv
  <2> QED
    BY <1>1, <1>3, <2>1, LocalBuildAssumption DEF Fails, Inv, Inside
<1>4. ASSUME NEW what \in {"empty", "part"}, f = With(File, Step, what)
      PROVE  /\ files' \in Seq(Contents) /\ Len(files') = Len(files) /\ CutWhole'
             /\ build.errors = 0 => FilledSoFar(files'[build.inode], build.step)
  <2>1. what \in States /\ what # "full"
    BY <1>4 DEF States
  <2>2. f \in Contents
    BY <1>1, <1>4, <2>1, WithIs
  <2>3. Cut(f)
    <3>1. /\ f.article = File.article /\ f.chunks = File.chunks
          /\ f.table["corpus"] = IF "corpus" \in Step.makes THEN what ELSE File.table["corpus"]
      BY <1>1, <1>4, <2>1, WithIs, TablesAre
    <3> QED
      BY <1>1, <2>1, <3>1 DEF Cut
  <2>4. build.errors = 0 => FilledSoFar(f, build.step)
    BY <1>1, <1>4, <2>1, FilledBefore
  <2>5. files' \in Seq(Contents) /\ Len(files') = Len(files) /\ CutWhole' /\ files'[build.inode] = f
    BY <1>1, <1>2, <2>2, <2>3, WriteIs DEF Inv
  <2> QED
    BY <2>4, <2>5
<1>5. failures' \in 0..MaxFailures /\ UNCHANGED <<path, conn>>
  BY LocalBuildAssumption DEF Fails, Inv, Inside
<1>6. \/ f = File
      \/ \E what \in {"empty", "part"} : f = With(File, Step, what)
  BY <1>2 DEF Failing
<1> QED
  BY <1>3, <1>4, <1>5, <1>6

LEMMA StepFailsInv ==
  ASSUME Inv, StepFails
  PROVE  Inv'
<1>1. /\ build \in Builds /\ build.step \in 1..26 /\ build.exit = "none" /\ build.inode # 0
      /\ path = build.inode
  BY AtStepIs DEF StepFails
<1>2. /\ files' \in Seq(Contents) /\ Len(files') = Len(files) /\ CutWhole'
      /\ failures' \in 0..MaxFailures /\ UNCHANGED <<path, conn>>
  BY FailsIs DEF StepFails
<1>3. /\ build' \in Builds /\ build'.inode = build.inode /\ build'.step = build.step + 1
      /\ build'.errors = build.errors + 1 /\ build'.exit = "none"
  <2>1. build' = [build EXCEPT !.step = @ + 1, !.errors = @ + 1]
    BY DEF StepFails
  <2>2. build' = [n |-> build.n, step |-> build.step + 1, inode |-> build.inode,
                  errors |-> build.errors + 1, exit |-> build.exit]
    BY ONLY <1>1, <2>1 DEF Builds
  <2>3. build.step + 1 \in 0..27 /\ build.errors + 1 \in Nat
    BY ONLY <1>1 DEF Builds
  <2> QED
    BY ONLY <1>1, <2>2, <2>3 DEF Builds
<1>4. build.errors \in Nat /\ build.step \in Nat
  BY <1>1 DEF Builds
<1>5. Inside'
  <2>1. /\ build.inode =< Len(files) /\ path \in 0..Len(files) /\ conn \in 0..Len(files)
        /\ (build.errors = 0 \/ build.errors < build.step)
    BY DEF Inv, Inside
  <2>2. build.errors + 1 < build.step + 1
    <3>1. build.step > 0 /\ build.step \in Nat /\ build.errors \in Nat
      BY <1>1, <1>4
    <3>2. CASE build.errors = 0
      BY ONLY <3>1, <3>2
    <3>3. CASE build.errors < build.step
      BY ONLY <3>1, <3>3
    <3> QED
      BY <2>1, <3>2, <3>3
  <2> QED
    BY <1>1, <1>2, <1>3, <2>1, <2>2 DEF Inside
<1>6. Sound'
  BY <1>1, <1>2, <1>3, <1>4 DEF Sound
<1> QED
  BY <1>2, <1>5, <1>6 DEF Inv

LEMMA BuildAbortsInv ==
  ASSUME Inv, BuildAborts
  PROVE  Inv'
<1>1. /\ build \in Builds /\ build.step \in 1..26 /\ build.inode # 0 /\ path = build.inode
  BY AtStepIs DEF BuildAborts
<1>2. /\ files' \in Seq(Contents) /\ Len(files') = Len(files) /\ CutWhole'
      /\ build.errors = 0 => FilledSoFar(files'[build.inode], build.step)
      /\ failures' \in 0..MaxFailures /\ UNCHANGED <<path, conn>>
  BY FailsIs DEF BuildAborts
<1>3. /\ build' \in Builds /\ build'.inode = build.inode /\ build'.step = build.step
      /\ build'.errors = build.errors /\ build'.exit = "1"
  BY <1>1 DEF BuildAborts, Builds
<1>4. Inside'
  BY <1>2, <1>3 DEF Inv, Inside
<1>5. Sound'
  BY <1>1, <1>2, <1>3 DEF Sound
<1> QED
  BY <1>2, <1>4, <1>5 DEF Inv

LEMMA CorpusBuiltInv ==
  ASSUME Inv, CorpusBuilt
  PROVE  Inv'
<1>1. /\ build \in Builds /\ build.inode # 0 /\ build.exit = "none"
      /\ build.step \in DOMAIN Steps /\ build.step \in 1..26 /\ Step = Steps[build.step]
      /\ File \in Contents /\ path = build.inode
      /\ build.errors = 0 => FilledSoFar(File, build.step)
  BY AtStepIs DEF CorpusBuilt
<1> DEFINE g == With(File, Step, Made(File, Step))
<1>2. PICK a \in Articles :
        files' = [files EXCEPT ![build.inode] =
                    [g EXCEPT !.article = a, !.chunks = ChunkDocument(a)]]
  BY DEF CorpusBuilt, File
<1>3. g \in Contents /\ (build.errors = 0 => FilledSoFar(g, build.step + 1))
  BY <1>1, MadeIs, WithIs, FilledByStep
<1> DEFINE f == [g EXCEPT !.article = a, !.chunks = ChunkDocument(a)]
<1> HIDE DEF g
<1>4. f \in Contents /\ f.table = g.table /\ f.article = a /\ f.chunks = ChunkDocument(a)
  BY <1>3 DEF Contents, Written, Chunked
<1> HIDE DEF f
<1>5. Cut(f) /\ (build.errors = 0 => FilledSoFar(f, build.step + 1))
  BY <1>3, <1>4 DEF Cut, FilledSoFar
<1>6. files' \in Seq(Contents) /\ Len(files') = Len(files) /\ CutWhole' /\ files'[build.inode] = f
  BY <1>1, <1>2, <1>4, <1>5, WriteIs DEF Inv, f
<1>7. /\ build' \in Builds /\ build'.inode = build.inode /\ build'.step = build.step + 1
      /\ build'.errors = build.errors /\ build'.exit = "none"
      /\ UNCHANGED <<path, conn, failures>>
  BY <1>1 DEF CorpusBuilt, Builds
<1>8. Inside'
  <2>1. build.errors \in Nat /\ build.step \in Nat
    BY <1>1 DEF Builds
  <2>2. /\ build.inode =< Len(files) /\ path \in 0..Len(files) /\ conn \in 0..Len(files)
        /\ failures \in 0..MaxFailures /\ (build.errors = 0 \/ build.errors < build.step)
    BY DEF Inv, Inside
  <2> QED
    BY <1>6, <1>7, <2>1, <2>2 DEF Inside
<1>9. Sound'
  BY <1>1, <1>5, <1>6, <1>7 DEF Sound
<1> QED
  BY <1>6, <1>8, <1>9 DEF Inv

(* A build that ends, for whatever reason, leaves the files. *)
LEMMA EndInv ==
  ASSUME Inv, Finish \/ Killed
  PROVE  Inv'
<1>1. /\ UNCHANGED <<files, path, conn, failures>> /\ build \in Builds
  BY DEF Finish, Killed, Inv, Inside
<1>2. PICK exit \in {"0", "1"} : build' = [build EXCEPT !.exit = exit]
  BY DEF Finish, Killed, ExitOf
<1>3. /\ build' \in Builds /\ build'.inode = build.inode /\ build'.step = build.step
      /\ build'.errors = build.errors /\ build'.exit = exit
  BY ONLY <1>1, <1>2 DEF Builds
<1>4. exit = "0" => build.errors = 0 /\ build.step = 27
  BY <1>1, <1>2, <1>3, StepsAre DEF Finish, Killed, ExitOf, Builds
<1>5. build.step = 27 => build.inode # 0
  BY DEF Inv, Sound
<1>6. Inside' /\ CutWhole'
  BY <1>1, <1>3 DEF Inv, Inside, CutWhole, Cut
<1>7. Sound'
  BY <1>1, <1>3, <1>4, <1>5 DEF Inv, Sound
<1> QED
  BY <1>6, <1>7 DEF Inv

LEMMA ReaderInv ==
  ASSUME Inv, ReaderOpens \/ ReaderStops
  PROVE  Inv'
<1>1. UNCHANGED <<build, failures>>
  BY DEF ReaderOpens, ReaderStops
<1>2. build.inode # 0 => build.inode \in DOMAIN files /\ path = build.inode
  BY DEF Inv, Inside, Sound, Builds
<1>3. /\ files' \in Seq(Contents) /\ Len(files) =< Len(files') /\ CutWhole'
      /\ path' \in 0..Len(files') /\ conn' \in 0..Len(files')
      /\ build.inode # 0 => path' = path /\ files'[build.inode] = files[build.inode]
  <2>1. CASE ReaderOpens
    <3>1. Connect /\ conn' = Attached
      BY <2>1 DEF ReaderOpens
    <3> QED
      BY <1>2, <3>1, ConnectIs DEF Inv
  <2>2. CASE ReaderStops
    <3>1. files' = Kept({path, build.inode}) /\ conn' = 0 /\ path' = path
      BY <2>2 DEF ReaderStops
    <3>2. /\ files' \in Seq(Contents) /\ Len(files') = Len(files) /\ CutWhole'
          /\ \A i \in DOMAIN files : i \in {path, build.inode} => files'[i] = files[i]
      BY <3>1, KeptIs DEF Inv
    <3>3. path \in 0..Len(files) /\ Len(files) \in Nat
      BY DEF Inv, Inside
    <3>4. path' \in 0..Len(files') /\ conn' \in 0..Len(files')
      BY ONLY <3>1, <3>2, <3>3
    <3>5. build.inode # 0 => path' = path /\ files'[build.inode] = files[build.inode]
      BY <1>2, <3>1, <3>2
    <3>6. Len(files) =< Len(files')
      BY ONLY <3>2, <3>3
    <3> QED
      BY ONLY <3>2, <3>4, <3>5, <3>6
  <2> QED
    BY <2>1, <2>2
<1>4. Inside'
  <2>1. build \in Builds /\ build.inode \in Nat /\ build.inode =< Len(files')
    BY <1>3 DEF Inv, Inside, Builds
  <2> QED
    BY <1>1, <1>3, <2>1 DEF Inv, Inside
<1>5. Sound'
  BY <1>1, <1>3 DEF Inv, Sound
<1> QED
  BY <1>3, <1>4, <1>5 DEF Inv

LEMMA NextInv == Inv /\ [Next]_vars => Inv'
<1> SUFFICES ASSUME Inv, [Next]_vars PROVE Inv'
  OBVIOUS
<1>1. CASE UNCHANGED vars
  BY <1>1 DEF vars, Inv, Inside, Sound, CutWhole, Cut
<1> QED
  BY <1>1, StartInv, OpenInv, StepDoneInv, StepFailsInv, BuildAbortsInv, CorpusBuiltInv, EndInv,
     ReaderInv DEF Next

(* No step fails a build unseen: while a build has no error, every table    *)
(* whose steps are behind it is full, in a file that stays at the path.     *)
THEOREM Invariance == Spec => []Inv
BY InitInv, NextInv, PTL DEF Spec

(* The build, the files, the path and the connection have their types.      *)
THEOREM Typed == Spec => []TypeOK
<1>1. Inv => TypeOK
  <2> SUFFICES ASSUME Inv PROVE TypeOK
    OBVIOUS
  <2>1. build \in Builds /\ (build.errors = 0 \/ build.errors < build.step)
    BY DEF Inv, Inside
  <2>2. build.step \in 0..(Len(Steps) + 1) /\ build.errors \in 0..Len(Steps)
    BY <2>1, StepsAre DEF Builds
  <2>3. \A i \in DOMAIN files : files[i].table \in [Tables -> {"absent", "empty", "part", "full"}]
    <3>1. \A i \in DOMAIN files : files[i] \in Contents
      BY DEF Inv, Inside
    <3> QED
      BY <3>1 DEF Contents, States
  <2> QED
    BY <2>1, <2>2, <2>3 DEF TypeOK, Inv, Inside, Builds
<1> QED
  BY <1>1, Invariance, PTL

(* A build that exits with 0 has its file at the path with every table full, *)
(* in whatever order builds, failures, kills and readers come.               *)
THEOREM SuccessIsComplete == Spec => []SuccessMeansComplete
<1>1. Inv => SuccessMeansComplete
  BY StepsAre DEF Inv, Sound, FilledSoFar, Behind, SuccessMeansComplete
<1> QED
  BY <1>1, Invariance, PTL

(* A corpus that says it is full holds each paragraph of its article once,  *)
(* in order and uncut, whatever failed before, since, or while it was       *)
(* written.                                                                 *)
THEOREM CorpusIsWhole == Spec => []ChunksWhole
<1>1. Inv => ChunksWhole
  <2>1. \A a \in Articles : Whole(a, ChunkDocument(a))
    BY ChunkerKeepsWhole, LocalBuildAssumption
  <2> QED
    BY <2>1 DEF Inv, CutWhole, Cut, ChunksWhole
<1> QED
  BY <1>1, Invariance, PTL
=============================================================================
