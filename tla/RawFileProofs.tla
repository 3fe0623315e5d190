---------------------------- MODULE RawFileProofs ---------------------------
(***************************************************************************)
(* Safety of the file layer for volumes of every size, any number of forks *)
(* and calls of any length.                                                *)
(*                                                                         *)
(* The first part is about allocate() in a process that may die at any     *)
(* step while others go on with the image, any number of times, as long as *)
(* the extents of every fork fit its inline descriptors: the bitmap and    *)
(* the free count are then no longer exact, SpaceInv is what is left of    *)
(* them, and CrashInv says whose the blocks are as long as no shrinking    *)
(* call was cut short. The second part is the inductive invariant AllocInv *)
(* of BlockAlloc for a process that does not die. The third part is about  *)
(* rawFileRead and rawFileWrite over allocate(): with FileInv, which says  *)
(* where the bytes of a fork are while a call runs, RawFile implements     *)
(* FileStore.                                                              *)
(***************************************************************************)
EXTENDS RawFile, TLAPS, FiniteSetTheorems, SequenceTheorems, Induction

-----------------------------------------------------------------------------
(* The number of blocks of a list *)

\* sum[n] is the number of blocks of the first n extents.
Sums(sum, exts) ==
    /\ sum \in [0 .. Len(exts) -> Nat]
    /\ sum[0] = 0
    /\ \A n \in 1 .. Len(exts) : sum[n] = sum[n - 1] + exts[n].count

\* There are such sums.
LEMMA SumsExist ==
  ASSUME NEW exts \in Seq(Extent)
  PROVE  \E sum : Sums(sum, exts)
<1> DEFINE Upto(n) == \E sum \in [0 .. n -> Nat] :
                        sum[0] = 0 /\ \A k \in 1 .. n : sum[k] = sum[k - 1] + exts[k].count
           P == {n \in Nat : n <= Len(exts) => Upto(n)}
<1>1. 0 \in P
  <2>1. [k \in 0 .. 0 |-> 0] \in [0 .. 0 -> Nat] /\ [k \in 0 .. 0 |-> 0][0] = 0
    OBVIOUS
  <2>2. \A k \in 1 .. 0 : FALSE
    OBVIOUS
  <2>3. QED BY <2>1, <2>2
<1>2. ASSUME NEW n \in P, n + 1 <= Len(exts) PROVE Upto(n + 1)
  <2>1. n \in Nat /\ Len(exts) \in Nat /\ n <= Len(exts)
    BY <1>2
  <2>2. PICK sum \in [0 .. n -> Nat] : sum[0] = 0 /\ \A k \in 1 .. n : sum[k] = sum[k - 1] + exts[k].count
    BY <2>1
  <2>3. exts[n + 1] \in Extent
    BY <1>2
  <2> DEFINE more == [k \in 0 .. n + 1 |-> IF k = n + 1 THEN sum[n] + exts[n + 1].count ELSE sum[k]]
  <2>4. more \in [0 .. n + 1 -> Nat]
    <3>1. exts[n + 1].count \in Nat /\ sum[n] \in Nat
      BY <2>1, <2>2, <2>3 DEF Extent
    <3>2. sum[n] + exts[n + 1].count \in Nat
      BY <3>1
    <3>3. \A k \in 0 .. n + 1 : k # n + 1 => sum[k] \in Nat
      BY <2>1, <2>2
    <3>4. QED BY <3>2, <3>3
  <2>5. more[0] = 0
    BY <2>2
  <2>6. ASSUME NEW k \in 1 .. n + 1 PROVE more[k] = more[k - 1] + exts[k].count
    <3>1. CASE k = n + 1
      BY <2>1, <3>1
    <3>2. CASE k # n + 1
      <4>1. k \in 1 .. n /\ k - 1 \in 0 .. n /\ k - 1 # n + 1 /\ k \in 0 .. n + 1 /\ k - 1 \in 0 .. n + 1
        BY <2>1, <3>2
      <4>2. more[k] = sum[k] /\ more[k - 1] = sum[k - 1]
        BY <3>2, <4>1
      <4>3. QED BY <2>2, <4>1, <4>2
    <3>3. QED BY <3>1, <3>2
  <2> HIDE DEF more
  <2>7. QED BY <2>4, <2>5, <2>6
<1> HIDE DEF Upto
<1>3. \A n \in P : n + 1 \in P
  BY <1>2
<1>4. P = Nat
  <2> HIDE DEF P
  <2> QED BY <1>1, <1>3, SetInduction DEF P
<1>5. Upto(Len(exts))
  <2>1. Len(exts) \in Nat
    OBVIOUS
  <2>2. QED BY <1>4, <2>1
<1>6. QED BY <1>5 DEF Sums, Upto

\* BlockSum is the last of them.
LEMMA BlockSumIsLast ==
  ASSUME NEW exts \in Seq(Extent)
  PROVE  \E sum : Sums(sum, exts) /\ BlockSum(exts) = sum[Len(exts)]
<1> DEFINE IsSum(s) == s = [n \in 0 .. Len(exts) |-> IF n = 0 THEN 0 ELSE s[n - 1] + exts[n].count]
           sum == CHOOSE s : IsSum(s)
<1>1. \E s : IsSum(s)
  <2>1. PICK s : Sums(s, exts)
    BY SumsExist
  <2>2. IsSum(s)
    BY <2>1 DEF Sums
  <2>3. QED BY <2>2
<1>2. IsSum(sum)
  <2> HIDE DEF IsSum
  <2> QED BY <1>1
<1>3. BlockSum(exts) = sum[Len(exts)]
  BY DEF BlockSum
<1>4. PICK s : Sums(s, exts)
  BY SumsExist
<1> HIDE DEF sum
<1> DEFINE P == {n \in Nat : n <= Len(exts) => sum[n] = s[n]}
<1>5. 0 \in P
  BY <1>2, <1>4 DEF Sums
<1>6. \A n \in P : n + 1 \in P
  <2> SUFFICES ASSUME NEW n \in P, n + 1 <= Len(exts) PROVE sum[n + 1] = s[n + 1]
    OBVIOUS
  <2>1. n + 1 \in 1 .. Len(exts) /\ (n + 1) - 1 = n /\ sum[n] = s[n]
    OBVIOUS
  <2>2. sum[n + 1] = sum[n] + exts[n + 1].count
    BY <1>2, <2>1
  <2>3. QED BY <1>4, <2>1, <2>2 DEF Sums
<1>7. P = Nat
  <2> HIDE DEF P
  <2> QED BY <1>5, <1>6, SetInduction DEF P
<1>8. sum[Len(exts)] = s[Len(exts)]
  BY <1>7
<1>9. QED BY <1>3, <1>4, <1>8

\* Lists that agree on their first n extents agree on the first n sums.
LEMMA SumsAgree ==
  ASSUME NEW s \in Seq(Extent), NEW t \in Seq(Extent), NEW sum, NEW tum, Sums(sum, s), Sums(tum, t),
         NEW n \in Nat, n <= Len(s), n <= Len(t), \A i \in 1 .. n : s[i].count = t[i].count
  PROVE  sum[n] = tum[n]
<1> DEFINE P == {k \in Nat : k <= n => sum[k] = tum[k]}
<1>1. 0 \in P
  BY DEF Sums
<1>2. \A k \in P : k + 1 \in P
  <2> SUFFICES ASSUME NEW k \in P, k + 1 <= n PROVE sum[k + 1] = tum[k + 1]
    OBVIOUS
  <2>1. k + 1 \in 1 .. Len(s) /\ k + 1 \in 1 .. Len(t) /\ (k + 1) - 1 = k /\ sum[k] = tum[k]
    OBVIOUS
  <2>2. QED BY <2>1 DEF Sums
<1>3. P = Nat
  <2> HIDE DEF P
  <2> QED BY <1>1, <1>2, SetInduction DEF P
<1>4. QED BY <1>3

\* Blocks are counted in natural numbers.
LEMMA SumType ==
  ASSUME NEW exts \in Seq(Extent)
  PROVE  BlockSum(exts) \in Nat
<1>1. Len(exts) \in 0 .. Len(exts)
  OBVIOUS
<1>2. QED BY <1>1, BlockSumIsLast DEF Sums

\* No extents have no blocks.
LEMMA SumEmpty == BlockSum(<<>>) = 0
<1>1. <<>> \in Seq(Extent) /\ Len(<<>>) = 0
  OBVIOUS
<1>2. QED BY <1>1, BlockSumIsLast DEF Sums

\* A list with one more extent at its end.
LEMMA Appended ==
  ASSUME NEW s \in Seq(Extent), NEW e \in Extent, NEW t, t = Append(s, e)
  PROVE  /\ t \in Seq(Extent) /\ t # <<>>
         /\ Len(s) \in Nat /\ Len(t) = Len(s) + 1
         /\ DOMAIN s = 1 .. Len(s) /\ DOMAIN t = 1 .. Len(s) + 1
         /\ \A i \in 1 .. Len(s) : t[i] = s[i]
         /\ t[Len(s) + 1] = e
<1>1. t \in Seq(Extent) /\ t # <<>> /\ Len(t) = Len(s) + 1
  BY AppendProperties
<1>2. (\A i \in 1 .. Len(s) : t[i] = s[i]) /\ t[Len(s) + 1] = e
  BY AppendProperties
<1>3. Len(s) \in Nat /\ DOMAIN s = 1 .. Len(s)
  OBVIOUS
<1>4. DOMAIN t = 1 .. Len(s) + 1
  BY <1>1
<1>5. QED BY <1>1, <1>2, <1>3, <1>4

\* An extent that is added at the end adds its count.
LEMMA SumAppend ==
  ASSUME NEW s \in Seq(Extent), NEW e \in Extent
  PROVE  BlockSum(Append(s, e)) = BlockSum(s) + e.count
<1> DEFINE t == Append(s, e)
<1>1. /\ t \in Seq(Extent) /\ Len(t) = Len(s) + 1 /\ Len(s) \in Nat
      /\ \A i \in 1 .. Len(s) : t[i] = s[i]
      /\ t[Len(t)] = e
  BY Appended
<1>2. PICK sum : Sums(sum, s) /\ BlockSum(s) = sum[Len(s)]
  BY BlockSumIsLast
<1> HIDE DEF t
<1>3. PICK tum : Sums(tum, t) /\ BlockSum(t) = tum[Len(t)]
  BY <1>1, BlockSumIsLast
<1>4. sum[Len(s)] = tum[Len(s)]
  BY <1>1, <1>2, <1>3, SumsAgree
<1>5. tum[Len(t)] = tum[Len(t) - 1] + t[Len(t)].count
  BY <1>1, <1>3 DEF Sums
<1>6. Len(t) - 1 = Len(s)
  BY <1>1
<1>7. QED BY <1>1, <1>2, <1>3, <1>4, <1>5, <1>6 DEF t

\* The first k extents of a list.
LEMMA PrefixType ==
  ASSUME NEW s \in Seq(Extent), NEW k \in 0 .. Len(s)
  PROVE  /\ SubSeq(s, 1, k) \in Seq(Extent)
         /\ Len(SubSeq(s, 1, k)) = k
         /\ \A i \in 1 .. k : SubSeq(s, 1, k)[i] = s[i]
<1>1. \A i \in 1 .. k : s[i] \in Extent
  OBVIOUS
<1>2. /\ SubSeq(s, 1, k) \in Seq(Extent)
      /\ Len(SubSeq(s, 1, k)) = IF 1 <= k THEN k - 1 + 1 ELSE 0
      /\ \A i \in 1 .. k - 1 + 1 : SubSeq(s, 1, k)[i] = s[1 + i - 1]
  BY <1>1, SubSeqProperties
<1>3. QED BY <1>2

\* One more extent of a list adds its count.
LEMMA SumPrefix ==
  ASSUME NEW s \in Seq(Extent), NEW k \in 1 .. Len(s)
  PROVE  BlockSum(SubSeq(s, 1, k)) = BlockSum(SubSeq(s, 1, k - 1)) + s[k].count
<1> DEFINE front == SubSeq(s, 1, k - 1)
           whole == SubSeq(s, 1, k)
<1>1. k - 1 \in 0 .. Len(s) /\ s[k] \in Extent
  OBVIOUS
<1>2. front \in Seq(Extent) /\ Len(front) = k - 1 /\ \A i \in 1 .. k - 1 : front[i] = s[i]
  BY <1>1, PrefixType
<1>3. whole \in Seq(Extent) /\ Len(whole) = k /\ \A i \in 1 .. k : whole[i] = s[i]
  BY PrefixType
<1> HIDE DEF front, whole
<1>4. /\ Append(front, s[k]) \in Seq(Extent) /\ Len(Append(front, s[k])) = k
      /\ \A i \in 1 .. k - 1 : Append(front, s[k])[i] = s[i]
      /\ Append(front, s[k])[k] = s[k]
  BY <1>1, <1>2, Appended
<1>5. whole = Append(front, s[k])
  BY <1>3, <1>4, SeqEqual
<1>6. QED BY <1>1, <1>2, <1>5, SumAppend DEF front, whole

\* The last extent counts for what it counts.
LEMMA SumLast ==
  ASSUME NEW s \in Seq(Extent), s # <<>>
  PROVE  BlockSum(s) = BlockSum(SubSeq(s, 1, Len(s) - 1)) + s[Len(s)].count
<1>1. Len(s) \in 1 .. Len(s) /\ SubSeq(s, 1, Len(s)) = s
  BY SubSeqFull
<1>2. QED BY <1>1, SumPrefix

-----------------------------------------------------------------------------
(* The walk over a fork's records *)

\* The loop of readExtents and removeExtents looks nothing up when the inline
\* descriptors hold all the blocks there are.
LEMMA WalkIsInline ==
  ASSUME NEW f, NEW fd \in ForkData, BlockSum(fd.exts) = fd.total, MaxFileBlocks \in Nat
  PROVE  ExtentWalk(f, fd) = [exts |-> fd.exts, keys |-> {}, ok |-> TRUE]
<1> DEFINE start == [exts |-> fd.exts, keys |-> {}, ok |-> TRUE]
           After(w) == LET at == BlockSum(w.exts)
                       IN  IF at >= fd.total \/ ~w.ok THEN w
                           ELSE IF HasRecord(f, at)
                                THEN [exts |-> w.exts \o Record(f, at).exts,
                                      keys |-> w.keys \cup {at}, ok |-> TRUE]
                                ELSE [w EXCEPT !.ok = FALSE]
           IsWalk(w) == w = [n \in 0 .. MaxFileBlocks |-> IF n = 0 THEN start ELSE After(w[n - 1])]
           walk == CHOOSE w : IsWalk(w)
<1>1. ExtentWalk(f, fd) = walk[MaxFileBlocks]
  BY DEF ExtentWalk
<1>2. After(start) = start
  <2>1. start.exts = fd.exts /\ start.ok
    OBVIOUS
  <2>2. fd.total \in Nat /\ BlockSum(fd.exts) >= fd.total
    BY DEF ForkData
  <2> HIDE DEF start
  <2>3. BlockSum(start.exts) >= fd.total
    BY <2>1, <2>2
  <2>4. QED BY <2>3
<1> HIDE DEF After, start
<1>3. IsWalk([n \in 0 .. MaxFileBlocks |-> start])
  <2> DEFINE c == [n \in 0 .. MaxFileBlocks |-> start]
  <2>1. \A n \in 0 .. MaxFileBlocks : n # 0 => c[n - 1] = start
    OBVIOUS
  <2> HIDE DEF c
  <2>2. \A n \in 0 .. MaxFileBlocks : (IF n = 0 THEN start ELSE After(c[n - 1])) = start
    BY <1>2, <2>1
  <2>3. c = [n \in 0 .. MaxFileBlocks |-> IF n = 0 THEN start ELSE After(c[n - 1])]
    BY <2>2 DEF c
  <2>4. QED BY <2>3 DEF c
<1>4. IsWalk(walk)
  <2> HIDE DEF IsWalk
  <2> QED BY <1>3
<1> HIDE DEF walk
<1> DEFINE P == {n \in Nat : n <= MaxFileBlocks => walk[n] = start}
<1>5. 0 \in P
  BY <1>4
<1>6. \A n \in P : n + 1 \in P
  <2> SUFFICES ASSUME NEW n \in P, n + 1 <= MaxFileBlocks PROVE walk[n + 1] = start
    OBVIOUS
  <2>1. n + 1 \in 0 .. MaxFileBlocks /\ n + 1 # 0 /\ (n + 1) - 1 = n /\ walk[n] = start
    OBVIOUS
  <2>2. walk[n + 1] = After(walk[n])
    BY <1>4, <2>1
  <2>3. QED BY <1>2, <2>1, <2>2
<1>7. P = Nat
  <2> HIDE DEF P
  <2> QED BY <1>5, <1>6, SetInduction DEF P
<1>8. walk[MaxFileBlocks] = start
  BY <1>7
<1>9. QED BY <1>1, <1>8 DEF start, walk

\* A list that fits into the inline descriptors is written there whole, and no
\* overflow record is made.
LEMMA WrittenInline ==
  ASSUME NEW f, NEW s \in Seq(Extent), Len(s) <= Density, Density \in Nat \ {0}
  PROVE  InlineExtents(s) = s /\ OverflowRecords(f, s) = {}
<1>1. Len(s) \in Nat
  OBVIOUS
<1>2. InlineExtents(s) = s
  <2>1. (IF Len(s) < Density THEN Len(s) ELSE Density) = Len(s)
    BY <1>1
  <2>2. QED BY <2>1, SubSeqFull DEF InlineExtents
<1>3. \A n \in 1 .. Len(s) : ~(n * Density + 1 <= Len(s))
  <2> SUFFICES ASSUME NEW n \in 1 .. Len(s), n * Density + 1 <= Len(s) PROVE FALSE
    OBVIOUS
  <2>1. n * Density >= Density
    OBVIOUS
  <2>2. n * Density \in Nat
    OBVIOUS
  <2>3. QED BY <1>1, <2>1, <2>2
<1>4. OverflowRecords(f, s) = {}
  BY <1>3 DEF OverflowRecords
<1>5. QED BY <1>2, <1>4


USE VolumeAssumption, BoundsAssumption

\* The fork that writeExtents is to write down has no more extents than there are
\* inline descriptors. Its blocks may be as many as there are.
FitsInline == pc = "write" => Len(extents[file]) <= Density

\* A list of extents as allocate() leaves it: none is empty, and none leaves the
\* volume or takes one of its own blocks.
Inside(e) == BlocksOf(e) \subseteq Blocks \ Reserved
Sound(exts) == \A i \in DOMAIN exts : exts[i].count > 0 /\ Inside(exts[i])

\* Fork data that holds all its blocks inline.
Whole(fd) == Sound(fd.exts) /\ BlockSum(fd.exts) = fd.total /\ fd.total <= MaxFileBlocks

ForksWhole == \A f \in Files : Whole(fork[f]) /\ Whole(savedFork[f])

\* When the list, the fork data and the catalog record of a fork say the same.
InStep ==
    \A f \in Files :
        /\ f # file \/ pc \in {"idle", "walk", "volume", "catalog"} => extents[f] = fork[f].exts
        /\ f # file \/ pc \notin {"volume", "catalog"} => savedFork[f] = fork[f]

\* What a growing call has and what it still wants make what it needs.
GrownList(exts) ==
    \A i \in DOMAIN exts : Inside(exts[i]) /\ (exts[i].count = 0 => left > 0 /\ i = Len(exts))
Growing ==
    pc = "grow" =>
        /\ extents[file] # <<>> /\ cur \in Blocks
        /\ BlockSum(extents[file]) + left = need
        /\ need > fork[file].total
        /\ GrownList(extents[file])
        /\ LastExtent(file).count > 0 /\ left > 0 => cur = LastExtent(file).start + LastExtent(file).count

\* A shrinking call has passed what it does not want any more of.
Walking ==
    pc = "walk" =>
        /\ list = extents[file] /\ idx \in DOMAIN list
        /\ BlockSum(SubSeq(list, 1, idx - 1)) + left = need
        /\ left = 0 => idx = 1

Freeing ==
    pc = "free" => list = fork[file].exts /\ idx \in DOMAIN list /\ cur >= list[idx].start

Shrinking == pc \in {"walk", "free"} => need < fork[file].total

Written == pc \in {"free", "write"} => Sound(extents[file]) /\ BlockSum(extents[file]) = need

SpaceInv ==
    /\ TypeOK
    /\ overflow = {} /\ pc # "panic" /\ need <= MaxFileBlocks
    /\ Reserved \subseteq used
    /\ ForksWhole /\ InStep /\ Growing /\ Walking /\ Freeing /\ Shrinking /\ Written

-----------------------------------------------------------------------------
\* A fork without blocks is sound and counts none.
LEMMA EmptySound == Sound(<<>>) /\ BlockSum(<<>>) = 0 /\ <<>> \in Seq(Extent)
  BY SumEmpty DEF Sound

\* A freshly made volume.
LEMMA InitSpace == Init => SpaceInv
<1> SUFFICES ASSUME Init PROVE SpaceInv
  OBVIOUS
<1>1. freeBlocks \in Int
  <2>1. IsFiniteSet(Blocks \ Reserved)
    <3>1. IsFiniteSet(Blocks)
      BY FS_Interval DEF Blocks
    <3>2. QED BY <3>1, FS_Difference
  <2>2. QED BY <2>1, FS_CardinalityType DEF Init
<1>2. TypeOK
  BY <1>1 DEF Init, TypeOK, NoFork, Extent, ForkData, HeaderData
<1>3. Whole(NoFork)
  BY EmptySound DEF Whole, NoFork
<1>4. ForksWhole /\ InStep
  BY <1>3 DEF Init, ForksWhole, InStep, NoFork
<1>5. Growing /\ Walking /\ Freeing /\ Shrinking /\ Written
  BY DEF Init, Growing, Walking, Freeing, Shrinking, Written
<1>6. QED BY <1>2, <1>4, <1>5 DEF SpaceInv, Init

\* Types of the parts that proofs speak of.
LEMMA Types ==
  ASSUME SpaceInv, NEW f \in Files
  PROVE  /\ extents[f] \in Seq(Extent)
         /\ fork[f] \in ForkData /\ fork[f].exts \in Seq(Extent) /\ fork[f].total \in Nat
         /\ savedFork[f] \in ForkData /\ savedFork[f].exts \in Seq(Extent) /\ savedFork[f].total \in Nat
         /\ Whole(fork[f]) /\ Whole(savedFork[f])
  BY DEF SpaceInv, TypeOK, ForkData, ForksWhole

\* A sum is positive only if there is an extent.
LEMMA NonEmpty ==
  ASSUME NEW exts \in Seq(Extent), BlockSum(exts) > 0
  PROVE  exts # <<>> /\ 1 \in DOMAIN exts
<1>1. exts # <<>>
  BY SumEmpty
<1>2. QED BY <1>1

-----------------------------------------------------------------------------
(* The steps of a growing call *)

\* The block behind a fork is a block of the volume.
LEMMA BehindFork ==
  ASSUME NEW exts \in Seq(Extent), Sound(exts), exts # <<>>
  PROVE  exts[Len(exts)].start + exts[Len(exts)].count \in Blocks
<1> DEFINE e == exts[Len(exts)]
           b == e.start + e.count - 1
<1>1. Len(exts) \in DOMAIN exts /\ e \in Extent
  OBVIOUS
<1>2. e.count > 0 /\ BlocksOf(e) \subseteq Blocks \ Reserved
  BY <1>1 DEF Sound, Inside
<1>3. b \in BlocksOf(e)
  BY <1>1, <1>2 DEF BlocksOf, Extent
<1>4. b \in Blocks /\ b # TotalBlocks - 1
  BY <1>2, <1>3
<1>5. QED BY <1>1, <1>4 DEF Blocks, Extent

\* allocate() is called to grow a fork.
LEMMA GrowStartSpace ==
  ASSUME SpaceInv, NEW f \in Files, NEW n \in 0 .. MaxFileBlocks, AllocateGrow(f, n)
  PROVE  SpaceInv'
<1>1. extents[f] \in Seq(Extent) /\ fork[f].total \in Nat /\ Whole(fork[f]) /\ extents[f] = fork[f].exts
  BY Types DEF AllocateGrow, SpaceInv, InStep
<1>2. left' = n - fork[f].total /\ left' \in Nat \ {0} /\ need' = n /\ need' \in Nat /\ file' = f /\ pc' = "grow" /\ pc = "idle"
  BY <1>1 DEF AllocateGrow
<1>3. BlockSum(extents[f]) = fork[f].total /\ Sound(extents[f])
  BY <1>1 DEF Whole
<1> DEFINE e == [start |-> 0, count |-> 0]
<1>4. CASE extents[f] = <<>>
  <2>1. extents' = [extents EXCEPT ![f] = <<e>>] /\ cur' = nextAllocation
    BY <1>4 DEF AllocateGrow
  <2>2. e \in Extent /\ BlocksOf(e) = {} /\ e.count = 0
    BY DEF Extent, BlocksOf
  <2>3. BlockSum(<<e>>) = 0
    <3>1. <<e>> = Append(<<>>, e)
      OBVIOUS
    <3> HIDE DEF e
    <3>2. BlockSum(Append(<<>>, e)) = BlockSum(<<>>) + e.count
      BY <2>2, EmptySound, SumAppend
    <3>3. QED BY <2>2, <3>1, <3>2, EmptySound
  <2> HIDE DEF e
  <2>4. extents' \in [Files -> Seq(Extent)] /\ extents'[f] = <<e>>
    BY <2>1, <2>2 DEF SpaceInv, TypeOK
  <2>5. \A g \in Files : g # f => extents'[g] = extents[g]
    BY <2>1 DEF SpaceInv, TypeOK
  <2>6. cur' \in Blocks
    BY <2>1 DEF SpaceInv, TypeOK
  <2>7. TypeOK'
    BY <1>2, <2>4, <2>6 DEF AllocateGrow, SpaceInv, TypeOK, header, saved, history, Blocks
  <2>8. InStep'
    BY <1>2, <2>5 DEF AllocateGrow, SpaceInv, InStep, saved
  <2>9. Growing'
    <3>1. GrownList(<<e>>)'
      BY <1>2, <2>2 DEF GrownList, Inside
    <3>2. LastExtent(f)'.count = 0
      BY <2>2, <2>4 DEF LastExtent
    <3>3. BlockSum(extents'[f]) + left' = need' /\ fork' = fork /\ need' > fork[f].total
      BY <1>1, <1>2, <1>3, <1>4, <2>3, <2>4, SumEmpty DEF AllocateGrow
    <3>4. QED BY <1>2, <2>4, <2>6, <3>1, <3>2, <3>3 DEF Growing, LastExtent
  <2>10. QED
    BY <1>2, <2>7, <2>8, <2>9
       DEF AllocateGrow, SpaceInv, ForksWhole, Walking, Freeing, Shrinking, Written, saved
<1>5. CASE extents[f] # <<>>
  <2>1. extents' = extents /\ cur' = LastExtent(f).start + LastExtent(f).count
    BY <1>5 DEF AllocateGrow
  <2>2. cur' \in Blocks
    BY <1>1, <1>3, <1>5, <2>1, BehindFork DEF LastExtent
  <2>3. TypeOK'
    BY <1>2, <2>1, <2>2 DEF AllocateGrow, SpaceInv, TypeOK, header, saved, history, Blocks
  <2>4. InStep'
    BY <1>2, <2>1 DEF AllocateGrow, SpaceInv, InStep, saved
  <2>5. Growing'
    <3>1. GrownList(extents[f])'
      <4>1. \A i \in DOMAIN extents[f] : extents[f][i].count > 0 /\ Inside(extents[f][i])
        BY <1>3 DEF Sound
      <4>2. \A i \in DOMAIN extents[f] : extents[f][i].count # 0
        BY <4>1
      <4>3. QED BY <2>1, <4>1, <4>2 DEF GrownList, Inside
    <3>2. BlockSum(extents'[f]) + left' = need' /\ fork' = fork /\ need' > fork[f].total
      BY <1>1, <1>2, <1>3, <2>1 DEF AllocateGrow
    <3>3. QED BY <1>2, <1>5, <2>1, <2>2, <3>1, <3>2 DEF Growing, LastExtent
  <2>6. QED
    BY <1>2, <2>3, <2>4, <2>5
       DEF AllocateGrow, SpaceInv, ForksWhole, Walking, Freeing, Shrinking, Written, saved
<1>6. QED BY <1>4, <1>5

\* Passing over a used block.
LEMMA GrowSkipSpace == SpaceInv /\ GrowSkip => SpaceInv'
<1> SUFFICES ASSUME SpaceInv, GrowSkip PROVE SpaceInv'
  OBVIOUS
<1>1. /\ extents[file] \in Seq(Extent) /\ extents[file] # <<>> /\ file \in Files
      /\ pc = "grow" /\ pc' = "grow" /\ file' = file /\ left' = left /\ need' = need /\ left > 0
      /\ fork' = fork /\ savedFork' = savedFork
  BY DEF GrowSkip, SpaceInv, TypeOK, Growing, saved
<1>2. cur' \in Blocks /\ nextAllocation' \in Blocks
  BY DEF GrowSkip, SpaceInv, TypeOK, NextBlock, Blocks
<1>3. Len(extents[file]) \in DOMAIN extents[file] /\ LastExtent(file) \in Extent
  BY <1>1 DEF LastExtent
<1> DEFINE e == [start |-> 0, count |-> 0]
<1>4. CASE LastExtent(file).count > 0
  <2>1. extents' = [extents EXCEPT ![file] = Append(@, e)]
    BY <1>4 DEF GrowSkip
  <2>2. e \in Extent /\ BlocksOf(e) = {} /\ e.count = 0
    BY DEF Extent, BlocksOf
  <2> HIDE DEF e
  <2>3. /\ extents' \in [Files -> Seq(Extent)]
        /\ extents'[file] = Append(extents[file], e)
        /\ \A g \in Files : g # file => extents'[g] = extents[g]
    BY <1>1, <2>1, <2>2 DEF SpaceInv, TypeOK
  <2>4. /\ Len(extents'[file]) = Len(extents[file]) + 1
        /\ \A i \in 1 .. Len(extents[file]) : extents'[file][i] = extents[file][i]
        /\ extents'[file][Len(extents'[file])] = e
        /\ extents'[file] # <<>>
        /\ DOMAIN extents'[file] = 1 .. Len(extents[file]) + 1
    BY <1>1, <2>2, <2>3, Appended
  <2>5. TypeOK'
    BY <1>2, <2>3 DEF GrowSkip, SpaceInv, TypeOK, saved, history, Blocks
  <2>6. InStep'
    BY <1>1, <2>3 DEF SpaceInv, InStep
  <2>7. BlockSum(extents'[file]) = BlockSum(extents[file])
    <3>1. BlockSum(extents'[file]) = BlockSum(extents[file]) + e.count
      BY <1>1, <2>2, <2>3, SumAppend
    <3>2. BlockSum(extents[file]) \in Nat
      BY <1>1, SumType
    <3>3. QED BY <2>2, <3>1, <3>2
  <2>8. GrownList(extents[file])'
    <3> SUFFICES ASSUME NEW i \in DOMAIN extents'[file]
                 PROVE  /\ Inside(extents'[file][i])
                        /\ extents'[file][i].count = 0 => left' > 0 /\ i = Len(extents'[file])
      BY <1>1 DEF GrownList, Inside
    <3>1. CASE i = Len(extents'[file])
      BY <1>1, <2>2, <2>4, <3>1 DEF Inside
    <3>2. CASE i # Len(extents'[file])
      <4>1. i \in 1 .. Len(extents[file]) /\ extents'[file][i] = extents[file][i] /\ i \in DOMAIN extents[file]
        BY <1>1, <2>4, <3>2
      <4>2. Inside(extents[file][i]) /\ (extents[file][i].count = 0 => i = Len(extents[file]))
        BY <1>1, <4>1 DEF SpaceInv, Growing, GrownList
      <4>3. extents[file][i].count # 0
        BY <1>3, <1>4, <4>2 DEF LastExtent
      <4>4. QED BY <4>1, <4>2, <4>3
    <3>3. QED BY <3>1, <3>2
  <2>9. LastExtent(file)'.count = 0
    BY <1>1, <2>2, <2>4 DEF LastExtent
  <2>10. Growing'
    BY <1>1, <1>2, <2>4, <2>7, <2>8, <2>9 DEF SpaceInv, Growing, LastExtent
  <2>11. QED
    BY <1>1, <2>5, <2>6, <2>10
       DEF GrowSkip, SpaceInv, ForksWhole, Walking, Freeing, Shrinking, Written
<1>5. CASE ~(LastExtent(file).count > 0)
  <2>1. extents' = extents
    BY <1>5 DEF GrowSkip
  <2>2. TypeOK'
    BY <1>2, <2>1 DEF GrowSkip, SpaceInv, TypeOK, saved, history, Blocks
  <2>3. InStep'
    BY <1>1, <2>1 DEF SpaceInv, InStep
  <2>4. GrownList(extents[file])'
    BY <1>1, <2>1 DEF SpaceInv, Growing, GrownList, Inside
  <2>5. Growing'
    BY <1>1, <1>2, <1>5, <2>1, <2>4 DEF SpaceInv, Growing, LastExtent
  <2>6. QED
    BY <1>1, <2>1, <2>2, <2>3, <2>5
       DEF GrowSkip, SpaceInv, ForksWhole, Walking, Freeing, Shrinking, Written
<1>6. QED BY <1>4, <1>5

\* The list of a fork that takes the free block `cur`.
LEMMA Taken ==
  ASSUME SpaceInv, GrowTake
  PROVE  \E new \in Extent :
            LET old == LastExtent(file)
                last == Len(extents[file])
            IN  /\ extents'[file] = [extents[file] EXCEPT ![last] = new]
                /\ \A g \in Files : g # file => extents'[g] = extents[g]
                /\ extents' \in [Files -> Seq(Extent)]
                /\ Len(extents'[file]) = last /\ last \in Nat \ {0}
                /\ DOMAIN extents'[file] = DOMAIN extents[file]
                /\ extents'[file][last] = new
                /\ \A i \in DOMAIN extents[file] : i # last => extents'[file][i] = extents[file][i]
                /\ new.count = old.count + 1 /\ old \in Extent
                /\ BlocksOf(new) = BlocksOf(old) \cup {cur}
                /\ new.start + new.count = cur + 1
<1> DEFINE last == Len(extents[file])
           old == extents[file][last]
           new == [start |-> IF old.count = 0 THEN cur ELSE old.start, count |-> old.count + 1]
<1>1. extents[file] \in Seq(Extent) /\ extents[file] # <<>> /\ cur \in Blocks /\ file \in Files
  BY DEF SpaceInv, TypeOK, GrowTake, Growing
<1>2. last \in Nat \ {0} /\ last \in 1 .. Len(extents[file]) /\ old \in Extent /\ cur \in Nat
  BY <1>1 DEF Blocks
<1>3. new \in Extent
  BY <1>2 DEF Extent
<1>4. old.count # 0 => cur = old.start + old.count
  <2>1. pc = "grow" /\ left > 0
    BY DEF GrowTake
  <2>2. old.count # 0 => LastExtent(file).count > 0 /\ LastExtent(file) = old
    BY <1>2 DEF LastExtent, Extent
  <2>3. QED BY <2>1, <2>2 DEF SpaceInv, Growing
<1>5. BlocksOf(new) = BlocksOf(old) \cup {cur} /\ new.start + new.count = cur + 1
  <2>1. \A b : b \in BlocksOf(new) <=> b \in BlocksOf(old) \/ b = cur
    <3>1. old.start \in Nat /\ old.count \in Nat /\ cur \in Nat
      BY <1>2 DEF Extent
    <3>2. CASE old.count = 0
      BY <3>1, <3>2 DEF BlocksOf
    <3>3. CASE old.count # 0
      <4>1. new.start = old.start /\ new.count = old.count + 1 /\ cur = old.start + old.count
        BY <1>4, <3>3
      <4> HIDE DEF new
      <4> DEFINE s == old.start
                 c == old.count
      <4>2. BlocksOf(new) = s .. (s + (c + 1) - 1) /\ BlocksOf(old) = s .. (s + c - 1)
        BY <4>1 DEF BlocksOf
      <4>3. s \in Nat /\ c \in Nat /\ cur = s + c
        BY <3>1, <4>1
      <4> HIDE DEF s, c, old
      <4>4. \A b : b \in s .. (s + (c + 1) - 1) <=> b \in s .. (s + c - 1) \/ b = cur
        BY <4>3
      <4>5. QED BY <4>2, <4>4
    <3>4. QED BY <3>2, <3>3
  <2>2. new.start + new.count = cur + 1
    BY <1>2, <1>4 DEF Extent
  <2>3. QED BY <2>1, <2>2
<1>6. extents' = [extents EXCEPT ![file] = [extents[file] EXCEPT ![last] = new]]
  BY DEF GrowTake, SpaceInv, TypeOK
<1>7. new.count = old.count + 1 /\ old = LastExtent(file)
  BY DEF LastExtent
<1> HIDE DEF last, old, new
<1>8. /\ [extents[file] EXCEPT ![last] = new] \in Seq(Extent)
      /\ Len([extents[file] EXCEPT ![last] = new]) = Len(extents[file])
      /\ \A j \in 1 .. Len(extents[file]) :
            [extents[file] EXCEPT ![last] = new][j] = IF j = last THEN new ELSE extents[file][j]
  BY <1>1, <1>2, <1>3, ExceptSeq
<1>9. /\ extents' \in [Files -> Seq(Extent)]
      /\ extents'[file] = [extents[file] EXCEPT ![last] = new]
      /\ \A g \in Files : g # file => extents'[g] = extents[g]
  BY <1>1, <1>6, <1>8 DEF SpaceInv, TypeOK
<1>10. last = Len(extents[file])
  BY DEF last
<1>11. QED BY <1>1, <1>2, <1>3, <1>5, <1>7, <1>8, <1>9, <1>10

\* Taking a free block.
LEMMA GrowTakeSpace == SpaceInv /\ GrowTake => SpaceInv'
<1> SUFFICES ASSUME SpaceInv, GrowTake PROVE SpaceInv'
  OBVIOUS
<1> DEFINE last == Len(extents[file])
           old == LastExtent(file)
<1>1. PICK new \in Extent :
         /\ extents'[file] = [extents[file] EXCEPT ![last] = new]
         /\ \A g \in Files : g # file => extents'[g] = extents[g]
         /\ extents' \in [Files -> Seq(Extent)]
         /\ Len(extents'[file]) = last /\ last \in Nat \ {0}
         /\ DOMAIN extents'[file] = DOMAIN extents[file]
         /\ extents'[file][last] = new
         /\ \A i \in DOMAIN extents[file] : i # last => extents'[file][i] = extents[file][i]
         /\ new.count = old.count + 1 /\ old \in Extent
         /\ BlocksOf(new) = BlocksOf(old) \cup {cur}
         /\ new.start + new.count = cur + 1
  BY Taken
<1>2. /\ extents[file] \in Seq(Extent) /\ extents[file] # <<>> /\ file \in Files
      /\ pc = "grow" /\ pc' = "grow" /\ file' = file /\ left' = left - 1 /\ need' = need /\ left > 0
      /\ left \in Nat
      /\ fork' = fork /\ savedFork' = savedFork
  BY DEF GrowTake, SpaceInv, TypeOK, Growing, saved
<1>3. cur \in Blocks /\ cur \notin Reserved /\ cur + 1 \in Blocks /\ cur' = cur + 1
  <2>1. cur \in Blocks /\ cur \notin used
    BY DEF GrowTake, SpaceInv, Growing
  <2>2. cur # TotalBlocks - 1
    BY <2>1 DEF SpaceInv
  <2>3. QED BY <2>1, <2>2 DEF GrowTake, SpaceInv, Blocks
<1>4. TypeOK'
  <2>1. used' \in SUBSET Blocks /\ freeBlocks' \in Int /\ left' \in Nat /\ cur' \in Nat
    BY <1>2, <1>3 DEF GrowTake, TakeBlock, SpaceInv, TypeOK, Blocks
  <2>2. QED BY <1>1, <2>1 DEF GrowTake, SpaceInv, TypeOK, saved, history
<1>5. InStep'
  BY <1>1, <1>2 DEF SpaceInv, InStep
<1>6. BlockSum(extents'[file]) = BlockSum(extents[file]) + 1
  <2>1. extents'[file] \in Seq(Extent) /\ extents'[file] # <<>> /\ last - 1 \in 0 .. last
    BY <1>1, <1>2
  <2>2. BlockSum(extents'[file]) = BlockSum(SubSeq(extents'[file], 1, last - 1)) + new.count
    BY <1>1, <2>1, SumLast
  <2>3. BlockSum(extents[file]) = BlockSum(SubSeq(extents[file], 1, last - 1)) + old.count
    BY <1>2, SumLast DEF LastExtent
  <2>4. SubSeq(extents'[file], 1, last - 1) = SubSeq(extents[file], 1, last - 1)
    <3> DEFINE s == SubSeq(extents'[file], 1, last - 1)
               t == SubSeq(extents[file], 1, last - 1)
    <3>1. s \in Seq(Extent) /\ Len(s) = last - 1 /\ \A i \in 1 .. last - 1 : s[i] = extents'[file][i]
      BY <1>1, <2>1, PrefixType
    <3>2. t \in Seq(Extent) /\ Len(t) = last - 1 /\ \A i \in 1 .. last - 1 : t[i] = extents[file][i]
      BY <1>2, <2>1, PrefixType
    <3>3. \A i \in 1 .. last - 1 : extents'[file][i] = extents[file][i]
      BY <1>1, <1>2
    <3> HIDE DEF s, t
    <3>4. s \in Seq(Extent) /\ t \in Seq(Extent) /\ Len(s) = Len(t) /\ \A i \in 1 .. Len(s) : s[i] = t[i]
      BY <3>1, <3>2, <3>3
    <3>5. s = t
      BY <3>4, SeqEqual
    <3>6. QED BY <3>5 DEF s, t
  <2>5. BlockSum(SubSeq(extents[file], 1, last - 1)) \in Nat
    BY <1>2, <2>1, PrefixType, SumType
  <2>6. old.count \in Nat /\ new.count = old.count + 1
    BY <1>1 DEF Extent
  <2>7. BlockSum(extents'[file]) = BlockSum(SubSeq(extents[file], 1, last - 1)) + new.count
    BY <2>2, <2>4
  <2> DEFINE front == BlockSum(SubSeq(extents[file], 1, last - 1))
  <2>8. BlockSum(extents'[file]) = front + (old.count + 1) /\ BlockSum(extents[file]) = front + old.count
        /\ front \in Nat
    BY <2>3, <2>5, <2>6, <2>7
  <2> HIDE DEF front, old
  <2>9. QED BY <2>6, <2>8
<1>7. GrownList(extents[file])'
  <2> SUFFICES ASSUME NEW i \in DOMAIN extents[file]
               PROVE  Inside(extents'[file][i]) /\ extents'[file][i].count # 0
    BY <1>1, <1>2 DEF GrownList, Inside
  <2>1. Inside(extents[file][i]) /\ (extents[file][i].count = 0 => i = last)
    BY <1>2 DEF SpaceInv, Growing, GrownList
  <2>2. CASE i = last
    <3>1. new.count # 0
      BY <1>1 DEF Extent
    <3>2. Inside(new)
      BY <1>1, <1>3, <2>1, <2>2 DEF Inside, LastExtent
    <3>3. QED BY <1>1, <2>2, <3>1, <3>2
  <2>3. CASE i # last
    BY <1>1, <2>1, <2>3
  <2>4. QED BY <2>2, <2>3
<1>8. LastExtent(file)' = new
  BY <1>1, <1>2 DEF LastExtent
<1>9. Growing'
  <2>1. BlockSum(extents[file]) + left = need /\ BlockSum(extents[file]) \in Nat /\ need > fork[file].total
    BY <1>2, SumType DEF SpaceInv, Growing
  <2>2. BlockSum(extents'[file]) + left' = need'
    BY <1>2, <1>6, <2>1
  <2>3. extents'[file] # <<>>
    BY <1>1, <1>2
  <2>4. QED BY <1>1, <1>2, <1>3, <1>7, <1>8, <2>1, <2>2, <2>3 DEF Growing, LastExtent
<1>10. Reserved \subseteq used'
  BY DEF GrowTake, TakeBlock, SpaceInv
<1>11. QED
  BY <1>2, <1>4, <1>5, <1>9, <1>10
     DEF GrowTake, SpaceInv, ForksWhole, Walking, Freeing, Shrinking, Written

\* Leaving the growing loop.
LEMMA GrowDoneSpace == SpaceInv /\ GrowDone => SpaceInv'
<1> SUFFICES ASSUME SpaceInv, GrowDone PROVE SpaceInv'
  OBVIOUS
<1>1. /\ extents[file] \in Seq(Extent) /\ pc = "grow" /\ pc' = "write" /\ left = 0
      /\ UNCHANGED <<used, freeBlocks, nextAllocation, extents, fork, overflow, savedHeader, savedFork>>
      /\ UNCHANGED <<file, need, left, cur, list, idx, crashes, torn>>
  BY DEF GrowDone, SpaceInv, TypeOK, header, saved, locals, history
<1>2. TypeOK'
  BY <1>1 DEF SpaceInv, TypeOK
<1>3. InStep'
  BY <1>1 DEF SpaceInv, InStep
<1>4. Sound(extents[file])
  <2> SUFFICES ASSUME NEW i \in DOMAIN extents[file]
               PROVE  extents[file][i].count > 0 /\ Inside(extents[file][i])
    BY DEF Sound
  <2>1. extents[file][i].count # 0 /\ Inside(extents[file][i])
    BY <1>1 DEF SpaceInv, Growing, GrownList
  <2>2. extents[file][i] \in Extent
    BY <1>1
  <2>3. QED BY <2>1, <2>2 DEF Extent
<1>5. BlockSum(extents[file]) = need
  BY <1>1, SumType DEF SpaceInv, Growing
<1>6. Written'
  BY <1>1, <1>4, <1>5 DEF Written, Sound, Inside
<1>7. QED
  BY <1>1, <1>2, <1>3, <1>6 DEF SpaceInv, ForksWhole, Growing, Walking, Freeing, Shrinking

-----------------------------------------------------------------------------
(* The steps of a shrinking call *)

\* allocate() is called to shrink a fork.
LEMMA ShrinkStartSpace ==
  ASSUME SpaceInv, NEW f \in Files, NEW n \in 0 .. MaxFileBlocks, AllocateShrink(f, n)
  PROVE  SpaceInv'
<1>1. /\ extents[f] \in Seq(Extent) /\ fork[f].total \in Nat
      /\ BlockSum(extents[f]) = fork[f].total /\ fork[f].exts = extents[f]
      /\ pc = "idle" /\ pc' = "walk" /\ file' = f /\ need' = n /\ left' = n /\ list' = extents[f] /\ idx' = 1
      /\ n < fork[f].total /\ fork' = fork /\ savedFork' = savedFork /\ extents' = extents
  BY Types DEF AllocateShrink, SpaceInv, InStep, Whole, saved
<1>2. TypeOK'
  BY <1>1 DEF AllocateShrink, SpaceInv, TypeOK, header, saved, history
<1>3. InStep'
  BY <1>1 DEF SpaceInv, InStep
<1>4. Walking'
  <2>1. 1 \in DOMAIN extents[f]
    <3>1. BlockSum(extents[f]) > 0
      BY <1>1
    <3>2. QED BY <1>1, <3>1, NonEmpty
  <2>2. SubSeq(extents[f], 1, 1 - 1) = <<>>
    BY SubSeqEmpty
  <2>3. BlockSum(SubSeq(extents[f], 1, 1 - 1)) + n = n
    <3>1. BlockSum(SubSeq(extents[f], 1, 1 - 1)) = BlockSum(<<>>)
      BY <2>2
    <3>2. BlockSum(SubSeq(extents[f], 1, 1 - 1)) = 0
      BY <3>1, SumEmpty
    <3>3. QED BY <3>2
  <2>4. QED BY <1>1, <2>1, <2>3 DEF Walking
<1>5. QED
  BY <1>1, <1>2, <1>3, <1>4
     DEF AllocateShrink, SpaceInv, ForksWhole, Growing, Freeing, Shrinking, Written, header

\* What a walking call has passed and the extent under it.
LEMMA WalkFacts ==
  ASSUME SpaceInv, pc = "walk"
  PROVE  /\ file \in Files /\ list \in Seq(Extent) /\ Sound(list)
         /\ list = extents[file] /\ list = fork[file].exts /\ list = savedFork[file].exts
         /\ idx \in 1 .. Len(list) /\ list[idx] \in Extent
         /\ BlockSum(list) = fork[file].total
         /\ BlockSum(SubSeq(list, 1, idx - 1)) \in Nat
         /\ BlockSum(SubSeq(list, 1, idx - 1)) + left = need
         /\ BlockSum(SubSeq(list, 1, idx)) = BlockSum(SubSeq(list, 1, idx - 1)) + list[idx].count
         /\ need < fork[file].total /\ left \in Nat /\ need \in Nat
<1>1. file \in Files /\ list \in Seq(Extent) /\ left \in Nat /\ need \in Nat
  BY DEF SpaceInv, TypeOK
<1>2. /\ list = extents[file] /\ idx \in DOMAIN list
      /\ BlockSum(SubSeq(list, 1, idx - 1)) + left = need
  BY DEF SpaceInv, Walking
<1>3. list = fork[file].exts /\ list = savedFork[file].exts /\ need < fork[file].total
  BY <1>1, <1>2 DEF SpaceInv, InStep, Shrinking
<1>4. Sound(list) /\ BlockSum(list) = fork[file].total
  BY <1>1, <1>3, Types DEF Whole
<1>5. idx \in 1 .. Len(list) /\ list[idx] \in Extent /\ idx - 1 \in 0 .. Len(list)
  BY <1>1, <1>2
<1>6. BlockSum(SubSeq(list, 1, idx)) = BlockSum(SubSeq(list, 1, idx - 1)) + list[idx].count
  BY <1>1, <1>5, SumPrefix
<1>7. BlockSum(SubSeq(list, 1, idx - 1)) \in Nat
  BY <1>1, <1>5, PrefixType, SumType
<1>8. QED BY <1>1, <1>2, <1>3, <1>4, <1>5, <1>6, <1>7

\* Passing an extent that is kept whole: there is one more, since the call keeps
\* fewer blocks than there are.
LEMMA ShrinkWalkSpace == SpaceInv /\ ShrinkWalk => SpaceInv'
<1> SUFFICES ASSUME SpaceInv, ShrinkWalk PROVE SpaceInv'
  OBVIOUS
<1>1. /\ pc = "walk" /\ pc' = "walk" /\ left > list[idx].count /\ left' = left - list[idx].count /\ idx' = idx + 1
      /\ UNCHANGED <<used, freeBlocks, nextAllocation, extents, fork, overflow, savedHeader, savedFork>>
      /\ UNCHANGED <<file, need, cur, list, crashes, torn>>
  BY DEF ShrinkWalk, header, saved, history
<1>2. /\ file \in Files /\ list \in Seq(Extent) /\ Sound(list)
      /\ list = extents[file] /\ idx \in 1 .. Len(list) /\ list[idx] \in Extent
      /\ BlockSum(list) = fork[file].total
      /\ BlockSum(SubSeq(list, 1, idx - 1)) \in Nat
      /\ BlockSum(SubSeq(list, 1, idx - 1)) + left = need
      /\ BlockSum(SubSeq(list, 1, idx)) = BlockSum(SubSeq(list, 1, idx - 1)) + list[idx].count
      /\ need < fork[file].total /\ left \in Nat /\ need \in Nat
  BY <1>1, WalkFacts
<1>3. left' \in Nat \ {0}
  <2>1. list[idx].count \in Nat /\ left \in Nat
    BY <1>2 DEF Extent
  <2>2. QED BY <1>1, <2>1
<1> DEFINE passed == BlockSum(SubSeq(list, 1, idx))
<1>4. passed + left' = need
  <2> DEFINE before == BlockSum(SubSeq(list, 1, idx - 1))
             count == list[idx].count
  <2>1. before \in Nat /\ before + left = need /\ passed = before + count /\ count \in Nat /\ left' = left - count
    BY <1>1, <1>2 DEF Extent
  <2>2. left \in Nat
    BY <1>2
  <2> HIDE DEF before, count, passed
  <2>3. QED BY ONLY <2>1, <2>2
<1>5. idx' \in 1 .. Len(list)
  <2>1. idx # Len(list)
    <3> SUFFICES ASSUME idx = Len(list) PROVE FALSE
      OBVIOUS
    <3>1. passed = fork[file].total
      <4>1. SubSeq(list, 1, Len(list)) = list
        BY <1>2, SubSeqFull
      <4>2. QED BY <1>2, <4>1
    <3>2. fork[file].total \in Nat /\ need < fork[file].total /\ need \in Nat
      BY <1>2, SumType
    <3> HIDE DEF passed
    <3>3. QED BY <1>3, <1>4, <3>1, <3>2
  <2>2. idx' = idx + 1 /\ idx \in 1 .. Len(list) /\ Len(list) \in Nat
    BY <1>1, <1>2
  <2>3. QED BY ONLY <2>1, <2>2
<1>6. TypeOK'
  <2>1. left' \in Nat /\ idx' \in Nat \ {0}
    BY <1>3, <1>5
  <2>2. QED BY <1>1, <2>1 DEF SpaceInv, TypeOK
<1>7. Walking'
  <2>1. idx' - 1 = idx
    BY <1>1, <1>2
  <2>2. BlockSum(SubSeq(list, 1, idx' - 1)) + left' = need
    BY <1>4, <2>1
  <2>3. list' = list /\ file' = file /\ extents' = extents /\ need' = need
    BY <1>1
  <2>4. list' = extents'[file'] /\ idx' \in DOMAIN list'
    BY <1>2, <1>5, <2>3
  <2>5. BlockSum(SubSeq(list', 1, idx' - 1)) + left' = need'
    BY <2>2, <2>3
  <2>6. QED BY <1>3, <2>4, <2>5 DEF Walking
<1>8. InStep'
  BY <1>1 DEF SpaceInv, InStep
<1>9. QED
  BY <1>1, <1>6, <1>7, <1>8 DEF SpaceInv, ForksWhole, Growing, Freeing, Shrinking, Written

\* What is kept at the cut.
LEMMA Cut ==
  ASSUME SpaceInv, ShrinkCut
  PROVE  /\ extents'[file] \in Seq(Extent) /\ extents' \in [Files -> Seq(Extent)]
         /\ \A g \in Files : g # file => extents'[g] = extents[g]
         /\ Sound(extents'[file])
         /\ BlockSum(extents'[file]) = need
         /\ Len(extents'[file]) <= idx
         /\ \A i \in DOMAIN extents'[file] :
               IF i < idx THEN i \in DOMAIN list /\ extents'[file][i] = list[i]
               ELSE i = idx /\ BlocksOf(extents'[file][i]) = list[idx].start .. (cur' - 1)
         /\ cur' = list[idx].start + left
<1>1. /\ pc = "walk" /\ left <= list[idx].count /\ cur' = list[idx].start + left
      /\ extents' = [extents EXCEPT ![file] =
                        IF left = 0 THEN <<>>
                        ELSE Append(SubSeq(list, 1, idx - 1), [list[idx] EXCEPT !.count = left])]
  BY DEF ShrinkCut, CutPoint
<1>2. /\ file \in Files /\ list \in Seq(Extent) /\ Sound(list)
      /\ list = extents[file] /\ idx \in 1 .. Len(list) /\ list[idx] \in Extent
      /\ BlockSum(SubSeq(list, 1, idx - 1)) \in Nat
      /\ BlockSum(SubSeq(list, 1, idx - 1)) + left = need /\ left \in Nat /\ need \in Nat
  BY <1>1, WalkFacts
<1>3. CASE left = 0
  <2>1. idx = 1
    BY <1>1, <1>3 DEF SpaceInv, Walking
  <2>2. extents' = [extents EXCEPT ![file] = <<>>]
    BY <1>1, <1>3
  <2>3. extents'[file] = <<>> /\ \A g \in Files : g # file => extents'[g] = extents[g]
    BY <1>2, <2>2 DEF SpaceInv, TypeOK
  <2>4. extents' \in [Files -> Seq(Extent)]
    BY <2>2, EmptySound DEF SpaceInv, TypeOK
  <2>5. need = 0
    <3>1. SubSeq(list, 1, idx - 1) = <<>>
      <4>1. idx - 1 \in Int /\ idx - 1 < 1
        BY <2>1
      <4>2. QED BY <4>1, SubSeqEmpty
    <3>2. BlockSum(SubSeq(list, 1, idx - 1)) = 0
      BY <3>1, SumEmpty
    <3>3. QED BY <1>2, <1>3, <3>2
  <2>6. DOMAIN extents'[file] = {} /\ Len(extents'[file]) = 0
    BY <2>3
  <2>7. QED BY <1>1, <1>2, <2>3, <2>4, <2>5, <2>6, EmptySound
<1>4. CASE left # 0
  <2> DEFINE e == [list[idx] EXCEPT !.count = left]
             front == SubSeq(list, 1, idx - 1)
  <2>1. extents' = [extents EXCEPT ![file] = Append(front, e)]
    BY <1>1, <1>4
  <2>2. e \in Extent /\ e.start = list[idx].start /\ e.count = left
    BY <1>2 DEF Extent
  <2> HIDE DEF e
  <2>3. front \in Seq(Extent) /\ Len(front) = idx - 1 /\ \A i \in 1 .. idx - 1 : front[i] = list[i]
    <3>1. idx - 1 \in 0 .. Len(list)
      BY <1>2
    <3>2. QED BY <1>2, <3>1, PrefixType
  <2>4. BlocksOf(e) = list[idx].start .. (cur' - 1)
    <3>1. cur' = list[idx].start + left
      BY <1>1
    <3>2. list[idx].start \in Nat /\ left \in Nat
      BY <1>2 DEF Extent
    <3> DEFINE s == list[idx].start
               c == cur'
    <3>3. e.start = s /\ e.count = left /\ c = s + left /\ s \in Nat
      BY <2>2, <3>1, <3>2
    <3> HIDE DEF s, c
    <3>4. BlocksOf(e) = s .. (c - 1)
      BY <3>2, <3>3 DEF BlocksOf
    <3>5. QED BY <3>4 DEF s, c
  <2>5. BlocksOf(e) \subseteq BlocksOf(list[idx])
    <3>1. list[idx].start \in Nat /\ list[idx].count \in Nat /\ left \in Nat /\ left <= list[idx].count
      BY <1>1, <1>2 DEF Extent
    <3>2. e.start .. e.start + e.count - 1 \subseteq list[idx].start .. list[idx].start + list[idx].count - 1
      BY <2>2, <3>1
    <3>3. QED BY <3>2 DEF BlocksOf
  <2>6. Inside(e)
    BY <1>2, <2>5 DEF Sound, Inside
  <2>7. BlockSum(front) + left = need /\ BlockSum(front) \in Nat
    BY <1>2
  <2> HIDE DEF front
  <2>8. /\ Append(front, e) \in Seq(Extent) /\ Len(Append(front, e)) = idx
        /\ \A i \in 1 .. idx - 1 : Append(front, e)[i] = list[i]
        /\ Append(front, e)[idx] = e
    BY <1>2, <2>2, <2>3, Appended
  <2>9. /\ extents'[file] = Append(front, e)
        /\ \A g \in Files : g # file => extents'[g] = extents[g]
        /\ extents' \in [Files -> Seq(Extent)]
    BY <1>2, <2>1, <2>8 DEF SpaceInv, TypeOK
  <2>10. BlockSum(extents'[file]) = need
    BY <2>2, <2>3, <2>7, <2>9, SumAppend
  <2>11. DOMAIN extents'[file] = 1 .. idx
    BY <2>8, <2>9
  <2>12. \A i \in 1 .. idx - 1 : i \in DOMAIN list /\ list[i].count > 0 /\ Inside(list[i])
    BY <1>2 DEF Sound
  <2>13. Sound(extents'[file])
    <3> SUFFICES ASSUME NEW i \in 1 .. idx PROVE extents'[file][i].count > 0 /\ Inside(extents'[file][i])
      BY <2>11 DEF Sound
    <3>1. CASE i = idx
      BY <1>2, <1>4, <2>2, <2>6, <2>8, <2>9, <3>1
    <3>2. CASE i # idx
      <4>1. i \in 1 .. idx - 1
        BY <1>2, <3>2
      <4>2. QED BY <2>8, <2>9, <2>12, <4>1
    <3>3. QED BY <3>1, <3>2
  <2>14. ASSUME NEW i \in 1 .. idx
         PROVE  IF i < idx THEN i \in DOMAIN list /\ extents'[file][i] = list[i]
                ELSE i = idx /\ BlocksOf(extents'[file][i]) = list[idx].start .. (cur' - 1)
    <3>1. CASE i < idx
      <4>1. i \in 1 .. idx - 1
        BY <1>2, <3>1
      <4>2. QED BY <2>8, <2>9, <2>12, <3>1, <4>1
    <3>2. CASE ~(i < idx)
      <4>1. i = idx
        BY <1>2, <3>2
      <4>2. QED BY <2>4, <2>8, <2>9, <3>2, <4>1
    <3>3. QED BY <3>1, <3>2
  <2>15. Len(extents'[file]) <= idx /\ extents'[file] \in Seq(Extent)
    BY <1>2, <2>8, <2>9
  <2>16. QED BY <1>1, <2>9, <2>10, <2>11, <2>13, <2>14, <2>15
<1>5. QED BY <1>3, <1>4

\* Cutting the list.
LEMMA ShrinkCutSpace == SpaceInv /\ ShrinkCut => SpaceInv'
<1> SUFFICES ASSUME SpaceInv, ShrinkCut PROVE SpaceInv'
  OBVIOUS
<1>1. /\ pc = "walk" /\ pc' = "free" /\ cur' = list[idx].start + left
      /\ UNCHANGED <<used, freeBlocks, nextAllocation, fork, overflow, savedHeader, savedFork>>
      /\ UNCHANGED <<file, need, left, list, idx, crashes, torn>>
  BY DEF ShrinkCut, CutPoint, header, saved, history
<1>2. /\ file \in Files /\ list \in Seq(Extent) /\ list = fork[file].exts
      /\ idx \in 1 .. Len(list) /\ list[idx] \in Extent /\ left \in Nat
  BY <1>1, WalkFacts
<1>3. /\ extents' \in [Files -> Seq(Extent)] /\ Sound(extents'[file])
      /\ BlockSum(extents'[file]) = need
      /\ \A g \in Files : g # file => extents'[g] = extents[g]
  BY Cut
<1>4. cur' \in Nat /\ cur' >= list[idx].start
  <2>1. list[idx].start \in Nat /\ left \in Nat
    BY <1>2 DEF Extent
  <2>2. QED BY <1>1, <2>1
<1>5. TypeOK'
  BY <1>1, <1>3, <1>4 DEF SpaceInv, TypeOK
<1>6. InStep'
  BY <1>1, <1>3 DEF SpaceInv, InStep
<1>7. Freeing' /\ Written'
  BY <1>1, <1>2, <1>3, <1>4 DEF Freeing, Written, Sound, Inside
<1>8. QED
  BY <1>1, <1>5, <1>6, <1>7 DEF SpaceInv, ForksWhole, Growing, Walking, Shrinking

\* The block that is freed is one of the fork's, inside the volume.
LEMMA FreedInside ==
  ASSUME SpaceInv, pc = "free", cur < list[idx].start + list[idx].count
  PROVE  /\ file \in Files /\ list \in Seq(Extent) /\ idx \in 1 .. Len(list) /\ list[idx] \in Extent
         /\ cur \in BlocksOf(list[idx]) /\ cur \in Blocks \ Reserved
<1>1. file \in Files /\ list \in Seq(Extent) /\ cur \in Nat
  BY DEF SpaceInv, TypeOK
<1>2. list = fork[file].exts /\ idx \in DOMAIN list /\ cur >= list[idx].start
  BY DEF SpaceInv, Freeing
<1>3. idx \in 1 .. Len(list) /\ list[idx] \in Extent
  BY <1>1, <1>2
<1>4. cur \in BlocksOf(list[idx])
  BY <1>1, <1>2, <1>3 DEF BlocksOf, Extent
<1>5. Inside(list[idx])
  BY <1>1, <1>2, Types DEF Whole, Sound
<1>6. QED BY <1>1, <1>3, <1>4, <1>5 DEF Inside

\* One block behind the cut is freed: it is none of the volume's own.
LEMMA ShrinkFreeSpace == SpaceInv /\ ShrinkFree => SpaceInv'
<1> SUFFICES ASSUME SpaceInv, ShrinkFree PROVE SpaceInv'
  OBVIOUS
<1>1. /\ pc = "free" /\ pc' = "free" /\ cur' = cur + 1 /\ used' = used \ {cur} /\ freeBlocks' = freeBlocks + 1
      /\ cur < list[idx].start + list[idx].count
      /\ UNCHANGED <<nextAllocation, extents, fork, overflow, savedHeader, savedFork>>
      /\ UNCHANGED <<file, need, left, list, idx, crashes, torn>>
  BY DEF ShrinkFree, FreeBlock, saved, history
<1>2. cur \in Blocks \ Reserved /\ list[idx] \in Extent
  BY <1>1, FreedInside
<1>3. TypeOK'
  BY <1>1 DEF SpaceInv, TypeOK
<1>4. Reserved \subseteq used'
  BY <1>1, <1>2 DEF SpaceInv
<1>5. cur >= list[idx].start /\ cur \in Nat /\ list[idx].start \in Nat
  BY <1>1, <1>2 DEF SpaceInv, TypeOK, Freeing, Extent
<1>6. cur' >= list[idx].start
  BY <1>1, <1>5
<1>7. Freeing'
  BY <1>1, <1>6 DEF SpaceInv, Freeing
<1>8. InStep' /\ Written'
  BY <1>1 DEF SpaceInv, InStep, Written, Sound, Inside
<1>9. QED
  BY <1>1, <1>3, <1>4, <1>7, <1>8 DEF SpaceInv, ForksWhole, Growing, Walking, Shrinking

\* All blocks of an extent behind the cut are freed: on to the next extent.
LEMMA ShrinkNextSpace == SpaceInv /\ ShrinkNextExtent => SpaceInv'
<1> SUFFICES ASSUME SpaceInv, ShrinkNextExtent PROVE SpaceInv'
  OBVIOUS
<1>1. /\ pc = "free" /\ idx' = idx + 1 /\ idx \in DOMAIN list
      /\ UNCHANGED <<used, freeBlocks, nextAllocation, extents, fork, overflow, savedHeader, savedFork>>
      /\ UNCHANGED <<file, need, left, list, crashes, torn>>
      /\ \/ idx + 1 \in DOMAIN list /\ pc' = "free" /\ cur' = list[idx + 1].start
         \/ pc' = "write" /\ cur' = cur
  BY DEF ShrinkNextExtent, header, saved, history
<1>2. list \in Seq(Extent) /\ idx \in Nat \ {0} /\ cur \in Nat
  BY DEF SpaceInv, TypeOK
<1>3. idx + 1 \in DOMAIN list => list[idx + 1].start \in Nat
  <2>1. idx + 1 \in DOMAIN list => list[idx + 1] \in Extent
    BY <1>2
  <2>2. QED BY <2>1 DEF Extent
<1>4. cur' \in Nat /\ idx' \in Nat \ {0}
  BY <1>1, <1>2, <1>3
<1>5. TypeOK'
  BY <1>1, <1>4 DEF SpaceInv, TypeOK
<1>6. Freeing'
  BY <1>1, <1>3 DEF SpaceInv, Freeing
<1>7. InStep' /\ Written'
  BY <1>1 DEF SpaceInv, InStep, Written, Sound, Inside
<1>8. QED
  BY <1>1, <1>5, <1>6, <1>7 DEF SpaceInv, ForksWhole, Growing, Walking, Shrinking

-----------------------------------------------------------------------------
(* The end of a call, and a death *)

\* allocate() is called with the size the fork has.
LEMMA SameSpace ==
  ASSUME SpaceInv, NEW f \in Files, AllocateSame(f)
  PROVE  SpaceInv'
<1>1. /\ pc = "idle" /\ pc' = "write" /\ file' = f /\ need' = fork[f].total
      /\ UNCHANGED <<used, freeBlocks, nextAllocation, extents, fork, overflow, savedHeader, savedFork>>
      /\ UNCHANGED <<left, cur, list, idx, crashes, torn>>
  BY DEF AllocateSame, header, saved, history
<1>2. fork[f].total \in Nat /\ Whole(fork[f]) /\ extents[f] = fork[f].exts
  BY <1>1, Types DEF SpaceInv, InStep
<1>3. TypeOK'
  BY <1>1, <1>2 DEF SpaceInv, TypeOK
<1>4. InStep'
  BY <1>1 DEF SpaceInv, InStep
<1>5. Written' /\ need' <= MaxFileBlocks
  BY <1>1, <1>2 DEF Written, Whole, Sound, Inside
<1>6. QED
  BY <1>1, <1>3, <1>4, <1>5 DEF SpaceInv, ForksWhole, Growing, Walking, Freeing, Shrinking

\* writeExtents neither reads nor makes an overflow record, and does not panic.
LEMMA WrittenHere ==
  ASSUME FitsInline, SpaceInv, WriteExtents
  PROVE  /\ pc' = "volume" /\ overflow' = {}
         /\ fork' = [fork EXCEPT ![file] = [exts |-> extents[file], total |-> need]]
<1>1. /\ file \in Files /\ pc = "write" /\ extents[file] \in Seq(Extent) /\ need \in Nat
      /\ Sound(extents[file]) /\ BlockSum(extents[file]) = need /\ need <= MaxFileBlocks
  BY DEF WriteExtents, SpaceInv, TypeOK, Written
<1>2. ExtentWalk(file, fork[file]) = [exts |-> fork[file].exts, keys |-> {}, ok |-> TRUE]
  BY <1>1, Types, WalkIsInline DEF Whole
<1>3. Len(extents[file]) <= Density
  BY <1>1 DEF FitsInline
<1>4. InlineExtents(extents[file]) = extents[file] /\ OverflowRecords(file, extents[file]) = {}
  BY <1>1, <1>3, WrittenInline
<1>5. ExtentWalk(file, fork[file]).ok
  BY <1>2
<1>6. overflow = {}
  BY DEF SpaceInv
<1>7. QED BY <1>4, <1>5, <1>6 DEF WriteExtents

\* writeExtents puts the list into the fork data.
LEMMA WriteExtentsSpace ==
  ASSUME FitsInline, SpaceInv, WriteExtents
  PROVE  SpaceInv'
<1>1. /\ pc = "write" /\ pc' = "volume" /\ overflow' = {}
      /\ fork' = [fork EXCEPT ![file] = [exts |-> extents[file], total |-> need]]
      /\ UNCHANGED <<used, freeBlocks, nextAllocation, extents, savedHeader, savedFork>>
      /\ UNCHANGED <<file, need, left, cur, list, idx, crashes, torn>>
  BY WrittenHere DEF WriteExtents, header, saved, locals, history
<1>2. /\ file \in Files /\ extents[file] \in Seq(Extent) /\ need \in Nat
      /\ Sound(extents[file]) /\ BlockSum(extents[file]) = need /\ need <= MaxFileBlocks
  BY <1>1 DEF SpaceInv, TypeOK, Written
<1> DEFINE fd == [exts |-> extents[file], total |-> need]
<1>3. fd \in ForkData /\ Whole(fd) /\ fd.exts = extents[file]
  BY <1>2 DEF ForkData, Whole
<1> HIDE DEF fd
<1>4. fork' \in [Files -> ForkData] /\ fork'[file] = fd /\ \A g \in Files : g # file => fork'[g] = fork[g]
  BY <1>1, <1>2, <1>3 DEF SpaceInv, TypeOK, fd
<1>5. TypeOK'
  BY <1>1, <1>4 DEF SpaceInv, TypeOK
<1>6. \A g \in Files : Whole(fork'[g]) /\ Whole(savedFork'[g])
  BY <1>1, <1>3, <1>4 DEF SpaceInv, ForksWhole
<1>7. ForksWhole'
  BY <1>6 DEF ForksWhole, Whole, Sound, Inside
<1>8. InStep'
  BY <1>1, <1>3, <1>4 DEF SpaceInv, InStep
<1>9. QED
  BY <1>1, <1>2, <1>5, <1>7, <1>8 DEF SpaceInv, Growing, Walking, Freeing, Shrinking, Written

\* The volume header and then the catalog record are written.
LEMMA UpdateSpace == SpaceInv /\ (UpdateVolume \/ UpdateCatalog) => SpaceInv'
<1>1. ASSUME SpaceInv, UpdateVolume PROVE SpaceInv'
  <2>1. /\ pc = "volume" /\ pc' = "catalog" /\ savedHeader' = [free |-> freeBlocks, next |-> nextAllocation]
        /\ UNCHANGED <<used, freeBlocks, nextAllocation, extents, fork, overflow, savedFork>>
        /\ UNCHANGED <<file, need, left, cur, list, idx, crashes, torn>>
    BY <1>1 DEF UpdateVolume, header, locals, history
  <2>2. TypeOK'
    BY <1>1, <2>1 DEF SpaceInv, TypeOK, HeaderData
  <2>3. InStep'
    BY <1>1, <2>1 DEF SpaceInv, InStep
  <2>4. QED
    BY <1>1, <2>1, <2>2, <2>3
       DEF SpaceInv, ForksWhole, Growing, Walking, Freeing, Shrinking, Written
<1>2. ASSUME SpaceInv, UpdateCatalog PROVE SpaceInv'
  <2>1. /\ pc = "catalog" /\ pc' = "idle" /\ savedFork' = [savedFork EXCEPT ![file] = fork[file]]
        /\ UNCHANGED <<used, freeBlocks, nextAllocation, extents, fork, overflow, savedHeader>>
        /\ UNCHANGED <<file, crashes, torn>>
        /\ need' = 0 /\ left' = 0 /\ cur' = 0 /\ list' = <<>> /\ idx' = 1
    BY <1>2 DEF UpdateCatalog, LocalsReset, header, history
  <2>2. /\ savedFork' \in [Files -> ForkData]
        /\ savedFork'[file] = fork[file] /\ \A g \in Files : g # file => savedFork'[g] = savedFork[g]
    BY <1>2, <2>1 DEF SpaceInv, TypeOK
  <2>3. TypeOK'
    BY <1>2, <2>1, <2>2 DEF SpaceInv, TypeOK
  <2>4. ForksWhole'
    <3>1. \A g \in Files : Whole(fork'[g]) /\ Whole(savedFork'[g])
      BY <1>2, <2>1, <2>2 DEF SpaceInv, ForksWhole, TypeOK
    <3>2. QED BY <3>1 DEF ForksWhole, Whole, Sound, Inside
  <2>5. InStep'
    BY <1>2, <2>1, <2>2 DEF SpaceInv, InStep
  <2>6. QED
    BY <1>2, <2>1, <2>3, <2>4, <2>5
       DEF SpaceInv, Growing, Walking, Freeing, Shrinking, Written
<1>3. QED BY <1>1, <1>2

\* A new process finds in every fork what its catalog record says.
LEMMA Reopened ==
  ASSUME SpaceInv, NEW f \in Files
  PROVE  ExtentWalk(f, savedFork[f]).ok /\ ExtentWalk(f, savedFork[f]).exts = savedFork[f].exts
<1>1. ExtentWalk(f, savedFork[f]) = [exts |-> savedFork[f].exts, keys |-> {}, ok |-> TRUE]
  BY Types, WalkIsInline DEF Whole
<1>2. QED BY <1>1

\* What a new process finds: every list is what its catalog record says.
LEMMA RestartFacts ==
  ASSUME SpaceInv, Restart
  PROVE  /\ crashes < MaxCrashes /\ crashes' = crashes + 1
         /\ pc' = "idle" /\ fork' = savedFork /\ savedFork' = savedFork
         /\ extents' \in [Files -> Seq(Extent)] /\ \A f \in Files : extents'[f] = savedFork[f].exts
         /\ freeBlocks' = savedHeader.free /\ nextAllocation' = savedHeader.next
         /\ UNCHANGED <<used, overflow, savedHeader, file>>
         /\ need' = 0 /\ left' = 0 /\ cur' = 0 /\ list' = <<>> /\ idx' = 1
         /\ torn' = IF pc = "free" \/ (pc \in {"write", "volume", "catalog"} /\ need < savedFork[file].total)
                    THEN torn \cup {file} ELSE torn
<1>1. extents' = [f \in Files |-> savedFork[f].exts]
  BY Reopened DEF Restart
<1>2. \A f \in Files : ExtentWalk(f, savedFork[f]).ok
  BY Reopened
<1>3. extents' \in [Files -> Seq(Extent)]
  BY <1>1, Types
<1>4. QED BY <1>1, <1>2, <1>3 DEF Restart, LocalsReset, saved

\* A death at any step, and the new process.
LEMMA RestartSpace == SpaceInv /\ Restart => SpaceInv'
<1> SUFFICES ASSUME SpaceInv, Restart PROVE SpaceInv'
  OBVIOUS
<1>1. /\ crashes < MaxCrashes /\ crashes' = crashes + 1
      /\ pc' = "idle" /\ fork' = savedFork /\ savedFork' = savedFork
      /\ extents' \in [Files -> Seq(Extent)] /\ \A f \in Files : extents'[f] = savedFork[f].exts
      /\ freeBlocks' = savedHeader.free /\ nextAllocation' = savedHeader.next
      /\ UNCHANGED <<used, overflow, savedHeader, file>>
      /\ need' = 0 /\ left' = 0 /\ cur' = 0 /\ list' = <<>> /\ idx' = 1
      /\ torn' \in SUBSET Files
  BY RestartFacts DEF SpaceInv, TypeOK
<1>2. TypeOK'
  BY <1>1 DEF SpaceInv, TypeOK, HeaderData
<1>3. ForksWhole'
  BY <1>1 DEF SpaceInv, ForksWhole, Whole, Sound, Inside
<1>4. InStep'
  BY <1>1 DEF InStep
<1>5. QED
  BY <1>1, <1>2, <1>3, <1>4 DEF SpaceInv, Growing, Walking, Freeing, Shrinking, Written

\* A step in which allocate() does nothing.
LEMMA StutterSpace == SpaceInv /\ UNCHANGED vars => SpaceInv'
<1> SUFFICES ASSUME SpaceInv, UNCHANGED vars PROVE SpaceInv'
  OBVIOUS
<1>1. /\ UNCHANGED <<used, freeBlocks, nextAllocation, extents, fork, overflow, pc, file, need>>
      /\ UNCHANGED <<left, cur, list, idx, savedHeader, savedFork, crashes, torn>>
  BY DEF vars, header, saved, locals, history
<1>2. TypeOK'
  BY <1>1 DEF SpaceInv, TypeOK
<1>3. ForksWhole' /\ InStep'
  BY <1>1 DEF SpaceInv, ForksWhole, Whole, Sound, Inside, InStep
<1>4. Growing' /\ Walking' /\ Freeing' /\ Shrinking' /\ Written'
  BY <1>1 DEF SpaceInv, Growing, GrownList, LastExtent, Walking, Freeing, Shrinking, Written, Sound, Inside
<1>5. QED BY <1>1, <1>2, <1>3, <1>4 DEF SpaceInv

\* Every step of every process, and every death of one.
LEMMA NextSpace ==
  ASSUME FitsInline, SpaceInv, [Next \/ Restart]_vars
  PROVE  SpaceInv'
<1>1. ASSUME NEW f \in Files, NEW n \in 0 .. MaxFileBlocks, AllocateGrow(f, n) PROVE SpaceInv'
  BY <1>1, GrowStartSpace
<1>2. ASSUME NEW f \in Files, NEW n \in 0 .. MaxFileBlocks, AllocateShrink(f, n) PROVE SpaceInv'
  BY <1>2, ShrinkStartSpace
<1>3. ASSUME NEW f \in Files, AllocateSame(f) PROVE SpaceInv'
  BY <1>3, SameSpace
<1>4. CASE GrowSkip \/ GrowTake \/ GrowDone
  BY <1>4, GrowSkipSpace, GrowTakeSpace, GrowDoneSpace
<1>5. CASE ShrinkWalk \/ ShrinkCut \/ ShrinkFree \/ ShrinkNextExtent
  BY <1>5, ShrinkWalkSpace, ShrinkCutSpace, ShrinkFreeSpace, ShrinkNextSpace
<1>6. CASE WriteExtents
  BY <1>6, WriteExtentsSpace
<1>7. CASE UpdateVolume \/ UpdateCatalog
  BY <1>7, UpdateSpace
<1>8. CASE Restart
  BY <1>8, RestartSpace
<1>9. CASE UNCHANGED vars
  BY <1>9, StutterSpace
<1>10. QED
  BY <1>1, <1>2, <1>3, <1>4, <1>5, <1>6, <1>7, <1>8, <1>9 DEF Next, Call, Step

\* Between calls the image holds what is in memory.
LEMMA SpaceReadsBack == SpaceInv => ReadBack
<1> SUFFICES ASSUME SpaceInv, pc = "idle", NEW f \in Files
             PROVE  /\ BlockSum(extents[f]) = fork[f].total
                    /\ ExtentWalk(f, savedFork[f]).ok
                    /\ ExtentWalk(f, savedFork[f]).exts = extents[f]
  BY DEF ReadBack
<1>1. extents[f] = fork[f].exts /\ savedFork[f] = fork[f]
  BY DEF SpaceInv, InStep
<1>2. BlockSum(fork[f].exts) = fork[f].total
  BY Types DEF Whole
<1>3. QED BY <1>1, <1>2, Reopened

\* As long as no call leaves a fork more extents than inline descriptors: after
\* every call of allocate(), and after every death and restart, each fork has the
\* number of blocks its fork data says, and readExtents finds on the image the list
\* that is in memory.
THEOREM ReadBackAlways ==
  RestartSpec /\ []FitsInline => []ReadBack
<1>1. FitsInline /\ SpaceInv /\ [Next \/ Restart]_vars => SpaceInv'
  BY NextSpace
<1>2. QED BY InitSpace, <1>1, SpaceReadsBack, PTL DEF RestartSpec

-----------------------------------------------------------------------------
(* Whose the blocks are after deaths *)

Cover(exts) == UNION {BlocksOf(exts[i]) : i \in DOMAIN exts}

\* The blocks of a fork: in memory and, as long as the call runs, in the catalog.
Mine(f) == Cover(extents[f]) \cup Cover(savedFork[f].exts)

\* A shrinking call that has begun to free, and whose catalog record is old.
Cutting == pc = "free" \/ (pc \in {"write", "volume", "catalog"} /\ need < savedFork[file].total)

ForksApart == \A f, g \in Files : f # g => Mine(f) \cap Mine(g) = {}
Apart(exts) == \A i, j \in DOMAIN exts : i # j => BlocksOf(exts[i]) \cap BlocksOf(exts[j]) = {}
ExtentsApart == \A f \in Files : Apart(extents[f]) /\ Apart(savedFork[f].exts)
Marked == \A f \in Files : Cover(extents[f]) \subseteq used
SavedMarked == ~Cutting => \A f \in Files : Cover(savedFork[f].exts) \subseteq used

\* What is still to be freed is not among what is kept.
CutApart == pc = "free" => \A i \in DOMAIN list : i >= idx => DoomedIn(i) \cap Cover(extents[file]) = {}

CrashInv == torn = {} => ForksApart /\ ExtentsApart /\ Marked /\ SavedMarked /\ CutApart

\* A fork without blocks covers none.
LEMMA EmptyCover == Cover(<<>>) = {} /\ Apart(<<>>)
  BY DEF Cover, Apart

\* On a freshly made volume no fork has a block.
LEMMA InitCrash == Init => CrashInv
<1> SUFFICES ASSUME Init PROVE CrashInv
  OBVIOUS
<1>1. \A f \in Files : extents[f] = <<>> /\ savedFork[f].exts = <<>>
  BY DEF Init, NoFork
<1>2. pc = "idle"
  BY DEF Init
<1>3. QED
  BY <1>1, <1>2, EmptyCover
     DEF CrashInv, ForksApart, Mine, ExtentsApart, Marked, SavedMarked, CutApart

\* CrashInv of the next state, with the primes where the variables are.
LEMMA CrashNext ==
  ASSUME torn' = {} => \A f, g \in Files : f # g =>
            (Cover(extents'[f]) \cup Cover(savedFork'[f].exts))
               \cap (Cover(extents'[g]) \cup Cover(savedFork'[g].exts)) = {},
         torn' = {} => \A f \in Files : Apart(extents'[f]) /\ Apart(savedFork'[f].exts),
         torn' = {} => \A f \in Files : Cover(extents'[f]) \subseteq used',
         torn' = {} /\ ~Cutting' => \A f \in Files : Cover(savedFork'[f].exts) \subseteq used',
         torn' = {} /\ pc' = "free" => \A i \in DOMAIN list' : i >= idx' =>
            ((IF i = idx' THEN cur' ELSE list'[i].start) .. (list'[i].start + list'[i].count - 1))
               \cap Cover(extents'[file']) = {}
  PROVE  CrashInv'
<1>1. torn' = {} => ForksApart'
  BY DEF ForksApart, Mine, Cover, BlocksOf
<1>2. torn' = {} => ExtentsApart'
  BY DEF ExtentsApart, Apart, BlocksOf
<1>3. torn' = {} => Marked'
  BY DEF Marked, Cover, BlocksOf
<1>4. torn' = {} => SavedMarked'
  BY DEF SavedMarked, Cover, BlocksOf
<1>5. torn' = {} => CutApart'
  BY DEF CutApart, DoomedIn, Cover, BlocksOf
<1>6. QED BY <1>1, <1>2, <1>3, <1>4, <1>5 DEF CrashInv

\* A step that leaves catalog and bitmap alone and gives and takes no block,
\* outside the freeing loop.
LEMMA QuietCrash ==
  ASSUME CrashInv, UNCHANGED <<used, savedFork, torn>>, pc' # "free", ~Cutting' => ~Cutting,
         \A g \in Files : Cover(extents'[g]) = Cover(extents[g]),
         \A g \in Files : Apart(extents[g]) => Apart(extents'[g])
  PROVE  CrashInv'
<1>1. torn' = {} => ForksApart /\ ExtentsApart /\ Marked /\ SavedMarked
  BY DEF CrashInv
<1>2. torn' = {} => \A f, g \in Files : f # g =>
            (Cover(extents'[f]) \cup Cover(savedFork'[f].exts))
               \cap (Cover(extents'[g]) \cup Cover(savedFork'[g].exts)) = {}
  BY <1>1 DEF ForksApart, Mine
<1>3. torn' = {} => \A f \in Files : Apart(extents'[f]) /\ Apart(savedFork'[f].exts)
  BY <1>1 DEF ExtentsApart
<1>4. torn' = {} => \A f \in Files : Cover(extents'[f]) \subseteq used'
  BY <1>1 DEF Marked
<1>5. torn' = {} /\ ~Cutting' => \A f \in Files : Cover(savedFork'[f].exts) \subseteq used'
  BY <1>1 DEF SavedMarked
<1>6. QED BY <1>2, <1>3, <1>4, <1>5, CrashNext

\* A growing call begins: at most an empty extent is added.
LEMMA GrowStartCrash ==
  ASSUME SpaceInv, CrashInv, NEW f \in Files, NEW n \in 0 .. MaxFileBlocks, AllocateGrow(f, n)
  PROVE  CrashInv'
<1>1. /\ pc = "idle" /\ pc' = "grow" /\ used' = used /\ savedFork' = savedFork /\ torn' = torn
      /\ ~Cutting
  BY DEF AllocateGrow, saved, history, Cutting
<1>2. CASE extents[f] = <<>>
  <2> DEFINE e == [start |-> 0, count |-> 0]
  <2>1. extents' = [extents EXCEPT ![f] = <<e>>]
    BY <1>2 DEF AllocateGrow
  <2>2. BlocksOf(e) = {}
    BY DEF BlocksOf
  <2>3. Cover(<<e>>) = {} /\ Apart(<<e>>)
    <3> HIDE DEF e
    <3>1. DOMAIN <<e>> = {1} /\ <<e>>[1] = e
      OBVIOUS
    <3>2. QED BY <2>2, <3>1 DEF Cover, Apart
  <2> HIDE DEF e
  <2>4. extents'[f] = <<e>> /\ \A g \in Files : g # f => extents'[g] = extents[g]
    BY <2>1 DEF SpaceInv, TypeOK
  <2>5. \A g \in Files : Cover(extents'[g]) = Cover(extents[g]) /\ (Apart(extents[g]) => Apart(extents'[g]))
    BY <1>2, <2>3, <2>4, EmptyCover
  <2>6. QED BY <1>1, <2>5, QuietCrash
<1>3. CASE extents[f] # <<>>
  <2>1. extents' = extents
    BY <1>3 DEF AllocateGrow
  <2>2. QED BY <1>1, <2>1, QuietCrash
<1>4. QED BY <1>2, <1>3

\* A list of extents that gains an empty one at its end, or one more block in
\* its last.
LEMMA LongerCover ==
  ASSUME NEW old, NEW new, NEW last, NEW more,
         DOMAIN new = DOMAIN old \cup {last},
         \A i \in DOMAIN old : i # last => new[i] = old[i],
         BlocksOf(new[last]) = (IF last \in DOMAIN old THEN BlocksOf(old[last]) ELSE {}) \cup more
  PROVE  /\ Cover(new) = Cover(old) \cup more
         /\ Apart(old) /\ more \cap Cover(old) = {} => Apart(new)
<1>1. \A i \in DOMAIN new : BlocksOf(new[i]) \subseteq (IF i \in DOMAIN old THEN BlocksOf(old[i]) ELSE {}) \cup more
  OBVIOUS
<1>2. \A i \in DOMAIN old : i \in DOMAIN new /\ BlocksOf(old[i]) \subseteq BlocksOf(new[i])
  OBVIOUS
<1>3. last \in DOMAIN new /\ more \subseteq BlocksOf(new[last])
  OBVIOUS
<1>4. Cover(new) = Cover(old) \cup more
  <2>1. ASSUME NEW b \in Cover(new) PROVE b \in Cover(old) \cup more
    <3>1. PICK i \in DOMAIN new : b \in BlocksOf(new[i])
      BY <2>1 DEF Cover
    <3>2. QED BY <1>1, <3>1 DEF Cover
  <2>2. ASSUME NEW b \in Cover(old) PROVE b \in Cover(new)
    <3>1. PICK i \in DOMAIN old : b \in BlocksOf(old[i])
      BY <2>2 DEF Cover
    <3>2. QED BY <1>2, <3>1 DEF Cover
  <2>3. more \subseteq Cover(new)
    BY <1>3 DEF Cover
  <2>4. QED BY <2>1, <2>2, <2>3
<1>5. ASSUME Apart(old), more \cap Cover(old) = {},
             NEW i \in DOMAIN new, NEW j \in DOMAIN new, i # j,
             NEW b \in BlocksOf(new[i]), b \in BlocksOf(new[j])
      PROVE  FALSE
  <2>1. \A k \in DOMAIN new : b \in BlocksOf(new[k]) =>
           (k \in DOMAIN old /\ b \in BlocksOf(old[k])) \/ (k = last /\ b \in more)
    OBVIOUS
  <2>2. CASE b \in more
    <3>1. b \notin Cover(old)
      BY <1>5, <2>2
    <3>2. \A k \in DOMAIN old : b \notin BlocksOf(old[k])
      BY <3>1 DEF Cover
    <3>3. QED BY <1>5, <2>1, <3>2
  <2>3. CASE b \notin more
    <3>1. i \in DOMAIN old /\ j \in DOMAIN old /\ b \in BlocksOf(old[i]) /\ b \in BlocksOf(old[j])
      BY <1>5, <2>1, <2>3
    <3>2. QED BY <1>5, <3>1 DEF Apart
  <2>4. QED BY <2>2, <2>3
<1>6. Apart(old) /\ more \cap Cover(old) = {} => Apart(new)
  BY <1>5 DEF Apart
<1>7. QED BY <1>4, <1>6

\* A growing call passes a block in use: at most an empty extent is added.
LEMMA GrowSkipCrash ==
  ASSUME SpaceInv, CrashInv, GrowSkip
  PROVE  CrashInv'
<1>1. /\ pc = "grow" /\ pc' = "grow" /\ used' = used /\ savedFork' = savedFork /\ torn' = torn
      /\ ~Cutting /\ file \in Files /\ extents[file] \in Seq(Extent)
  BY DEF GrowSkip, saved, history, Cutting, SpaceInv, TypeOK
<1>2. CASE LastExtent(file).count > 0
  <2> DEFINE e == [start |-> 0, count |-> 0]
  <2>1. extents' = [extents EXCEPT ![file] = Append(@, e)]
    BY <1>2 DEF GrowSkip
  <2>2. BlocksOf(e) = {} /\ e \in Extent
    BY DEF BlocksOf, Extent
  <2> HIDE DEF e
  <2>3. extents'[file] = Append(extents[file], e) /\ \A g \in Files : g # file => extents'[g] = extents[g]
    BY <1>1, <2>1 DEF SpaceInv, TypeOK
  <2> DEFINE last == Len(extents[file]) + 1
  <2>4. /\ DOMAIN extents'[file] = 1 .. last /\ extents'[file][last] = e
        /\ \A i \in 1 .. Len(extents[file]) : extents'[file][i] = extents[file][i]
        /\ DOMAIN extents[file] = 1 .. Len(extents[file]) /\ Len(extents[file]) \in Nat
    BY <1>1, <2>2, <2>3, Appended
  <2>5. DOMAIN extents'[file] = DOMAIN extents[file] \cup {last} /\ last \notin DOMAIN extents[file]
    BY <2>4
  <2> HIDE DEF last
  <2>6. /\ \A i \in DOMAIN extents[file] : i # last => extents'[file][i] = extents[file][i]
        /\ BlocksOf(extents'[file][last]) =
              (IF last \in DOMAIN extents[file] THEN BlocksOf(extents[file][last]) ELSE {}) \cup {}
    BY <2>2, <2>4, <2>5
  <2>7. /\ Cover(extents'[file]) = Cover(extents[file]) \cup {}
        /\ Apart(extents[file]) /\ {} \cap Cover(extents[file]) = {} => Apart(extents'[file])
    BY ONLY <2>5, <2>6, LongerCover
  <2>8. \A g \in Files : Cover(extents'[g]) = Cover(extents[g]) /\ (Apart(extents[g]) => Apart(extents'[g]))
    BY <2>3, <2>7
  <2>9. QED BY <1>1, <2>8, QuietCrash
<1>3. CASE ~(LastExtent(file).count > 0)
  <2>1. extents' = extents
    BY <1>3 DEF GrowSkip
  <2>2. QED BY <1>1, <2>1, QuietCrash
<1>4. QED BY <1>2, <1>3

\* The block a growing call takes is in no fork, in memory or in the catalog:
\* all their bits are set.
LEMMA GrowTakeCrash ==
  ASSUME SpaceInv, CrashInv, GrowTake
  PROVE  CrashInv'
<1> DEFINE last == Len(extents[file])
<1>1. /\ pc = "grow" /\ pc' = "grow" /\ used' = used \cup {cur} /\ cur \notin used
      /\ savedFork' = savedFork /\ torn' = torn /\ ~Cutting /\ file \in Files
  BY DEF GrowTake, TakeBlock, saved, history, Cutting, SpaceInv, TypeOK
<1>2. PICK new \in Extent :
         /\ \A g \in Files : g # file => extents'[g] = extents[g]
         /\ last \in Nat \ {0} /\ DOMAIN extents'[file] = DOMAIN extents[file]
         /\ extents'[file][last] = new
         /\ \A i \in DOMAIN extents[file] : i # last => extents'[file][i] = extents[file][i]
         /\ BlocksOf(new) = BlocksOf(LastExtent(file)) \cup {cur}
  BY Taken
<1>3. last \in DOMAIN extents[file] /\ LastExtent(file) = extents[file][last]
  BY <1>1, <1>2 DEF SpaceInv, TypeOK, LastExtent
<1> HIDE DEF last
<1>4. /\ DOMAIN extents'[file] = DOMAIN extents[file] \cup {last}
      /\ \A i \in DOMAIN extents[file] : i # last => extents'[file][i] = extents[file][i]
      /\ BlocksOf(extents'[file][last]) =
              (IF last \in DOMAIN extents[file] THEN BlocksOf(extents[file][last]) ELSE {}) \cup {cur}
  BY <1>2, <1>3
<1>5. /\ Cover(extents'[file]) = Cover(extents[file]) \cup {cur}
      /\ Apart(extents[file]) /\ {cur} \cap Cover(extents[file]) = {} => Apart(extents'[file])
  BY ONLY <1>4, LongerCover
<1>6. torn' = {} => ForksApart /\ ExtentsApart /\ Marked /\ SavedMarked
  BY <1>1 DEF CrashInv
<1>7. torn' = {} => \A g \in Files : cur \notin Mine(g) /\ Mine(g) \subseteq used
  BY <1>1, <1>6 DEF Marked, SavedMarked, Mine
<1>8. \A g \in Files : Cover(extents'[g]) \cup Cover(savedFork'[g].exts) =
                         (IF g = file THEN Mine(g) \cup {cur} ELSE Mine(g))
  BY <1>1, <1>2, <1>5 DEF Mine
<1>9. torn' = {} => \A f, g \in Files : f # g =>
            (Cover(extents'[f]) \cup Cover(savedFork'[f].exts))
               \cap (Cover(extents'[g]) \cup Cover(savedFork'[g].exts)) = {}
  <2> SUFFICES ASSUME torn' = {}, NEW f \in Files, NEW g \in Files, f # g
               PROVE  (IF f = file THEN Mine(f) \cup {cur} ELSE Mine(f))
                         \cap (IF g = file THEN Mine(g) \cup {cur} ELSE Mine(g)) = {}
    BY <1>8
  <2>1. Mine(f) \cap Mine(g) = {} /\ cur \notin Mine(f) /\ cur \notin Mine(g)
    BY <1>6, <1>7 DEF ForksApart
  <2>2. QED BY <2>1
<1>10. torn' = {} => \A f \in Files : Apart(extents'[f]) /\ Apart(savedFork'[f].exts)
  <2>1. torn' = {} => {cur} \cap Cover(extents[file]) = {}
    BY <1>1, <1>7 DEF Mine
  <2>2. QED BY <1>1, <1>2, <1>5, <1>6, <2>1 DEF ExtentsApart
<1>11. torn' = {} => \A f \in Files : Cover(extents'[f]) \subseteq used'
  BY <1>1, <1>2, <1>5, <1>6 DEF Marked
<1>12. torn' = {} /\ ~Cutting' => \A f \in Files : Cover(savedFork'[f].exts) \subseteq used'
  BY <1>1, <1>6 DEF SavedMarked
<1>13. QED BY <1>1, <1>9, <1>10, <1>11, <1>12, CrashNext

-----------------------------------------------------------------------------
(* The steps of a shrinking call *)

\* A growing call has all its blocks.
LEMMA GrowDoneCrash ==
  ASSUME SpaceInv, CrashInv, GrowDone
  PROVE  CrashInv'
<1>1. /\ pc = "grow" /\ pc' = "write" /\ used' = used /\ savedFork' = savedFork /\ torn' = torn
      /\ extents' = extents
  BY DEF GrowDone, saved, history
<1>2. ~Cutting
  BY <1>1 DEF Cutting
<1>3. QED BY <1>1, <1>2, QuietCrash

\* A shrinking call begins, or passes an extent that it keeps whole.
LEMMA ShrinkWalkCrash ==
  ASSUME SpaceInv, CrashInv, (\E f \in Files, n \in 0 .. MaxFileBlocks : AllocateShrink(f, n)) \/ ShrinkWalk
  PROVE  CrashInv'
<1>1. /\ pc \in {"idle", "walk"} /\ pc' = "walk" /\ used' = used /\ savedFork' = savedFork /\ torn' = torn
      /\ extents' = extents
  BY DEF AllocateShrink, ShrinkWalk, saved, history
<1>2. ~Cutting
  BY <1>1 DEF Cutting
<1>3. QED BY <1>1, <1>2, QuietCrash

\* The list is cut: what is kept of it lies in what the catalog has, and apart
\* from what is to be freed.
LEMMA ShrinkCutCrash ==
  ASSUME SpaceInv, CrashInv, ShrinkCut
  PROVE  CrashInv'
<1>1. /\ pc = "walk" /\ pc' = "free" /\ used' = used /\ savedFork' = savedFork /\ torn' = torn
      /\ list' = list /\ idx' = idx /\ file' = file
  BY DEF ShrinkCut, saved, history
<1>2. /\ file \in Files /\ list \in Seq(Extent)
      /\ list = extents[file] /\ list = savedFork[file].exts
      /\ idx \in 1 .. Len(list) /\ list[idx] \in Extent /\ left \in Nat
  BY <1>1, WalkFacts
<1>3. /\ extents'[file] \in Seq(Extent)
      /\ \A g \in Files : g # file => extents'[g] = extents[g]
      /\ Len(extents'[file]) <= idx
      /\ \A i \in DOMAIN extents'[file] :
            IF i < idx THEN i \in DOMAIN list /\ extents'[file][i] = list[i]
            ELSE i = idx /\ BlocksOf(extents'[file][i]) = list[idx].start .. (cur' - 1)
      /\ cur' = list[idx].start + left /\ left <= list[idx].count
  BY Cut DEF ShrinkCut
<1> DEFINE new == extents'[file]
<1>4. list[idx].start \in Nat /\ list[idx].count \in Nat
  BY <1>2 DEF Extent
<1>5. \A i \in DOMAIN new : i \in DOMAIN list /\ BlocksOf(new[i]) \subseteq BlocksOf(list[i])
  <2> SUFFICES ASSUME NEW i \in DOMAIN new
               PROVE  i \in DOMAIN list /\ BlocksOf(new[i]) \subseteq BlocksOf(list[i])
    OBVIOUS
  <2>1. CASE i < idx
    BY <1>3, <2>1
  <2>2. CASE ~(i < idx)
    <3>1. i = idx /\ BlocksOf(new[i]) = list[idx].start .. (cur' - 1) /\ i \in DOMAIN list
      BY <1>2, <1>3, <2>2
    <3>2. list[idx].start .. (cur' - 1) \subseteq list[idx].start .. (list[idx].start + list[idx].count - 1)
      <4> DEFINE s == list[idx].start
                 k == list[idx].count
                 c == cur'
      <4>1. s \in Nat /\ k \in Nat /\ left \in Nat /\ left <= k /\ c = s + left
        BY <1>2, <1>3, <1>4
      <4> HIDE DEF s, k, c
      <4>2. s .. (c - 1) \subseteq s .. (s + k - 1)
        BY <4>1
      <4>3. QED BY <4>2 DEF s, k, c
    <3>3. QED BY <3>1, <3>2 DEF BlocksOf
  <2>3. QED BY <2>1, <2>2
<1>6. Cover(new) \subseteq Cover(list)
  <2> SUFFICES ASSUME NEW b \in Cover(new) PROVE b \in Cover(list)
    OBVIOUS
  <2>1. PICK i \in DOMAIN new : b \in BlocksOf(new[i])
    BY DEF Cover
  <2>2. QED BY <1>5, <2>1 DEF Cover
<1>7. Apart(list) => Apart(new)
  BY <1>5 DEF Apart
<1>8. Apart(list) => \A i \in DOMAIN list : i >= idx =>
         ((IF i = idx THEN cur' ELSE list[i].start) .. (list[i].start + list[i].count - 1)) \cap Cover(new) = {}
  <2> SUFFICES ASSUME Apart(list), NEW i \in DOMAIN list, i >= idx,
                      NEW b \in (IF i = idx THEN cur' ELSE list[i].start) .. (list[i].start + list[i].count - 1),
                      b \in Cover(new)
               PROVE  FALSE
    OBVIOUS
  <2>1. PICK j \in DOMAIN new : b \in BlocksOf(new[j])
    BY DEF Cover
  <2>2. list[i] \in Extent /\ i \in Nat
    BY <1>2
  <2>3. list[i].start \in Nat /\ list[i].count \in Nat
    BY <2>2 DEF Extent
  <2>4. b \in BlocksOf(list[i])
    <3>1. BlocksOf(list[i]) = list[i].start .. (list[i].start + list[i].count - 1)
      BY DEF BlocksOf
    <3>2. CASE i # idx
      BY <3>1, <3>2
    <3>3. CASE i = idx
      <4>1. cur' \in Nat /\ cur' >= list[i].start
        <5> DEFINE s == list[idx].start
                   c == cur'
        <5>1. s \in Nat /\ left \in Nat /\ c = s + left
          BY <1>2, <1>3, <1>4
        <5> HIDE DEF s, c
        <5>2. c \in Nat /\ c >= s
          BY <5>1
        <5>3. QED BY <3>3, <5>2 DEF s, c
      <4>2. b \in cur' .. (list[i].start + list[i].count - 1)
        BY <3>3
      <4> DEFINE first == list[i].start
                 last == list[i].start + list[i].count - 1
                 from == cur'
      <4>3. first \in Int /\ last \in Int /\ from \in Int /\ from >= first /\ b \in from .. last
        BY <2>3, <4>1, <4>2
      <4> HIDE DEF first, last, from
      <4>4. b \in first .. last
        BY <4>3
      <4>5. QED BY <3>1, <4>4 DEF first, last
    <3>4. QED BY <3>2, <3>3
  <2>5. j \in DOMAIN list /\ b \in BlocksOf(list[j])
    BY <1>5, <2>1
  <2>6. i = j
    BY <2>4, <2>5 DEF Apart
  <2>7. j <= idx
    BY <1>2, <1>3
  <2>8. i = idx /\ b >= cur'
    BY <1>2, <1>3, <1>4, <2>2, <2>6, <2>7
  <2>9. b \in list[idx].start .. (cur' - 1)
    <3>1. j = idx /\ ~(j < idx)
      BY <1>2, <2>6, <2>8
    <3>2. BlocksOf(new[j]) = list[idx].start .. (cur' - 1)
      BY <1>3, <2>1, <3>1
    <3>3. QED BY <2>1, <3>2
  <2>10. QED BY <1>2, <1>3, <1>4, <2>8, <2>9
<1> HIDE DEF new
<1>9. torn' = {} => ForksApart /\ ExtentsApart /\ Marked
  BY <1>1 DEF CrashInv
<1>10. \A g \in Files : Cover(extents'[g]) \subseteq Cover(extents[g])
  BY <1>2, <1>3, <1>6 DEF new
<1>11. torn' = {} => \A f, g \in Files : f # g =>
            (Cover(extents'[f]) \cup Cover(savedFork'[f].exts))
               \cap (Cover(extents'[g]) \cup Cover(savedFork'[g].exts)) = {}
  BY <1>1, <1>9, <1>10 DEF ForksApart, Mine
<1>12. torn' = {} => \A f \in Files : Apart(extents'[f]) /\ Apart(savedFork'[f].exts)
  BY <1>1, <1>2, <1>3, <1>7, <1>9 DEF ExtentsApart, new
<1>13. torn' = {} => \A f \in Files : Cover(extents'[f]) \subseteq used'
  BY <1>1, <1>9, <1>10 DEF Marked
<1>14. Cutting'
  BY <1>1 DEF Cutting
<1>15. torn' = {} => Apart(list)
  BY <1>2, <1>9 DEF ExtentsApart
<1>16. torn' = {} => \A i \in DOMAIN list' : i >= idx' =>
            ((IF i = idx' THEN cur' ELSE list'[i].start) .. (list'[i].start + list'[i].count - 1))
               \cap Cover(extents'[file']) = {}
  BY <1>1, <1>8, <1>15 DEF new
<1>17. QED BY <1>11, <1>12, <1>13, <1>14, <1>16, CrashNext

\* The block that is freed is in the fork's catalog record, so in no other fork,
\* and not among the blocks the fork keeps.
LEMMA ShrinkFreeCrash ==
  ASSUME SpaceInv, CrashInv, ShrinkFree
  PROVE  CrashInv'
<1>1. /\ pc = "free" /\ pc' = "free" /\ used' = used \ {cur} /\ savedFork' = savedFork /\ torn' = torn
      /\ extents' = extents /\ list' = list /\ idx' = idx /\ file' = file /\ cur' = cur + 1
      /\ cur < list[idx].start + list[idx].count
  BY DEF ShrinkFree, FreeBlock, saved, history
<1>2. /\ file \in Files /\ list \in Seq(Extent) /\ idx \in 1 .. Len(list) /\ list[idx] \in Extent
      /\ cur \in BlocksOf(list[idx])
  BY <1>1, FreedInside
<1>3. list[idx].start \in Nat /\ list[idx].count \in Nat /\ cur \in Nat
  BY <1>2 DEF Extent, SpaceInv, TypeOK
<1>4. list = savedFork[file].exts
  BY <1>1, <1>2 DEF SpaceInv, Freeing, InStep
<1>5. cur \in Cover(savedFork[file].exts)
  BY <1>2, <1>4 DEF Cover
<1>6. torn' = {} => ForksApart /\ ExtentsApart /\ Marked /\ CutApart
  BY <1>1 DEF CrashInv
<1>7. torn' = {} => \A g \in Files : cur \notin Cover(extents[g])
  <2> SUFFICES ASSUME torn' = {}, NEW g \in Files PROVE cur \notin Cover(extents[g])
    OBVIOUS
  <2>1. CASE g = file
    <3>1. cur \in DoomedIn(idx)
      BY <1>1, <1>3 DEF DoomedIn
    <3>2. idx \in DOMAIN list /\ idx >= idx
      BY <1>2
    <3>3. DoomedIn(idx) \cap Cover(extents[file]) = {}
      BY <1>1, <1>6, <3>2 DEF CutApart
    <3>4. QED BY <2>1, <3>1, <3>3
  <2>2. CASE g # file
    BY <1>2, <1>5, <1>6, <2>2 DEF ForksApart, Mine
  <2>3. QED BY <2>1, <2>2
<1>8. torn' = {} => \A f \in Files : Cover(extents'[f]) \subseteq used'
  BY <1>1, <1>6, <1>7 DEF Marked
<1>9. torn' = {} => \A f, g \in Files : f # g =>
            (Cover(extents'[f]) \cup Cover(savedFork'[f].exts))
               \cap (Cover(extents'[g]) \cup Cover(savedFork'[g].exts)) = {}
  BY <1>1, <1>6 DEF ForksApart, Mine
<1>10. torn' = {} => \A f \in Files : Apart(extents'[f]) /\ Apart(savedFork'[f].exts)
  BY <1>1, <1>6 DEF ExtentsApart
<1>11. Cutting'
  BY <1>1 DEF Cutting
<1>12. torn' = {} => \A i \in DOMAIN list' : i >= idx' =>
            ((IF i = idx' THEN cur' ELSE list'[i].start) .. (list'[i].start + list'[i].count - 1))
               \cap Cover(extents'[file']) = {}
  <2> SUFFICES ASSUME torn' = {}, NEW i \in DOMAIN list, i >= idx
               PROVE  ((IF i = idx THEN cur + 1 ELSE list[i].start) .. (list[i].start + list[i].count - 1))
                         \cap Cover(extents[file]) = {}
    BY <1>1
  <2>1. list[i] \in Extent
    BY <1>2
  <2>2. list[i].start \in Nat /\ list[i].count \in Nat
    BY <2>1 DEF Extent
  <2>3. DoomedIn(i) \cap Cover(extents[file]) = {}
    BY <1>1, <1>6 DEF CutApart
  <2>4. ((IF i = idx THEN cur + 1 ELSE list[i].start) .. (list[i].start + list[i].count - 1)) \subseteq DoomedIn(i)
    BY <1>3, <2>2 DEF DoomedIn
  <2>5. QED BY <2>3, <2>4
<1>13. QED BY <1>8, <1>9, <1>10, <1>11, <1>12, CrashNext

\* On to the next extent behind the cut: the fork's catalog record is still old.
LEMMA ShrinkNextCrash ==
  ASSUME SpaceInv, CrashInv, ShrinkNextExtent
  PROVE  CrashInv'
<1>1. /\ pc = "free" /\ used' = used /\ savedFork' = savedFork /\ torn' = torn
      /\ extents' = extents /\ list' = list /\ idx' = idx + 1 /\ file' = file /\ need' = need
      /\ \/ idx + 1 \in DOMAIN list /\ pc' = "free" /\ cur' = list[idx + 1].start
         \/ pc' = "write" /\ cur' = cur
  BY DEF ShrinkNextExtent, saved, history
<1>2. file \in Files /\ list \in Seq(Extent) /\ idx \in Nat
  BY DEF SpaceInv, TypeOK
<1>3. Cutting'
  <2>1. need < fork[file].total /\ savedFork[file] = fork[file]
    BY <1>1, <1>2 DEF SpaceInv, Shrinking, InStep
  <2>2. QED BY <1>1, <2>1 DEF Cutting
<1>4. torn' = {} => ForksApart /\ ExtentsApart /\ Marked /\ CutApart
  BY <1>1 DEF CrashInv
<1>5. torn' = {} => \A f, g \in Files : f # g =>
            (Cover(extents'[f]) \cup Cover(savedFork'[f].exts))
               \cap (Cover(extents'[g]) \cup Cover(savedFork'[g].exts)) = {}
  BY <1>1, <1>4 DEF ForksApart, Mine
<1>6. torn' = {} => \A f \in Files : Apart(extents'[f]) /\ Apart(savedFork'[f].exts)
  BY <1>1, <1>4 DEF ExtentsApart
<1>7. torn' = {} => \A f \in Files : Cover(extents'[f]) \subseteq used'
  BY <1>1, <1>4 DEF Marked
<1>8. torn' = {} /\ pc' = "free" => \A i \in DOMAIN list' : i >= idx' =>
            ((IF i = idx' THEN cur' ELSE list'[i].start) .. (list'[i].start + list'[i].count - 1))
               \cap Cover(extents'[file']) = {}
  <2> SUFFICES ASSUME torn' = {}, pc' = "free", NEW i \in DOMAIN list, i >= idx + 1
               PROVE  ((IF i = idx + 1 THEN cur' ELSE list[i].start) .. (list[i].start + list[i].count - 1))
                         \cap Cover(extents[file]) = {}
    BY <1>1
  <2>1. i \in Nat /\ i # idx /\ i >= idx
    BY <1>2
  <2>2. DoomedIn(i) \cap Cover(extents[file]) = {}
    BY <1>1, <1>4, <2>1 DEF CutApart
  <2>3. DoomedIn(i) = list[i].start .. (list[i].start + list[i].count - 1)
    BY <2>1 DEF DoomedIn
  <2>4. cur' = list[idx + 1].start
    BY <1>1
  <2>5. (IF i = idx + 1 THEN cur' ELSE list[i].start) = list[i].start
    BY <2>4
  <2>6. QED BY <2>2, <2>3, <2>5
<1>9. QED BY <1>3, <1>5, <1>6, <1>7, <1>8, CrashNext

-----------------------------------------------------------------------------
(* The end of a call, and a death *)

\* allocate() is called with the size the fork has.
LEMMA SameCrash ==
  ASSUME SpaceInv, CrashInv, NEW f \in Files, AllocateSame(f)
  PROVE  CrashInv'
<1>1. /\ pc = "idle" /\ pc' = "write" /\ used' = used /\ savedFork' = savedFork /\ torn' = torn
      /\ extents' = extents
  BY DEF AllocateSame, saved, history
<1>2. ~Cutting
  BY <1>1 DEF Cutting
<1>3. QED BY <1>1, <1>2, QuietCrash

\* writeExtents and the volume header leave lists, bitmap and catalog alone.
LEMMA WriteCrash ==
  ASSUME FitsInline, SpaceInv, CrashInv, WriteExtents \/ UpdateVolume
  PROVE  CrashInv'
<1>1. /\ pc \in {"write", "volume"} /\ used' = used /\ savedFork' = savedFork /\ torn' = torn
      /\ extents' = extents /\ need' = need /\ file' = file
  BY DEF WriteExtents, UpdateVolume, saved, locals, history
<1>2. pc' \in {"volume", "catalog"}
  BY WrittenHere DEF UpdateVolume
<1>3. ~Cutting' => ~Cutting
  BY <1>1, <1>2 DEF Cutting
<1>4. QED BY <1>1, <1>2, <1>3, QuietCrash

\* The catalog record is written: it says what is in memory.
LEMMA CatalogCrash ==
  ASSUME SpaceInv, CrashInv, UpdateCatalog
  PROVE  CrashInv'
<1>1. /\ pc = "catalog" /\ pc' = "idle" /\ used' = used /\ torn' = torn /\ extents' = extents
      /\ savedFork' = [savedFork EXCEPT ![file] = fork[file]] /\ file \in Files
  BY DEF UpdateCatalog, SpaceInv, TypeOK, history
<1>2. extents[file] = fork[file].exts /\ \A g \in Files : g # file => savedFork[g] = fork[g] /\ extents[g] = fork[g].exts
  BY <1>1 DEF SpaceInv, InStep
<1>3. \A g \in Files : savedFork'[g].exts = extents[g]
  BY <1>1, <1>2 DEF SpaceInv, TypeOK
<1>4. torn' = {} => ForksApart /\ ExtentsApart /\ Marked
  BY <1>1 DEF CrashInv
<1>5. torn' = {} => \A f, g \in Files : f # g =>
            (Cover(extents'[f]) \cup Cover(savedFork'[f].exts))
               \cap (Cover(extents'[g]) \cup Cover(savedFork'[g].exts)) = {}
  BY <1>1, <1>3, <1>4 DEF ForksApart, Mine
<1>6. torn' = {} => \A f \in Files : Apart(extents'[f]) /\ Apart(savedFork'[f].exts)
  BY <1>1, <1>3, <1>4 DEF ExtentsApart
<1>7. torn' = {} => \A f \in Files : Cover(extents'[f]) \subseteq used' /\ Cover(savedFork'[f].exts) \subseteq used'
  BY <1>1, <1>3, <1>4 DEF Marked
<1>8. QED BY <1>1, <1>5, <1>6, <1>7, CrashNext

\* A death: every list is again what its catalog record says. Outside the freeing
\* half of a shrinking call those blocks are all marked.
LEMMA RestartCrash ==
  ASSUME SpaceInv, CrashInv, Restart
  PROVE  CrashInv'
<1>1. /\ pc' = "idle" /\ savedFork' = savedFork /\ used' = used
      /\ \A f \in Files : extents'[f] = savedFork[f].exts
      /\ torn' = IF pc = "free" \/ (pc \in {"write", "volume", "catalog"} /\ need < savedFork[file].total)
                 THEN torn \cup {file} ELSE torn
  BY RestartFacts
<1>2. torn' = {} => torn = {} /\ ~Cutting
  BY <1>1 DEF Cutting
<1>3. torn' = {} => ForksApart /\ ExtentsApart /\ \A f \in Files : Cover(savedFork[f].exts) \subseteq used
  BY <1>2 DEF CrashInv, SavedMarked
<1>4. torn' = {} => \A f, g \in Files : f # g =>
            (Cover(extents'[f]) \cup Cover(savedFork'[f].exts))
               \cap (Cover(extents'[g]) \cup Cover(savedFork'[g].exts)) = {}
  BY <1>1, <1>3 DEF ForksApart, Mine
<1>5. torn' = {} => \A f \in Files : Apart(extents'[f]) /\ Apart(savedFork'[f].exts)
  BY <1>1, <1>3 DEF ExtentsApart
<1>6. torn' = {} => \A f \in Files : Cover(extents'[f]) \subseteq used' /\ Cover(savedFork'[f].exts) \subseteq used'
  BY <1>1, <1>3
<1>7. QED BY <1>1, <1>4, <1>5, <1>6, CrashNext

\* A step in which allocate() does nothing.
LEMMA StutterCrash == CrashInv /\ UNCHANGED vars => CrashInv'
<1> SUFFICES ASSUME CrashInv, UNCHANGED vars PROVE CrashInv'
  OBVIOUS
<1>1. /\ UNCHANGED <<used, extents, pc, file, need, cur, list, idx, savedFork, torn>>
  BY DEF vars, saved, locals, history
<1>2. Cutting' => Cutting
  BY <1>1 DEF Cutting
<1>3. Cutting => Cutting'
  BY <1>1 DEF Cutting
<1>4. torn' = {} => ForksApart /\ ExtentsApart /\ Marked /\ SavedMarked /\ CutApart
  BY <1>1 DEF CrashInv
<1>5. torn' = {} => \A f, g \in Files : f # g =>
            (Cover(extents'[f]) \cup Cover(savedFork'[f].exts))
               \cap (Cover(extents'[g]) \cup Cover(savedFork'[g].exts)) = {}
  BY <1>1, <1>4 DEF ForksApart, Mine
<1>6. torn' = {} => \A f \in Files : Apart(extents'[f]) /\ Apart(savedFork'[f].exts)
  BY <1>1, <1>4 DEF ExtentsApart
<1>7. torn' = {} => \A f \in Files : Cover(extents'[f]) \subseteq used'
  BY <1>1, <1>4 DEF Marked
<1>8. torn' = {} /\ ~Cutting' => \A f \in Files : Cover(savedFork'[f].exts) \subseteq used'
  BY <1>1, <1>3, <1>4 DEF SavedMarked
<1>9. torn' = {} /\ pc' = "free" => \A i \in DOMAIN list' : i >= idx' =>
            ((IF i = idx' THEN cur' ELSE list'[i].start) .. (list'[i].start + list'[i].count - 1))
               \cap Cover(extents'[file']) = {}
  BY <1>1, <1>4 DEF CutApart, DoomedIn
<1>10. QED BY <1>5, <1>6, <1>7, <1>8, <1>9, CrashNext

\* Every step of every process, and every death of one.
LEMMA NextCrash ==
  ASSUME FitsInline, SpaceInv, CrashInv, [Next \/ Restart]_vars
  PROVE  CrashInv'
<1>1. ASSUME NEW f \in Files, NEW n \in 0 .. MaxFileBlocks, AllocateGrow(f, n) PROVE CrashInv'
  BY <1>1, GrowStartCrash
<1>2. ASSUME NEW f \in Files, NEW n \in 0 .. MaxFileBlocks, AllocateShrink(f, n) PROVE CrashInv'
  BY <1>2, ShrinkWalkCrash
<1>3. ASSUME NEW f \in Files, AllocateSame(f) PROVE CrashInv'
  BY <1>3, SameCrash
<1>4. CASE GrowSkip \/ GrowTake \/ GrowDone
  BY <1>4, GrowSkipCrash, GrowTakeCrash, GrowDoneCrash
<1>5. CASE ShrinkWalk \/ ShrinkCut \/ ShrinkFree \/ ShrinkNextExtent
  BY <1>5, ShrinkWalkCrash, ShrinkCutCrash, ShrinkFreeCrash, ShrinkNextCrash
<1>6. CASE WriteExtents \/ UpdateVolume
  BY <1>6, WriteCrash
<1>7. CASE UpdateCatalog
  BY <1>7, CatalogCrash
<1>8. CASE Restart
  BY <1>8, RestartCrash
<1>9. CASE UNCHANGED vars
  BY <1>9, StutterCrash
<1>10. QED
  BY <1>1, <1>2, <1>3, <1>4, <1>5, <1>6, <1>7, <1>8, <1>9 DEF Next, Call, Step

\* What CrashInv says of the lists holds of the image, since a new process finds
\* in every fork what its catalog record says.
LEMMA CrashForksApart == SpaceInv /\ CrashInv => CrashKeepsForksApart
<1> SUFFICES ASSUME SpaceInv, CrashInv, torn = {}, NEW f \in Files
             PROVE  /\ (pc \in {"idle", "grow", "walk"} \/ file # f) => SavedOwned(f) \subseteq used \ Reserved
                    /\ \A g \in Files \ {f} : SavedOwned(f) \cap SavedOwned(g) = {}
  BY DEF CrashKeepsForksApart
<1>1. \A g \in Files : SavedOwned(g) = Cover(savedFork[g].exts)
  BY Reopened DEF SavedOwned, Cover
<1>2. ForksApart /\ Marked /\ SavedMarked
  BY DEF CrashInv
<1>3. \A g \in Files \ {f} : SavedOwned(f) \cap SavedOwned(g) = {}
  BY <1>1, <1>2 DEF ForksApart, Mine
<1>4. Cover(savedFork[f].exts) \cap Reserved = {}
  <2>1. Sound(savedFork[f].exts)
    BY Types DEF Whole
  <2>2. QED BY <2>1 DEF Sound, Inside, Cover
<1>5. ASSUME pc \in {"idle", "grow", "walk"} \/ file # f PROVE Cover(savedFork[f].exts) \subseteq used
  <2>1. CASE pc \in {"idle", "grow", "walk"}
    <3>1. ~Cutting
      BY <2>1 DEF Cutting
    <3>2. QED BY <1>2, <3>1 DEF SavedMarked
  <2>2. CASE file # f
    <3>1. savedFork[f] = fork[f] /\ extents[f] = fork[f].exts
      BY <2>2 DEF SpaceInv, InStep
    <3>2. QED BY <1>2, <3>1 DEF Marked
  <2>3. QED BY <1>5, <2>1, <2>2
<1>6. QED BY <1>1, <1>3, <1>4, <1>5

\* Whatever was cut short by deaths, as long as it was not the freeing half of a
\* shrinking call, and as long as no call leaves a fork more extents than inline
\* descriptors: no two forks of the image share a block, and the blocks of every
\* fork that no call is changing are marked in the bitmap and not the volume's own.
THEOREM CrashKeepsForksApartAlways ==
  RestartSpec /\ []FitsInline => []CrashKeepsForksApart
<1>1. Init => SpaceInv /\ CrashInv
  BY InitSpace, InitCrash
<1>2. FitsInline /\ SpaceInv /\ CrashInv /\ [Next \/ Restart]_vars => (SpaceInv /\ CrashInv)'
  BY NextSpace, NextCrash
<1>3. SpaceInv /\ CrashInv => CrashKeepsForksApart
  BY CrashForksApart
<1>4. QED BY <1>1, <1>2, <1>3, PTL DEF RestartSpec

-----------------------------------------------------------------------------
(* Without deaths: AllocInv and what follows from it                       *)

USE VolumeAssumption, BoundsAssumption

\* The volume has finitely many blocks.
LEMMA BlocksFinite == IsFiniteSet(Blocks)
  BY FS_Interval DEF Blocks

\* A fork owns a block when one of its extents holds it.
LEMMA OwnedMembers ==
  ASSUME NEW f \in Files
  PROVE  /\ \A b : b \in Owned(f) <=> \E i \in DOMAIN extents[f] : b \in BlocksOf(extents[f][i])
         /\ \A b : b \in Owned(f)' <=> \E i \in DOMAIN extents'[f] : b \in BlocksOf(extents'[f][i])
<1>1. Owned(f) = UNION {BlocksOf(extents[f][i]) : i \in DOMAIN extents[f]}
  BY DEF Owned
<1>2. Owned(f)' = UNION {BlocksOf(extents'[f][i]) : i \in DOMAIN extents'[f]}
  BY DEF Owned, BlocksOf
<1>3. QED BY <1>1, <1>2

\* Nothing about the ownership of blocks changes in a step that keeps the
\* bitmap, the free count and the lists and frees nothing before or after.
LEMMA QuietStep ==
  ASSUME AllocInv, UNCHANGED <<used, freeBlocks, extents>>, pc # "free", pc' # "free"
  PROVE  /\ FreeCountExact' /\ NoBlockShared' /\ BitmapExact' /\ DoomedApart'
<1>1. FreeCountExact'
  BY DEF AllocInv, FreeCountExact
<1>2. \A f \in Files : Owned(f)' = Owned(f)
  BY DEF Owned
<1>3. NoBlockShared'
  BY <1>2 DEF AllocInv, NoBlockShared
<1>4. DoomedExtents = {} /\ DoomedExtents' = {}
  BY DEF DoomedExtents
<1>5. Doomed = {} /\ Doomed' = {}
  BY <1>4 DEF Doomed
<1>6. BitmapExact'
  BY <1>2, <1>5 DEF AllocInv, BitmapExact
<1>7. DoomedApart'
  BY <1>4 DEF DoomedApart
<1>8. QED BY <1>1, <1>3, <1>6, <1>7

\* A freshly made volume satisfies the invariant.
LEMMA InitInv == Init => AllocInv
<1> SUFFICES ASSUME Init PROVE AllocInv
  OBVIOUS
<1>1. \A f \in Files : extents[f] = <<>> /\ DOMAIN extents[f] = {}
  BY DEF Init
<1>2. \A f \in Files : Owned(f) = {}
  BY <1>1 DEF Owned
<1>3. DoomedExtents = {} /\ Doomed = {}
  BY DEF Init, DoomedExtents, Doomed
<1>4. freeBlocks \in Int
  <2>1. IsFiniteSet(Blocks \ Reserved)
    BY BlocksFinite, FS_Difference
  <2>2. QED BY <2>1, FS_CardinalityType DEF Init
<1>5. TypeOK
  BY <1>4 DEF Init, TypeOK, NoFork, Extent, ForkData, HeaderData
<1>6. FreeCountExact
  BY DEF Init, FreeCountExact
<1>7. NoBlockShared
  BY <1>1, <1>2 DEF NoBlockShared
<1>8. BitmapExact
  BY <1>2, <1>3 DEF Init, BitmapExact
<1>9. NoEmptyExtent
  BY <1>1 DEF NoEmptyExtent
<1>10. GrowCursor /\ WalkCursor /\ DoomedApart
  BY <1>3 DEF Init, GrowCursor, WalkCursor, DoomedApart
<1>11. QED
  BY <1>5, <1>6, <1>7, <1>8, <1>9, <1>10 DEF AllocInv

-----------------------------------------------------------------------------
(* The steps that only move allocate() along *)

\* Leaving the growing loop keeps the invariant.
LEMMA GrowDoneInv == AllocInv /\ GrowDone => AllocInv'
<1> SUFFICES ASSUME AllocInv, GrowDone PROVE AllocInv'
  OBVIOUS
<1>1. FreeCountExact' /\ NoBlockShared' /\ BitmapExact' /\ DoomedApart'
  BY QuietStep DEF GrowDone, header
<1>2. TypeOK'
  BY DEF AllocInv, TypeOK, GrowDone, header, locals, saved, history
<1>3. NoEmptyExtent' /\ GrowCursor' /\ WalkCursor'
  BY DEF AllocInv, NoEmptyExtent, GrowCursor, WalkCursor, GrowDone, locals
<1>4. QED BY <1>1, <1>2, <1>3 DEF AllocInv

\* Starting to shrink a fork keeps the invariant.
LEMMA ShrinkStartInv ==
  ASSUME AllocInv, NEW f \in Files, NEW n \in 0 .. MaxFileBlocks, AllocateShrink(f, n)
  PROVE  AllocInv'
<1>1. FreeCountExact' /\ NoBlockShared' /\ BitmapExact' /\ DoomedApart'
  BY QuietStep DEF AllocateShrink, header
<1>2. TypeOK'
  BY DEF AllocInv, TypeOK, AllocateShrink, header, saved, history
<1>3. NoEmptyExtent' /\ GrowCursor' /\ WalkCursor'
  BY DEF AllocInv, NoEmptyExtent, GrowCursor, WalkCursor, AllocateShrink
<1>4. QED BY <1>1, <1>2, <1>3 DEF AllocInv

\* A call that keeps the number of blocks keeps the invariant.
LEMMA SameInv ==
  ASSUME AllocInv, NEW f \in Files, AllocateSame(f)
  PROVE  AllocInv'
<1>1. FreeCountExact' /\ NoBlockShared' /\ BitmapExact' /\ DoomedApart'
  BY QuietStep DEF AllocateSame, header
<1>2. fork[f].total \in Nat
  BY DEF AllocInv, TypeOK, ForkData
<1>3. TypeOK'
  BY <1>2 DEF AllocInv, TypeOK, AllocateSame, header, saved, history
<1>4. NoEmptyExtent' /\ GrowCursor' /\ WalkCursor'
  BY DEF AllocInv, NoEmptyExtent, GrowCursor, WalkCursor, AllocateSame
<1>5. QED BY <1>1, <1>3, <1>4 DEF AllocInv

\* Passing an extent that is kept whole keeps the invariant.
LEMMA ShrinkWalkInv == AllocInv /\ ShrinkWalk => AllocInv'
<1> SUFFICES ASSUME AllocInv, ShrinkWalk PROVE AllocInv'
  OBVIOUS
<1>1. FreeCountExact' /\ NoBlockShared' /\ BitmapExact' /\ DoomedApart'
  BY QuietStep DEF ShrinkWalk, header
<1>2. list[idx] \in Extent
  BY DEF AllocInv, TypeOK, ShrinkWalk
<1>3. left' \in Nat \ {0}
  BY <1>2 DEF AllocInv, TypeOK, ShrinkWalk, Extent
<1>4. TypeOK'
  BY <1>3, SMTT(60) DEF AllocInv, TypeOK, ShrinkWalk, header, saved, history
<1>5. NoEmptyExtent' /\ GrowCursor' /\ WalkCursor'
  BY <1>3 DEF AllocInv, NoEmptyExtent, GrowCursor, WalkCursor, ShrinkWalk
<1>6. QED BY <1>1, <1>4, <1>5 DEF AllocInv

\* The records of writeExtents are records of the extents tree.
LEMMA OverflowType ==
  ASSUME NEW f \in Files, NEW exts \in Seq(Extent)
  PROVE  OverflowRecords(f, exts) \subseteq OverflowRecord
<1> DEFINE from(k) == k * Density + 1
           to(k) == IF from(k) + Density - 1 < Len(exts) THEN from(k) + Density - 1 ELSE Len(exts)
           rec(k) == [file |-> f, start |-> exts[from(k)].start, exts |-> SubSeq(exts, from(k), to(k))]
<1>1. ASSUME NEW k \in 1 .. Len(exts), from(k) <= Len(exts)
      PROVE  rec(k) \in OverflowRecord
  <2>1. from(k) \in 1 .. Len(exts) /\ to(k) \in from(k) .. Len(exts)
    BY <1>1
  <2>2. exts[from(k)] \in Extent
    BY <2>1
  <2>3. \A i \in from(k) .. to(k) : exts[i] \in Extent
    BY <2>1
  <2> HIDE DEF from, to
  <2>4. SubSeq(exts, from(k), to(k)) \in Seq(Extent)
    BY <2>1, <2>3, SubSeqProperties
  <2>5. QED BY <2>2, <2>4 DEF OverflowRecord, Extent
<1>2. QED BY <1>1 DEF OverflowRecords

\* writeExtents keeps the invariant, whether or not it panics.
LEMMA WriteExtentsInv == AllocInv /\ WriteExtents => AllocInv'
<1> SUFFICES ASSUME AllocInv, WriteExtents PROVE AllocInv'
  OBVIOUS
<1>1. FreeCountExact' /\ NoBlockShared' /\ BitmapExact' /\ DoomedApart'
  BY QuietStep DEF WriteExtents, header
<1>2. extents[file] \in Seq(Extent)
  BY DEF AllocInv, TypeOK
<1>3. overflow' \in SUBSET OverflowRecord
  BY <1>2, OverflowType DEF AllocInv, TypeOK, WriteExtents
<1> DEFINE inline == InlineExtents(extents[file])
<1>4. inline \in Seq(Extent)
  BY <1>2, SubSeqProperties DEF InlineExtents
<1>5. fork' \in [Files -> ForkData]
  <2>1. [exts |-> inline, total |-> need] \in ForkData
    BY <1>4 DEF AllocInv, TypeOK, ForkData
  <2>2. fork' = fork \/ fork' = [fork EXCEPT ![file] = [exts |-> inline, total |-> need]]
    BY DEF WriteExtents
  <2> HIDE DEF inline
  <2>3. QED BY <2>1, <2>2 DEF AllocInv, TypeOK
<1>6. TypeOK'
  BY <1>3, <1>5 DEF AllocInv, TypeOK, WriteExtents, header, saved, locals, history
<1>7. NoEmptyExtent' /\ GrowCursor' /\ WalkCursor'
  BY DEF AllocInv, NoEmptyExtent, GrowCursor, WalkCursor, WriteExtents, locals
<1>8. QED BY <1>1, <1>6, <1>7 DEF AllocInv

\* Saving the header and the catalog record keeps the invariant.
LEMMA UpdateInv == AllocInv /\ (UpdateVolume \/ UpdateCatalog) => AllocInv'
<1> SUFFICES ASSUME AllocInv, UpdateVolume \/ UpdateCatalog PROVE AllocInv'
  OBVIOUS
<1>1. FreeCountExact' /\ NoBlockShared' /\ BitmapExact' /\ DoomedApart'
  BY QuietStep DEF UpdateVolume, UpdateCatalog, header
<1>2. TypeOK'
  <2>1. UpdateVolume => savedHeader' \in HeaderData
    BY DEF AllocInv, TypeOK, UpdateVolume, HeaderData
  <2>2. CASE UpdateVolume
    BY <2>1, <2>2 DEF AllocInv, TypeOK, UpdateVolume, header, locals, history
  <2>3. CASE UpdateCatalog
    BY <2>3 DEF AllocInv, TypeOK, UpdateCatalog, LocalsReset, header, history
  <2>4. QED BY <2>2, <2>3
<1>3. NoEmptyExtent' /\ GrowCursor' /\ WalkCursor'
  BY DEF AllocInv, NoEmptyExtent, GrowCursor, WalkCursor, UpdateVolume, UpdateCatalog
<1>4. QED BY <1>1, <1>2, <1>3 DEF AllocInv

-----------------------------------------------------------------------------
(* The steps of a growing call *)

\* Appending an empty extent, or starting with one, gives a fork no block.
LEMMA EmptyExtentOwnsNothing ==
  ASSUME AllocInv, pc # "free", pc' # "free", UNCHANGED <<used, freeBlocks>>,
         NEW g \in Files,
         extents' = [extents EXCEPT ![g] = Append(@, [start |-> 0, count |-> 0])]
  PROVE  /\ extents' \in [Files -> Seq(Extent)]
         /\ \A f \in Files : Owned(f)' = Owned(f)
         /\ FreeCountExact' /\ NoBlockShared' /\ BitmapExact' /\ DoomedApart'
<1> DEFINE e == [start |-> 0, count |-> 0]
<1>1. e \in Extent /\ BlocksOf(e) = {}
  BY DEF Extent, BlocksOf
<1>2. \A f \in Files : extents[f] \in Seq(Extent)
  BY DEF AllocInv, TypeOK
<1> HIDE DEF e
<1>3. /\ extents' \in [Files -> Seq(Extent)]
      /\ DOMAIN extents[g] = 1 .. Len(extents[g])
      /\ DOMAIN extents'[g] = 1 .. Len(extents[g]) + 1
      /\ \A i \in 1 .. Len(extents[g]) : extents'[g][i] = extents[g][i]
      /\ extents'[g][Len(extents[g]) + 1] = e
      /\ \A f \in Files \ {g} : extents'[f] = extents[f]
  BY <1>1, <1>2, AppendProperties DEF AllocInv, TypeOK, e
<1>4. \A f \in Files : \A i \in DOMAIN extents'[f] :
         \/ i \in DOMAIN extents[f] /\ extents'[f][i] = extents[f][i]
         \/ BlocksOf(extents'[f][i]) = {}
  BY <1>1, <1>2, <1>3
<1>5. \A f \in Files : \A i \in DOMAIN extents[f] : i \in DOMAIN extents'[f] /\ extents'[f][i] = extents[f][i]
  BY <1>3
<1>6. \A f \in Files : Owned(f)' = Owned(f)
  <2> SUFFICES ASSUME NEW f \in Files PROVE Owned(f)' = Owned(f)
    OBVIOUS
  <2>1. \A b \in Owned(f)' : b \in Owned(f)
    BY <1>4 DEF Owned
  <2>2. \A b \in Owned(f) : b \in Owned(f)'
    BY <1>5 DEF Owned
  <2>3. QED BY <2>1, <2>2
<1>7. NoBlockShared'
  BY <1>4, <1>6 DEF AllocInv, NoBlockShared
<1>8. DoomedExtents = {} /\ DoomedExtents' = {}
  BY DEF DoomedExtents
<1>9. BitmapExact'
  BY <1>6, <1>8 DEF AllocInv, BitmapExact, Doomed
<1>10. FreeCountExact' /\ DoomedApart'
  BY <1>8 DEF AllocInv, FreeCountExact, DoomedApart
<1>11. QED BY <1>3, <1>6, <1>7, <1>9, <1>10

\* The block behind the last extent of a fork is a block of the volume.
LEMMA BlockBehind ==
  ASSUME AllocInv, pc = "idle", NEW f \in Files, extents[f] # <<>>
  PROVE  LastExtent(f).start + LastExtent(f).count \in Blocks
<1> DEFINE e == LastExtent(f)
           b == e.start + e.count - 1
<1>1. extents[f] \in Seq(Extent) /\ Len(extents[f]) \in DOMAIN extents[f]
  BY DEF AllocInv, TypeOK
<1>2. e \in Extent
  BY <1>1 DEF LastExtent
<1>3. e.count # 0
  BY <1>1 DEF AllocInv, NoEmptyExtent, LastExtent
<1>4. b \in BlocksOf(e)
  BY <1>2, <1>3 DEF BlocksOf, Extent
<1>5. b \in Owned(f)
  BY <1>1, <1>4 DEF Owned, LastExtent
<1>6. b \in used /\ b \notin Reserved
  BY <1>5 DEF AllocInv, BitmapExact, NoBlockShared
<1>7. b \in Blocks /\ b # TotalBlocks - 1
  BY <1>6 DEF AllocInv, TypeOK
<1>8. QED BY <1>2, <1>7 DEF Blocks, Extent

\* Starting to grow a fork keeps the invariant.
LEMMA GrowStartInv ==
  ASSUME AllocInv, NEW f \in Files, NEW n \in 0 .. MaxFileBlocks, AllocateGrow(f, n)
  PROVE  AllocInv'
<1>1. extents[f] \in Seq(Extent) /\ fork[f].total \in Nat
  BY DEF AllocInv, TypeOK, ForkData
<1>2. left' \in Nat \ {0} /\ need' \in Nat /\ file' = f
  BY <1>1 DEF AllocateGrow
<1>3. CASE extents[f] = <<>>
  <2>1. extents' = [extents EXCEPT ![f] = Append(@, [start |-> 0, count |-> 0])]
    BY <1>1, <1>3 DEF AllocateGrow
  <2>2. /\ extents' \in [Files -> Seq(Extent)]
        /\ FreeCountExact' /\ NoBlockShared' /\ BitmapExact' /\ DoomedApart'
    BY <2>1, EmptyExtentOwnsNothing DEF AllocateGrow, header
  <2>3. cur' \in Blocks
    BY <1>3 DEF AllocateGrow, AllocInv, TypeOK
  <2>4. TypeOK'
    BY <1>2, <2>2, <2>3 DEF AllocateGrow, AllocInv, TypeOK, header, saved, history, Blocks
  <2>5. extents'[f] = <<[start |-> 0, count |-> 0]>> /\ \A g \in Files \ {f} : extents'[g] = extents[g]
    BY <1>3 DEF AllocateGrow, AllocInv, TypeOK
  <2>6. NoEmptyExtent'
    <3>1. Len(extents'[f]) = 1 /\ DOMAIN extents'[f] = {1}
      BY <2>5
    <3>2. pc = "idle" /\ pc' = "grow"
      BY DEF AllocateGrow
    <3>3. \A g \in Files \ {f} : \A i \in DOMAIN extents'[g] : extents'[g][i].count # 0
      BY <2>5, <3>2 DEF AllocInv, NoEmptyExtent
    <3>4. left' > 0 /\ file' = f
      BY <1>2
    <3>5. QED BY <3>1, <3>2, <3>3, <3>4 DEF NoEmptyExtent
  <2>7. LastExtent(f)'.count = 0 /\ extents'[f] # <<>>
    BY <2>5 DEF LastExtent
  <2>8. GrowCursor' /\ WalkCursor'
    BY <1>2, <2>3, <2>7 DEF AllocateGrow, GrowCursor, WalkCursor, LastExtent
  <2>9. QED BY <2>2, <2>4, <2>6, <2>8 DEF AllocInv
<1>4. CASE extents[f] # <<>>
  <2>1. UNCHANGED extents
    BY <1>4 DEF AllocateGrow
  <2>2. FreeCountExact' /\ NoBlockShared' /\ BitmapExact' /\ DoomedApart'
    BY <2>1, QuietStep DEF AllocateGrow, header
  <2>3. cur' \in Blocks
    BY <1>4, BlockBehind DEF AllocateGrow
  <2>4. TypeOK'
    BY <1>2, <2>1, <2>3 DEF AllocateGrow, AllocInv, TypeOK, header, saved, history, Blocks
  <2>5. NoEmptyExtent' /\ GrowCursor' /\ WalkCursor'
    BY <1>2, <1>4, <2>1, <2>3 DEF AllocateGrow, AllocInv, NoEmptyExtent, GrowCursor, WalkCursor, LastExtent
  <2>6. QED BY <2>2, <2>4, <2>5 DEF AllocInv
<1>5. QED BY <1>3, <1>4

\* Passing over a used block keeps the invariant.
LEMMA GrowSkipInv == AllocInv /\ GrowSkip => AllocInv'
<1> SUFFICES ASSUME AllocInv, GrowSkip PROVE AllocInv'
  OBVIOUS
<1>1. extents[file] \in Seq(Extent) /\ extents[file] # <<>>
  BY DEF AllocInv, TypeOK, GrowSkip, GrowCursor
<1>2. cur' \in Blocks /\ nextAllocation' \in Blocks
  BY DEF AllocInv, TypeOK, GrowSkip, NextBlock, Blocks
<1>3. LastExtent(file) \in Extent
  BY <1>1 DEF LastExtent
<1>4. CASE LastExtent(file).count > 0
  <2>1. extents' = [extents EXCEPT ![file] = Append(@, [start |-> 0, count |-> 0])]
    BY <1>4 DEF GrowSkip
  <2>2. /\ extents' \in [Files -> Seq(Extent)]
        /\ FreeCountExact' /\ NoBlockShared' /\ BitmapExact' /\ DoomedApart'
    BY <2>1, EmptyExtentOwnsNothing DEF GrowSkip, AllocInv, TypeOK
  <2>3. TypeOK'
    BY <1>2, <2>2 DEF GrowSkip, AllocInv, TypeOK, saved, history, Blocks
  <2>4. /\ Len(extents'[file]) = Len(extents[file]) + 1
        /\ \A i \in 1 .. Len(extents[file]) : extents'[file][i] = extents[file][i]
        /\ extents'[file][Len(extents'[file])] = [start |-> 0, count |-> 0]
        /\ \A g \in Files \ {file} : extents'[g] = extents[g]
    BY <1>1, <2>1 DEF AllocInv, TypeOK
  <2>5. NoEmptyExtent'
    BY <1>1, <1>4, <2>4 DEF GrowSkip, AllocInv, NoEmptyExtent, LastExtent, TypeOK
  <2>6. LastExtent(file)'.count = 0 /\ extents'[file] # <<>>
    BY <1>1, <2>4 DEF GrowSkip, LastExtent
  <2>7. GrowCursor' /\ WalkCursor'
    BY <1>2, <2>6 DEF GrowSkip, GrowCursor, WalkCursor
  <2>8. QED BY <2>2, <2>3, <2>5, <2>7 DEF AllocInv
<1>5. CASE ~(LastExtent(file).count > 0)
  <2>1. UNCHANGED extents
    BY <1>5 DEF GrowSkip
  <2>2. FreeCountExact' /\ NoBlockShared' /\ BitmapExact' /\ DoomedApart'
    BY <2>1, QuietStep DEF GrowSkip
  <2>3. TypeOK'
    BY <1>2, <2>1 DEF GrowSkip, AllocInv, TypeOK, saved, history, Blocks
  <2>4. NoEmptyExtent' /\ GrowCursor' /\ WalkCursor'
    BY <1>1, <1>2, <1>5, <2>1 DEF GrowSkip, AllocInv, NoEmptyExtent, GrowCursor, WalkCursor, LastExtent
  <2>5. QED BY <2>2, <2>3, <2>4 DEF AllocInv
<1>6. QED BY <1>4, <1>5

\* Taking a free block keeps the invariant.
LEMMA GrowTakeInv == AllocInv /\ GrowTake => AllocInv'
<1> SUFFICES ASSUME AllocInv, GrowTake PROVE AllocInv'
  OBVIOUS
<1> DEFINE last == Len(extents[file])
           old == extents[file][last]
           new == [start |-> IF old.count = 0 THEN cur ELSE old.start, count |-> old.count + 1]
<1>1. /\ extents[file] \in Seq(Extent) /\ extents[file] # <<>>
      /\ \A f \in Files : extents[f] \in Seq(Extent)
  BY DEF AllocInv, TypeOK, GrowTake, GrowCursor
<1>2. last \in Nat \ {0} /\ last \in DOMAIN extents[file] /\ old \in Extent
  BY <1>1
<1>3. cur \in Blocks \ used /\ cur \in Nat
  BY DEF AllocInv, GrowTake, GrowCursor, Blocks
<1>4. new \in Extent
  BY <1>2, <1>3 DEF Extent
<1>5. \A b : b \in BlocksOf(new) <=> b = cur \/ b \in BlocksOf(old)
  <2>1. CASE old.count = 0
    BY <1>2, <1>3, <2>1 DEF BlocksOf, Extent
  <2>2. CASE old.count # 0
    <3>1. old.count > 0 /\ LastExtent(file) = old
      BY <1>2, <2>2 DEF Extent, LastExtent
    <3>2. cur = old.start + old.count
      BY <3>1 DEF AllocInv, GrowTake, GrowCursor
    <3>3. QED BY <1>2, <2>2, <3>2 DEF BlocksOf, Extent
  <2>3. QED BY <2>1, <2>2
<1>6. extents' = [extents EXCEPT ![file] = [extents[file] EXCEPT ![last] = new]]
  BY DEF GrowTake, AllocInv, TypeOK
<1> HIDE DEF last, old, new
<1>7. /\ extents' \in [Files -> Seq(Extent)]
      /\ \A f \in Files : DOMAIN extents'[f] = DOMAIN extents[f]
      /\ \A f \in Files : Len(extents'[f]) = Len(extents[f])
      /\ extents'[file][last] = new
      /\ \A f \in Files : \A i \in DOMAIN extents[f] :
            f # file \/ i # last => extents'[f][i] = extents[f][i]
  BY <1>1, <1>2, <1>4, <1>6, ExceptSeq DEF AllocInv, TypeOK
<1>8. \A f \in Files : \A i \in DOMAIN extents[f] : \A b :
         b \in BlocksOf(extents'[f][i]) <=>
            (f = file /\ i = last /\ b = cur) \/ b \in BlocksOf(extents[f][i])
  BY <1>2, <1>5, <1>7 DEF old
<1>9. \A f \in Files : \A b : b \in Owned(f)' <=> (f = file /\ b = cur) \/ b \in Owned(f)
  <2> SUFFICES ASSUME NEW f \in Files, NEW b
               PROVE  b \in Owned(f)' <=> (f = file /\ b = cur) \/ b \in Owned(f)
    OBVIOUS
  <2>1. b \in Owned(f)' <=> \E i \in DOMAIN extents[f] : b \in BlocksOf(extents'[f][i])
    BY <1>7, OwnedMembers
  <2>2. b \in Owned(f) <=> \E i \in DOMAIN extents[f] : b \in BlocksOf(extents[f][i])
    BY OwnedMembers
  <2>3. QED BY <1>2, <1>8, <2>1, <2>2
<1>10. \A f \in Files : \A i \in DOMAIN extents[f] : cur \notin BlocksOf(extents[f][i])
  BY <1>3 DEF AllocInv, BitmapExact, Owned
<1>11. NoBlockShared'
  <2>1. \A f, g \in Files : \A i \in DOMAIN extents'[f], j \in DOMAIN extents'[g] :
           (f # g \/ i # j) => BlocksOf(extents'[f][i]) \cap BlocksOf(extents'[g][j]) = {}
    <3> SUFFICES ASSUME NEW f \in Files, NEW g \in Files, NEW i \in DOMAIN extents[f],
                        NEW j \in DOMAIN extents[g], f # g \/ i # j,
                        NEW b \in BlocksOf(extents'[f][i]), b \in BlocksOf(extents'[g][j])
                 PROVE  FALSE
      BY <1>7
    <3>1. b \notin BlocksOf(extents[f][i]) \/ b \notin BlocksOf(extents[g][j])
      BY DEF AllocInv, NoBlockShared
    <3>2. QED BY <1>8, <1>10, <3>1
  <2>2. \A f \in Files : Owned(f)' \cap Reserved = {}
    BY <1>3, <1>9 DEF AllocInv, NoBlockShared, BitmapExact
  <2>3. QED BY <2>1, <2>2 DEF NoBlockShared
<1>12. DoomedExtents = {} /\ DoomedExtents' = {}
  BY DEF DoomedExtents, GrowTake
<1>13. BitmapExact'
  <2>1. Doomed = {} /\ Doomed' = {}
    BY <1>12 DEF Doomed
  <2>2. \A b : b \in UNION {Owned(f)' : f \in Files} <=> b = cur \/ b \in UNION {Owned(f) : f \in Files}
    BY <1>9 DEF AllocInv, TypeOK
  <2>3. used' = used \cup {cur}
    BY DEF GrowTake, TakeBlock
  <2>4. (UNION {Owned(f) : f \in Files})' = UNION {Owned(f)' : f \in Files}
    OBVIOUS
  <2>5. QED BY <2>1, <2>2, <2>3, <2>4 DEF AllocInv, BitmapExact
<1>14. FreeCountExact'
  <2>1. Blocks \ used' = (Blocks \ used) \ {cur} /\ cur \in Blocks \ used
    BY <1>3 DEF GrowTake, TakeBlock
  <2>2. IsFiniteSet(Blocks \ used)
    BY BlocksFinite, FS_Difference
  <2>3. Cardinality(Blocks \ used') = Cardinality(Blocks \ used) - 1
    <3> DEFINE S == Blocks \ used
    <3> HIDE DEF S
    <3>1. IsFiniteSet(S) /\ cur \in S
      BY <2>1, <2>2 DEF S
    <3>2. Cardinality(S \ {cur}) = Cardinality(S) - 1
      BY <3>1, FS_RemoveElement
    <3>3. QED BY <2>1, <3>2 DEF S
  <2>4. QED BY <2>3 DEF AllocInv, FreeCountExact, GrowTake, TakeBlock
<1>15. cur' \in Blocks
  <2>1. cur # TotalBlocks - 1
    BY <1>3 DEF AllocInv, BitmapExact
  <2>2. cur' = cur + 1
    BY <1>3, <2>1 DEF GrowTake, Blocks
  <2>3. QED BY <1>3, <2>1, <2>2 DEF Blocks
<1>16. TypeOK'
  <2>1. left' \in Nat /\ freeBlocks' \in Int /\ used' \in SUBSET Blocks
    BY <1>3 DEF AllocInv, TypeOK, GrowTake, TakeBlock
  <2>2. QED BY <1>7, <1>15, <2>1 DEF AllocInv, TypeOK, GrowTake, saved, history, Blocks
<1>17. NoEmptyExtent'
  <2>1. new.count # 0
    BY <1>2 DEF new, Extent
  <2>2. QED BY <1>7, <2>1 DEF AllocInv, TypeOK, NoEmptyExtent, GrowTake, last
<1>18. GrowCursor'
  <2>1. cur' = cur + 1
    <3>1. cur # TotalBlocks - 1
      BY <1>3 DEF AllocInv, BitmapExact
    <3>2. QED BY <1>3, <3>1 DEF GrowTake, Blocks
  <2>2. cur = IF old.count = 0 THEN cur ELSE old.start + old.count
    BY <1>2 DEF AllocInv, GrowTake, GrowCursor, LastExtent, old, last, Extent
  <2>3. cur' = new.start + new.count
    BY <1>2, <1>3, <2>1, <2>2 DEF new, Extent
  <2>4. LastExtent(file)' = new
    BY <1>7 DEF LastExtent, last, GrowTake
  <2>5. extents'[file] # <<>>
    <3>1. last \in DOMAIN extents'[file]
      BY <1>2, <1>7 DEF GrowTake, AllocInv, TypeOK
    <3>2. QED BY <3>1
  <2>6. file' = file /\ file \in Files
    BY DEF GrowTake, AllocInv, TypeOK
  <2>7. QED BY <1>15, <2>3, <2>4, <2>5, <2>6 DEF GrowCursor
<1>19. WalkCursor' /\ DoomedApart'
  BY <1>12 DEF WalkCursor, DoomedApart, GrowTake
<1>20. QED
  BY <1>11, <1>13, <1>14, <1>16, <1>17, <1>18, <1>19 DEF AllocInv

-----------------------------------------------------------------------------
(* The steps of a shrinking call *)

\* Cutting the list dooms exactly the blocks it drops.
LEMMA ShrinkCutInv == AllocInv /\ ShrinkCut => AllocInv'
<1> SUFFICES ASSUME AllocInv, ShrinkCut PROVE AllocInv'
  OBVIOUS
<1> DEFINE e == list[idx]
           cut == [start |-> e.start, count |-> left]
           end(i) == list[i].start + list[i].count
           from(i) == IF i = idx THEN e.start + left ELSE list[i].start
<1>1. /\ list = extents[file] /\ file \in Files /\ list \in Seq(Extent)
      /\ idx \in DOMAIN list /\ idx \in 1 .. Len(list) /\ left \in Nat
      /\ (left = 0 => idx = 1) /\ pc = "walk"
  BY DEF AllocInv, TypeOK, WalkCursor, ShrinkCut
<1>2. \A i \in DOMAIN list : list[i] \in Extent
  BY <1>1
<1>3. left <= e.count /\ e \in Extent /\ cut \in Extent
  <2>1. left <= list[idx].count
    BY DEF ShrinkCut
  <2>2. list[idx] \in Extent
    BY <1>1, <1>2
  <2>3. QED BY <1>1, <2>1, <2>2 DEF Extent
<1>4. \A i \in DOMAIN list : \A b : b \in BlocksOf(list[i]) <=> b \in Int /\ list[i].start <= b /\ b < end(i)
  BY <1>2 DEF BlocksOf, Extent
<1>5. cur' = e.start + left /\ cur' \in Nat
  <2>1. cur' = list[idx].start + left
    BY DEF ShrinkCut, CutPoint
  <2>2. list[idx] \in Extent
    BY <1>1, <1>2
  <2>3. list[idx].start \in Nat
    BY <2>2 DEF Extent
  <2>4. QED BY <1>1, <2>1, <2>3
<1>6. DoomedExtents = {} /\ DoomedExtents' = {i \in DOMAIN list : i >= idx}
  BY <1>1 DEF DoomedExtents, ShrinkCut
<1>7. \A i \in DoomedExtents' : \A b : b \in DoomedIn(i)' <=> b \in Int /\ from(i) <= b /\ b < end(i)
  BY <1>2, <1>5, <1>6 DEF DoomedIn, ShrinkCut, Extent
<1>8. \A i \in DoomedExtents' : \A b \in DoomedIn(i)' : b \in BlocksOf(list[i])
  BY <1>1, <1>2, <1>3, <1>4, <1>6, <1>7 DEF Extent
\* The list that is left: the extents before idx, and what left keeps of that one.
<1> DEFINE kept == extents'[file]
<1>9. /\ extents' \in [Files -> Seq(Extent)]
      /\ \A f \in Files \ {file} : extents'[f] = extents[f]
      /\ left = 0 => DOMAIN kept = {}
      /\ left # 0 => /\ DOMAIN kept = 1 .. idx
                     /\ \A i \in 1 .. idx - 1 : kept[i] = list[i]
                     /\ kept[idx] = cut
  <2>1. CASE left = 0
    BY <1>1, <2>1 DEF ShrinkCut, AllocInv, TypeOK
  <2>2. CASE left # 0
    <3> DEFINE front == SubSeq(list, 1, idx - 1)
    <3>1. /\ front \in Seq(Extent) /\ Len(front) = idx - 1
          /\ \A i \in 1 .. idx - 1 : front[i] = list[i]
      BY <1>1, <1>2, SubSeqProperties
    <3>2. [e EXCEPT !.count = left] = cut
      BY <1>3 DEF Extent
    <3>3. extents' = [extents EXCEPT ![file] = Append(front, cut)]
      BY <2>2, <3>2 DEF ShrinkCut
    <3> HIDE DEF front, cut, e
    <3>4. /\ Append(front, cut) \in Seq(Extent)
          /\ Len(Append(front, cut)) = idx
          /\ \A i \in 1 .. idx - 1 : Append(front, cut)[i] = list[i]
          /\ Append(front, cut)[idx] = cut
      BY <1>1, <1>3, <3>1, AppendProperties
    <3>5. DOMAIN Append(front, cut) = 1 .. idx
      BY <3>4
    <3> HIDE DEF kept
    <3>6. kept = Append(front, cut) /\ extents' \in [Files -> Seq(Extent)]
      BY <1>1, <3>3, <3>4 DEF AllocInv, TypeOK, kept
    <3>7. QED BY <1>1, <2>2, <3>3, <3>4, <3>5, <3>6 DEF AllocInv, TypeOK
  <2>3. QED BY <2>1, <2>2
<1>10. \A i \in DOMAIN kept : /\ i \in DOMAIN list /\ i <= idx
                              /\ \A b \in BlocksOf(kept[i]) : b \in BlocksOf(list[i])
  <2>1. \A b \in BlocksOf(cut) : b \in BlocksOf(e)
    BY <1>1, <1>3, <1>4 DEF BlocksOf, Extent
  <2>2. QED BY <1>1, <1>9, <2>1
<1>11. \A f \in Files : \A i \in DOMAIN extents'[f] :
          /\ i \in DOMAIN extents[f]
          /\ \A b \in BlocksOf(extents'[f][i]) : b \in BlocksOf(extents[f][i])
  BY <1>1, <1>9, <1>10
\* Every block of the old list is kept or doomed, and never both.
<1>12. \A f \in Files : f = file =>
          \A b : b \in Owned(f) <=> b \in Owned(f)' \/ \E i \in DoomedExtents' : b \in DoomedIn(i)'
  <2> SUFFICES ASSUME NEW f \in Files, f = file, NEW b
               PROVE  b \in Owned(f) <=> b \in Owned(f)' \/ \E i \in DoomedExtents' : b \in DoomedIn(i)'
    OBVIOUS
  <2>1. b \in Owned(f) <=> \E i \in DOMAIN list : b \in BlocksOf(list[i])
    BY <1>1, OwnedMembers
  <2>2. b \in Owned(f)' <=> \E i \in DOMAIN kept : b \in BlocksOf(kept[i])
    BY <1>1, OwnedMembers
  <2>3. ASSUME NEW i \in DOMAIN list, b \in BlocksOf(list[i])
        PROVE  (\E j \in DOMAIN kept : b \in BlocksOf(kept[j])) \/ \E j \in DoomedExtents' : b \in DoomedIn(j)'
    <3> HIDE DEF kept
    <3>1. i \in Nat /\ idx \in Nat /\ idx \in DOMAIN list /\ (left = 0 => idx = 1) /\ i >= 1 /\ left \in Nat
      BY <1>1
    <3>2. CASE i > idx
      <4>1. i \in DoomedExtents' /\ i # idx
        BY <1>6, <3>1, <3>2
      <4>2. b \in Int /\ list[i].start <= b /\ b < end(i)
        BY <1>4, <2>3
      <4>3. from(i) = list[i].start
        BY <4>1
      <4>4. b \in DoomedIn(i)'
        BY <1>7, <4>1, <4>2, <4>3
      <4>5. QED BY <4>1, <4>4
    <3>3. CASE i < idx
      <4>1. left # 0 /\ i \in 1 .. idx - 1
        BY <3>1, <3>3
      <4>2. i \in DOMAIN kept /\ kept[i] = list[i]
        BY <1>9, <3>1, <4>1 DEF kept
      <4>3. QED BY <2>3, <4>2
    <3>4. CASE i = idx
      <4>1. b \in Int /\ e.start <= b /\ b < e.start + e.count
        BY <1>4, <2>3, <3>4
      <4>2. CASE b >= e.start + left
        <5>1. i \in DoomedExtents'
          BY <1>6, <3>1, <3>4
        <5>2. from(i) <= b
          BY <3>4, <4>2
        <5>3. b < end(i)
          BY <3>4, <4>1
        <5>4. b \in DoomedIn(i)'
          BY <1>7, <4>1, <5>1, <5>2, <5>3
        <5>5. QED BY <5>1, <5>4
      <4>3. CASE b < e.start + left
        <5> DEFINE s == e.start
        <5>1. s \in Nat /\ cut.start = s /\ cut.count = left
          BY <1>3 DEF Extent
        <5>2. s <= b /\ b < s + left /\ b \in Int
          BY <4>1, <4>3
        <5>3. BlocksOf(cut) = s .. (s + left - 1)
          BY <5>1 DEF BlocksOf
        <5> HIDE DEF s
        <5>4. left # 0 /\ b \in BlocksOf(cut)
          BY <3>1, <5>1, <5>2, <5>3
        <5>5. DOMAIN kept = 1 .. idx /\ kept[idx] = cut
          BY <1>9, <5>4 DEF kept
        <5>6. idx \in DOMAIN kept
          BY <3>1, <3>4, <5>5
        <5>7. QED BY <5>4, <5>5, <5>6
      <4>4. e.start \in Nat
        BY <1>3 DEF Extent
      <4>5. QED BY <3>1, <4>1, <4>2, <4>3, <4>4
    <3>5. QED BY <3>1, <3>2, <3>3, <3>4
  <2>4. ASSUME NEW i \in DoomedExtents', b \in DoomedIn(i)'
        PROVE  \E j \in DOMAIN list : b \in BlocksOf(list[j])
    BY <1>6, <1>8, <2>4
  <2>5. ASSUME NEW i \in DOMAIN kept, b \in BlocksOf(kept[i])
        PROVE  \E j \in DOMAIN list : b \in BlocksOf(list[j])
    BY <1>10, <2>5
  <2>6. QED BY <2>1, <2>2, <2>3, <2>4, <2>5
<1>13. \A i \in DoomedExtents' : \A f \in Files : DoomedIn(i)' \cap Owned(f)' = {}
  <2> SUFFICES ASSUME NEW i \in DoomedExtents', NEW f \in Files, NEW b \in DoomedIn(i)', b \in Owned(f)'
               PROVE  FALSE
    OBVIOUS
  <2>1. PICK j \in DOMAIN extents'[f] : b \in BlocksOf(extents'[f][j])
    BY OwnedMembers
  <2>2. j \in DOMAIN extents[f] /\ b \in BlocksOf(extents[f][j])
    BY <1>11, <2>1
  <2>3. i \in DOMAIN extents[file] /\ b \in BlocksOf(extents[file][i]) /\ i >= idx
    BY <1>1, <1>6, <1>8
  <2>4. f = file /\ i = j
    BY <1>1, <2>2, <2>3 DEF AllocInv, NoBlockShared
  <2>5. i = idx /\ left # 0 /\ kept[idx] = cut
    BY <1>1, <1>9, <1>10, <2>1, <2>3, <2>4
  <2>6. b < e.start + left
    BY <1>1, <1>3, <2>1, <2>4, <2>5 DEF BlocksOf, Extent
  <2>7. b >= e.start + left
    BY <1>7, <2>5
  <2>8. QED BY <1>1, <1>3, <1>7, <2>6, <2>7 DEF Extent
<1>14. \A i, j \in DoomedExtents' : i # j => DoomedIn(i)' \cap DoomedIn(j)' = {}
  <2> SUFFICES ASSUME NEW i \in DoomedExtents', NEW j \in DoomedExtents', i # j,
                      NEW b \in DoomedIn(i)', b \in DoomedIn(j)'
               PROVE  FALSE
    OBVIOUS
  <2>1. i \in DOMAIN extents[file] /\ b \in BlocksOf(extents[file][i])
    BY <1>1, <1>6, <1>8
  <2>2. j \in DOMAIN extents[file] /\ b \in BlocksOf(extents[file][j])
    BY <1>1, <1>6, <1>8
  <2>3. QED BY <1>1, <2>1, <2>2 DEF AllocInv, NoBlockShared
<1>15. \A i \in DoomedExtents' : DoomedIn(i)' \cap Reserved = {}
  <2>1. \A i \in DoomedExtents' : \A b \in DoomedIn(i)' : b \in Owned(file)
    BY <1>1, <1>6, <1>8, OwnedMembers
  <2>2. QED BY <1>1, <2>1 DEF AllocInv, NoBlockShared
<1>16. DoomedApart'
  BY <1>13, <1>14, <1>15 DEF DoomedApart
<1>17. NoBlockShared'
  <2>1. \A f \in Files : Owned(f)' \subseteq Owned(f)
    <3> SUFFICES ASSUME NEW f \in Files, NEW b \in Owned(f)' PROVE b \in Owned(f)
      OBVIOUS
    <3>1. PICK i \in DOMAIN extents'[f] : b \in BlocksOf(extents'[f][i])
      BY OwnedMembers
    <3>2. QED BY <1>11, <3>1, OwnedMembers
  <2>2. \A f \in Files : Owned(f)' \cap Reserved = {}
    BY <2>1 DEF AllocInv, NoBlockShared
  <2>3. \A f, g \in Files : \A i \in DOMAIN extents'[f], j \in DOMAIN extents'[g] :
           (f # g \/ i # j) => BlocksOf(extents'[f][i]) \cap BlocksOf(extents'[g][j]) = {}
    <3> SUFFICES ASSUME NEW f \in Files, NEW g \in Files, NEW i \in DOMAIN extents'[f],
                        NEW j \in DOMAIN extents'[g], f # g \/ i # j,
                        NEW b \in BlocksOf(extents'[f][i]), b \in BlocksOf(extents'[g][j])
                 PROVE  FALSE
      OBVIOUS
    <3>1. i \in DOMAIN extents[f] /\ b \in BlocksOf(extents[f][i])
      BY <1>11
    <3>2. j \in DOMAIN extents[g] /\ b \in BlocksOf(extents[g][j])
      BY <1>11
    <3>3. QED BY <3>1, <3>2 DEF AllocInv, NoBlockShared
  <2>4. QED BY <2>2, <2>3 DEF NoBlockShared
<1>18. BitmapExact'
  <2>1. Doomed = {}
    BY <1>6 DEF Doomed
  <2>2. \A b : b \in Doomed' <=> \E i \in DoomedExtents' : b \in DoomedIn(i)'
    BY DEF Doomed
  <2>3. \A f \in Files : f # file => Owned(f)' = Owned(f)
    BY <1>9 DEF Owned
  <2>4. \A b : (\E f \in Files : b \in Owned(f)) <=> (b \in Doomed' \/ \E f \in Files : b \in Owned(f)')
    <3> SUFFICES ASSUME NEW b
                 PROVE  (\E f \in Files : b \in Owned(f)) <=> (b \in Doomed' \/ \E f \in Files : b \in Owned(f)')
      OBVIOUS
    <3>1. PICK g \in Files : g = file
      BY <1>1
    <3>2. b \in Owned(g) <=> b \in Owned(g)' \/ b \in Doomed'
      BY <1>12, <2>2, <3>1
    <3>3. \A f \in Files : f # g => (b \in Owned(f)' <=> b \in Owned(f))
      BY <2>3, <3>1
    <3>4. QED BY <3>2, <3>3
  <2>5. used' = used
    BY DEF ShrinkCut
  <2>6. (UNION {Owned(f) : f \in Files})' = UNION {Owned(f)' : f \in Files}
    OBVIOUS
  <2>7. QED BY <2>1, <2>4, <2>5, <2>6 DEF AllocInv, BitmapExact
<1>19. FreeCountExact'
  BY DEF AllocInv, FreeCountExact, ShrinkCut, header
<1>20. TypeOK'
  BY <1>5, <1>9 DEF AllocInv, TypeOK, ShrinkCut, header, saved, history
<1>21. NoEmptyExtent'
  <2>1. \A f \in Files : \A i \in DOMAIN extents[f] : extents[f][i].count # 0
    BY <1>1 DEF AllocInv, NoEmptyExtent
  <2>2. ASSUME NEW f \in Files, NEW i \in DOMAIN extents'[f]
        PROVE  extents'[f][i].count # 0
    <3>1. CASE f # file
      BY <1>9, <2>1, <3>1
    <3>2. CASE f = file
      <4>1. left # 0 /\ i \in 1 .. idx
        BY <1>9, <2>2, <3>2
      <4>2. CASE i = idx
        BY <1>9, <3>2, <4>1, <4>2
      <4>3. CASE i # idx
        <5>1. i \in 1 .. idx - 1
          BY <1>1, <4>1, <4>3
        <5>2. kept[i] = list[i] /\ i \in DOMAIN extents[file]
          BY <1>1, <1>9, <4>1, <5>1
        <5>3. QED BY <1>1, <2>1, <3>2, <5>2
      <4>4. QED BY <4>2, <4>3
    <3>3. QED BY <3>1, <3>2
  <2>3. QED BY <2>2 DEF NoEmptyExtent
<1>22. GrowCursor' /\ WalkCursor'
  BY <1>1, <1>3, <1>5 DEF GrowCursor, WalkCursor, ShrinkCut, Extent
<1>23. QED
  BY <1>16, <1>17, <1>18, <1>19, <1>20, <1>21, <1>22 DEF AllocInv

\* The block a shrinking call frees was doomed, and doomed once.
LEMMA ShrinkFreeInv == AllocInv /\ ShrinkFree => AllocInv'
<1> SUFFICES ASSUME AllocInv, ShrinkFree PROVE AllocInv'
  OBVIOUS
<1>1. /\ pc = "free" /\ idx \in DOMAIN list /\ cur < list[idx].start + list[idx].count
      /\ list \in Seq(Extent) /\ cur \in Nat /\ cur >= list[idx].start /\ file \in Files
  BY DEF AllocInv, TypeOK, WalkCursor, ShrinkFree
<1>2. list[idx] \in Extent
  BY <1>1
<1>3. cur \in DoomedIn(idx) /\ idx \in DoomedExtents
  <2>1. list[idx].start \in Nat /\ list[idx].count \in Nat
    BY <1>2 DEF Extent
  <2>2. DoomedIn(idx) = cur .. (list[idx].start + list[idx].count - 1)
    BY DEF DoomedIn
  <2>3. idx \in DoomedExtents
    BY <1>1 DEF DoomedExtents
  <2>4. QED BY <1>1, <2>1, <2>2, <2>3
<1>4. /\ cur \notin Reserved
      /\ \A f \in Files : cur \notin Owned(f)
      /\ \A i \in DoomedExtents : i # idx => cur \notin DoomedIn(i)
      /\ cur \in Doomed
  BY <1>3 DEF AllocInv, DoomedApart, Doomed
<1>5. /\ UNCHANGED <<extents, list, idx, pc, file, left, need>>
      /\ cur' = cur + 1 /\ used' = used \ {cur} /\ freeBlocks' = freeBlocks + 1
  BY DEF ShrinkFree, FreeBlock
<1>6. DoomedExtents' = DoomedExtents
  BY <1>5 DEF DoomedExtents
<1>7. \A i \in DoomedExtents : DoomedIn(i)' = DoomedIn(i) \ {cur}
  <2> SUFFICES ASSUME NEW i \in DoomedExtents PROVE DoomedIn(i)' = DoomedIn(i) \ {cur}
    OBVIOUS
  <2>1. CASE i = idx
    <3>1. list[idx].start \in Nat /\ list[idx].count \in Nat
      BY <1>2 DEF Extent
    <3> DEFINE end == list[idx].start + list[idx].count - 1
    <3>2. DoomedIn(i) = cur .. end /\ DoomedIn(i)' = (cur + 1) .. end
      BY <1>5, <2>1 DEF DoomedIn
    <3>3. end \in Int
      BY <3>1
    <3> HIDE DEF end
    <3>4. QED BY <1>1, <3>2, <3>3
  <2>2. CASE i # idx
    <3>1. DoomedIn(i)' = DoomedIn(i)
      BY <1>5, <2>2 DEF DoomedIn
    <3>2. QED BY <1>4, <2>2, <3>1
  <2>3. QED BY <2>1, <2>2
<1>8. \A f \in Files : Owned(f)' = Owned(f)
  BY <1>5 DEF Owned
<1>9. DoomedApart'
  BY <1>6, <1>7, <1>8 DEF AllocInv, DoomedApart
<1>10. NoBlockShared'
  BY <1>5, <1>8 DEF AllocInv, NoBlockShared
<1>11. BitmapExact'
  <2>1. \A b : b \in Doomed <=> \E i \in DoomedExtents : b \in DoomedIn(i)
    BY DEF Doomed
  <2>2. \A b : b \in Doomed' <=> \E i \in DoomedExtents' : b \in DoomedIn(i)'
    BY DEF Doomed
  <2>3. \A b : b \in Doomed' <=> b \in Doomed /\ b # cur
    BY <1>6, <1>7, <2>1, <2>2
  <2>4. \A b : (\E f \in Files : b \in Owned(f)') <=> (\E f \in Files : b \in Owned(f)) /\ b # cur
    BY <1>4, <1>8
  <2>5. (UNION {Owned(f) : f \in Files})' = UNION {Owned(f)' : f \in Files}
    OBVIOUS
  <2>6. QED BY <1>4, <1>5, <2>3, <2>4, <2>5 DEF AllocInv, BitmapExact
<1>12. FreeCountExact'
  <2>1. cur \in used /\ cur \in Blocks
    BY <1>4 DEF AllocInv, BitmapExact, TypeOK
  <2> DEFINE S == Blocks \ used
  <2>2. Blocks \ used' = S \cup {cur} /\ cur \notin S
    BY <1>5, <2>1
  <2>3. IsFiniteSet(S)
    BY BlocksFinite, FS_Difference
  <2>4. freeBlocks = Cardinality(S)
    BY DEF AllocInv, FreeCountExact
  <2> HIDE DEF S
  <2>5. Cardinality(S \cup {cur}) = Cardinality(S) + 1
    BY <2>2, <2>3, FS_AddElement
  <2>6. QED BY <1>5, <2>2, <2>4, <2>5 DEF FreeCountExact
<1>13. TypeOK'
  <2>1. cur' \in Nat /\ freeBlocks' \in Int /\ used' \in SUBSET Blocks
    BY <1>1, <1>5 DEF AllocInv, TypeOK
  <2>2. QED BY <1>5, <2>1 DEF AllocInv, TypeOK, ShrinkFree, saved, history
<1>14. NoEmptyExtent'
  BY <1>1, <1>5 DEF AllocInv, NoEmptyExtent
<1>15. GrowCursor' /\ WalkCursor'
  <2>1. list[idx].start \in Nat
    BY <1>2 DEF Extent
  <2>2. cur + 1 >= list[idx].start
    BY <1>1, <2>1
  <2>3. QED BY <1>1, <1>5, <2>2 DEF GrowCursor, WalkCursor
<1>16. QED
  BY <1>9, <1>10, <1>11, <1>12, <1>13, <1>14, <1>15 DEF AllocInv

\* An extent that is freed to its end leaves the set of doomed ones, which is
\* empty when it was the last.
LEMMA ShrinkNextExtentInv == AllocInv /\ ShrinkNextExtent => AllocInv'
<1> SUFFICES ASSUME AllocInv, ShrinkNextExtent PROVE AllocInv'
  OBVIOUS
<1>1. /\ pc = "free" /\ idx \in DOMAIN list /\ cur >= list[idx].start + list[idx].count
      /\ list \in Seq(Extent) /\ cur \in Nat /\ idx \in Nat /\ file \in Files
  BY DEF AllocInv, TypeOK, WalkCursor, ShrinkNextExtent
<1>2. /\ UNCHANGED <<used, freeBlocks, nextAllocation, extents, list, file, left, need>>
      /\ idx' = idx + 1
  BY DEF ShrinkNextExtent, header
<1>3. \A i \in DOMAIN list : list[i] \in Extent
  BY <1>1
<1>4. DoomedIn(idx) = {}
  <2>1. list[idx].start \in Nat /\ list[idx].count \in Nat
    BY <1>1, <1>3 DEF Extent
  <2>2. DoomedIn(idx) = cur .. (list[idx].start + list[idx].count - 1)
    BY DEF DoomedIn
  <2> DEFINE end == list[idx].start + list[idx].count - 1
  <2>3. end \in Int /\ end < cur
    BY <1>1, <2>1
  <2> HIDE DEF end
  <2>4. cur .. end = {}
    BY <1>1, <2>3
  <2>5. QED BY <2>2, <2>4 DEF end
<1>5. DoomedExtents = {i \in DOMAIN list : i >= idx}
  BY <1>1 DEF DoomedExtents
<1>6. \A i : i \in DoomedExtents' <=> i \in DoomedExtents /\ i # idx
  <2>1. DOMAIN list = 1 .. Len(list) /\ Len(list) \in Nat
    BY <1>1
  <2>2. CASE idx + 1 \in DOMAIN list
    <3>1. pc' = "free"
      BY <1>1, <2>2 DEF ShrinkNextExtent
    <3>2. DoomedExtents' = {i \in DOMAIN list : i >= idx + 1}
      BY <1>2, <3>1 DEF DoomedExtents
    <3>3. QED BY <1>1, <1>5, <2>1, <3>2
  <2>3. CASE idx + 1 \notin DOMAIN list
    <3>1. pc' = "write"
      BY <1>1, <2>3 DEF ShrinkNextExtent
    <3>2. DoomedExtents' = {}
      BY <3>1 DEF DoomedExtents
    <3>3. QED BY <1>1, <1>5, <2>1, <2>3, <3>2
  <2>4. QED BY <2>2, <2>3
<1>7. \A i \in DoomedExtents' : DoomedIn(i)' = DoomedIn(i)
  <2> SUFFICES ASSUME NEW i \in DoomedExtents' PROVE DoomedIn(i)' = DoomedIn(i)
    OBVIOUS
  <2>1. i # idx
    BY <1>6
  <2>2. DoomedIn(i) = list[i].start .. (list[i].start + list[i].count - 1)
    BY <2>1 DEF DoomedIn
  <2>3. CASE i = idx + 1
    <3>1. i \in DOMAIN list
      BY <1>5, <1>6
    <3>2. cur' = list[i].start
      BY <2>3, <3>1 DEF ShrinkNextExtent
    <3>3. QED BY <1>2, <2>2, <2>3, <3>2 DEF DoomedIn
  <2>4. CASE i # idx + 1
    BY <1>2, <2>2, <2>4 DEF DoomedIn
  <2>5. QED BY <2>3, <2>4
<1>8. \A f \in Files : Owned(f)' = Owned(f)
  BY <1>2 DEF Owned
<1>9. DoomedApart'
  BY <1>6, <1>7, <1>8 DEF AllocInv, DoomedApart
<1>10. NoBlockShared' /\ FreeCountExact'
  BY <1>2, <1>8 DEF AllocInv, NoBlockShared, FreeCountExact
<1>11. BitmapExact'
  <2>1. \A b : b \in Doomed <=> \E i \in DoomedExtents : b \in DoomedIn(i)
    BY DEF Doomed
  <2>2. \A b : b \in Doomed' <=> \E i \in DoomedExtents' : b \in DoomedIn(i)'
    BY DEF Doomed
  <2>3. \A b : b \in Doomed' <=> b \in Doomed
    BY <1>4, <1>6, <1>7, <2>1, <2>2
  <2>4. QED BY <1>2, <1>8, <2>3 DEF AllocInv, BitmapExact
<1>12. TypeOK'
  <2>1. cur' \in Nat /\ idx' \in Nat \ {0}
    <3>1. CASE idx + 1 \in DOMAIN list
      <4>1. list[idx + 1] \in Extent /\ cur' = list[idx + 1].start /\ idx' = idx + 1
        BY <1>1, <3>1 DEF ShrinkNextExtent
      <4>2. list[idx + 1].start \in Nat
        BY <4>1 DEF Extent
      <4>3. QED BY <1>1, <4>1, <4>2
    <3>2. CASE idx + 1 \notin DOMAIN list
      BY <1>1, <1>2, <3>2 DEF ShrinkNextExtent
    <3>3. QED BY <3>1, <3>2
  <2>2. pc' \in {"free", "write"}
    BY <1>1 DEF ShrinkNextExtent
  <2>3. UNCHANGED <<fork, overflow, saved, history>>
    BY DEF ShrinkNextExtent
  <2>4. QED BY <1>2, <2>1, <2>2, <2>3 DEF AllocInv, TypeOK, saved, history
<1>13. NoEmptyExtent'
  BY <1>1, <1>2 DEF AllocInv, NoEmptyExtent
<1>14. GrowCursor' /\ WalkCursor'
  <2>1. pc' \in {"free", "write"}
    BY <1>1 DEF ShrinkNextExtent
  <2>2. pc' = "free" => idx' \in DOMAIN list' /\ cur' = list'[idx'].start
    BY <1>1, <1>2 DEF ShrinkNextExtent
  <2>3. pc' = "free" => list'[idx'] \in Extent
    BY <1>2, <1>3, <2>2
  <2>4. pc' = "free" => cur' >= list'[idx'].start
    BY <2>2, <2>3 DEF Extent
  <2>5. QED BY <2>1, <2>2, <2>4 DEF GrowCursor, WalkCursor
<1>15. QED
  BY <1>9, <1>10, <1>11, <1>12, <1>13, <1>14 DEF AllocInv

-----------------------------------------------------------------------------
(* The invariant of allocate() *)

\* The invariant speaks of the variables alone.
LEMMA StutterInv == AllocInv /\ UNCHANGED vars => AllocInv'
<1> SUFFICES ASSUME AllocInv, UNCHANGED vars PROVE AllocInv'
  OBVIOUS
<1>1. /\ UNCHANGED <<used, freeBlocks, nextAllocation, extents, fork, overflow, pc, file, need>>
      /\ UNCHANGED <<left, cur, list, idx, savedHeader, savedFork, crashes, torn>>
  BY DEF vars, header, saved, locals, history
<1>2. TypeOK'
  BY <1>1 DEF AllocInv, TypeOK
<1>3. \A f \in Files : Owned(f)' = Owned(f)
  BY <1>1 DEF Owned
<1>4. DoomedExtents' = DoomedExtents /\ \A i \in DoomedExtents : DoomedIn(i)' = DoomedIn(i)
  BY <1>1 DEF DoomedExtents, DoomedIn
<1>5. Doomed' = Doomed
  BY <1>4 DEF Doomed
<1>6. FreeCountExact' /\ NoBlockShared' /\ BitmapExact' /\ DoomedApart'
  BY <1>1, <1>3, <1>4, <1>5 DEF AllocInv, FreeCountExact, NoBlockShared, BitmapExact, DoomedApart
<1>7. NoEmptyExtent' /\ GrowCursor' /\ WalkCursor'
  BY <1>1 DEF AllocInv, NoEmptyExtent, GrowCursor, WalkCursor, LastExtent
<1>8. QED BY <1>2, <1>6, <1>7 DEF AllocInv

\* Every step of allocate(), and every call of it, keeps the invariant.
LEMMA NextInv == AllocInv /\ [Next]_vars => AllocInv'
<1> SUFFICES ASSUME AllocInv, [Next]_vars PROVE AllocInv'
  OBVIOUS
<1>1. ASSUME NEW f \in Files, NEW n \in 0 .. MaxFileBlocks, AllocateGrow(f, n)
      PROVE  AllocInv'
  BY <1>1, GrowStartInv
<1>2. ASSUME NEW f \in Files, NEW n \in 0 .. MaxFileBlocks, AllocateShrink(f, n)
      PROVE  AllocInv'
  BY <1>2, ShrinkStartInv
<1>3. ASSUME NEW f \in Files, AllocateSame(f)
      PROVE  AllocInv'
  BY <1>3, SameInv
<1>4. CASE GrowSkip
  BY <1>4, GrowSkipInv
<1>5. CASE GrowTake
  BY <1>5, GrowTakeInv
<1>6. CASE GrowDone
  BY <1>6, GrowDoneInv
<1>7. CASE ShrinkWalk
  BY <1>7, ShrinkWalkInv
<1>8. CASE ShrinkCut
  BY <1>8, ShrinkCutInv
<1>9. CASE ShrinkFree
  BY <1>9, ShrinkFreeInv
<1>10. CASE ShrinkNextExtent
  BY <1>10, ShrinkNextExtentInv
<1>11. CASE WriteExtents
  BY <1>11, WriteExtentsInv
<1>12. CASE UpdateVolume \/ UpdateCatalog
  BY <1>12, UpdateInv
<1>13. CASE UNCHANGED vars
  BY <1>13, StutterInv
<1>14. QED
  BY <1>1, <1>2, <1>3, <1>4, <1>5, <1>6, <1>7, <1>8, <1>9, <1>10, <1>11, <1>12, <1>13
     DEF Next, Call, Step

\* The inductive invariant of allocate() holds in every reachable state, for
\* every volume, every set of open forks and every descriptor density.
THEOREM AllocSafe == Spec => []AllocInv
<1>1. QED BY InitInv, NextInv, PTL DEF Spec

\* volumeHeader->freeBlocks counts the clear bits of the bitmap after every
\* single block that allocate() takes or frees.
THEOREM FreeCountExactAlways == Spec => []FreeCountExact
<1>1. AllocInv => FreeCountExact
  BY DEF AllocInv
<1>2. QED BY <1>1, AllocSafe, PTL

\* allocate() never gives a block to two extents, nor one of the volume's own
\* blocks to a fork.
THEOREM NoBlockSharedAlways == Spec => []NoBlockShared
<1>1. AllocInv => NoBlockShared
  BY DEF AllocInv
<1>2. QED BY <1>1, AllocSafe, PTL

\* allocate() never leaks a block and never clears the bit of one in use.
THEOREM BitmapExactAlways == Spec => []BitmapExact
<1>1. AllocInv => BitmapExact
  BY DEF AllocInv
<1>2. QED BY <1>1, AllocSafe, PTL

-----------------------------------------------------------------------------
(* Bytes and blocks *)

\* A product with the block size.
LEMMA Bytewise ==
  /\ BlockSize \in Nat /\ BlockSize >= 1
  /\ \A m \in Nat : m * BlockSize \in Nat /\ m * BlockSize >= m
  /\ \A m, n \in Nat : m <= n => m * BlockSize <= n * BlockSize
  /\ \A m, n \in Nat : (m + n) * BlockSize = m * BlockSize + n * BlockSize
  /\ \A m, n \in Nat : m < n => m * BlockSize + BlockSize <= n * BlockSize
<1>1. BlockSize \in Nat /\ BlockSize >= 1
  BY DataAssumption
<1>2. \A m \in Nat : m * BlockSize \in Nat /\ m * BlockSize >= m
  BY <1>1
<1>3. \A m, n \in Nat : (m + n) * BlockSize = m * BlockSize + n * BlockSize
  BY <1>1
<1>4. \A m, n \in Nat : m <= n => m * BlockSize <= n * BlockSize
  <2> SUFFICES ASSUME NEW m \in Nat, NEW n \in Nat, m <= n PROVE m * BlockSize <= n * BlockSize
    OBVIOUS
  <2>1. n - m \in Nat /\ n = m + (n - m)
    OBVIOUS
  <2>2. n * BlockSize = m * BlockSize + (n - m) * BlockSize
    BY <1>3, <2>1
  <2>3. QED BY <1>2, <2>1, <2>2
<1>5. \A m, n \in Nat : m < n => m * BlockSize + BlockSize <= n * BlockSize
  <2> SUFFICES ASSUME NEW m \in Nat, NEW n \in Nat, m < n PROVE m * BlockSize + BlockSize <= n * BlockSize
    OBVIOUS
  <2>1. m + 1 \in Nat /\ m + 1 <= n /\ 1 \in Nat /\ 1 * BlockSize = BlockSize
    BY <1>1
  <2>2. (m + 1) * BlockSize <= n * BlockSize
    BY <1>4, <2>1
  <2>3. (m + 1) * BlockSize = m * BlockSize + 1 * BlockSize
    BY <1>3
  <2>4. QED BY <2>1, <2>2, <2>3
<1>6. QED BY <1>1, <1>2, <1>3, <1>4, <1>5

\* The number of blocks a size needs is the least that holds it.
LEMMA Needed ==
  ASSUME NEW n \in Nat
  PROVE  /\ BlocksNeeded(n) \in Nat
         /\ n <= BlocksNeeded(n) * BlockSize
         /\ \A m \in Nat : n <= m * BlockSize => BlocksNeeded(n) <= m
         /\ Store!RoundUp(n) = BlocksNeeded(n) * BlockSize
<1> DEFINE q == n \div BlockSize
           r == n % BlockSize
           u == (n + BlockSize - 1) \div BlockSize
<1>1. q \in Nat /\ r \in 0 .. BlockSize - 1 /\ n = q * BlockSize + r
  BY DataAssumption
<1>2. \E s \in 0 .. BlockSize - 1 : u \in Nat /\ n + BlockSize - 1 = u * BlockSize + s
  <2>1. n + BlockSize - 1 \in Nat
    BY Bytewise
  <2>2. \A x \in Nat : x \div BlockSize \in Nat /\ x % BlockSize \in 0 .. BlockSize - 1
                        /\ x = (x \div BlockSize) * BlockSize + (x % BlockSize)
    BY DataAssumption
  <2>3. QED BY <2>1, <2>2
<1>3. BlocksNeeded(n) = IF r = 0 THEN q ELSE q + 1
  BY <1>1 DEF BlocksNeeded
<1>4. Store!RoundUp(n) = u * BlockSize
  BY DEF Store!RoundUp
<1> HIDE DEF q, r, u
<1>5. q * BlockSize \in Nat /\ (q + 1) * BlockSize = q * BlockSize + BlockSize
  <2>1. 1 \in Nat /\ 1 * BlockSize = BlockSize
    BY Bytewise
  <2>2. QED BY <1>1, <2>1, Bytewise
<1> DEFINE b == BlocksNeeded(n)
<1>6. b \in Nat /\ n <= b * BlockSize
  BY <1>1, <1>3, <1>5, Bytewise
<1>7. \A m \in Nat : n <= m * BlockSize => b <= m
  <2> SUFFICES ASSUME NEW m \in Nat, n <= m * BlockSize, m < b PROVE FALSE
    BY <1>6
  <2>1. m * BlockSize \in Nat
    BY Bytewise
  <2>2. m <= q
    BY <1>1, <1>3
  <2>3. m * BlockSize <= q * BlockSize
    BY <1>1, <2>2, Bytewise
  <2>4. r = 0 /\ n = q * BlockSize /\ m * BlockSize = q * BlockSize
    BY <1>1, <1>5, <2>1, <2>3
  <2>5. m < q
    BY <1>3, <2>4
  <2>6. m * BlockSize + BlockSize <= q * BlockSize
    BY <1>1, <2>5, Bytewise
  <2>7. QED BY <1>5, <2>1, <2>4, <2>6, Bytewise
<1>8. u = b
  <2>1. PICK s \in 0 .. BlockSize - 1 : u \in Nat /\ n + BlockSize - 1 = u * BlockSize + s
    BY <1>2
  <2>2. u * BlockSize \in Nat /\ b * BlockSize \in Nat
    BY <1>6, <2>1, Bytewise
  <2>3. n <= u * BlockSize
    BY <2>1, <2>2, Bytewise
  <2>4. b <= u
    BY <1>7, <2>1, <2>3
  <2>5. ~(b < u)
    <3> SUFFICES ASSUME b < u PROVE FALSE
      OBVIOUS
    <3>1. b * BlockSize + BlockSize <= u * BlockSize
      BY <1>6, <2>1, Bytewise
    <3>2. QED BY <1>6, <2>1, <2>2, <3>1, Bytewise
  <2>6. QED BY <1>6, <2>1, <2>4, <2>5
<1>9. QED BY <1>4, <1>6, <1>7, <1>8

-----------------------------------------------------------------------------
(* Where the bytes of a list of extents are *)

\* The bytes in front of the k-th extent.
Before(exts, k) == BlockSum(SubSeq(exts, 1, k - 1)) * BlockSize

\* The walk along the list stops at the k-th extent, or behind the last one.
Stops(exts, k, p) ==
    /\ k \in 1 .. Len(exts) + 1
    /\ Before(exts, k) <= p
    /\ k <= Len(exts) => p < Before(exts, k + 1)

\* The k-th extent holds the byte.
Holds(exts, k, p) == k \in DOMAIN exts /\ Before(exts, k) <= p /\ p < Before(exts, k + 1)

\* Where on the image it is.
Address(exts, p) ==
    LET k == CHOOSE j \in DOMAIN exts : Holds(exts, j, p)
    IN  exts[k].start * BlockSize + (p - Before(exts, k))

\* The extents of a list follow each other without a gap.
LEMMA BeforeFacts ==
  ASSUME NEW exts \in Seq(Extent)
  PROVE  /\ Len(exts) \in Nat /\ DOMAIN exts = 1 .. Len(exts)
         /\ \A k \in 1 .. Len(exts) + 1 : Before(exts, k) \in Nat
         /\ Before(exts, 1) = 0
         /\ Before(exts, Len(exts) + 1) = BlockSum(exts) * BlockSize
         /\ \A k \in 1 .. Len(exts) :
               /\ exts[k] \in Extent /\ exts[k].start \in Nat /\ exts[k].count \in Nat
               /\ exts[k].start * BlockSize \in Nat /\ exts[k].count * BlockSize \in Nat
               /\ Before(exts, k + 1) = Before(exts, k) + exts[k].count * BlockSize
         /\ \A j, k \in 1 .. Len(exts) + 1 : j <= k => Before(exts, j) <= Before(exts, k)
<1>1. Len(exts) \in Nat /\ DOMAIN exts = 1 .. Len(exts)
  OBVIOUS
<1>2. ASSUME NEW k \in 1 .. Len(exts) + 1
      PROVE  BlockSum(SubSeq(exts, 1, k - 1)) \in Nat
  <2>1. k - 1 \in 0 .. Len(exts)
    BY <1>1
  <2>2. SubSeq(exts, 1, k - 1) \in Seq(Extent)
    BY <2>1, PrefixType
  <2>3. QED BY <2>2, SumType
<1>3. \A k \in 1 .. Len(exts) + 1 : Before(exts, k) \in Nat
  BY <1>2, Bytewise DEF Before
<1>4. Before(exts, 1) = 0
  <2>1. SubSeq(exts, 1, 1 - 1) = <<>>
    <3>1. 1 - 1 \in 0 .. Len(exts) /\ 1 - 1 = 0
      BY <1>1
    <3>2. SubSeq(exts, 1, 1 - 1) \in Seq(Extent) /\ Len(SubSeq(exts, 1, 1 - 1)) = 0
      BY <3>1, PrefixType
    <3>3. QED BY <3>2
  <2>2. 0 * BlockSize = 0
    BY Bytewise
  <2>3. QED BY <2>1, <2>2, SumEmpty DEF Before
<1>5. Before(exts, Len(exts) + 1) = BlockSum(exts) * BlockSize
  <2>1. (Len(exts) + 1) - 1 = Len(exts) /\ SubSeq(exts, 1, Len(exts)) = exts
    BY <1>1, SubSeqFull
  <2>2. QED BY <2>1 DEF Before
<1>6. ASSUME NEW k \in 1 .. Len(exts)
      PROVE  /\ exts[k] \in Extent /\ exts[k].start \in Nat /\ exts[k].count \in Nat
             /\ exts[k].start * BlockSize \in Nat /\ exts[k].count * BlockSize \in Nat
             /\ Before(exts, k + 1) = Before(exts, k) + exts[k].count * BlockSize
  <2>1. exts[k] \in Extent /\ exts[k].start \in Nat /\ exts[k].count \in Nat
    <3>1. exts[k] \in Extent
      OBVIOUS
    <3>2. QED BY <3>1 DEF Extent
  <2>2. BlockSum(SubSeq(exts, 1, k)) = BlockSum(SubSeq(exts, 1, k - 1)) + exts[k].count
    BY SumPrefix
  <2>3. (k + 1) - 1 = k /\ k \in 1 .. Len(exts) + 1
    BY <1>1
  <2>4. exts[k].start * BlockSize \in Nat /\ exts[k].count * BlockSize \in Nat
    BY <2>1, Bytewise
  <2> DEFINE a == BlockSum(SubSeq(exts, 1, k - 1))
             b == exts[k].count
  <2>5. a \in Nat /\ b \in Nat /\ BlockSum(SubSeq(exts, 1, k)) = a + b
    BY <1>2, <2>1, <2>2, <2>3
  <2>6. Before(exts, k) = a * BlockSize /\ Before(exts, k + 1) = BlockSum(SubSeq(exts, 1, k)) * BlockSize
    BY <2>3 DEF Before
  <2> HIDE DEF a, b
  <2>7. (a + b) * BlockSize = a * BlockSize + b * BlockSize
    BY <2>5, Bytewise
  <2>8. Before(exts, k + 1) = Before(exts, k) + exts[k].count * BlockSize
    BY <2>5, <2>6, <2>7 DEF b
  <2>9. QED BY <2>1, <2>4, <2>8
<1>7. ASSUME NEW j \in 1 .. Len(exts) + 1, NEW k \in 1 .. Len(exts) + 1, j <= k
      PROVE  Before(exts, j) <= Before(exts, k)
  <2> DEFINE P == {d \in Nat : j + d <= Len(exts) + 1 => Before(exts, j) <= Before(exts, j + d)}
  <2>1. 0 \in P
    BY <1>3
  <2>2. \A d \in P : d + 1 \in P
    <3> SUFFICES ASSUME NEW d \in P, j + (d + 1) <= Len(exts) + 1
                 PROVE  Before(exts, j) <= Before(exts, j + (d + 1))
      OBVIOUS
    <3> DEFINE m == j + d
    <3>1. m \in 1 .. Len(exts) /\ m \in 1 .. Len(exts) + 1 /\ m + 1 \in 1 .. Len(exts) + 1
          /\ m + 1 = j + (d + 1) /\ Before(exts, j) <= Before(exts, m)
      BY <1>1
    <3> HIDE DEF m
    <3>2. Before(exts, m + 1) = Before(exts, m) + exts[m].count * BlockSize /\ exts[m].count * BlockSize \in Nat
      BY <1>6, <3>1
    <3>3. Before(exts, j) \in Nat /\ Before(exts, m) \in Nat
      BY <1>3, <3>1
    <3>4. QED BY <3>1, <3>2, <3>3
  <2>3. P = Nat
    <3> HIDE DEF P
    <3> QED BY <2>1, <2>2, SetInduction DEF P
  <2>4. k - j \in P /\ j + (k - j) = k
    <3>1. k - j \in Nat /\ j + (k - j) = k
      BY <1>1, <1>7
    <3> HIDE DEF P
    <3>2. QED BY <2>3, <3>1
  <2>5. QED BY <1>1, <2>4
<1>8. QED BY <1>1, <1>3, <1>4, <1>5, <1>6, <1>7

\* Every walk stops somewhere.
LEMMA StopsSomewhere ==
  ASSUME NEW exts \in Seq(Extent), NEW p \in Nat
  PROVE  \E k \in 1 .. Len(exts) + 1 : Stops(exts, k, p)
<1> DEFINE T == {k \in 1 .. Len(exts) : p < Before(exts, k + 1)}
<1>1. Len(exts) \in Nat
  OBVIOUS
<1>2. CASE T = {}
  <2> DEFINE k == Len(exts) + 1
  <2>1. k \in 1 .. Len(exts) + 1 /\ ~(k <= Len(exts))
    BY <1>1
  <2>2. Before(exts, k) <= p
    <3>1. CASE Len(exts) = 0
      <4>1. k = 1
        BY <3>1
      <4>2. Before(exts, 1) = 0
        BY BeforeFacts
      <4>3. QED BY <4>1, <4>2
    <3>2. CASE Len(exts) # 0
      <4>1. Len(exts) \in 1 .. Len(exts)
        BY <1>1, <3>2
      <4>2. Before(exts, k) \in Nat
        BY <2>1, BeforeFacts
      <4>3. QED BY <1>2, <4>1, <4>2
    <3>3. QED BY <3>1, <3>2
  <2> HIDE DEF k
  <2>3. QED BY <2>1, <2>2 DEF Stops
<1>3. CASE T # {}
  <2>1. T \in SUBSET Nat
    BY <1>1
  <2>2. PICK k \in T : \A m \in T : k <= m
    <3> HIDE DEF T
    <3> QED BY <1>3, <2>1, LeastNumber
  <2>3. k \in 1 .. Len(exts) + 1 /\ k \in 1 .. Len(exts) /\ p < Before(exts, k + 1)
    BY <1>1
  <2>4. Before(exts, k) <= p
    <3>1. CASE k = 1
      BY <3>1, BeforeFacts
    <3>2. CASE k # 1
      <4> DEFINE j == k - 1
      <4>1. j \in 1 .. Len(exts) /\ j + 1 = k /\ j < k
        BY <1>1, <2>3, <3>2
      <4> HIDE DEF j
      <4>2. j \notin T
        BY <1>1, <2>2, <2>3, <4>1
      <4>3. ~(p < Before(exts, j + 1))
        BY <4>1, <4>2
      <4>4. Before(exts, k) \in Nat
        BY <2>3, BeforeFacts
      <4>5. QED BY <4>1, <4>3, <4>4
    <3>3. QED BY <3>1, <3>2
  <2>5. QED BY <2>3, <2>4 DEF Stops
<1>4. QED BY <1>2, <1>3

\* A byte in front of the end of the list is held by an extent.
LEMMA Held ==
  ASSUME NEW exts \in Seq(Extent), NEW p \in Nat, p < BlockSum(exts) * BlockSize
  PROVE  \E k \in 1 .. Len(exts) : Holds(exts, k, p)
<1>1. PICK k \in 1 .. Len(exts) + 1 : Stops(exts, k, p)
  BY StopsSomewhere
<1>2. Len(exts) \in Nat /\ DOMAIN exts = 1 .. Len(exts)
      /\ Before(exts, Len(exts) + 1) = BlockSum(exts) * BlockSize
      /\ Before(exts, Len(exts) + 1) \in Nat
  BY BeforeFacts
<1>3. k # Len(exts) + 1
  BY <1>1, <1>2 DEF Stops
<1>4. k \in 1 .. Len(exts) /\ k <= Len(exts)
  BY <1>2, <1>3
<1>5. QED BY <1>1, <1>2, <1>4 DEF Stops, Holds

\* It is held by one extent only, so its address is there.
LEMMA AddressOf ==
  ASSUME NEW exts \in Seq(Extent), NEW p \in Nat, NEW k \in 1 .. Len(exts), Holds(exts, k, p)
  PROVE  /\ Address(exts, p) = exts[k].start * BlockSize + (p - Before(exts, k))
         /\ p - Before(exts, k) \in 0 .. exts[k].count * BlockSize - 1
<1>1. /\ Len(exts) \in Nat /\ DOMAIN exts = 1 .. Len(exts)
      /\ \A i \in 1 .. Len(exts) + 1 : Before(exts, i) \in Nat
      /\ \A i, j \in 1 .. Len(exts) + 1 : i <= j => Before(exts, i) <= Before(exts, j)
      /\ Before(exts, k + 1) = Before(exts, k) + exts[k].count * BlockSize
      /\ exts[k].count * BlockSize \in Nat
  BY BeforeFacts
<1>2. ASSUME NEW j \in DOMAIN exts, Holds(exts, j, p) PROVE j = k
  <2>1. j \in 1 .. Len(exts) /\ j \in 1 .. Len(exts) + 1 /\ j + 1 \in 1 .. Len(exts) + 1
        /\ k \in 1 .. Len(exts) + 1 /\ k + 1 \in 1 .. Len(exts) + 1
    BY <1>1
  <2>2. ~(j < k)
    <3> SUFFICES ASSUME j < k PROVE FALSE
      OBVIOUS
    <3>1. Before(exts, j + 1) <= Before(exts, k)
      <4>1. j + 1 <= k
        BY <1>1, <2>1
      <4>2. QED BY <1>1, <2>1, <4>1
    <3>2. Before(exts, k) \in Nat /\ Before(exts, j + 1) \in Nat
      BY <1>1, <2>1
    <3>3. QED BY <1>2, <3>1, <3>2 DEF Holds
  <2>3. ~(k < j)
    <3> SUFFICES ASSUME k < j PROVE FALSE
      OBVIOUS
    <3>1. Before(exts, k + 1) <= Before(exts, j)
      <4>1. k + 1 <= j
        BY <1>1, <2>1
      <4>2. QED BY <1>1, <2>1, <4>1
    <3>2. Before(exts, j) \in Nat /\ Before(exts, k + 1) \in Nat
      BY <1>1, <2>1
    <3>3. QED BY <1>2, <3>1, <3>2 DEF Holds
  <2>4. QED BY <2>1, <2>2, <2>3
<1> DEFINE c == CHOOSE j \in DOMAIN exts : Holds(exts, j, p)
<1>3. c \in DOMAIN exts /\ Holds(exts, c, p)
  BY <1>1
<1>4. c = k
  <2> HIDE DEF c
  <2> QED BY <1>2, <1>3
<1>5. Address(exts, p) = exts[k].start * BlockSize + (p - Before(exts, k))
  BY <1>4 DEF Address
<1>6. p - Before(exts, k) \in 0 .. exts[k].count * BlockSize - 1
  <2>1. k \in 1 .. Len(exts) + 1
    BY <1>1
  <2>2. Before(exts, k) \in Nat
    BY <1>1, <2>1
  <2>3. Before(exts, k) <= p /\ p < Before(exts, k) + exts[k].count * BlockSize
    BY <1>1 DEF Holds
  <2>4. QED BY <1>1, <2>2, <2>3
<1>7. QED BY <1>5, <1>6

-----------------------------------------------------------------------------
(* rawFileRead *)

\* The loop in front of a read or a write finds the extent.
LEMMA LocateStops ==
  ASSUME NEW exts \in Seq(Extent), NEW p \in Nat, NEW k \in 1 .. Len(exts) + 1, Stops(exts, k, p)
  PROVE  Locate(exts, p) = [ext |-> k, in |-> p - Before(exts, k)]
<1> DEFINE last == Len(exts)
           start == [ext |-> 1, in |-> p]
           At(n) == [ext |-> n, in |-> p - Before(exts, n)]
           After(n, at) == IF at.ext = n /\ exts[n].count * BlockSize <= at.in
                           THEN [ext |-> n + 1, in |-> at.in - exts[n].count * BlockSize]
                           ELSE at
           IsSkip(s) == s = [n \in 0 .. last |-> IF n = 0 THEN start ELSE After(n, s[n - 1])]
           skip == CHOOSE s : IsSkip(s)
           Place(n) == IF n + 1 <= k THEN At(n + 1) ELSE At(k)
           way == [n \in 0 .. last |-> Place(n)]
<1>1. Locate(exts, p) = skip[last]
  BY DEF Locate
<1>2. /\ last \in Nat /\ k <= last + 1
      /\ \A n \in 1 .. last + 1 : Before(exts, n) \in Nat
      /\ \A i, j \in 1 .. last + 1 : i <= j => Before(exts, i) <= Before(exts, j)
      /\ \A n \in 1 .. last : /\ exts[n].count * BlockSize \in Nat
                              /\ Before(exts, n + 1) = Before(exts, n) + exts[n].count * BlockSize
      /\ Before(exts, 1) = 0
  BY BeforeFacts
<1>3. \A n : At(n).ext = n /\ At(n).in = p - Before(exts, n)
  OBVIOUS
<1>4. At(1) = start
  BY <1>2
<1>5. ASSUME NEW n \in 1 .. last, n < k PROVE After(n, At(n)) = At(n + 1)
  <2> DEFINE a == Before(exts, n)
             b == Before(exts, n + 1)
             c == Before(exts, k)
             e == exts[n].count * BlockSize
  <2>1. n \in 1 .. last + 1 /\ n + 1 \in 1 .. last + 1 /\ n + 1 <= k
    BY <1>2, <1>5
  <2>2. a \in Nat /\ b \in Nat /\ c \in Nat /\ e \in Nat /\ b = a + e /\ b <= c
    BY <1>2, <2>1
  <2>3. c <= p
    BY DEF Stops
  <2> HIDE DEF a, b, c, e
  <2>4. e <= p - a /\ p - a - e = p - b
    BY ONLY <2>2, <2>3, p \in Nat
  <2>5. At(n).ext = n /\ At(n).in = p - a /\ At(n + 1) = [ext |-> n + 1, in |-> p - b]
    BY DEF a, b
  <2> HIDE DEF At
  <2>6. After(n, At(n)) = [ext |-> n + 1, in |-> p - a - e]
    BY <2>4, <2>5 DEF e
  <2>7. QED BY <2>4, <2>5, <2>6
<1>6. ASSUME NEW n \in 1 .. last, k <= n PROVE After(n, At(k)) = At(k)
  <2>1. CASE n = k
    <3>1. p < Before(exts, k + 1) /\ k \in 1 .. last
      BY <1>2, <2>1 DEF Stops
    <3>2. Before(exts, k) \in Nat
      BY <1>2
    <3>3. ~(exts[k].count * BlockSize <= p - Before(exts, k))
      BY <1>2, <3>1, <3>2
    <3> HIDE DEF At
    <3>4. QED BY <1>3, <2>1, <3>3
  <2>2. CASE n # k
    <3> HIDE DEF At
    <3>1. QED BY <1>3, <2>2
  <2>3. QED BY <2>1, <2>2
<1> HIDE DEF At, After, start
<1>7. IsSkip(way)
  <2>1. ASSUME NEW n \in 0 .. last PROVE way[n] = IF n = 0 THEN start ELSE After(n, way[n - 1])
    <3>1. CASE n = 0
      <4>1. n + 1 <= k /\ n + 1 = 1
        BY <3>1
      <4>2. QED BY <1>4, <3>1, <4>1
    <3>2. CASE n # 0
      <4>1. n - 1 \in 0 .. last /\ (n - 1) + 1 = n /\ n \in 1 .. last
        BY <1>2, <3>2
      <4>2. way[n - 1] = IF n <= k THEN At(n) ELSE At(k)
        BY <4>1
      <4>3. CASE n < k
        <5>1. n + 1 <= k /\ n <= k
          BY <4>3
        <5>2. way[n] = At(n + 1) /\ way[n - 1] = At(n)
          BY <4>2, <5>1
        <5>3. QED BY <1>5, <3>2, <4>1, <4>3, <5>2
      <4>4. CASE ~(n < k)
        <5>1. k <= n /\ ~(n + 1 <= k)
          BY <4>4
        <5>2. way[n] = At(k)
          BY <5>1
        <5>3. way[n - 1] = At(k)
          <6>1. CASE n = k
            BY <4>2, <6>1
          <6>2. CASE n # k
            <7>1. ~(n <= k)
              BY <5>1, <6>2
            <7>2. QED BY <4>2, <7>1
          <6>3. QED BY <6>1, <6>2
        <5>4. QED BY <1>6, <3>2, <4>1, <5>1, <5>2, <5>3
      <4>5. QED BY <4>3, <4>4
    <3>3. QED BY <3>1, <3>2
  <2>2. way \in [0 .. last -> {Place(n) : n \in 0 .. last}]
    <3> HIDE DEF Place
    <3> QED OBVIOUS
  <2> HIDE DEF way
  <2>3. QED BY <2>1, <2>2
<1>8. IsSkip(skip)
  <2> HIDE DEF IsSkip, way
  <2> QED BY <1>7
<1> HIDE DEF skip
<1> DEFINE P == {n \in Nat : n <= last => skip[n] = way[n]}
<1>9. 0 \in P
  <2>1. 0 \in 0 .. last
    BY <1>2
  <2> HIDE DEF way
  <2>2. QED BY <1>7, <1>8, <2>1
<1> HIDE DEF way
<1>10. ASSUME NEW n \in Nat, n <= last => skip[n] = way[n], n + 1 <= last
       PROVE  skip[n + 1] = way[n + 1]
  <2>1. n + 1 \in 0 .. last /\ n + 1 # 0 /\ (n + 1) - 1 = n /\ skip[n] = way[n]
    BY <1>2, <1>10
  <2>2. skip[n + 1] = After(n + 1, skip[n])
    BY <1>8, <2>1
  <2>3. way[n + 1] = After(n + 1, way[n])
    BY <1>7, <2>1
  <2>4. QED BY <2>1, <2>2, <2>3
<1>11. P = Nat
  <2>1. \A n \in P : n + 1 \in P
    <3> SUFFICES ASSUME NEW n \in P PROVE n + 1 \in Nat /\ (n + 1 <= last => skip[n + 1] = way[n + 1])
      OBVIOUS
    <3>1. n \in Nat /\ (n <= last => skip[n] = way[n])
      OBVIOUS
    <3> HIDE DEF P
    <3>2. QED BY <1>10, <3>1
  <2>2. P \subseteq Nat
    OBVIOUS
  <2> HIDE DEF P
  <2>3. QED BY <1>9, <2>1, <2>2, SetInduction
<1>12. skip[last] = way[last]
  BY <1>2, <1>11
<1>13. way[last] = At(k)
  <2>1. last \in 0 .. last /\ (last + 1 <= k => last + 1 = k)
    BY <1>2
  <2>2. QED BY <2>1 DEF way
<1>14. QED BY <1>1, <1>12, <1>13 DEF At

\* Two neighbouring pieces of a sequence make one.
LEMMA Pieces ==
  ASSUME NEW S, NEW n \in Nat, NEW v \in [1 .. n -> S], NEW c \in Nat, NEW d \in Nat, c + d <= n
  PROVE  [i \in 1 .. c |-> v[i]] \o [i \in 1 .. d |-> v[c + i]] = [i \in 1 .. c + d |-> v[i]]
<1> DEFINE s == [i \in 1 .. c |-> v[i]]
           t == [i \in 1 .. d |-> v[c + i]]
           u == [i \in 1 .. c + d |-> v[i]]
<1>1. s \in Seq(S) /\ Len(s) = c
  OBVIOUS
<1>2. t \in Seq(S) /\ Len(t) = d
  OBVIOUS
<1>3. u \in Seq(S) /\ Len(u) = c + d
  OBVIOUS
<1>4. \A i \in 1 .. c : s[i] = v[i]
  OBVIOUS
<1>5. \A i \in 1 .. d : t[i] = v[c + i]
  OBVIOUS
<1>6. \A i \in 1 .. c + d : u[i] = v[i]
  OBVIOUS
<1> HIDE DEF s, t, u
<1>7. /\ s \o t \in Seq(S) /\ Len(s \o t) = c + d
      /\ \A i \in 1 .. c + d : (s \o t)[i] = IF i <= c THEN s[i] ELSE t[i - c]
  BY <1>1, <1>2, ConcatProperties
<1>8. ASSUME NEW i \in 1 .. c + d PROVE (s \o t)[i] = u[i]
  <2>1. CASE i <= c
    BY <1>4, <1>6, <1>7, <2>1
  <2>2. CASE ~(i <= c)
    <3>1. i - c \in 1 .. d /\ c + (i - c) = i
      BY <2>2
    <3>2. QED BY <1>5, <1>6, <1>7, <2>2, <3>1
  <2>3. QED BY <2>1, <2>2
<1>9. s \o t = u
  BY <1>3, <1>7, <1>8, SeqEqual
<1>10. QED BY <1>9 DEF s, t, u

\* What the k-th extent adds are the next bytes.
LEMMA ReadPart ==
  ASSUME NEW exts \in Seq(Extent), NEW img, NEW k \in 1 .. Len(exts),
         NEW c \in Nat, NEW d \in Nat, d <= exts[k].count * BlockSize, d > 0 => c = Before(exts, k),
         NEW i \in 1 .. d
  PROVE  img[exts[k].start * BlockSize + 0 + i - 1] = img[Address(exts, (c + i) - 1)]
<1> DEFINE e == exts[k].count * BlockSize
           a == exts[k].start * BlockSize
           p == (c + i) - 1
<1>1. DOMAIN exts = 1 .. Len(exts) /\ c \in Nat /\ e \in Nat /\ a \in Nat
      /\ Before(exts, k + 1) = c + e /\ c = Before(exts, k) /\ d <= e
  BY BeforeFacts
<1> HIDE DEF a, e
<1>2. p \in Nat /\ c <= p /\ p < c + e /\ a + (p - c) = a + 0 + i - 1
  <2>1. c \in Nat /\ e \in Nat /\ a \in Nat /\ d <= e
    BY ONLY <1>1
  <2>2. QED BY ONLY <2>1, d \in Nat, i \in 1 .. d
<1> HIDE DEF p
<1>3. Holds(exts, k, p)
  BY <1>1, <1>2 DEF Holds
<1>4. Address(exts, p) = exts[k].start * BlockSize + (p - Before(exts, k))
  BY ONLY <1>2, <1>3, AddressOf, exts \in Seq(Extent), k \in 1 .. Len(exts)
<1>5. Address(exts, p) = a + 0 + i - 1
  BY <1>1, <1>2, <1>4 DEF a
<1>6. QED BY <1>5 DEF a, p

\* rawFileRead returns the bytes of the fork in their order, whatever extents
\* they are in.
LEMMA ReadIs ==
  ASSUME NEW f, extents[f] \in Seq(Extent), NEW n \in Nat, n <= BlockSum(extents[f]) * BlockSize
  PROVE  RawFileRead(f, 0, n) = [i \in 1 .. n |-> image[Address(extents[f], i - 1)]]
<1> DEFINE exts == extents[f]
           last == Len(exts)
           first == Locate(exts, 0)
           Longer(k, got) ==
              LET in == IF k = first.ext THEN first.in ELSE 0
                  possible == exts[k].count * BlockSize - in
                  now == IF n - Len(got) > possible THEN possible ELSE n - Len(got)
                  at == exts[k].start * BlockSize + in
              IN  got \o [i \in 1 .. now |-> image[at + i - 1]]
           IsRead(r) == r = [k \in 0 .. last |-> IF k < first.ext THEN <<>> ELSE Longer(k, r[k - 1])]
           read == CHOOSE r : IsRead(r)
           v == [i \in 1 .. n |-> image[Address(exts, i - 1)]]
           Part(c) == [i \in 1 .. c |-> v[i]]
           upto(k) == IF n < Before(exts, k + 1) THEN n ELSE Before(exts, k + 1)
           way == [k \in 0 .. last |-> Part(upto(k))]
<1>1. RawFileRead(f, 0, n) = read[last]
  BY DEF RawFileRead
<1>2. PICK K \in 1 .. last + 1 : Stops(exts, K, 0)
  <2>1. 0 \in Nat
    OBVIOUS
  <2> HIDE DEF exts
  <2>2. QED BY <2>1, StopsSomewhere DEF exts
<1>3. /\ last \in Nat /\ DOMAIN exts = 1 .. last
      /\ \A k \in 1 .. last + 1 : Before(exts, k) \in Nat
      /\ Before(exts, last + 1) = BlockSum(exts) * BlockSize
      /\ \A i, j \in 1 .. last + 1 : i <= j => Before(exts, i) <= Before(exts, j)
  <2> HIDE DEF exts
  <2> QED BY BeforeFacts DEF exts
<1>4. Before(exts, K) = 0 /\ first = [ext |-> K, in |-> 0]
  <2>1. Before(exts, K) = 0
    BY <1>2, <1>3 DEF Stops
  <2>2. 0 \in Nat
    OBVIOUS
  <2>3. Locate(exts, 0) = [ext |-> K, in |-> 0 - Before(exts, K)]
    <3> HIDE DEF exts
    <3> QED BY <1>2, <2>2, LocateStops DEF exts
  <2>4. QED BY <2>1, <2>3
<1>5. first.ext = K /\ first.in = 0
  BY <1>4
<1> HIDE DEF first
<1>6. ASSUME NEW k \in 0 .. last, k < K PROVE Part(upto(k)) = <<>>
  <2>1. Before(exts, k + 1) = 0
    <3>1. k + 1 \in 1 .. last + 1 /\ k + 1 <= K
      BY <1>3, <1>6
    <3>2. Before(exts, k + 1) <= Before(exts, K) /\ Before(exts, k + 1) \in Nat
      BY <1>3, <3>1
    <3>3. QED BY <1>4, <3>2
  <2>2. upto(k) = 0
    BY <2>1
  <2>3. Part(0) = <<>>
    OBVIOUS
  <2> HIDE DEF Part, upto
  <2>4. QED BY <2>2, <2>3
<1>7. ASSUME NEW k \in 1 .. last, K <= k PROVE Longer(k, Part(upto(k - 1))) = Part(upto(k))
  <2> DEFINE c == IF n < Before(exts, k) THEN n ELSE Before(exts, k)
             e == exts[k].count * BlockSize
             d == IF n - c > e THEN e ELSE n - c
  <2>1. /\ c \in Nat /\ d \in Nat /\ c + d <= n
        /\ c + d = upto(k)
        /\ [i \in 1 .. d |-> image[exts[k].start * BlockSize + 0 + i - 1]] = [i \in 1 .. d |-> v[c + i]]
    <3>1. exts \in Seq(Extent)
      OBVIOUS
    <3> DEFINE b == Before(exts, k)
    <3>2. b \in Nat /\ e \in Nat /\ Before(exts, k + 1) = b + e
      <4>1. k \in 1 .. last + 1
        BY <1>3
      <4> HIDE DEF exts
      <4>2. QED BY <3>1, <4>1, BeforeFacts
    <3>3. c = (IF n < b THEN n ELSE b) /\ d = (IF n - c > e THEN e ELSE n - c)
      OBVIOUS
    <3>4. \A i \in 1 .. n : v[i] = image[Address(exts, i - 1)]
      OBVIOUS
    <3> HIDE DEF v, exts, c, d, e, b
    <3>5. /\ c \in Nat /\ d \in Nat /\ c + d <= n /\ d <= e /\ (d > 0 => c = b)
          /\ c + d = IF n < b + e THEN n ELSE b + e
      <4>1. CASE n < b
        <5>1. c = n /\ n - c = 0
          BY ONLY <3>2, <3>3, <4>1, n \in Nat
        <5>2. d = 0
          BY ONLY <3>2, <3>3, <5>1
        <5>3. QED BY ONLY <3>2, <4>1, <5>1, <5>2, n \in Nat
      <4>2. CASE ~(n < b)
        <5>1. c = b /\ n - c \in Nat
          BY ONLY <3>2, <3>3, <4>2, n \in Nat
        <5>2. CASE n - c > e
          BY ONLY <3>2, <3>3, <4>2, <5>1, <5>2, n \in Nat
        <5>3. CASE ~(n - c > e)
          BY ONLY <3>2, <3>3, <4>2, <5>1, <5>3, n \in Nat
        <5>4. QED BY <5>2, <5>3
      <4>3. QED BY <4>1, <4>2
    <3>6. ASSUME NEW i \in 1 .. d PROVE image[exts[k].start * BlockSize + 0 + i - 1] = v[c + i]
      <4>1. image[exts[k].start * BlockSize + 0 + i - 1] = image[Address(exts, (c + i) - 1)]
        BY <3>1, <3>5, ReadPart DEF b, e
      <4>2. c + i \in 1 .. n
        BY ONLY <3>5, i \in 1 .. d, n \in Nat
      <4>3. QED BY <3>4, <4>1, <4>2
    <3>7. QED BY <3>2, <3>5, <3>6
  <2>2. upto(k - 1) = c
    <3>1. (k - 1) + 1 = k
      OBVIOUS
    <3>2. QED BY <3>1
  <2>3. Len(Part(c)) = c
    BY <2>1
  <2>4. (IF k = first.ext THEN first.in ELSE 0) = 0
    BY <1>5
  <2>5. e \in Nat /\ e - 0 = e
    <3>1. e \in Nat
      <4> HIDE DEF exts
      <4> QED BY BeforeFacts DEF exts
    <3>2. QED BY <3>1
  <2>6. Part(c) \o [i \in 1 .. d |-> v[c + i]] = Part(c + d)
    <3> DEFINE S == {v[i] : i \in 1 .. n}
    <3>1. v \in [1 .. n -> S]
      OBVIOUS
    <3> HIDE DEF v, S, c, d
    <3>2. QED BY <2>1, <3>1, Pieces
  <2> HIDE DEF Part, upto, v, c
  <2>7. Longer(k, Part(c)) = Part(c) \o [i \in 1 .. d |-> image[exts[k].start * BlockSize + 0 + i - 1]]
    BY <2>3, <2>4, <2>5
  <2>8. QED BY <2>1, <2>2, <2>6, <2>7
<1> HIDE DEF Part, upto, v, Longer
<1>8. IsRead(way)
  <2>1. ASSUME NEW k \in 0 .. last PROVE way[k] = IF k < first.ext THEN <<>> ELSE Longer(k, way[k - 1])
    <3>1. CASE k < K
      BY <1>5, <1>6, <3>1
    <3>2. CASE ~(k < K)
      <4>1. k \in 1 .. last /\ K <= k /\ k - 1 \in 0 .. last
        BY <1>3, <3>2
      <4>2. way[k - 1] = Part(upto(k - 1)) /\ way[k] = Part(upto(k))
        BY <4>1
      <4>3. QED BY <1>5, <1>7, <3>2, <4>1, <4>2
    <3>3. QED BY <3>1, <3>2
  <2>2. way \in [0 .. last -> {Part(upto(k)) : k \in 0 .. last}]
    OBVIOUS
  <2> HIDE DEF way
  <2>3. QED BY <2>1, <2>2
<1>9. IsRead(read)
  <2> HIDE DEF IsRead, way
  <2> QED BY <1>8
<1> HIDE DEF read, way
<1> DEFINE P == {k \in Nat : k <= last => read[k] = way[k]}
<1>10. 0 \in P
  <2>1. 0 \in 0 .. last /\ 0 < K
    BY <1>3
  <2>2. QED BY <1>5, <1>8, <1>9, <2>1
<1>11. \A k \in P : k + 1 \in P
  <2> SUFFICES ASSUME NEW k \in P, k + 1 <= last PROVE read[k + 1] = way[k + 1]
    OBVIOUS
  <2>1. k + 1 \in 0 .. last /\ (k + 1) - 1 = k /\ read[k] = way[k]
    BY <1>3
  <2>2. read[k + 1] = IF k + 1 < first.ext THEN <<>> ELSE Longer(k + 1, read[k])
    BY <1>9, <2>1
  <2>3. way[k + 1] = IF k + 1 < first.ext THEN <<>> ELSE Longer(k + 1, way[k])
    BY <1>8, <2>1
  <2>4. QED BY <2>1, <2>2, <2>3
<1>12. P = Nat
  <2> HIDE DEF P
  <2> QED BY <1>10, <1>11, SetInduction DEF P
<1>13. read[last] = way[last]
  BY <1>3, <1>12
<1>14. way[last] = Part(n)
  <2>1. upto(last) = n
    BY <1>3 DEF upto
  <2>2. last \in 0 .. last
    BY <1>3
  <2>3. QED BY <2>1, <2>2 DEF way
<1>15. Part(n) = v
  BY DEF Part, v
<1>16. QED BY <1>1, <1>13, <1>14, <1>15 DEF v

-----------------------------------------------------------------------------
(* Bytes of different blocks, and of lists that grow or are cut *)

\* Extents that share no block share no byte.
LEMMA BytesApart ==
  ASSUME NEW e \in Extent, NEW g \in Extent, BlocksOf(e) \cap BlocksOf(g) = {},
         NEW x \in 0 .. e.count * BlockSize - 1, NEW y \in 0 .. g.count * BlockSize - 1
  PROVE  e.start * BlockSize + x # g.start * BlockSize + y
<1>1. /\ e.start \in Nat /\ e.count \in Nat /\ g.start \in Nat /\ g.count \in Nat
      /\ e.start + e.count \in Nat /\ g.start + g.count \in Nat
  <2>1. e.start \in Nat /\ e.count \in Nat /\ g.start \in Nat /\ g.count \in Nat
    BY ONLY e \in Extent, g \in Extent DEF Extent
  <2>2. QED BY <2>1
<1> DEFINE es == e.start * BlockSize
           ec == e.count * BlockSize
           gs == g.start * BlockSize
           gc == g.count * BlockSize
<1>2. /\ es \in Nat /\ ec \in Nat /\ gs \in Nat /\ gc \in Nat
      /\ (e.start + e.count) * BlockSize = es + ec
      /\ (g.start + g.count) * BlockSize = gs + gc
  BY <1>1, Bytewise
<1>3. e.count # 0 /\ g.count # 0
  <2>1. 0 * BlockSize = 0
    BY Bytewise
  <2>2. ec # 0 /\ gc # 0
    <3> HIDE DEF ec, gc
    <3>1. x \in 0 .. ec - 1 /\ y \in 0 .. gc - 1
      BY DEF ec, gc
    <3>2. QED BY <1>2, <3>1
  <2>3. QED BY <2>1, <2>2
<1>4. e.start + e.count <= g.start \/ g.start + g.count <= e.start
  <2>1. e.start \in BlocksOf(e) /\ g.start \in BlocksOf(g)
    BY <1>1, <1>3 DEF BlocksOf
  <2>2. e.start \notin BlocksOf(g) /\ g.start \notin BlocksOf(e)
    BY <2>1
  <2>3. QED BY <1>1, <1>3, <2>2 DEF BlocksOf
<1>5. es + ec <= gs \/ gs + gc <= es
  BY <1>1, <1>2, <1>4, Bytewise
<1>6. x \in 0 .. ec - 1 /\ y \in 0 .. gc - 1
  OBVIOUS
<1> HIDE DEF es, ec, gs, gc
<1>7. es + x # gs + y
  BY <1>2, <1>5, <1>6
<1>8. QED BY <1>7 DEF es, gs

\* A byte of an extent inside the volume is a byte of the image.
LEMMA ByteInside ==
  ASSUME NEW e \in Extent, BlocksOf(e) \subseteq Blocks, NEW x \in 0 .. e.count * BlockSize - 1
  PROVE  e.start * BlockSize + x \in 0 .. TotalBlocks * BlockSize - 1
<1>1. e.start \in Nat /\ e.count \in Nat /\ e.start + e.count \in Nat /\ TotalBlocks \in Nat
  BY DEF Extent
<1> DEFINE es == e.start * BlockSize
           ec == e.count * BlockSize
           all == TotalBlocks * BlockSize
<1>2. /\ es \in Nat /\ ec \in Nat /\ all \in Nat
      /\ (e.start + e.count) * BlockSize = es + ec
  BY <1>1, Bytewise
<1>3. x \in 0 .. ec - 1
  OBVIOUS
<1>4. e.count # 0
  <2>1. 0 * BlockSize = 0
    BY Bytewise
  <2>2. ec # 0
    <3> HIDE DEF ec
    <3>1. QED BY <1>2, <1>3
  <2>3. QED BY <2>1, <2>2
<1>5. e.start + e.count <= TotalBlocks
  <2>1. (e.start + e.count) - 1 \in BlocksOf(e)
    BY <1>1, <1>4 DEF BlocksOf
  <2>2. QED BY <1>1, <2>1 DEF Blocks
<1>6. es + ec <= all
  BY <1>1, <1>2, <1>5, Bytewise
<1> HIDE DEF es, ec, all
<1>7. es + x \in 0 .. all - 1
  BY <1>2, <1>3, <1>6
<1>8. QED BY <1>7 DEF es, all

\* Lists whose first extents have the same counts.
LEMMA BeforeAgree ==
  ASSUME NEW s \in Seq(Extent), NEW t \in Seq(Extent), NEW k \in Nat \ {0},
         k <= Len(s) + 1, k <= Len(t) + 1, \A i \in 1 .. k - 1 : s[i].count = t[i].count
  PROVE  Before(s, k) = Before(t, k)
<1> DEFINE P == {n \in Nat : n + 1 <= k => Before(s, n + 1) = Before(t, n + 1)}
<1>1. 0 \in P
  <2>1. Before(s, 1) = Before(t, 1) /\ 0 + 1 = 1
    BY BeforeFacts
  <2>2. QED BY <2>1
<1>2. \A n \in P : n + 1 \in P
  <2> SUFFICES ASSUME NEW n \in P, (n + 1) + 1 <= k PROVE Before(s, (n + 1) + 1) = Before(t, (n + 1) + 1)
    OBVIOUS
  <2> DEFINE m == n + 1
  <2>1. m \in 1 .. Len(s) /\ m \in 1 .. Len(t) /\ m \in 1 .. k - 1
    OBVIOUS
  <2>2. Before(s, m) = Before(t, m)
    <3>1. n + 1 <= k
      OBVIOUS
    <3>2. QED BY <3>1
  <2>3. s[m].count = t[m].count
    BY <2>1
  <2> HIDE DEF m
  <2>4. /\ Before(s, m + 1) = Before(s, m) + s[m].count * BlockSize
        /\ Before(t, m + 1) = Before(t, m) + t[m].count * BlockSize
    BY <2>1, BeforeFacts
  <2>5. Before(s, m + 1) = Before(t, m + 1)
    BY <2>2, <2>3, <2>4
  <2>6. QED BY <2>5 DEF m
<1>3. P = Nat
  <2> HIDE DEF P
  <2> QED BY <1>1, <1>2, SetInduction DEF P
<1>4. k - 1 \in P /\ (k - 1) + 1 = k
  <2>1. k - 1 \in Nat /\ (k - 1) + 1 = k
    OBVIOUS
  <2> HIDE DEF P
  <2>2. QED BY <1>3, <2>1
<1>5. QED BY <1>4

\* The second list is the first one, cut: its last extent may be shorter.
Extends(t, s) ==
    /\ Len(s) <= Len(t)
    /\ \A i \in 1 .. Len(s) :
          /\ i < Len(s) => t[i].count = s[i].count
          /\ s[i].count <= t[i].count
          /\ s[i].count > 0 => t[i].start = s[i].start

\* The bytes both lists have are at the same places.
LEMMA AddressKept ==
  ASSUME NEW s \in Seq(Extent), NEW t \in Seq(Extent), Extends(t, s),
         NEW p \in Nat, p < BlockSum(s) * BlockSize
  PROVE  Address(t, p) = Address(s, p)
<1>1. PICK k \in 1 .. Len(s) : Holds(s, k, p)
  BY Held
<1>2. Len(s) \in Nat /\ Len(t) \in Nat /\ k \in 1 .. Len(t) /\ k <= Len(s) + 1 /\ k <= Len(t) + 1 /\ k \in Nat \ {0}
      /\ DOMAIN t = 1 .. Len(t)
  BY DEF Extends
<1>3. \A i \in 1 .. k - 1 : s[i].count = t[i].count
  <2>1. \A i \in 1 .. k - 1 : i \in 1 .. Len(s) /\ i < Len(s)
    BY <1>2
  <2>2. QED BY <2>1 DEF Extends
<1>4. Before(s, k) = Before(t, k)
  BY <1>2, <1>3, BeforeAgree
<1>5. /\ s[k].count \in Nat /\ t[k].count \in Nat
      /\ s[k].count * BlockSize \in Nat /\ t[k].count * BlockSize \in Nat
      /\ Before(s, k + 1) = Before(s, k) + s[k].count * BlockSize
      /\ Before(t, k + 1) = Before(t, k) + t[k].count * BlockSize
      /\ Before(s, k) \in Nat
  <2>1. k \in 1 .. Len(s) + 1
    BY <1>2
  <2>2. QED BY <1>2, <2>1, BeforeFacts
<1>6. s[k].count * BlockSize <= t[k].count * BlockSize
  <2>1. s[k].count <= t[k].count
    BY DEF Extends
  <2>2. QED BY <1>5, <2>1, Bytewise
<1>7. Holds(t, k, p)
  <2>1. Before(s, k) <= p /\ p < Before(s, k + 1)
    BY <1>1 DEF Holds
  <2> DEFINE a == s[k].count * BlockSize
             b == t[k].count * BlockSize
  <2>2. p < Before(t, k + 1)
    <3> HIDE DEF a, b
    <3>1. a \in Nat /\ b \in Nat /\ a <= b /\ Before(s, k + 1) = Before(s, k) + a /\ Before(t, k + 1) = Before(s, k) + b
      BY <1>4, <1>5, <1>6 DEF a, b
    <3>2. QED BY ONLY <1>5, <2>1, <3>1, p \in Nat
  <2>3. QED BY <1>2, <1>4, <2>1, <2>2 DEF Holds
<1>8. /\ Address(s, p) = s[k].start * BlockSize + (p - Before(s, k))
      /\ Address(t, p) = t[k].start * BlockSize + (p - Before(t, k))
  BY <1>1, <1>2, <1>7, AddressOf
<1>9. s[k].count > 0
  <2>1. s[k].count # 0
    <3>1. 0 * BlockSize = 0
      BY Bytewise
    <3>2. s[k].count * BlockSize # 0
      <4> DEFINE a == s[k].count * BlockSize
      <4>1. a \in Nat /\ Before(s, k) \in Nat /\ Before(s, k) <= p /\ p < Before(s, k) + a
        BY <1>1, <1>5 DEF Holds
      <4> HIDE DEF a
      <4>2. a # 0
        BY <4>1
      <4>3. QED BY <4>2 DEF a
    <3>3. QED BY <3>1, <3>2
  <2>2. QED BY <1>5, <2>1
<1>10. t[k].start = s[k].start
  BY <1>9 DEF Extends
<1>11. QED BY <1>4, <1>8, <1>10

-----------------------------------------------------------------------------
(* The invariant of the file layer *)

\* An image whose block offsets fit into a uint32_t.
NoWrap == TotalBlocks * BlockSize <= WordRange

\* A fork has the blocks its size needs.
Sized ==
    /\ image \in [0 .. TotalBlocks * BlockSize - 1 -> Bytes]
    /\ size \in [Files -> 0 .. MaxSize]
    /\ target \in 0 .. MaxSize
    /\ \A f \in Files : fork[f].total = BlocksNeeded(size[f])

\* The running allocate() makes the fork as long as it was asked to.
Targeted ==
    pc # "idle" =>
        /\ need = BlocksNeeded(target)
        /\ pc \in {"volume", "catalog"} => size[file] = target

\* A growing call keeps the blocks the fork had.
Longer == pc = "grow" => fork[file].total <= BlockSum(extents[file])

\* What a growing call has added is cleared.
Cleared ==
    pc \in {"grow", "write"} /\ need > fork[file].total =>
        \A p \in Nat :
            fork[file].total * BlockSize <= p /\ p < BlockSum(extents[file]) * BlockSize =>
                image[Address(extents[file], p)] = Zero

WriteState == [left : Nat, loc : Nat, size : Nat, ext : Nat, in : Nat, byte : Bytes]
EndOf(w) == w.loc + w.size

\* A write has allocated what it needs before it touches a byte, and stands where
\* the rest of its data goes.
Writing ==
    /\ write \in WriteState
    /\ write # NoWrite =>
          /\ write.left \in 1 .. write.size /\ EndOf(write) <= MaxSize
          /\ pc = "idle" => EndOf(write) <= size[file]
          /\ pc # "idle" => /\ target = EndOf(write) /\ write.ext = 0
                            /\ pc \notin {"walk", "free"}
                            /\ pc \in {"grow", "write"} => size[file] < target
          /\ write.ext = 0 => write.left = write.size
          /\ write.ext # 0 =>
                /\ write.ext \in DOMAIN extents[file]
                /\ write.in \in 0 .. extents[file][write.ext].count * BlockSize - 1
                /\ Before(extents[file], write.ext) + write.in = EndOf(write) - write.left

FileInv == Sized /\ Targeted /\ Longer /\ Cleared /\ Writing

\* The bytes of a fork, by their addresses.
Text(f) == [i \in 1 .. ContentSize(f) |-> image[Address(extents[f], i - 1)]]

-----------------------------------------------------------------------------
(* What the invariant says of a state *)

\* The list of a fork has all the bytes it can be asked for.
LEMMA Covered ==
  ASSUME SpaceInv, FileInv, NEW f \in Files
  PROVE  /\ extents[f] \in Seq(Extent) /\ size[f] \in Nat /\ fork[f].total \in Nat
         /\ BlockSum(extents[f]) \in Nat
         /\ size[f] <= fork[f].total * BlockSize
         /\ ContentSize(f) \in Nat
         /\ ContentSize(f) <= BlockSum(extents[f]) * BlockSize
<1>1. /\ extents[f] \in Seq(Extent) /\ fork[f].total \in Nat /\ BlockSum(fork[f].exts) = fork[f].total
  BY Types DEF Whole
<1>2. size[f] \in Nat /\ target \in Nat /\ fork[f].total = BlocksNeeded(size[f]) /\ need \in Nat
  <2>1. MaxSize \in Nat
    BY Bytewise DEF MaxSize
  <2>2. QED BY <2>1 DEF FileInv, Sized, SpaceInv, TypeOK
<1>3. BlockSum(extents[f]) \in Nat
  BY <1>1, SumType
<1>4. size[f] <= fork[f].total * BlockSize
  BY <1>2, Needed
<1>5. CASE f = file /\ pc \in {"free", "write"} /\ need < fork[file].total
  <2>1. ContentSize(f) = target
    BY <1>5 DEF ContentSize
  <2>2. BlockSum(extents[f]) = need /\ need = BlocksNeeded(target)
    BY <1>5 DEF SpaceInv, Written, FileInv, Targeted
  <2>3. QED BY <1>1, <1>2, <1>3, <1>4, <2>1, <2>2, Needed
<1>6. CASE ~(f = file /\ pc \in {"free", "write"} /\ need < fork[file].total)
  <2>1. ContentSize(f) = size[f]
    BY <1>6 DEF ContentSize
  <2>2. fork[f].total <= BlockSum(extents[f])
    <3>1. CASE f # file \/ pc \in {"idle", "walk", "volume", "catalog"}
      <4>1. extents[f] = fork[f].exts
        BY <3>1 DEF SpaceInv, InStep
      <4>2. QED BY <1>1, <4>1
    <3>2. CASE f = file /\ pc = "grow"
      BY <3>2 DEF FileInv, Longer
    <3>3. CASE f = file /\ pc \in {"free", "write"}
      <4>1. BlockSum(extents[f]) = need /\ fork[f].total <= need
        BY <1>1, <1>2, <1>6, <3>3 DEF SpaceInv, Written
      <4>2. QED BY <4>1
    <3>4. QED BY <3>1, <3>2, <3>3 DEF SpaceInv, TypeOK
  <2>3. fork[f].total * BlockSize <= BlockSum(extents[f]) * BlockSize
    BY <1>1, <1>3, <2>2, Bytewise
  <2>4. fork[f].total * BlockSize \in Nat /\ BlockSum(extents[f]) * BlockSize \in Nat
    BY <1>1, <1>3, Bytewise
  <2>5. ContentSize(f) <= BlockSum(extents[f]) * BlockSize
    <3> DEFINE a == fork[f].total * BlockSize
               b == BlockSum(extents[f]) * BlockSize
    <3>1. a \in Nat /\ b \in Nat /\ a <= b /\ size[f] <= a
      BY <1>4, <2>3, <2>4
    <3> HIDE DEF a, b
    <3>2. size[f] <= b
      BY <1>2, <3>1
    <3>3. QED BY <2>1, <3>2 DEF b
  <2>6. QED BY <1>1, <1>2, <1>3, <1>4, <2>1, <2>5
<1>7. QED BY <1>5, <1>6

\* What rawFileRead returns is what is at the addresses.
LEMMA ContentIs ==
  SpaceInv /\ FileInv =>
      \A f \in Files : /\ RawFileRead(f, 0, ContentSize(f)) = Text(f)
                       /\ ContentSize(f) \in Nat
                       /\ Len(Text(f)) = ContentSize(f)
                       /\ ContentSize(f) <= BlockSum(extents[f]) * BlockSize
<1> SUFFICES ASSUME SpaceInv, FileInv, NEW f \in Files
             PROVE  /\ RawFileRead(f, 0, ContentSize(f)) = Text(f)
                    /\ ContentSize(f) \in Nat
                    /\ Len(Text(f)) = ContentSize(f)
                    /\ ContentSize(f) <= BlockSum(extents[f]) * BlockSize
  OBVIOUS
<1>1. extents[f] \in Seq(Extent) /\ ContentSize(f) \in Nat /\ ContentSize(f) <= BlockSum(extents[f]) * BlockSize
  BY Covered
<1>2. RawFileRead(f, 0, ContentSize(f)) = [i \in 1 .. ContentSize(f) |-> image[Address(extents[f], i - 1)]]
  BY <1>1, ReadIs
<1>3. Len(Text(f)) = ContentSize(f)
  BY <1>1 DEF Text
<1>4. QED BY <1>1, <1>2, <1>3 DEF Text

\* Every byte of a fork is a byte of the image, in a block that is in use.
LEMMA ByteOfFork ==
  ASSUME AllocInv, NEW f \in Files, NEW p \in Nat, p < BlockSum(extents[f]) * BlockSize
  PROVE  \E k \in DOMAIN extents[f] :
            /\ Holds(extents[f], k, p)
            /\ extents[f][k] \in Extent
            /\ BlocksOf(extents[f][k]) \subseteq used
            /\ p - Before(extents[f], k) \in 0 .. extents[f][k].count * BlockSize - 1
            /\ Address(extents[f], p) = extents[f][k].start * BlockSize + (p - Before(extents[f], k))
<1>1. extents[f] \in Seq(Extent)
  BY DEF AllocInv, TypeOK
<1>2. PICK k \in 1 .. Len(extents[f]) : Holds(extents[f], k, p)
  BY <1>1, Held
<1>3. /\ Address(extents[f], p) = extents[f][k].start * BlockSize + (p - Before(extents[f], k))
      /\ p - Before(extents[f], k) \in 0 .. extents[f][k].count * BlockSize - 1
  BY <1>1, <1>2, AddressOf
<1>4. k \in DOMAIN extents[f] /\ extents[f][k] \in Extent
  BY <1>1
<1>5. BlocksOf(extents[f][k]) \subseteq used
  <2>1. BlocksOf(extents[f][k]) \subseteq Owned(f)
    BY <1>4 DEF Owned
  <2>2. Owned(f) \subseteq used
    BY DEF AllocInv, BitmapExact
  <2>3. QED BY <2>1, <2>2
<1>6. QED BY <1>2, <1>3, <1>4, <1>5

\* The bytes of the forks are inside the image.
LEMMA AddressInside ==
  ASSUME AllocInv, NEW f \in Files, NEW p \in Nat, p < BlockSum(extents[f]) * BlockSize
  PROVE  Address(extents[f], p) \in 0 .. TotalBlocks * BlockSize - 1
<1>1. PICK k \in DOMAIN extents[f] :
         /\ extents[f][k] \in Extent
         /\ BlocksOf(extents[f][k]) \subseteq used
         /\ p - Before(extents[f], k) \in 0 .. extents[f][k].count * BlockSize - 1
         /\ Address(extents[f], p) = extents[f][k].start * BlockSize + (p - Before(extents[f], k))
  BY ByteOfFork
<1>2. BlocksOf(extents[f][k]) \subseteq Blocks
  BY <1>1 DEF AllocInv, TypeOK
<1>3. QED BY <1>1, <1>2, ByteInside

\* Two bytes of two forks, or of one, are two bytes of the image.
LEMMA AddressesApart ==
  ASSUME AllocInv, NEW f \in Files, NEW g \in Files,
         NEW p \in Nat, p < BlockSum(extents[f]) * BlockSize,
         NEW q \in Nat, q < BlockSum(extents[g]) * BlockSize,
         f # g \/ p # q
  PROVE  Address(extents[f], p) # Address(extents[g], q)
<1>1. PICK k \in DOMAIN extents[f] :
         /\ extents[f][k] \in Extent
         /\ p - Before(extents[f], k) \in 0 .. extents[f][k].count * BlockSize - 1
         /\ Address(extents[f], p) = extents[f][k].start * BlockSize + (p - Before(extents[f], k))
  BY ByteOfFork
<1>2. PICK j \in DOMAIN extents[g] :
         /\ extents[g][j] \in Extent
         /\ q - Before(extents[g], j) \in 0 .. extents[g][j].count * BlockSize - 1
         /\ Address(extents[g], q) = extents[g][j].start * BlockSize + (q - Before(extents[g], j))
  BY ByteOfFork
<1>3. CASE f # g \/ k # j
  <2>1. BlocksOf(extents[f][k]) \cap BlocksOf(extents[g][j]) = {}
    BY <1>3 DEF AllocInv, NoBlockShared
  <2>2. QED BY <1>1, <1>2, <2>1, BytesApart
<1>4. CASE f = g /\ k = j
  <2> DEFINE s == extents[f][k].start * BlockSize
             b == Before(extents[f], k)
  <2>1. s \in Nat /\ b \in Nat
    <3>1. extents[f] \in Seq(Extent) /\ k \in 1 .. Len(extents[f]) /\ k \in 1 .. Len(extents[f]) + 1
      BY DEF AllocInv, TypeOK
    <3>2. QED BY <3>1, BeforeFacts
  <2>2. p # q /\ Address(extents[f], p) = s + (p - b) /\ Address(extents[g], q) = s + (q - b)
    BY <1>1, <1>2, <1>4
  <2> HIDE DEF s, b
  <2>3. s + (p - b) # s + (q - b)
    BY ONLY <2>1, <2>2, p \in Nat, q \in Nat
  <2>4. QED BY <2>2, <2>3
<1>5. QED BY <1>3, <1>4

\* No byte of a fork is in a block that is free.
LEMMA FreeApart ==
  ASSUME AllocInv, NEW f \in Files, NEW p \in Nat, p < BlockSum(extents[f]) * BlockSize,
         NEW b \in Nat, b \notin used, NEW y \in 0 .. BlockSize - 1
  PROVE  Address(extents[f], p) # b * BlockSize + y
<1>1. PICK k \in DOMAIN extents[f] :
         /\ extents[f][k] \in Extent
         /\ BlocksOf(extents[f][k]) \subseteq used
         /\ p - Before(extents[f], k) \in 0 .. extents[f][k].count * BlockSize - 1
         /\ Address(extents[f], p) = extents[f][k].start * BlockSize + (p - Before(extents[f], k))
  BY ByteOfFork
<1> DEFINE e == [start |-> b, count |-> 1]
<1>2. e \in Extent /\ BlocksOf(e) = {b} /\ e.start = b /\ e.count * BlockSize = BlockSize
  BY Bytewise DEF Extent, BlocksOf
<1> HIDE DEF e
<1>3. BlocksOf(extents[f][k]) \cap BlocksOf(e) = {}
  BY <1>1, <1>2
<1>4. y \in 0 .. e.count * BlockSize - 1
  BY <1>2
<1>5. extents[f][k].start * BlockSize + (p - Before(extents[f], k)) # e.start * BlockSize + y
  BY <1>1, <1>2, <1>3, <1>4, BytesApart
<1>6. QED BY <1>1, <1>2, <1>5

-----------------------------------------------------------------------------
(* What a step keeps *)

\* A list is its own front.
LEMMA ExtendsSelf ==
  ASSUME NEW s \in Seq(Extent)
  PROVE  Extends(s, s)
<1>1. Len(s) \in Nat /\ \A i \in 1 .. Len(s) : s[i].count \in Nat
  BY BeforeFacts
<1>2. QED BY <1>1 DEF Extends

\* A list is the front of a list with one more extent.
LEMMA ExtendsAppend ==
  ASSUME NEW s \in Seq(Extent), NEW e \in Extent
  PROVE  Extends(Append(s, e), s)
<1> DEFINE t == Append(s, e)
<1>1. Len(s) \in Nat /\ Len(t) = Len(s) + 1 /\ \A i \in 1 .. Len(s) : t[i] = s[i]
  BY Appended
<1>2. \A i \in 1 .. Len(s) : s[i].count \in Nat
  BY BeforeFacts
<1> HIDE DEF t
<1>3. Extends(t, s)
  BY <1>1, <1>2 DEF Extends
<1>4. QED BY <1>3 DEF t

\* A fork whose bytes and size stay reads the same.
LEMMA TextKept ==
  ASSUME NEW f \in Files, ContentSize(f)' = ContentSize(f), ContentSize(f) \in Nat,
         \A p \in Nat : p < ContentSize(f) =>
             image'[Address(extents'[f], p)] = image[Address(extents[f], p)]
  PROVE  Text(f)' = Text(f)
<1>1. \A i \in 1 .. ContentSize(f) : i - 1 \in Nat /\ i - 1 < ContentSize(f)
  OBVIOUS
<1>2. \A i \in 1 .. ContentSize(f) : image'[Address(extents'[f], i - 1)] = image[Address(extents[f], i - 1)]
  BY <1>1
<1>3. Text(f)' = [i \in 1 .. ContentSize(f)' |-> image'[Address(extents'[f], i - 1)]]
  BY DEF Text, Address, Holds, Before, BlockSum
<1>4. QED BY <1>2, <1>3 DEF Text

\* The bytes of all forks, as rawFileRead returns them.
Content == [f \in Files |-> RawFileRead(f, 0, ContentSize(f))]

\* They are what is at the addresses, before and after a step.
LEMMA ContentNow == SpaceInv /\ FileInv => Content = [f \in Files |-> Text(f)]
  BY ContentIs DEF Content

\* The same of the state after a step.
LEMMA ContentNext == SpaceInv' /\ FileInv' => Content' = [f \in Files |-> Text(f)']
<1>1. (SpaceInv /\ FileInv => Content = [f \in Files |-> Text(f)])'
  BY ContentNow, PTL
<1>2. QED BY <1>1

\* The same of the sizes.
LEMMA ContentIsNext ==
  SpaceInv' /\ FileInv' =>
      \A f \in Files : /\ ContentSize(f)' \in Nat /\ Len(Text(f)') = ContentSize(f)'
                       /\ ContentSize(f)' <= BlockSum(extents'[f]) * BlockSize
<1>1. (SpaceInv /\ FileInv =>
         \A f \in Files : /\ ContentSize(f) \in Nat /\ Len(Text(f)) = ContentSize(f)
                          /\ ContentSize(f) <= BlockSum(extents[f]) * BlockSize)'
  <2>1. SpaceInv /\ FileInv =>
          \A f \in Files : /\ ContentSize(f) \in Nat /\ Len(Text(f)) = ContentSize(f)
                           /\ ContentSize(f) <= BlockSum(extents[f]) * BlockSize
    BY ContentIs
  <2>2. QED BY <2>1, PTL
<1>2. \A f : BlockSum(extents[f])' = BlockSum(extents'[f])
  BY DEF BlockSum
<1>3. QED BY <1>1, <1>2

\* A step that writes no byte, moves none and sets no size leaves all contents.
LEMMA ContentKept ==
  ASSUME SpaceInv, FileInv, SpaceInv', FileInv', image' = image,
         \A f \in Files : ContentSize(f)' = ContentSize(f) /\ Extends(extents'[f], extents[f])
  PROVE  Content' = Content
<1>1. ASSUME NEW f \in Files PROVE Text(f)' = Text(f)
  <2>1. /\ extents[f] \in Seq(Extent) /\ BlockSum(extents[f]) \in Nat /\ ContentSize(f) \in Nat
        /\ ContentSize(f) <= BlockSum(extents[f]) * BlockSize
    BY Covered
  <2>2. extents'[f] \in Seq(Extent)
    BY DEF SpaceInv, TypeOK
  <2>3. ASSUME NEW p \in Nat, p < ContentSize(f)
        PROVE  Address(extents'[f], p) = Address(extents[f], p)
    <3> DEFINE b == BlockSum(extents[f]) * BlockSize
    <3>1. p < b
      <4>1. b \in Nat /\ ContentSize(f) <= b
        BY <2>1, Bytewise
      <4> HIDE DEF b
      <4>2. QED BY <2>1, <2>3, <4>1
    <3>2. QED BY <2>1, <2>2, <3>1, AddressKept
  <2>4. QED BY <2>1, <2>3, TextKept
<1>2. QED BY <1>1, ContentNow, ContentNext

\* A write that needs no more blocks, or is refused: allocate() does not run.
LEMMA IdleStep ==
  ASSUME AllocInv, pc = "idle", pc' \in {"idle", "panic"}, file' \in Files,
         UNCHANGED <<used, header, extents, fork, overflow, saved, need, left, cur, list, idx, history>>
  PROVE  AllocInv' /\ (SpaceInv /\ pc' = "idle" => SpaceInv')
<1>1. /\ UNCHANGED <<used, freeBlocks, nextAllocation, extents, fork, overflow, savedHeader, savedFork>>
      /\ UNCHANGED <<need, left, cur, list, idx, crashes, torn>>
  BY DEF header, saved, history
<1>2. TypeOK'
  BY <1>1 DEF AllocInv, TypeOK
<1>3. FreeCountExact' /\ NoBlockShared' /\ BitmapExact' /\ DoomedApart'
  BY <1>1, QuietStep
<1>4. NoEmptyExtent' /\ GrowCursor' /\ WalkCursor'
  BY <1>1 DEF AllocInv, NoEmptyExtent, GrowCursor, WalkCursor
<1>5. AllocInv'
  BY <1>2, <1>3, <1>4 DEF AllocInv
<1>6. ASSUME SpaceInv, pc' = "idle" PROVE SpaceInv'
  <2>1. overflow' = {} /\ pc' # "panic" /\ need' <= MaxFileBlocks /\ Reserved \subseteq used'
    BY <1>1, <1>6 DEF SpaceInv
  <2>2. ForksWhole'
    BY <1>1, <1>6 DEF SpaceInv, ForksWhole, Whole, Sound, Inside
  <2>3. InStep'
    BY <1>1, <1>6 DEF SpaceInv, InStep
  <2>4. Growing' /\ Walking' /\ Freeing' /\ Shrinking' /\ Written'
    BY <1>6 DEF Growing, Walking, Freeing, Shrinking, Written
  <2>5. QED BY <1>2, <2>1, <2>2, <2>3, <2>4 DEF SpaceInv
<1>7. QED BY <1>5, <1>6

-----------------------------------------------------------------------------
(* The start of a call *)

\* No call asks for more blocks than the longest fork has.
LEMMA NeedBounded ==
  ASSUME NEW n \in 0 .. MaxSize
  PROVE  n \in Nat /\ BlocksNeeded(n) \in 0 .. MaxFileBlocks
<1>1. MaxSize \in Nat /\ MaxSize = MaxFileBlocks * BlockSize
  BY Bytewise DEF MaxSize
<1>2. n \in Nat /\ n <= MaxFileBlocks * BlockSize
  BY <1>1
<1>3. BlocksNeeded(n) \in Nat /\ BlocksNeeded(n) <= MaxFileBlocks
  BY <1>2, Needed
<1>4. QED BY <1>2, <1>3

\* allocate() has looked at what it is asked for.
LEMMA Called ==
  ASSUME FitsInline, AllocInv, SpaceInv, FileInv, NEW f \in Files, NEW n \in 0 .. MaxSize,
         Allocate(f, n), image' = image, size' = size
  PROVE  /\ AllocInv' /\ SpaceInv' /\ Sized' /\ Targeted' /\ Longer' /\ Cleared'
         /\ file' = f /\ target' = n /\ pc' \in {"grow", "walk", "write"}
         /\ pc' = "walk" => BlocksNeeded(n) < fork[f].total
         /\ \A g \in Files : ContentSize(g)' = ContentSize(g) /\ Extends(extents'[g], extents[g])
<1> DEFINE m == BlocksNeeded(n)
<1>1. n \in Nat /\ m \in 0 .. MaxFileBlocks
  BY NeedBounded
<1>2. /\ extents \in [Files -> Seq(Extent)] /\ extents[f] \in Seq(Extent)
      /\ fork[f].total \in Nat /\ BlockSum(fork[f].exts) = fork[f].total
  BY Types DEF Whole, SpaceInv, TypeOK
<1>3. /\ pc = "idle" /\ file' = f /\ need' = m /\ target' = n /\ fork' = fork
      /\ \/ pc' = "grow" /\ AllocateGrow(f, m)
         \/ pc' = "walk" /\ m < fork[f].total /\ AllocateShrink(f, m)
         \/ pc' = "write" /\ m = fork[f].total /\ AllocateSame(f)
  BY DEF Allocate, AllocateGrow, AllocateShrink, AllocateSame
<1>4. AllocInv' /\ SpaceInv'
  <2>1. Call
    BY <1>1, <1>3 DEF Call
  <2>2. [Next]_vars /\ [Next \/ Restart]_vars
    BY <2>1 DEF Next
  <2>3. QED BY <2>2, NextInv, NextSpace
<1>5. Sized'
  <2>1. target' \in 0 .. MaxSize
    BY <1>3
  <2>2. QED BY <1>3, <2>1 DEF FileInv, Sized
<1>6. Targeted'
  <2>1. need' = BlocksNeeded(target')
    BY <1>3
  <2>2. QED BY <1>3, <2>1 DEF Targeted, BlocksNeeded
<1>7. extents[f] = fork[f].exts
  BY <1>3 DEF SpaceInv, InStep
<1> DEFINE e == [start |-> 0, count |-> 0]
<1>8. ASSUME extents' = extents
      PROVE  BlockSum(extents'[f]) = fork[f].total /\ \A g \in Files : Extends(extents'[g], extents[g])
  <2>1. BlockSum(extents'[f]) = fork[f].total
    BY <1>2, <1>7, <1>8
  <2>2. \A g \in Files : Extends(extents'[g], extents[g])
    BY <1>2, <1>8, ExtendsSelf
  <2>3. QED BY <2>1, <2>2
<1>9. ASSUME extents[f] = <<>> /\ extents' = [extents EXCEPT ![f] = <<e>>]
      PROVE  BlockSum(extents'[f]) = fork[f].total /\ \A g \in Files : Extends(extents'[g], extents[g])
  <2>1. e \in Extent /\ <<>> \in Seq(Extent) /\ <<e>> = Append(<<>>, e) /\ e.count = 0
    BY DEF Extent
  <2>2. extents'[f] = <<e>> /\ \A g \in Files \ {f} : extents'[g] = extents[g]
    BY <1>2, <1>9
  <2> HIDE DEF e
  <2>3. BlockSum(<<e>>) = BlockSum(<<>>) + e.count /\ Extends(<<e>>, <<>>)
    BY <2>1, SumAppend, ExtendsAppend
  <2>4. BlockSum(<<>>) \in Nat
    BY SumEmpty
  <2>5. BlockSum(extents'[f]) = fork[f].total
    BY <1>2, <1>7, <1>9, <2>1, <2>2, <2>3, <2>4
  <2>6. \A g \in Files : Extends(extents'[g], extents[g])
    BY <1>2, <1>9, <2>2, <2>3, ExtendsSelf
  <2>7. QED BY <2>5, <2>6
<1>10. extents' = extents \/ (extents[f] = <<>> /\ extents' = [extents EXCEPT ![f] = <<e>>])
  BY <1>3 DEF AllocateGrow, AllocateShrink, AllocateSame
<1>11. BlockSum(extents'[f]) = fork[f].total /\ \A g \in Files : Extends(extents'[g], extents[g])
  BY <1>8, <1>9, <1>10
<1>12. Longer'
  <2>1. BlockSum(extents[file])' = BlockSum(extents'[f]) /\ fork[file].total' = fork[f].total
    BY <1>3 DEF BlockSum
  <2>2. QED BY <1>2, <1>11, <2>1 DEF Longer
<1>13. Cleared'
  <2>1. CASE pc' = "write"
    <3>1. ~(need' > fork'[file'].total)
      BY <1>2, <1>3, <2>1
    <3>2. QED BY <3>1 DEF Cleared
  <2>2. CASE pc' # "write"
    <3> DEFINE a == fork[f].total * BlockSize
    <3>1. a \in Nat
      BY <1>2, Bytewise
    <3>2. fork'[file'].total * BlockSize = a /\ BlockSum(extents'[file']) * BlockSize = a
      BY <1>3, <1>11
    <3> HIDE DEF a
    <3>3. \A p \in Nat : ~(a <= p /\ p < a)
      BY <3>1
    <3>4. Cleared' <=>
            (pc' \in {"grow", "write"} /\ need' > fork'[file'].total =>
               \A p \in Nat : fork'[file'].total * BlockSize <= p /\ p < BlockSum(extents'[file']) * BlockSize =>
                  image'[Address(extents'[file'], p)] = Zero)
      BY DEF Cleared, BlockSum, Address, Holds, Before
    <3>5. QED BY <3>2, <3>3, <3>4
  <2>3. QED BY <2>1, <2>2
<1>14. ASSUME NEW g \in Files PROVE ContentSize(g)' = ContentSize(g)
  <2>1. ContentSize(g) = size[g]
    BY <1>3 DEF ContentSize
  <2>2. pc' = "write" => ~(need' < fork'[file'].total)
    BY <1>2, <1>3
  <2>3. ContentSize(g)' = size'[g]
    BY <1>3, <2>2 DEF ContentSize
  <2>4. QED BY <2>1, <2>3
<1>15. QED BY <1>3, <1>4, <1>5, <1>6, <1>11, <1>12, <1>13, <1>14

\* A call begins, as FileStore sees it.
LEMMA AskMaps ==
  ASSUME Request = Store!NoRequest, Content' = Content,
         NEW f \in Files, NEW n \in 0 .. MaxSize, NEW from \in 1 .. MaxSize + 1, NEW to \in 0 .. MaxSize,
         NEW b \in Bytes, to <= n,
         Request' = [fork |-> f, size |-> n, from |-> from, to |-> to, byte |-> b]
  PROVE  Store!Next
<1>1. Store!Ask
  BY DEF Store!Ask, Content
<1>2. QED BY <1>1 DEF Store!Next

\* The call returns no sooner than it began.
LEMMA SetSizeStep ==
  ASSUME FitsInline, AllocInv, SpaceInv, FileInv, NEW f \in Files, NEW n \in 0 .. MaxSize, SetSize(f, n)
  PROVE  /\ AllocInv' /\ SpaceInv' /\ FileInv'
         /\ Store!Next
<1>1. Allocate(f, n) /\ write = NoWrite /\ write' = NoWrite /\ image' = image /\ size' = size
  BY DEF SetSize
<1>2. /\ AllocInv' /\ SpaceInv' /\ Sized' /\ Targeted' /\ Longer' /\ Cleared'
      /\ file' = f /\ target' = n /\ pc' \in {"grow", "walk", "write"}
      /\ \A g \in Files : ContentSize(g)' = ContentSize(g) /\ Extends(extents'[g], extents[g])
  BY <1>1, Called
<1>3. Writing'
  <2>1. write' \in WriteState
    BY <1>1 DEF FileInv, Writing
  <2>2. QED BY <1>1, <2>1 DEF Writing, NoWrite
<1>4. FileInv'
  BY <1>2, <1>3 DEF FileInv
<1>5. Content' = Content
  BY <1>1, <1>2, <1>4, ContentKept
<1>6. pc = "idle"
  BY <1>1 DEF Allocate, AllocateGrow, AllocateShrink, AllocateSame
<1>7. Request = Store!NoRequest
  BY <1>1, <1>6 DEF Request, Store!NoRequest
<1>8. Request' = [fork |-> f, size |-> n, from |-> 1, to |-> 0, byte |-> Zero]
  BY <1>1, <1>2 DEF Request, NoWrite
<1>9. Zero \in Bytes /\ 1 \in 1 .. MaxSize + 1 /\ 0 \in 0 .. MaxSize /\ 0 <= n
  <2>1. MaxSize \in Nat
    BY Bytewise DEF MaxSize
  <2>2. QED BY <2>1, DataAssumption
<1>10. Store!Next
  BY <1>5, <1>7, <1>8, <1>9, AskMaps
<1>11. QED BY <1>2, <1>4, <1>10

\* A write begins, and allocates first if it goes past the end.
LEMMA WriteStartStep ==
  ASSUME FitsInline, AllocInv, SpaceInv, FileInv, NEW f \in Files, NEW loc \in Nat, NEW n \in Nat \ {0},
         loc + n \in 0 .. MaxSize, NEW b \in Data, WriteStart(f, loc, n, b)
  PROVE  /\ AllocInv' /\ SpaceInv' /\ FileInv'
         /\ Store!Next
<1> DEFINE w == [left |-> n, loc |-> loc, size |-> n, ext |-> 0, in |-> 0, byte |-> b]
           end == loc + n
<1>1. /\ pc = "idle" /\ write = NoWrite /\ write' = w /\ image' = image /\ size' = size
      /\ IF size[f] < end
         THEN Allocate(f, end)
         ELSE /\ file' = f
              /\ UNCHANGED <<used, header, extents, fork, overflow, saved, pc, need, left, cur,
                             list, idx, history, target>>
  BY DEF WriteStart, EndOfWrite
<1>2. /\ w \in WriteState /\ w # NoWrite /\ EndOf(w) = end /\ end \in Nat
      /\ w.left = n /\ w.size = n /\ w.ext = 0 /\ w.byte = b /\ w.loc = loc
  BY DataAssumption DEF WriteState, NoWrite, EndOf
<1>3. size[f] \in Nat /\ size[f] <= MaxSize /\ MaxSize \in Nat
  <2>1. MaxSize \in Nat
    BY Bytewise DEF MaxSize
  <2>2. QED BY <2>1 DEF FileInv, Sized
<1> HIDE DEF w
<1>4. /\ Request = Store!NoRequest /\ b \in Bytes
      /\ loc + 1 \in 1 .. MaxSize + 1 /\ end \in 0 .. MaxSize /\ size[f] \in 0 .. MaxSize
  <2>1. Request = Store!NoRequest
    BY <1>1 DEF Request, Store!NoRequest
  <2>2. b \in Bytes
    BY DataAssumption
  <2>3. QED BY <1>2, <1>3, <2>1, <2>2
<1>5. CASE size[f] < end
  <2>1. /\ AllocInv' /\ SpaceInv' /\ Sized' /\ Targeted' /\ Longer' /\ Cleared'
        /\ file' = f /\ target' = end /\ pc' \in {"grow", "walk", "write"}
        /\ pc' = "walk" => BlocksNeeded(end) < fork[f].total
        /\ \A g \in Files : ContentSize(g)' = ContentSize(g) /\ Extends(extents'[g], extents[g])
    BY <1>1, <1>5, Called
  <2>2. pc' # "walk"
    <3> SUFFICES ASSUME pc' = "walk" PROVE FALSE
      OBVIOUS
    <3>1. BlocksNeeded(end) < BlocksNeeded(size[f])
      BY <2>1 DEF FileInv, Sized
    <3> DEFINE m == BlocksNeeded(end)
    <3>2. m \in Nat /\ end <= m * BlockSize /\ m * BlockSize \in Nat
      BY <1>2, Needed, Bytewise
    <3>3. size[f] <= m * BlockSize
      <4> DEFINE a == m * BlockSize
      <4>1. a \in Nat /\ end <= a
        BY <3>2
      <4> HIDE DEF a
      <4>2. size[f] <= a
        BY ONLY <1>2, <1>3, <1>5, <4>1
      <4>3. QED BY <4>2 DEF a
    <3>4. BlocksNeeded(size[f]) <= m /\ BlocksNeeded(size[f]) \in Nat
      BY <1>3, <3>2, <3>3, Needed
    <3>5. QED BY <3>1, <3>2, <3>4
  <2>3. Writing'
    <3>1. write' \in WriteState /\ write' # NoWrite
      BY <1>1, <1>2
    <3>2. /\ write'.left \in 1 .. write'.size /\ EndOf(write') <= MaxSize
          /\ write'.ext = 0 /\ write'.left = write'.size /\ target' = EndOf(write')
          /\ size'[file'] < target'
      BY <1>1, <1>2, <1>5, <2>1
    <3>3. pc' # "idle" /\ pc' \notin {"walk", "free"}
      BY <2>1, <2>2
    <3>4. EndOf(write)' = EndOf(write')
      BY DEF EndOf
    <3>5. QED BY <3>1, <3>2, <3>3, <3>4 DEF Writing, NoWrite, WriteState
  <2>4. FileInv'
    BY <2>1, <2>3 DEF FileInv
  <2>5. Content' = Content
    BY <1>1, <2>1, <2>4, ContentKept
  <2>6. Request' = [fork |-> f, size |-> end, from |-> loc + 1, to |-> end, byte |-> b]
    <3>1. write'.loc + write'.size = end /\ end - write'.left + 1 = loc + 1 /\ write'.byte = b
      BY <1>1, <1>2
    <3>2. (IF size'[file'] < end THEN end ELSE size'[file']) = end
      BY <1>1, <1>5, <2>1
    <3>3. QED BY <1>1, <1>2, <2>1, <3>1, <3>2 DEF Request, NoWrite
  <2>7. Store!Next
    <3>1. end <= end
      BY <1>2
    <3>2. QED BY <1>4, <2>5, <2>6, <3>1, AskMaps
  <2>8. QED BY <2>1, <2>4, <2>7
<1>6. CASE ~(size[f] < end)
  <2>1. /\ file' = f /\ target' = target /\ pc' = "idle"
        /\ UNCHANGED <<used, header, extents, fork, overflow, saved, pc, need, left, cur, list, idx, history>>
    BY <1>1, <1>6
  <2>2. AllocInv' /\ SpaceInv'
    BY <1>1, <2>1, IdleStep
  <2>3. Sized' /\ Targeted' /\ Longer' /\ Cleared'
    BY <1>1, <2>1 DEF FileInv, Sized, Targeted, Longer, Cleared, BlocksNeeded
  <2>4. Writing'
    <3>1. write' \in WriteState /\ write' # NoWrite
      BY <1>1, <1>2
    <3>2. /\ write'.left \in 1 .. write'.size /\ EndOf(write') <= MaxSize
          /\ write'.ext = 0 /\ write'.left = write'.size /\ EndOf(write') <= size'[file']
      BY <1>1, <1>2, <1>3, <1>6, <2>1
    <3>3. EndOf(write)' = EndOf(write')
      BY DEF EndOf
    <3>4. QED BY <2>1, <3>1, <3>2, <3>3 DEF Writing, NoWrite, WriteState
  <2>5. FileInv'
    BY <2>3, <2>4 DEF FileInv
  <2>6. \A g \in Files : ContentSize(g)' = ContentSize(g) /\ Extends(extents'[g], extents[g])
    <3>1. \A g \in Files : ContentSize(g) = size[g] /\ ContentSize(g)' = size'[g]
      BY <1>1, <2>1 DEF ContentSize
    <3>2. \A g \in Files : extents[g] \in Seq(Extent) /\ extents'[g] = extents[g]
      BY <2>1 DEF SpaceInv, TypeOK
    <3>3. QED BY <1>1, <3>1, <3>2, ExtendsSelf
  <2>7. Content' = Content
    BY <1>1, <2>2, <2>5, <2>6, ContentKept
  <2>8. Request' = [fork |-> f, size |-> size[f], from |-> loc + 1, to |-> end, byte |-> b]
    <3>1. write'.loc + write'.size = end /\ end - write'.left + 1 = loc + 1 /\ write'.byte = b
      BY <1>1, <1>2
    <3>2. (IF size'[file'] < end THEN end ELSE size'[file']) = size[f]
      BY <1>1, <1>6, <2>1
    <3>3. QED BY <1>1, <1>2, <2>1, <3>1, <3>2 DEF Request, NoWrite
  <2>9. Store!Next
    <3>1. end <= size[f]
      BY <1>2, <1>3, <1>6
    <3>2. QED BY <1>4, <2>7, <2>8, <3>1, AskMaps
  <2>10. QED BY <2>2, <2>5, <2>9
<1>7. QED BY <1>5, <1>6

-----------------------------------------------------------------------------
(* The steps of allocate() that change no content *)

\* A step within a call that keeps the sizes, the bytes and where they are.
LEMMA QuietCall ==
  ASSUME SpaceInv, FileInv, SpaceInv', UNCHANGED fileVars, UNCHANGED <<fork, file, need>>,
         pc # "idle",
         \/ pc' = pc
         \/ pc \in {"grow", "free"} /\ pc' = "write"
         \/ pc = "volume" /\ pc' = "catalog",
         \A f \in Files : Extends(extents'[f], extents[f]) /\ BlockSum(extents'[f]) = BlockSum(extents[f])
  PROVE  FileInv' /\ Content' = Content /\ Request' = Request
<1>1. /\ image' = image /\ size' = size /\ target' = target /\ write' = write
      /\ fork' = fork /\ file' = file /\ need' = need /\ file \in Files
  BY DEF fileVars, SpaceInv, TypeOK
<1>2. pc' # "idle"
  OBVIOUS
<1>3. pc = "free" => need < fork[file].total
  BY DEF SpaceInv, Shrinking
<1>4. Sized'
  BY <1>1 DEF FileInv, Sized, BlocksNeeded
<1>5. Targeted'
  BY <1>1 DEF FileInv, Targeted, BlocksNeeded
<1>6. BlockSum(extents'[file']) = BlockSum(extents[file])
  BY <1>1
<1>7. Longer'
  <2>1. Longer' <=> (pc' = "grow" => fork'[file'].total <= BlockSum(extents'[file']))
    BY DEF Longer, BlockSum
  <2>2. QED BY <1>1, <1>6, <2>1 DEF FileInv, Longer
<1>8. Cleared'
  <2>1. Cleared' <=>
          (pc' \in {"grow", "write"} /\ need' > fork'[file'].total =>
             \A p \in Nat : fork'[file'].total * BlockSize <= p /\ p < BlockSum(extents'[file']) * BlockSize =>
                image'[Address(extents'[file'], p)] = Zero)
    BY DEF Cleared, BlockSum, Address, Holds, Before
  <2>2. SUFFICES ASSUME pc' \in {"grow", "write"}, need > fork[file].total, NEW p \in Nat,
                        fork[file].total * BlockSize <= p, p < BlockSum(extents[file]) * BlockSize
                 PROVE  image[Address(extents'[file], p)] = Zero
    BY <1>1, <1>6, <2>1
  <2>3. extents[file] \in Seq(Extent) /\ extents'[file] \in Seq(Extent)
    BY <1>1 DEF SpaceInv, TypeOK
  <2>4. Address(extents'[file], p) = Address(extents[file], p)
    BY <1>1, <2>2, <2>3, AddressKept
  <2>5. fork[file].total \in Nat /\ need \in Nat
    BY <1>1, Types DEF SpaceInv, TypeOK
  <2>6. pc \in {"grow", "write"}
    BY <1>3, <2>2, <2>5
  <2>7. QED BY <2>2, <2>4, <2>6 DEF FileInv, Cleared
<1>9. Writing'
  <2>1. write \in WriteState
    BY DEF FileInv, Writing
  <2>2. CASE write = NoWrite
    BY <1>1, <2>1, <2>2 DEF Writing, NoWrite, WriteState
  <2>3. CASE write # NoWrite
    <3>1. /\ write.left \in 1 .. write.size /\ EndOf(write) <= MaxSize
          /\ target = EndOf(write) /\ write.ext = 0 /\ pc \notin {"walk", "free"}
          /\ pc \in {"grow", "write"} => size[file] < target
          /\ write.left = write.size
      BY <2>3 DEF FileInv, Writing
    <3>2. pc' \notin {"walk", "free"} /\ (pc' \in {"grow", "write"} => size'[file'] < target')
      BY <1>1, <3>1
    <3>3. EndOf(write)' = EndOf(write)
      BY <1>1 DEF EndOf
    <3>4. QED BY <1>1, <1>2, <2>1, <2>3, <3>1, <3>2, <3>3 DEF Writing, NoWrite, WriteState
  <2>4. QED BY <2>2, <2>3
<1>10. FileInv'
  BY <1>4, <1>5, <1>7, <1>8, <1>9 DEF FileInv
<1>11. ASSUME NEW f \in Files PROVE ContentSize(f)' = ContentSize(f)
  <2>1. need \in Nat /\ fork[file].total \in Nat
    BY <1>1, Types DEF SpaceInv, TypeOK
  <2>2. pc = "grow" => ~(need < fork[file].total)
    BY <2>1 DEF SpaceInv, Growing
  <2>3. (pc' \in {"free", "write"} /\ need < fork[file].total) <=> (pc \in {"free", "write"} /\ need < fork[file].total)
    BY <2>2
  <2>4. QED BY <1>1, <2>3 DEF ContentSize
<1>12. Content' = Content
  BY <1>1, <1>10, <1>11, ContentKept
<1>13. pc # "panic" /\ pc' # "panic"
  BY DEF SpaceInv
<1>14. Request' = Request
  BY <1>1, <1>2, <1>13 DEF Request, NoWrite
<1>15. QED BY <1>10, <1>12, <1>14

\* The steps of allocate() that move on, free a block or write the header.
LEMMA QuietSteps ==
  ASSUME SpaceInv, FileInv, SpaceInv', UNCHANGED fileVars,
         GrowSkip \/ GrowDone \/ ShrinkWalk \/ ShrinkFree \/ ShrinkNextExtent \/ UpdateVolume
  PROVE  FileInv' /\ Content' = Content /\ Request' = Request
<1>1. file \in Files /\ extents \in [Files -> Seq(Extent)] /\ extents[file] \in Seq(Extent)
  BY DEF SpaceInv, TypeOK
<1>2. ASSUME extents' = extents
      PROVE  \A f \in Files : Extends(extents'[f], extents[f]) /\ BlockSum(extents'[f]) = BlockSum(extents[f])
  BY <1>1, <1>2, ExtendsSelf
<1>3. CASE GrowSkip
  <2>1. /\ pc = "grow" /\ pc' = pc /\ UNCHANGED <<fork, file, need>>
        /\ extents' = IF LastExtent(file).count > 0
                      THEN [extents EXCEPT ![file] = Append(@, [start |-> 0, count |-> 0])]
                      ELSE extents
    BY <1>3 DEF GrowSkip
  <2> DEFINE e == [start |-> 0, count |-> 0]
  <2>2. CASE LastExtent(file).count > 0
    <3>1. e \in Extent /\ e.count = 0
      BY DEF Extent
    <3>2. extents'[file] = Append(extents[file], e) /\ \A f \in Files \ {file} : extents'[f] = extents[f]
      BY <1>1, <2>1, <2>2
    <3> HIDE DEF e
    <3>3. Extends(extents'[file], extents[file]) /\ BlockSum(extents'[file]) = BlockSum(extents[file]) + e.count
      BY <1>1, <3>1, <3>2, ExtendsAppend, SumAppend
    <3>4. BlockSum(extents[file]) \in Nat
      BY <1>1, SumType
    <3>5. BlockSum(extents'[file]) = BlockSum(extents[file])
      BY <3>1, <3>3, <3>4
    <3>6. \A f \in Files : Extends(extents'[f], extents[f]) /\ BlockSum(extents'[f]) = BlockSum(extents[f])
      BY <1>1, <3>2, <3>3, <3>5, ExtendsSelf
    <3>7. QED BY <2>1, <3>6, QuietCall
  <2>3. CASE ~(LastExtent(file).count > 0)
    <3>1. extents' = extents
      BY <2>1, <2>3
    <3>2. QED BY <1>2, <2>1, <3>1, QuietCall
  <2>4. QED BY <2>2, <2>3
<1>4. CASE GrowDone
  <2>1. pc = "grow" /\ pc' = "write" /\ UNCHANGED <<fork, file, need, extents>>
    BY <1>4 DEF GrowDone, locals
  <2>2. QED BY <1>2, <2>1, QuietCall
<1>5. CASE ShrinkWalk
  <2>1. pc = "walk" /\ pc' = pc /\ UNCHANGED <<fork, file, need, extents>>
    BY <1>5 DEF ShrinkWalk
  <2>2. QED BY <1>2, <2>1, QuietCall
<1>6. CASE ShrinkFree
  <2>1. pc = "free" /\ pc' = pc /\ UNCHANGED <<fork, file, need, extents>>
    BY <1>6 DEF ShrinkFree
  <2>2. QED BY <1>2, <2>1, QuietCall
<1>7. CASE ShrinkNextExtent
  <2>1. pc = "free" /\ (pc' = pc \/ pc' = "write") /\ UNCHANGED <<fork, file, need, extents>>
    BY <1>7 DEF ShrinkNextExtent
  <2>2. QED BY <1>2, <2>1, QuietCall
<1>8. CASE UpdateVolume
  <2>1. pc = "volume" /\ pc' = "catalog" /\ UNCHANGED <<fork, file, need, extents>>
    BY <1>8 DEF UpdateVolume, locals
  <2>2. QED BY <1>2, <2>1, QuietCall
<1>9. QED BY <1>3, <1>4, <1>5, <1>6, <1>7, <1>8

-----------------------------------------------------------------------------
(* The steps of allocate() that change what a fork reads as *)

\* What FileStore sees of a running call.
Wanted == [fork |-> file, size |-> target,
           from |-> IF write = NoWrite THEN 1 ELSE EndOf(write) - write.left + 1,
           to |-> IF write = NoWrite THEN 0 ELSE EndOf(write),
           byte |-> IF write = NoWrite THEN Zero ELSE write.byte]

\* Request is that.
LEMMA RequestIs == SpaceInv /\ FileInv /\ pc # "idle" => Request = Wanted
<1> SUFFICES ASSUME SpaceInv, FileInv, pc # "idle" PROVE Request = Wanted
  OBVIOUS
<1>1. pc \in {"grow", "walk", "free", "write", "volume", "catalog"}
  BY DEF SpaceInv, TypeOK
<1>2. CASE write = NoWrite
  BY <1>1, <1>2 DEF Request, Wanted
<1>3. CASE write # NoWrite
  <2>1. /\ target = EndOf(write)
        /\ pc \in {"grow", "write"} => size[file] < target
        /\ pc \notin {"walk", "free"}
    BY <1>3 DEF FileInv, Writing
  <2>2. pc \in {"volume", "catalog"} => size[file] = target
    BY DEF FileInv, Targeted
  <2>3. (IF size[file] < EndOf(write) THEN EndOf(write) ELSE size[file]) = target
    BY <1>1, <2>1, <2>2
  <2>4. QED BY <1>3, <2>3 DEF Request, Wanted, EndOf
<1>4. QED BY <1>2, <1>3

\* It is not nothing.
LEMMA WantedSome == Wanted # Store!NoRequest /\ Wanted.fork = file /\ Wanted.size = target
<1>1. "fork" \in DOMAIN Wanted /\ "fork" \notin DOMAIN Store!NoRequest
  BY DEF Wanted, Store!NoRequest
<1>2. QED BY <1>1 DEF Wanted

\* The same after a step.
LEMMA RequestIsNext == SpaceInv' /\ FileInv' /\ pc' # "idle" => Request' = Wanted'
<1>1. (SpaceInv /\ FileInv /\ pc # "idle" => Request = Wanted)'
  BY RequestIs, PTL
<1>2. QED BY <1>1

\* A step that gives the fork the size the call asks for.
LEMMA ResizeMaps ==
  ASSUME SpaceInv, FileInv, SpaceInv', FileInv', pc # "idle", pc' # "idle",
         UNCHANGED <<file, target, write>>, NEW f \in Files, f = file, ContentSize(f)' = target,
         \A g \in Files \ {f} : Text(g)' = Text(g),
         \A i \in 1 .. target : /\ i <= ContentSize(f) => Text(f)'[i] = Text(f)[i]
                                /\ i > BlocksNeeded(ContentSize(f)) * BlockSize => Text(f)'[i] = Zero
  PROVE  Store!Next
<1>1. Request = Wanted /\ Request' = Wanted'
  BY RequestIs, RequestIsNext
<1>2. Wanted' = Wanted
  BY DEF Wanted, EndOf, NoWrite
<1>3. Request # Store!NoRequest /\ Request.fork = f /\ Request.size = target
  BY <1>1, WantedSome
<1>4. /\ Content[f] = Text(f) /\ Content'[f] = Text(f)'
      /\ \A g \in Files \ {f} : Content'[g] = Content[g]
  BY ContentNow, ContentNext
<1>5. Len(Text(f)) = ContentSize(f) /\ ContentSize(f) \in Nat /\ Len(Text(f)') = target
  BY ContentIs, ContentIsNext
<1>6. Store!RoundUp(ContentSize(f)) = BlocksNeeded(ContentSize(f)) * BlockSize
  BY <1>5, Needed
<1>7. Store!Resized(Content[f], Content'[f], Request.size)
  BY <1>3, <1>4, <1>5, <1>6 DEF Store!Resized
<1>8. Store!Others(Request.fork)
  BY <1>3, <1>4 DEF Store!Others, Content
<1>9. Store!Resize
  BY <1>1, <1>2, <1>3, <1>7, <1>8 DEF Store!Resize, Content
<1>10. QED BY <1>9 DEF Store!Next

\* A call returns.
LEMMA CatalogStep ==
  ASSUME AllocInv, SpaceInv, FileInv, SpaceInv', UpdateCatalog, UNCHANGED fileVars
  PROVE  /\ FileInv'
         /\ [Store!Next]_<<Content, Request>>
<1>1. /\ image' = image /\ size' = size /\ target' = target /\ write' = write
      /\ pc = "catalog" /\ pc' = "idle" /\ extents' = extents /\ fork' = fork /\ file' = file
      /\ file \in Files
  BY DEF fileVars, UpdateCatalog, LocalsReset, SpaceInv, TypeOK
<1>2. size[file] = target
  BY <1>1 DEF FileInv, Targeted
<1>3. Sized' /\ Targeted' /\ Longer' /\ Cleared'
  BY <1>1 DEF FileInv, Sized, Targeted, Longer, Cleared, BlocksNeeded
<1>4. Writing'
  <2>1. write \in WriteState
    BY DEF FileInv, Writing
  <2>2. CASE write = NoWrite
    BY <1>1, <2>1, <2>2 DEF Writing, NoWrite, WriteState
  <2>3. CASE write # NoWrite
    <3>1. /\ write.left \in 1 .. write.size /\ EndOf(write) <= MaxSize
          /\ target = EndOf(write) /\ write.ext = 0 /\ write.left = write.size
      BY <1>1, <2>3 DEF FileInv, Writing
    <3>2. EndOf(write) <= size[file]
      <4>1. target \in Nat
        <5>1. MaxSize \in Nat
          BY Bytewise DEF MaxSize
        <5>2. QED BY <5>1 DEF FileInv, Sized
      <4>2. QED BY <1>2, <3>1, <4>1
    <3>3. EndOf(write)' = EndOf(write)
      BY <1>1 DEF EndOf
    <3>4. QED BY <1>1, <2>1, <2>3, <3>1, <3>2, <3>3 DEF Writing, NoWrite, WriteState
  <2>4. QED BY <2>2, <2>3
<1>5. FileInv'
  BY <1>3, <1>4 DEF FileInv
<1>6. \A f \in Files : ContentSize(f)' = ContentSize(f) /\ ContentSize(f) = size[f]
  BY <1>1 DEF ContentSize
<1>7. \A f \in Files : Extends(extents'[f], extents[f])
  <2>1. \A f \in Files : extents[f] \in Seq(Extent)
    BY DEF SpaceInv, TypeOK
  <2>2. QED BY <1>1, <2>1, ExtendsSelf
<1>8. Content' = Content
  BY <1>1, <1>5, <1>6, <1>7, ContentKept
<1>9. CASE write = NoWrite
  <2>1. Request = Wanted /\ Request' = Store!NoRequest
    BY <1>1, <1>9, RequestIs DEF Request, NoWrite, Store!NoRequest
  <2>2. Request # Store!NoRequest /\ Request.from > Request.to /\ Request.fork = file /\ Request.size = target
    BY <1>9, <2>1, WantedSome DEF Wanted
  <2>3. Len(Content[file]) = target
    BY <1>1, <1>2, <1>6, ContentIs, ContentNow
  <2>4. Store!Done
    BY <1>8, <2>1, <2>2, <2>3 DEF Store!Done, Content
  <2>5. QED BY <1>5, <2>4 DEF Store!Next
<1>10. CASE write # NoWrite
  <2>1. Request' = Request
    BY <1>1, <1>10 DEF Request, NoWrite
  <2>2. QED BY <1>5, <1>8, <2>1
<1>11. QED BY <1>9, <1>10

\* The address of a byte that two lists of a fork have.
LEMMA SameByte ==
  ASSUME NEW s \in Seq(Extent), NEW t \in Seq(Extent), Extends(s, t) \/ Extends(t, s),
         NEW n \in Nat, n <= BlockSum(s) * BlockSize, n <= BlockSum(t) * BlockSize,
         NEW p \in Nat, p < n
  PROVE  Address(t, p) = Address(s, p)
<1> DEFINE a == BlockSum(s) * BlockSize
           b == BlockSum(t) * BlockSize
<1>1. BlockSum(s) \in Nat /\ BlockSum(t) \in Nat
  BY SumType
<1>2. a \in Nat /\ b \in Nat /\ n <= a /\ n <= b
  BY <1>1, Bytewise
<1>3. p < a /\ p < b
  <2> HIDE DEF a, b
  <2> QED BY ONLY <1>2, n \in Nat, p \in Nat, p < n
<1>4. QED BY <1>3, AddressKept

\* What a shrinking call keeps is the front of what the fork had.
LEMMA CutStep ==
  ASSUME AllocInv, SpaceInv, FileInv, SpaceInv', ShrinkCut, UNCHANGED fileVars
  PROVE  FileInv' /\ Store!Next
<1>1. PICK f \in Files : f = file
  BY DEF SpaceInv, TypeOK
<1> DEFINE t == extents[f]
           e == [list[idx] EXCEPT !.count = left]
           s == extents'[f]
<1>2. /\ image' = image /\ size' = size /\ target' = target /\ write' = write
      /\ pc = "walk" /\ pc' = "free" /\ fork' = fork /\ file' = file /\ need' = need
      /\ idx \in DOMAIN list /\ left <= list[idx].count
      /\ extents' = [extents EXCEPT ![file] = IF left = 0 THEN <<>> ELSE Append(SubSeq(list, 1, idx - 1), e)]
  BY DEF fileVars, ShrinkCut
<1>3. /\ t \in Seq(Extent) /\ list = t /\ left \in Nat /\ need < fork[f].total
      /\ need = BlocksNeeded(target) /\ write = NoWrite
      /\ extents \in [Files -> Seq(Extent)] /\ s \in Seq(Extent)
  BY <1>1, <1>2 DEF SpaceInv, TypeOK, Walking, Shrinking, FileInv, Targeted, Writing
<1>4. s = IF left = 0 THEN <<>> ELSE Append(SubSeq(t, 1, idx - 1), e)
  BY <1>1, <1>2, <1>3
<1>5. \A g \in Files \ {f} : extents'[g] = extents[g]
  BY <1>1, <1>2, <1>3
<1>6. Extends(t, s)
  <2>1. CASE left = 0
    <3>1. s = <<>> /\ Len(t) \in Nat
      BY <1>3, <1>4, <2>1
    <3>2. Len(s) = 0
      BY <3>1
    <3> HIDE DEF s, t
    <3>3. QED BY <3>1, <3>2 DEF Extends
  <2>2. CASE left # 0
    <3> DEFINE u == SubSeq(t, 1, idx - 1)
    <3>1. idx \in 1 .. Len(t) /\ idx - 1 \in 0 .. Len(t) /\ Len(t) \in Nat /\ t[idx] \in Extent
      BY <1>2, <1>3
    <3>2. u \in Seq(Extent) /\ Len(u) = idx - 1 /\ \A i \in 1 .. idx - 1 : u[i] = t[i]
      BY <1>3, <3>1, PrefixType
    <3>3. e = [start |-> t[idx].start, count |-> left] /\ e \in Extent
      <4>1. t[idx] = [start |-> t[idx].start, count |-> t[idx].count] /\ t[idx].start \in Nat
        BY <3>1 DEF Extent
      <4>2. e = [start |-> t[idx].start, count |-> left]
        <5> DEFINE a == t[idx].start
                   b == t[idx].count
        <5>1. list[idx] = [start |-> a, count |-> b]
          BY <1>3, <4>1
        <5> HIDE DEF a, b
        <5>2. e = [start |-> a, count |-> left]
          BY <5>1
        <5>3. QED BY <5>2 DEF a
      <4>3. QED BY <1>3, <4>1, <4>2 DEF Extent
    <3>4. e.start = t[idx].start /\ e.count = left /\ left <= t[idx].count
      BY <1>2, <1>3, <3>3
    <3>5. s = Append(u, e)
      BY <1>4, <2>2
    <3>6. \A i \in 1 .. Len(t) : t[i].count \in Nat
      BY <1>3, BeforeFacts
    <3> HIDE DEF s, t, u, e
    <3>7. Len(s) = idx /\ (\A i \in 1 .. idx - 1 : s[i] = t[i]) /\ s[idx] = e
      <4>1. Len(s) = Len(u) + 1 /\ (\A i \in 1 .. Len(u) : s[i] = u[i]) /\ s[Len(u) + 1] = e
        BY <3>2, <3>3, <3>5, Appended
      <4>2. Len(u) + 1 = idx
        BY <3>1, <3>2
      <4>3. QED BY <3>2, <4>1, <4>2
    <3>8. ASSUME NEW i \in 1 .. Len(s)
          PROVE  /\ i < Len(s) => t[i].count = s[i].count
                 /\ s[i].count <= t[i].count
                 /\ s[i].count > 0 => t[i].start = s[i].start
      <4>1. CASE i = idx
        BY <3>4, <3>7, <4>1
      <4>2. CASE i # idx
        <5>1. i \in 1 .. idx - 1 /\ i \in 1 .. Len(t)
          BY <3>1, <3>7, <4>2
        <5>2. s[i] = t[i] /\ t[i].count \in Nat
          BY <3>6, <3>7, <5>1
        <5>3. QED BY <5>2
      <4>3. QED BY <4>1, <4>2
    <3>9. QED BY <3>1, <3>7, <3>8 DEF Extends
  <2>3. QED BY <2>1, <2>2
<1>7. Sized' /\ Targeted' /\ Longer' /\ Cleared' /\ Writing'
  <2>1. write \in WriteState
    BY DEF FileInv, Writing
  <2>2. Writing'
    BY <1>2, <1>3, <2>1 DEF Writing, NoWrite, WriteState
  <2>3. QED BY <1>2, <2>2 DEF FileInv, Sized, Targeted, Longer, Cleared, BlocksNeeded
<1>8. FileInv'
  BY <1>7 DEF FileInv
<1>9. target \in Nat /\ size[f] \in Nat /\ fork[f].total = BlocksNeeded(size[f])
  <2>1. MaxSize \in Nat
    BY Bytewise DEF MaxSize
  <2>2. QED BY <2>1 DEF FileInv, Sized
<1>10. target <= size[f]
  <2> SUFFICES ASSUME size[f] < target PROVE FALSE
    BY <1>9
  <2> DEFINE a == need * BlockSize
  <2>1. need \in Nat /\ target <= a /\ a \in Nat
    BY <1>3, <1>9, Needed, Bytewise
  <2>2. size[f] <= a
    <3> HIDE DEF a
    <3> QED BY <1>9, <2>1
  <2>3. fork[f].total <= need /\ fork[f].total \in Nat
    BY <1>9, <2>1, <2>2, Needed
  <2>4. QED BY <1>3, <2>1, <2>3
<1>11. /\ ContentSize(f) = size[f] /\ ContentSize(f)' = target
       /\ \A g \in Files \ {f} : ContentSize(g)' = ContentSize(g)
  BY <1>1, <1>2, <1>3 DEF ContentSize
<1>12. /\ \A g \in Files : ContentSize(g) \in Nat /\ ContentSize(g) <= BlockSum(extents[g]) * BlockSize
       /\ target <= BlockSum(s) * BlockSize
  BY <1>8, <1>11, ContentIs, ContentIsNext
<1>13. ASSUME NEW g \in Files \ {f} PROVE Text(g)' = Text(g)
  <2>1. extents'[g] = extents[g] /\ ContentSize(g)' = ContentSize(g) /\ ContentSize(g) \in Nat
    BY <1>5, <1>11, <1>12
  <2>2. QED BY <1>2, <2>1, TextKept
<1>14. ASSUME NEW i \in 1 .. target PROVE Text(f)'[i] = Text(f)[i]
  <2> DEFINE p == i - 1
  <2>1. p \in Nat /\ p < target /\ i \in 1 .. size[f]
    BY <1>9, <1>10
  <2>2. target <= BlockSum(t) * BlockSize
    <3> DEFINE a == BlockSum(t) * BlockSize
    <3>1. a \in Nat /\ size[f] <= a
      BY <1>3, <1>11, <1>12, SumType, Bytewise
    <3> HIDE DEF a
    <3>2. target <= a
      BY <1>9, <1>10, <3>1
    <3>3. QED BY <3>2 DEF a
  <2> HIDE DEF p
  <2>3. Address(t, p) = Address(s, p)
    BY <1>3, <1>6, <1>9, <1>12, <2>1, <2>2, SameByte
  <2>4. Text(f)' = [j \in 1 .. target |-> image'[Address(s, j - 1)]]
    BY <1>11 DEF Text, Address, Holds, Before, BlockSum
  <2>5. QED BY <1>2, <1>11, <2>1, <2>3, <2>4 DEF Text, p
<1>15. \A i \in 1 .. target : ~(i > BlocksNeeded(ContentSize(f)) * BlockSize)
  <2> DEFINE a == BlocksNeeded(size[f]) * BlockSize
  <2>1. a \in Nat /\ size[f] <= a
    BY <1>9, Needed, Bytewise
  <2> HIDE DEF a
  <2>2. \A i \in 1 .. target : ~(i > a)
    BY <1>9, <1>10, <2>1
  <2>3. QED BY <1>11, <2>2 DEF a
<1>16. Store!Next
  BY <1>1, <1>2, <1>8, <1>11, <1>13, <1>14, <1>15, ResizeMaps
<1>17. QED BY <1>8, <1>16

\* The size of a fork is set with its extents.
LEMMA SaveStep ==
  ASSUME AllocInv, SpaceInv, FileInv, SpaceInv', SaveExtents
  PROVE  FileInv' /\ Store!Next
<1>1. PICK f \in Files : f = file
  BY DEF SpaceInv, TypeOK
<1>2. pc' # "panic"
  BY DEF SpaceInv
<1>3. /\ pc = "write" /\ pc' = "volume" /\ extents' = extents /\ file' = file /\ need' = need
      /\ image' = image /\ target' = target /\ write' = write
      /\ size' = [size EXCEPT ![file] = target]
      /\ fork' = [fork EXCEPT ![file] = [exts |-> InlineExtents(extents[file]), total |-> need]]
  BY <1>2 DEF SaveExtents, WriteExtents, locals
<1>4. /\ extents[f] \in Seq(Extent) /\ extents \in [Files -> Seq(Extent)] /\ need \in Nat
      /\ need = BlocksNeeded(target) /\ BlockSum(extents[f]) = need
      /\ fork[f].total \in Nat /\ fork \in [Files -> ForkData]
  BY <1>1, <1>3, Types DEF SpaceInv, TypeOK, FileInv, Targeted, Written
<1>5. /\ target \in Nat /\ target \in 0 .. MaxSize /\ size \in [Files -> 0 .. MaxSize] /\ size[f] \in Nat
      /\ \A g \in Files : fork[g].total = BlocksNeeded(size[g])
  <2>1. MaxSize \in Nat
    BY Bytewise DEF MaxSize
  <2>2. QED BY <2>1 DEF FileInv, Sized
<1>6. /\ size'[f] = target /\ fork'[f].total = need
      /\ \A g \in Files \ {f} : size'[g] = size[g] /\ fork'[g] = fork[g]
  <2>1. fork'[f] = [exts |-> InlineExtents(extents[file]), total |-> need]
    BY <1>1, <1>3, <1>4
  <2>2. QED BY <1>1, <1>3, <1>4, <1>5, <2>1
<1>7. Sized'
  <2>1. size' \in [Files -> 0 .. MaxSize]
    BY <1>3, <1>5
  <2>2. \A g \in Files : fork'[g].total = BlocksNeeded(size'[g])
    BY <1>4, <1>5, <1>6
  <2>3. QED BY <1>3, <2>1, <2>2 DEF FileInv, Sized, BlocksNeeded
<1>8. Targeted'
  <2>1. need' = BlocksNeeded(target') /\ size'[file'] = target'
    BY <1>1, <1>3, <1>4, <1>6
  <2>2. QED BY <2>1 DEF Targeted, BlocksNeeded
<1>9. Longer' /\ Cleared'
  BY <1>3 DEF Longer, Cleared
<1>10. Writing'
  <2>1. write \in WriteState
    BY DEF FileInv, Writing
  <2>2. CASE write = NoWrite
    BY <1>3, <2>1, <2>2 DEF Writing, NoWrite, WriteState
  <2>3. CASE write # NoWrite
    <3>1. /\ write.left \in 1 .. write.size /\ EndOf(write) <= MaxSize
          /\ target = EndOf(write) /\ write.ext = 0 /\ write.left = write.size
      BY <1>3, <2>3 DEF FileInv, Writing
    <3>2. EndOf(write)' = EndOf(write)
      BY <1>3 DEF EndOf
    <3>3. QED BY <1>3, <2>1, <2>3, <3>1, <3>2 DEF Writing, NoWrite, WriteState
  <2>4. QED BY <2>2, <2>3
<1>11. FileInv'
  BY <1>7, <1>8, <1>9, <1>10 DEF FileInv
<1>12. /\ ContentSize(f)' = target
       /\ ContentSize(f) = IF need < fork[f].total THEN target ELSE size[f]
       /\ \A g \in Files \ {f} : ContentSize(g)' = ContentSize(g)
  BY <1>1, <1>3, <1>6 DEF ContentSize
<1>13. \A g \in Files : ContentSize(g) \in Nat
  BY ContentIs
<1>14. ASSUME NEW g \in Files \ {f} PROVE Text(g)' = Text(g)
  <2>1. extents'[g] = extents[g] /\ ContentSize(g)' = ContentSize(g) /\ ContentSize(g) \in Nat
    BY <1>3, <1>12, <1>13
  <2>2. QED BY <1>3, <2>1, TextKept
<1>15. Text(f)' = [i \in 1 .. target |-> image[Address(extents[f], i - 1)]]
  BY <1>3, <1>12 DEF Text, Address, Holds, Before, BlockSum
<1>16. ASSUME NEW i \in 1 .. target, i <= ContentSize(f) PROVE Text(f)'[i] = Text(f)[i]
  <2>1. i \in 1 .. ContentSize(f)
    BY <1>5, <1>13, <1>16
  <2>2. Text(f)[i] = image[Address(extents[f], i - 1)]
    BY <2>1 DEF Text
  <2>3. QED BY <1>15, <2>2
<1>17. ASSUME NEW i \in 1 .. target, i > BlocksNeeded(ContentSize(f)) * BlockSize PROVE Text(f)'[i] = Zero
  <2> DEFINE a == need * BlockSize
             b == fork[f].total * BlockSize
  <2>1. a \in Nat /\ b \in Nat /\ target <= a
    BY <1>4, <1>5, Needed, Bytewise
  <2>2. ~(need < fork[f].total)
    <3> SUFFICES ASSUME need < fork[f].total PROVE FALSE
      OBVIOUS
    <3>1. i > a
      BY <1>4, <1>12, <1>17
    <3> HIDE DEF a, b
    <3>2. QED BY <1>5, <2>1, <3>1
  <2>3. i > b
    BY <1>5, <1>12, <1>17, <2>2
  <2>4. need > fork[f].total
    <3>1. need # fork[f].total
      <4> SUFFICES ASSUME need = fork[f].total PROVE FALSE
        OBVIOUS
      <4>1. a = b
        OBVIOUS
      <4> HIDE DEF a, b
      <4>2. QED BY <1>5, <2>1, <2>3, <4>1
    <3>2. QED BY <1>4, <2>2, <3>1
  <2> DEFINE p == i - 1
  <2>5. p \in Nat /\ b <= p /\ p < a
    <3> HIDE DEF a, b
    <3> QED BY <1>5, <2>1, <2>3
  <2>6. fork[file].total * BlockSize <= p /\ p < BlockSum(extents[file]) * BlockSize
    BY <1>1, <1>4, <2>5
  <2> HIDE DEF a, b, p
  <2>7. image[Address(extents[file], p)] = Zero
    BY <1>1, <1>3, <2>4, <2>5, <2>6 DEF FileInv, Cleared
  <2>8. QED BY <1>1, <1>15, <2>7 DEF p
<1>18. Store!Next
  BY <1>1, <1>3, <1>11, <1>12, <1>14, <1>16, <1>17, ResizeMaps
<1>19. QED BY <1>11, <1>18

-----------------------------------------------------------------------------
(* Taking a block and clearing it *)

\* The offset of a block of such an image does not wrap.
LEMMA OffsetExact ==
  ASSUME NoWrap, NEW b \in Blocks
  PROVE  /\ b \in Nat /\ b * BlockSize \in Nat
         /\ (b * BlockSize) % WordRange = b * BlockSize
         /\ b * BlockSize + BlockSize <= TotalBlocks * BlockSize
<1>1. b \in Nat /\ b < TotalBlocks /\ TotalBlocks \in Nat
  BY DEF Blocks
<1> DEFINE a == b * BlockSize
           all == TotalBlocks * BlockSize
<1>2. a \in Nat /\ all \in Nat /\ a + BlockSize <= all
  BY <1>1, Bytewise
<1>3. BlockSize \in Nat /\ BlockSize >= 1 /\ all <= WordRange /\ WordRange \in Nat \ {0}
  BY Bytewise, DataAssumption DEF NoWrap
<1> HIDE DEF a, all
<1>4. a \in 0 .. WordRange - 1
  BY <1>2, <1>3
<1>5. a % WordRange = a
  BY <1>3, <1>4
<1>6. QED BY <1>1, <1>2, <1>5 DEF a, all

\* The list of a fork that has taken a block has the block's bytes at its end.
LEMMA TakenBytes ==
  ASSUME NEW s \in Seq(Extent), NEW t \in Seq(Extent), NEW n \in Nat \ {0}, Len(s) = n, Len(t) = n,
         \A i \in 1 .. n : i # n => t[i] = s[i],
         NEW b \in Nat, t[n].count = s[n].count + 1,
         t[n].start + t[n].count = b + 1,
         s[n].count > 0 => b = s[n].start + s[n].count
  PROVE  /\ Extends(t, s)
         /\ BlockSum(t) * BlockSize = BlockSum(s) * BlockSize + BlockSize
         /\ \A p \in Nat : BlockSum(s) * BlockSize <= p /\ p < BlockSum(t) * BlockSize =>
               Address(t, p) = b * BlockSize + (p - BlockSum(s) * BlockSize)
<1> DEFINE old == s[n]
           new == t[n]
<1>1. n \in 1 .. Len(s) /\ n \in 1 .. Len(t) /\ n \in 1 .. Len(s) + 1 /\ n \in 1 .. n /\ DOMAIN t = 1 .. Len(t)
  OBVIOUS
<1>2. /\ Before(s, n) \in Nat /\ Before(t, n) \in Nat
      /\ BlockSum(s) * BlockSize = Before(s, n) + old.count * BlockSize
      /\ BlockSum(t) * BlockSize = Before(t, n) + new.count * BlockSize
  BY <1>1, BeforeFacts
<1>3. /\ old.start \in Nat /\ old.count \in Nat /\ new.start \in Nat /\ new.count \in Nat
      /\ new.count = old.count + 1 /\ new.start + new.count = b + 1
      /\ old.count > 0 => b = old.start + old.count
  BY <1>1, BeforeFacts
<1>4. \A i \in 1 .. n : s[i].count \in Nat
  BY BeforeFacts
<1> HIDE DEF old, new
<1>5. Extends(t, s)
  <2>1. old.count > 0 => new.start = old.start
    <3> DEFINE os == old.start
               oc == old.count
               ns == new.start
               nc == new.count
    <3>1. os \in Nat /\ oc \in Nat /\ ns \in Nat /\ nc = oc + 1 /\ ns + nc = b + 1 /\ (oc > 0 => b = os + oc)
      BY <1>3
    <3> HIDE DEF os, oc, ns, nc
    <3>2. oc > 0 => ns = os
      BY ONLY <3>1, b \in Nat
    <3>3. QED BY <3>2 DEF os, oc, ns
  <2>2. ASSUME NEW i \in 1 .. n
        PROVE  /\ i < n => t[i].count = s[i].count
               /\ s[i].count <= t[i].count
               /\ s[i].count > 0 => t[i].start = s[i].start
    <3>1. CASE i = n
      <4>1. t[i] = new /\ s[i] = old
        BY <3>1 DEF old, new
      <4>2. ~(i < n) /\ old.count <= new.count
        BY ONLY <1>3, <3>1, n \in Nat
      <4>3. QED BY <2>1, <4>1, <4>2
    <3>2. CASE i # n
      <4>1. t[i] = s[i]
        BY <3>2
      <4>2. s[i].count <= s[i].count
        BY <1>4
      <4>3. QED BY <4>1, <4>2
    <3>3. QED BY <3>1, <3>2
  <2>3. Len(s) <= Len(t)
    OBVIOUS
  <2>4. QED BY <2>2, <2>3 DEF Extends
<1>6. Before(t, n) = Before(s, n)
  <2>1. \A i \in 1 .. n - 1 : s[i].count = t[i].count
    <3>1. \A i \in 1 .. n - 1 : i \in 1 .. n /\ i # n
      BY ONLY n \in Nat
    <3>2. QED BY <3>1
  <2>2. n <= Len(s) + 1 /\ n <= Len(t) + 1
    OBVIOUS
  <2>3. QED BY <2>1, <2>2, BeforeAgree
<1> DEFINE f == Before(s, n)
           oc == old.count * BlockSize
           nc == new.count * BlockSize
           ns == new.start * BlockSize
           c == b * BlockSize
<1>7. /\ oc \in Nat /\ nc \in Nat /\ ns \in Nat /\ c \in Nat /\ f \in Nat
      /\ nc = oc + BlockSize /\ ns + nc = c + BlockSize
  <2>1. 1 \in Nat /\ 1 * BlockSize = BlockSize
    BY Bytewise
  <2>2. (old.count + 1) * BlockSize = old.count * BlockSize + 1 * BlockSize
    BY <1>3, <2>1, Bytewise
  <2>3. (new.start + new.count) * BlockSize = new.start * BlockSize + new.count * BlockSize
    BY <1>3, Bytewise
  <2>4. (b + 1) * BlockSize = b * BlockSize + 1 * BlockSize
    BY <2>1, Bytewise
  <2>5. oc \in Nat /\ nc \in Nat /\ ns \in Nat /\ c \in Nat /\ f \in Nat
    BY <1>2, <1>3, Bytewise
  <2>6. QED BY <1>3, <2>1, <2>2, <2>3, <2>4, <2>5
<1>8. BlockSum(s) * BlockSize = f + oc /\ BlockSum(t) * BlockSize = f + nc
  BY <1>2, <1>6
<1>9. BlockSize \in Nat /\ BlockSize >= 1
  BY Bytewise
<1>10. ASSUME NEW p \in Nat, f + oc <= p, p < f + nc
       PROVE  Address(t, p) = c + (p - (f + oc))
  <2>1. Before(t, n) <= p /\ p < Before(t, n + 1)
    <3>1. Before(t, n + 1) = Before(t, n) + nc
      BY <1>1, BeforeFacts DEF new
    <3> HIDE DEF f, nc, oc
    <3>2. Before(t, n) = f
      BY <1>6 DEF f
    <3>3. f <= p
      BY <1>7, <1>10
    <3>4. QED BY <1>10, <3>1, <3>2, <3>3
  <2>2. Holds(t, n, p)
    BY <1>1, <2>1 DEF Holds
  <2>3. Address(t, p) = new.start * BlockSize + (p - Before(t, n))
    BY <1>1, <2>2, AddressOf DEF new
  <2>4. Address(t, p) = ns + (p - f)
    BY <1>6, <2>3
  <2> HIDE DEF ns, f, nc, oc, c
  <2>5. ns + (p - f) = c + (p - (f + oc))
    BY ONLY <1>7, <1>9, p \in Nat
  <2>6. QED BY <2>4, <2>5
<1>11. BlockSum(t) * BlockSize = BlockSum(s) * BlockSize + BlockSize
  <2> HIDE DEF f, nc, oc, ns, c
  <2> QED BY ONLY <1>7, <1>8, <1>9
<1>12. QED BY <1>5, <1>8, <1>10, <1>11

\* A growing call takes a free block and clears it: no fork reads differently.
LEMMA TakeStep ==
  ASSUME NoWrap, AllocInv, SpaceInv, FileInv, SpaceInv', TakeAndClear
  PROVE  FileInv' /\ Content' = Content /\ Request' = Request
<1>1. PICK f \in Files : f = file
  BY DEF SpaceInv, TypeOK
<1> DEFINE s == extents[f]
           t == extents'[f]
           n == Len(s)
           c == cur * BlockSize
           b == BlockSum(s) * BlockSize
<1>2. /\ pc = "grow" /\ pc' = "grow" /\ left > 0 /\ cur \notin used /\ GrowTake
      /\ fork' = fork /\ file' = file /\ need' = need /\ left' = left - 1
      /\ size' = size /\ target' = target /\ write' = write
      /\ ClearBlock((cur * BlockSize) % WordRange)
  BY DEF TakeAndClear, GrowTake
<1>3. /\ s \in Seq(Extent) /\ s # <<>> /\ cur \in Blocks /\ left \in Nat /\ need \in Nat
      /\ BlockSum(s) + left = need /\ need > fork[f].total /\ fork[f].total \in Nat
      /\ LastExtent(f).count > 0 => cur = LastExtent(f).start + LastExtent(f).count
  BY <1>1, <1>2, Types DEF SpaceInv, TypeOK, Growing
<1>4. /\ t \in Seq(Extent) /\ Len(t) = n /\ n \in Nat \ {0}
      /\ \A i \in 1 .. n : i # n => t[i] = s[i]
      /\ t[n].count = s[n].count + 1 /\ t[n].start + t[n].count = cur + 1
      /\ \A g \in Files \ {f} : extents'[g] = extents[g]
  <2>1. PICK new \in Extent :
            LET old == LastExtent(file)
                last == Len(extents[file])
            IN  /\ \A g \in Files : g # file => extents'[g] = extents[g]
                /\ extents' \in [Files -> Seq(Extent)]
                /\ Len(extents'[file]) = last /\ last \in Nat \ {0}
                /\ extents'[file][last] = new
                /\ \A i \in DOMAIN extents[file] : i # last => extents'[file][i] = extents[file][i]
                /\ new.count = old.count + 1 /\ old \in Extent
                /\ new.start + new.count = cur + 1
    BY <1>2, Taken
  <2>2. DOMAIN s = 1 .. n
    BY <1>3
  <2>3. QED BY <1>1, <2>1, <2>2 DEF LastExtent
<1>5. /\ cur \in Nat /\ c \in Nat /\ (cur * BlockSize) % WordRange = c
      /\ c + BlockSize <= TotalBlocks * BlockSize
  BY <1>3, OffsetExact
<1>6. /\ Extends(t, s)
      /\ BlockSum(t) * BlockSize = b + BlockSize
      /\ \A p \in Nat : b <= p /\ p < BlockSum(t) * BlockSize => Address(t, p) = c + (p - b)
  <2>1. s[n].count > 0 => cur = s[n].start + s[n].count
    BY <1>3 DEF LastExtent
  <2> HIDE DEF s, t, n
  <2>2. Len(s) = n
    BY DEF n
  <2>3. QED BY <1>3, <1>4, <1>5, <2>1, <2>2, TakenBytes
<1>7. b \in Nat /\ BlockSize \in Nat /\ BlockSize >= 1 /\ BlockSum(s) \in Nat /\ TotalBlocks * BlockSize \in Nat
  <2>1. BlockSum(s) \in Nat
    BY <1>3, SumType
  <2>2. TotalBlocks \in Nat
    OBVIOUS
  <2>3. QED BY <2>1, <2>2, Bytewise
<1>8. /\ image \in [0 .. TotalBlocks * BlockSize - 1 -> Bytes]
      /\ image' = [a \in 0 .. TotalBlocks * BlockSize - 1 |->
                      IF c <= a /\ a < c + BlockSize THEN Zero ELSE image[a]]
  BY <1>2, <1>5 DEF ClearBlock, Overwrite, FileInv, Sized
<1> HIDE DEF b, c
<1>9. ASSUME NEW g \in Files, NEW p \in Nat, p < BlockSum(extents[g]) * BlockSize
      PROVE  image'[Address(extents[g], p)] = image[Address(extents[g], p)]
  <2> DEFINE a == Address(extents[g], p)
  <2>1. a \in 0 .. TotalBlocks * BlockSize - 1
    BY <1>9, AddressInside
  <2>2. ~(c <= a /\ a < c + BlockSize)
    <3> SUFFICES ASSUME c <= a, a < c + BlockSize PROVE FALSE
      OBVIOUS
    <3>1. a - c \in 0 .. BlockSize - 1 /\ c + (a - c) = a
      <4> HIDE DEF a
      <4>1. a \in Nat
        BY ONLY <2>1, <1>7
      <4>2. QED BY ONLY <1>5, <1>7, <4>1, c <= a, a < c + BlockSize
    <3>2. a # c + (a - c)
      BY <1>2, <1>5, <1>9, <3>1, FreeApart DEF c
    <3>3. QED BY <3>1, <3>2
  <2> HIDE DEF a
  <2>3. QED BY <1>8, <2>1, <2>2 DEF a
<1>10. ASSUME NEW g \in Files, NEW p \in Nat, p < BlockSum(extents[g]) * BlockSize
       PROVE  image'[Address(extents'[g], p)] = image[Address(extents[g], p)]
  <2>1. CASE g = f
    <3>1. Address(t, p) = Address(s, p)
      BY <1>3, <1>4, <1>6, <1>10, <2>1, AddressKept
    <3>2. QED BY <1>9, <1>10, <2>1, <3>1
  <2>2. CASE g # f
    BY <1>4, <1>9, <1>10, <2>2
  <2>3. QED BY <2>1, <2>2
<1>11. ASSUME NEW p \in Nat, b <= p, p < BlockSum(t) * BlockSize PROVE image'[Address(t, p)] = Zero
  <2>1. Address(t, p) = c + (p - b)
    BY <1>6, <1>11
  <2>2. p < b + BlockSize
    BY <1>6, <1>11
  <2>3. /\ c + (p - b) \in 0 .. TotalBlocks * BlockSize - 1
        /\ c <= c + (p - b) /\ c + (p - b) < c + BlockSize
    <3> DEFINE all == TotalBlocks * BlockSize
    <3> HIDE DEF all
    <3>1. all \in Nat /\ c + BlockSize <= all
      BY <1>5, <1>7 DEF all
    <3>2. /\ c + (p - b) \in 0 .. all - 1
          /\ c <= c + (p - b) /\ c + (p - b) < c + BlockSize
      BY ONLY <1>5, <1>7, <2>2, <3>1, p \in Nat, b <= p
    <3>3. QED BY <3>2 DEF all
  <2>4. QED BY <1>8, <2>1, <2>3
<1>12. BlockSum(t) = BlockSum(s) + 1
  <2>1. BlockSum(extents'[file']) + left' = need'
    <3>1. (BlockSum(extents[file]) + left = need)'
      BY <1>2 DEF SpaceInv, Growing
    <3>2. QED BY <3>1 DEF BlockSum
  <2>2. BlockSum(t) + (left - 1) = BlockSum(s) + left /\ BlockSum(t) \in Nat
    <3>1. BlockSum(t) \in Nat
      BY <1>4, SumType
    <3>2. QED BY <1>1, <1>2, <1>3, <2>1, <3>1
  <2>3. BlockSum(s) \in Nat /\ left \in Nat
    BY <1>3, <1>7
  <2> HIDE DEF s, t
  <2>4. QED BY ONLY <2>2, <2>3
<1>13. Sized'
  <2>1. image' \in [0 .. TotalBlocks * BlockSize - 1 -> Bytes]
    BY <1>8, DataAssumption
  <2>2. QED BY <1>2, <2>1 DEF FileInv, Sized, BlocksNeeded
<1>14. Targeted'
  BY <1>2 DEF FileInv, Targeted, BlocksNeeded
<1>15. Longer'
  <2>1. fork[f].total <= BlockSum(s)
    BY <1>1, <1>2 DEF FileInv, Longer
  <2>2. fork[f].total <= BlockSum(t)
    <3> HIDE DEF s, t
    <3> QED BY <1>3, <1>7, <1>12, <2>1
  <2>3. Longer' <=> (pc' = "grow" => fork'[file'].total <= BlockSum(extents'[file']))
    BY DEF Longer, BlockSum
  <2>4. QED BY <1>1, <1>2, <2>2, <2>3
<1>16. Cleared'
  <2>1. Cleared' <=>
          (pc' \in {"grow", "write"} /\ need' > fork'[file'].total =>
             \A p \in Nat : fork'[file'].total * BlockSize <= p /\ p < BlockSum(extents'[file']) * BlockSize =>
                image'[Address(extents'[file'], p)] = Zero)
    BY DEF Cleared, BlockSum, Address, Holds, Before
  <2>2. SUFFICES ASSUME NEW p \in Nat, fork[f].total * BlockSize <= p, p < BlockSum(t) * BlockSize
                 PROVE  image'[Address(t, p)] = Zero
    BY <1>1, <1>2, <2>1
  <2>3. CASE b <= p
    BY <1>11, <2>2, <2>3
  <2>4. CASE ~(b <= p)
    <3>1. p < BlockSum(extents[f]) * BlockSize
      <4>1. p < b
        BY ONLY <1>7, <2>4, p \in Nat
      <4>2. QED BY <4>1 DEF b
    <3>2. image[Address(extents[f], p)] = Zero
      BY <1>1, <1>2, <1>3, <2>2, <3>1 DEF FileInv, Cleared
    <3>3. QED BY <1>10, <3>1, <3>2
  <2>5. QED BY <2>3, <2>4
<1>17. Writing'
  <2>1. write \in WriteState
    BY DEF FileInv, Writing
  <2>2. CASE write = NoWrite
    BY <1>2, <2>1, <2>2 DEF Writing, NoWrite, WriteState
  <2>3. CASE write # NoWrite
    <3>1. /\ write.left \in 1 .. write.size /\ EndOf(write) <= MaxSize
          /\ target = EndOf(write) /\ write.ext = 0 /\ size[file] < target
          /\ write.left = write.size
      BY <1>2, <2>3 DEF FileInv, Writing
    <3>2. EndOf(write)' = EndOf(write)
      BY <1>2 DEF EndOf
    <3>3. QED BY <1>2, <2>1, <2>3, <3>1, <3>2 DEF Writing, NoWrite, WriteState
  <2>4. QED BY <2>2, <2>3
<1>18. FileInv'
  BY <1>13, <1>14, <1>15, <1>16, <1>17 DEF FileInv
<1>19. ASSUME NEW g \in Files PROVE Text(g)' = Text(g)
  <2>1. ContentSize(g)' = ContentSize(g)
    BY <1>2 DEF ContentSize
  <2>2. ContentSize(g) \in Nat /\ ContentSize(g) <= BlockSum(extents[g]) * BlockSize /\ BlockSum(extents[g]) \in Nat
    BY Covered
  <2>3. ASSUME NEW p \in Nat, p < ContentSize(g)
        PROVE  image'[Address(extents'[g], p)] = image[Address(extents[g], p)]
    <3> DEFINE e == BlockSum(extents[g]) * BlockSize
    <3>1. e \in Nat /\ ContentSize(g) <= e
      BY <2>2, Bytewise
    <3> HIDE DEF e
    <3>2. p < e
      BY ONLY <2>2, <2>3, <3>1, p \in Nat
    <3>3. QED BY <1>10, <3>2 DEF e
  <2>4. QED BY <2>1, <2>2, <2>3, TextKept
<1>20. Content' = Content
  BY <1>18, <1>19, ContentNow, ContentNext
<1>21. Request' = Request
  BY <1>2 DEF Request, NoWrite
<1>22. QED BY <1>18, <1>20, <1>21

-----------------------------------------------------------------------------
(* The steps of a write *)

\* Between two calls of allocate() a write is inside the fork it writes to.
LEMMA InsideWrite ==
  ASSUME SpaceInv, FileInv, pc = "idle", write # NoWrite, NEW f \in Files, f = file
  PROVE  /\ write.loc \in Nat /\ write.size \in Nat /\ write.left \in Nat /\ write.byte \in Bytes
         /\ write.left \in 1 .. write.size
         /\ EndOf(write) \in Nat /\ EndOf(write) = write.loc + write.size
         /\ EndOf(write) <= size[f] /\ ContentSize(f) = size[f] /\ size[f] \in Nat
         /\ extents[f] \in Seq(Extent) /\ BlockSum(extents[f]) * BlockSize \in Nat
         /\ EndOf(write) <= BlockSum(extents[f]) * BlockSize
<1>1. write \in WriteState /\ write.left \in 1 .. write.size /\ EndOf(write) <= size[file]
  BY DEF FileInv, Writing
<1>2. write.loc \in Nat /\ write.size \in Nat /\ write.left \in Nat /\ write.byte \in Bytes
  BY <1>1 DEF WriteState
<1>3. ContentSize(f) = size[f]
  BY DEF ContentSize
<1>4. /\ extents[f] \in Seq(Extent) /\ size[f] \in Nat /\ BlockSum(extents[f]) \in Nat
      /\ ContentSize(f) <= BlockSum(extents[f]) * BlockSize
  BY Covered
<1>5. EndOf(write) \in Nat /\ EndOf(write) = write.loc + write.size
  BY <1>2 DEF EndOf
<1> DEFINE b == BlockSum(extents[f]) * BlockSize
<1>6. b \in Nat /\ size[f] <= b
  BY <1>3, <1>4, Bytewise
<1> HIDE DEF b
<1>7. EndOf(write) <= b
  BY <1>1, <1>4, <1>5, <1>6
<1>8. QED BY <1>1, <1>2, <1>3, <1>4, <1>5, <1>6, <1>7 DEF b

\* The walk finds the extent the write begins in.
LEMMA WriteLocateStep ==
  ASSUME AllocInv, SpaceInv, FileInv, WriteLocate
  PROVE  /\ AllocInv' /\ SpaceInv' /\ FileInv'
         /\ Content' = Content /\ Request' = Request
<1>1. PICK f \in Files : f = file
  BY DEF SpaceInv, TypeOK
<1> DEFINE p == write.loc
           s == extents[f]
<1>2. /\ pc = "idle" /\ pc' = "idle" /\ write # NoWrite /\ write.ext = 0
      /\ UNCHANGED vars /\ extents' = extents /\ file' = file /\ fork' = fork /\ need' = need
      /\ image' = image /\ size' = size /\ target' = target
      /\ write' = [write EXCEPT !.ext = Locate(s, p).ext, !.in = Locate(s, p).in]
  BY <1>1 DEF WriteLocate, vars, locals
<1>3. AllocInv' /\ SpaceInv'
  BY <1>2, StutterInv, StutterSpace
<1>4. /\ p \in Nat /\ write.size \in Nat /\ write.left \in 1 .. write.size /\ EndOf(write) = p + write.size
      /\ EndOf(write) <= size[f] /\ s \in Seq(Extent) /\ BlockSum(s) * BlockSize \in Nat
      /\ EndOf(write) <= BlockSum(s) * BlockSize /\ write.left = write.size
      /\ write \in WriteState /\ EndOf(write) <= MaxSize
  BY <1>1, <1>2, InsideWrite DEF FileInv, Writing
<1>5. p < BlockSum(s) * BlockSize
  <2> DEFINE b == BlockSum(s) * BlockSize
  <2>1. b \in Nat /\ EndOf(write) <= b
    BY <1>4
  <2> HIDE DEF b, p
  <2>2. p < b
    BY <1>4, <2>1
  <2>3. QED BY <2>2 DEF b
<1>6. PICK k \in 1 .. Len(s) : Holds(s, k, p)
  BY <1>4, <1>5, Held
<1>7. k \in 1 .. Len(s) + 1 /\ Stops(s, k, p) /\ k \in DOMAIN s /\ k \in Nat /\ k # 0
  BY <1>4, <1>6 DEF Holds, Stops
<1>8. Locate(s, p) = [ext |-> k, in |-> p - Before(s, k)]
  BY <1>4, <1>7, LocateStops
<1>9. p - Before(s, k) \in 0 .. s[k].count * BlockSize - 1 /\ Before(s, k) \in Nat
  BY <1>4, <1>6, <1>7, AddressOf, BeforeFacts
<1> DEFINE i == p - Before(s, k)
<1>10. i \in Nat /\ Before(s, k) + i = EndOf(write) - write.left
  <2> HIDE DEF s, p
  <2> QED BY <1>4, <1>9
<1> HIDE DEF i
<1>11. /\ write'.ext = k /\ write'.in = i /\ write'.left = write.left /\ write'.loc = write.loc
       /\ write'.size = write.size /\ write'.byte = write.byte /\ write' \in WriteState
  <2>1. write' = [write EXCEPT !.ext = k, !.in = i]
    BY <1>2, <1>8 DEF i
  <2>2. QED BY <1>4, <1>7, <1>10, <2>1 DEF WriteState
<1>12. write' # NoWrite
  BY <1>7, <1>11 DEF NoWrite
<1>13. EndOf(write)' = EndOf(write)
  BY <1>11 DEF EndOf
<1>14. Writing'
  <2>1. Before(extents[file], write.ext)' = Before(s, k)
    <3>1. Before(extents[file], write.ext)' = Before(extents'[file'], write'.ext)
      BY DEF Before, BlockSum
    <3>2. extents'[file'] = s
      BY <1>1, <1>2
    <3>3. QED BY <1>11, <3>1, <3>2
  <2>2. (write.in \in 0 .. extents[file][write.ext].count * BlockSize - 1)'
    BY <1>1, <1>2, <1>9, <1>11 DEF i
  <2>3. (Before(extents[file], write.ext) + write.in = EndOf(write) - write.left)'
    BY <1>10, <1>11, <1>13, <2>1
  <2>4. (write.ext \in DOMAIN extents[file])' /\ (EndOf(write) <= size[file])'
    BY <1>1, <1>2, <1>4, <1>7, <1>11, <1>13
  <2>5. (write.left \in 1 .. write.size)' /\ (EndOf(write) <= MaxSize)' /\ (write.left = write.size)'
    BY <1>4, <1>11, <1>13 DEF MaxSize
  <2>6. QED BY <1>2, <1>11, <2>2, <2>3, <2>4, <2>5 DEF Writing, WriteState
<1>15. FileInv'
  <2>1. Sized' /\ Targeted' /\ Longer' /\ Cleared'
    BY <1>2 DEF FileInv, Sized, Targeted, Longer, Cleared, BlocksNeeded
  <2>2. QED BY <1>14, <2>1 DEF FileInv
<1>16. Content' = Content
  <2>1. \A g \in Files : ContentSize(g)' = ContentSize(g)
    BY <1>2 DEF ContentSize
  <2>2. \A g \in Files : extents[g] \in Seq(Extent) /\ extents'[g] = extents[g]
    BY <1>2 DEF SpaceInv, TypeOK
  <2>3. QED BY <1>2, <1>3, <1>15, <2>1, <2>2, ContentKept, ExtendsSelf
<1>17. Request' = Request
  BY <1>2, <1>11, <1>12 DEF Request
<1>18. QED BY <1>3, <1>15, <1>16, <1>17

\* Where a write stands: the byte of the fork it goes on with, and what of its
\* data fits into the extent.
Reached == EndOf(write) - write.left
Fitting ==
    LET possible == extents[file][write.ext].count * BlockSize - write.in
    IN  IF write.left > possible THEN possible ELSE write.left

\* They are inside the fork, and the piece ends with the data or with the extent.
LEMMA ChunkPlace ==
  ASSUME AllocInv, SpaceInv, FileInv, pc = "idle", NEW f \in Files, f = file, NEW k \in DOMAIN extents[f],
         k = write.ext
  PROVE  /\ write # NoWrite /\ k \in 1 .. Len(extents[f])
         /\ extents[f][k].start * BlockSize \in Nat /\ extents[f][k].count * BlockSize \in Nat
         /\ write.in \in 0 .. extents[f][k].count * BlockSize - 1
         /\ Before(extents[f], k) \in Nat
         /\ Before(extents[f], k + 1) = Before(extents[f], k) + extents[f][k].count * BlockSize
         /\ Reached \in Nat /\ Reached = Before(extents[f], k) + write.in
         /\ Reached + write.left = EndOf(write)
         /\ Fitting \in 1 .. write.left
         /\ Reached + Fitting <= Before(extents[f], k + 1)
         /\ Fitting = write.left \/ Reached + Fitting = Before(extents[f], k + 1)
<1> DEFINE s == extents[f]
           c == s[k].count * BlockSize
<1>1. s \in Seq(Extent) /\ k \in 1 .. Len(s) /\ k # 0
  <2>1. s \in Seq(Extent)
    BY DEF SpaceInv, TypeOK
  <2>2. QED BY <2>1
<1>2. write # NoWrite
  BY <1>1 DEF NoWrite
<1>3. /\ write.in \in 0 .. c - 1 /\ Before(s, k) + write.in = EndOf(write) - write.left
  BY <1>1, <1>2 DEF FileInv, Writing
<1>4. /\ write.left \in 1 .. write.size /\ write.size \in Nat /\ EndOf(write) \in Nat /\ write.left \in Nat
  BY <1>2, InsideWrite
<1>5. /\ s[k].start * BlockSize \in Nat /\ c \in Nat /\ Before(s, k) \in Nat
      /\ Before(s, k + 1) = Before(s, k) + c
  <2>1. k \in 1 .. Len(s) + 1
    BY <1>1
  <2>2. QED BY <1>1, <2>1, BeforeFacts
<1>6. Fitting = IF write.left > c - write.in THEN c - write.in ELSE write.left
  BY DEF Fitting
<1> DEFINE b == Before(s, k)
<1>7. /\ Reached = b + write.in /\ Reached \in Nat /\ Reached + write.left = EndOf(write)
      /\ Fitting \in 1 .. write.left
      /\ Reached + Fitting <= b + c
      /\ Fitting = write.left \/ Reached + Fitting = b + c
  <2>1. Reached = EndOf(write) - write.left
    BY DEF Reached
  <2>2. b \in Nat /\ c \in Nat
    BY <1>5
  <2>3. write.in \in 0 .. c - 1 /\ b + write.in = EndOf(write) - write.left
    BY <1>3
  <2> HIDE DEF b, c, s
  <2>4. QED BY ONLY <1>4, <1>6, <2>1, <2>2, <2>3
<1>8. QED BY <1>1, <1>2, <1>3, <1>5, <1>7

\* The bytes of that piece lie together on the image.
LEMMA ChunkTogether ==
  ASSUME AllocInv, SpaceInv, FileInv, pc = "idle", NEW f \in Files, f = file, NEW k \in DOMAIN extents[f],
         k = write.ext, NEW p \in Nat, Reached <= p, p < Reached + Fitting
  PROVE  /\ p < BlockSum(extents[f]) * BlockSize
         /\ Address(extents[f], p) = extents[f][k].start * BlockSize + write.in + (p - Reached)
<1> DEFINE s == extents[f]
           b == Before(s, k)
           n == Before(s, k + 1)
           e == BlockSum(s) * BlockSize
           a == s[k].start * BlockSize
           c == s[k].count * BlockSize
<1>1. /\ k \in 1 .. Len(s) /\ a \in Nat /\ b \in Nat /\ n = b + c
      /\ c \in Nat /\ write.in \in 0 .. c - 1
      /\ Reached \in Nat /\ Reached = b + write.in /\ Fitting \in Nat
      /\ Reached + Fitting <= n /\ write # NoWrite
      /\ Reached + Fitting <= EndOf(write)
  <2>1. write.left \in Nat /\ EndOf(write) \in Nat
    BY ChunkPlace, InsideWrite
  <2>2. Reached + Fitting <= EndOf(write) /\ Fitting \in Nat
    <3>1. Reached \in Nat /\ Fitting \in 1 .. write.left /\ Reached + write.left = EndOf(write)
      BY ChunkPlace
    <3>2. QED BY ONLY <2>1, <3>1
  <2>3. QED BY <2>2, ChunkPlace
<1>2. s \in Seq(Extent) /\ EndOf(write) <= e /\ e \in Nat /\ EndOf(write) \in Nat
  BY <1>1, InsideWrite
<1>3. b <= p /\ p < n /\ p < e
  <2> HIDE DEF b, c, n, e
  <2>1. n \in Nat /\ write.in \in Nat
    BY ONLY <1>1
  <2>2. /\ b \in Nat /\ Reached \in Nat /\ Fitting \in Nat /\ Reached = b + write.in
        /\ Reached + Fitting <= n /\ Reached + Fitting <= EndOf(write)
        /\ EndOf(write) \in Nat /\ e \in Nat /\ EndOf(write) <= e
    BY ONLY <1>1, <1>2
  <2>3. b <= p /\ p < n
    BY ONLY <2>1, <2>2, p \in Nat, Reached <= p, p < Reached + Fitting
  <2>4. p < e
    BY ONLY <2>2, p \in Nat, p < Reached + Fitting
  <2>5. QED BY <2>3, <2>4
<1>4. Holds(s, k, p)
  BY <1>3 DEF Holds
<1>5. Address(s, p) = a + (p - b)
  <2>1. s \in Seq(Extent) /\ k \in 1 .. Len(s)
    BY <1>1, <1>2
  <2>2. QED BY <1>4, <2>1, AddressOf
<1>6. a + (p - b) = a + write.in + (p - Reached)
  <2> HIDE DEF a, b, c
  <2>1. a \in Nat /\ b \in Nat /\ write.in \in Nat /\ Reached = b + write.in
    BY ONLY <1>1
  <2>2. QED BY ONLY <2>1, p \in Nat
<1>7. QED BY <1>3, <1>5, <1>6

\* A chunk overwrites those bytes of the fork and no other byte of any fork.
LEMMA ChunkBytes ==
  ASSUME AllocInv, SpaceInv, FileInv, WriteChunk, NEW f \in Files, f = file,
         NEW g \in Files, NEW q \in Nat, q < BlockSum(extents[g]) * BlockSize
  PROVE  image'[Address(extents[g], q)] =
            IF g = f /\ Reached <= q /\ q < Reached + Fitting THEN write.byte
            ELSE image[Address(extents[g], q)]
<1>1. PICK k \in DOMAIN extents[f] : k = write.ext
  BY DEF WriteChunk
<1> DEFINE at == extents[f][k].start * BlockSize + write.in
           a == Address(extents[g], q)
<1>2. pc = "idle" /\ Overwrite(at, Fitting, write.byte)
  BY <1>1 DEF WriteChunk, Fitting
<1>3. image' = [x \in 0 .. TotalBlocks * BlockSize - 1 |->
                   IF at <= x /\ x < at + Fitting THEN write.byte ELSE image[x]]
  BY <1>2 DEF Overwrite, FileInv, Sized
<1>4. a \in 0 .. TotalBlocks * BlockSize - 1
  BY AddressInside
<1>5. at \in Nat /\ Reached \in Nat /\ Fitting \in Nat
  <2>1. /\ extents[f][k].start * BlockSize \in Nat /\ extents[f][k].count * BlockSize \in Nat
        /\ write.in \in 0 .. extents[f][k].count * BlockSize - 1
        /\ Reached \in Nat /\ Fitting \in 1 .. write.left /\ write # NoWrite
    BY <1>1, <1>2, ChunkPlace
  <2>2. write.left \in Nat
    BY <1>2, <2>1, InsideWrite
  <2>3. QED BY <2>1, <2>2
<1>6. image'[a] = IF at <= a /\ a < at + Fitting THEN write.byte ELSE image[a]
  <2> HIDE DEF at, a
  <2> QED BY <1>3, <1>4
<1>7. CASE g = f /\ Reached <= q /\ q < Reached + Fitting
  <2>1. a = at + (q - Reached)
    BY <1>1, <1>2, <1>7, ChunkTogether
  <2> HIDE DEF a, at
  <2>2. at <= a /\ a < at + Fitting
    BY ONLY <1>5, <1>7, <2>1, q \in Nat
  <2>3. QED BY <1>6, <1>7, <2>2 DEF a
<1>8. CASE ~(g = f /\ Reached <= q /\ q < Reached + Fitting)
  <2>1. ~(at <= a /\ a < at + Fitting)
    <3> SUFFICES ASSUME at <= a, a < at + Fitting PROVE FALSE
      OBVIOUS
    <3> DEFINE p == Reached + (a - at)
    <3>1. p \in Nat /\ Reached <= p /\ p < Reached + Fitting /\ at + (p - Reached) = a
      <4>1. a \in Nat
        <5>1. TotalBlocks * BlockSize \in Nat
          BY Bytewise
        <5> HIDE DEF a
        <5>2. QED BY ONLY <1>4, <5>1
      <4> HIDE DEF a, at
      <4>2. QED BY ONLY <1>5, <4>1, at <= a, a < at + Fitting
    <3> HIDE DEF p
    <3>2. p < BlockSum(extents[f]) * BlockSize /\ Address(extents[f], p) = a
      BY <1>1, <1>2, <3>1, ChunkTogether
    <3>3. f # g \/ p # q
      BY <1>8, <3>1
    <3>4. QED BY <3>1, <3>2, <3>3, AddressesApart
  <2>2. QED BY <1>6, <1>8, <2>1
<1>9. QED BY <1>7, <1>8

\* After a chunk the write has returned, or stands at the start of the next
\* extent.
LEMMA ChunkWriting ==
  ASSUME AllocInv, SpaceInv, FileInv, WriteChunk, NEW f \in Files, f = file
  PROVE  /\ Writing'
         /\ Fitting = write.left => write' = NoWrite
         /\ Fitting # write.left =>
               /\ write' # NoWrite /\ EndOf(write)' = EndOf(write)
               /\ write'.left = write.left - Fitting
               /\ write'.loc = write.loc /\ write'.size = write.size /\ write'.byte = write.byte
<1>1. PICK k \in DOMAIN extents[f] : k = write.ext
  BY DEF WriteChunk
<1> DEFINE s == extents[f]
           n == Before(s, k + 1)
           e == BlockSum(s) * BlockSize
           c == s[k + 1].count * BlockSize
<1>2. /\ pc = "idle" /\ pc' = "idle" /\ write' = AfterChunk(Fitting)
      /\ extents' = extents /\ file' = file /\ size' = size /\ target' = target
  BY <1>1 DEF WriteChunk, Fitting, vars, locals
<1>3. /\ write # NoWrite /\ k \in 1 .. Len(s) /\ Reached \in Nat
      /\ Reached + write.left = EndOf(write) /\ Fitting \in 1 .. write.left
      /\ Fitting = write.left \/ Reached + Fitting = n
  BY <1>1, <1>2, ChunkPlace
<1>4. /\ write.loc \in Nat /\ write.size \in Nat /\ write.left \in Nat /\ write.byte \in Bytes
      /\ write.left \in 1 .. write.size /\ EndOf(write) \in Nat
      /\ EndOf(write) <= size[f] /\ s \in Seq(Extent) /\ e \in Nat /\ EndOf(write) <= e
      /\ EndOf(write) = write.loc + write.size
  BY <1>2, <1>3, InsideWrite
<1>5. write \in WriteState /\ EndOf(write) <= MaxSize
  BY <1>3 DEF FileInv, Writing
<1>6. CASE Fitting = write.left
  <2>1. write' = NoWrite
    BY <1>2, <1>6 DEF AfterChunk
  <2>2. NoWrite \in WriteState
    BY DataAssumption DEF NoWrite, WriteState
  <2>3. Writing'
    BY <2>1, <2>2 DEF Writing, NoWrite, WriteState
  <2>4. QED BY <1>6, <2>1, <2>3
<1>7. CASE Fitting # write.left
  <2> DEFINE w == [write EXCEPT !.left = @ - Fitting, !.ext = @ + 1, !.in = 0]
  <2>1. write' = w
    BY <1>2, <1>7 DEF AfterChunk
  <2>2. write.left - Fitting \in Nat /\ write.left - Fitting >= 1 /\ Fitting \in Nat /\ k + 1 \in Nat /\ k + 1 # 0
    <3>1. Fitting \in 1 .. write.left /\ write.left \in Nat
      BY <1>3, <1>4
    <3>2. write.left - Fitting \in Nat /\ write.left - Fitting >= 1 /\ Fitting \in Nat
      BY ONLY <1>7, <3>1
    <3>3. k \in Nat
      BY <1>3
    <3>4. QED BY <3>2, <3>3
  <2>3. /\ w \in WriteState /\ w.left = write.left - Fitting /\ w.ext = k + 1 /\ w.in = 0
        /\ w.loc = write.loc /\ w.size = write.size /\ w.byte = write.byte
    BY <1>1, <1>5, <2>2 DEF WriteState
  <2> HIDE DEF w
  <2>4. w # NoWrite
    BY <2>2, <2>3 DEF NoWrite
  <2>5. EndOf(write)' = EndOf(write)
    BY <2>1, <2>3 DEF EndOf
  <2>6. n = Reached + Fitting /\ n < EndOf(write) /\ n = EndOf(write) - (write.left - Fitting)
    <3> HIDE DEF n, s
    <3>1. Reached \in Nat /\ Reached + write.left = EndOf(write) /\ write.left \in Nat /\ EndOf(write) \in Nat
      BY <1>3, <1>4
    <3>2. n = Reached + Fitting
      BY <1>3, <1>7
    <3>3. QED BY ONLY <2>2, <3>1, <3>2
  <2>7. k + 1 \in 1 .. Len(s)
    <3>1. k # Len(s)
      <4> SUFFICES ASSUME k = Len(s) PROVE FALSE
        OBVIOUS
      <4>1. n = e
        BY <1>4, BeforeFacts
      <4> HIDE DEF n, e
      <4>2. QED BY <1>4, <2>6, <4>1
    <3>2. Len(s) \in Nat
      BY <1>4
    <3>3. QED BY <1>3, <3>1, <3>2
  <2>8. 0 \in 0 .. c - 1
    <3>1. Sound(s)
      <4>1. Sound(fork[f].exts) /\ s = fork[f].exts
        BY <1>2 DEF SpaceInv, ForksWhole, Whole, InStep
      <4>2. QED BY <4>1
    <3>2. s[k + 1].count \in Nat /\ s[k + 1].count > 0
      BY <1>4, <2>7, <3>1, BeforeFacts DEF Sound
    <3>3. c \in Nat /\ c >= s[k + 1].count
      BY <3>2, Bytewise
    <3> HIDE DEF c
    <3>4. QED BY <3>2, <3>3
  <2>9. Writing'
    <3>1. (Before(extents[file], write.ext) + write.in = EndOf(write) - write.left)'
      <4>1. Before(extents[file], write.ext)' = Before(extents'[file'], write'.ext)
        BY DEF Before, BlockSum
      <4>2. extents'[file'] = s
        BY <1>2
      <4>3. Before(extents[file], write.ext)' = n
        BY <2>1, <2>3, <4>1, <4>2
      <4>4. n + 0 = EndOf(write) - (write.left - Fitting)
        <5> HIDE DEF n
        <5>1. n \in Nat
          BY ONLY <1>3, <2>2, <2>6
        <5>2. QED BY ONLY <2>6, <5>1
      <4>5. Before(extents[file], write.ext)' + write'.in = EndOf(write)' - write'.left
        <5> HIDE DEF n
        <5> QED BY ONLY <2>1, <2>3, <2>5, <4>3, <4>4
      <4>6. QED BY <4>5
    <3>2. (write.in \in 0 .. extents[file][write.ext].count * BlockSize - 1)'
      BY <1>2, <2>1, <2>3, <2>8
    <3>3. (write.ext \in DOMAIN extents[file])' /\ (EndOf(write) <= size[file])' /\ (EndOf(write) <= MaxSize)'
      BY <1>2, <1>4, <1>5, <2>1, <2>3, <2>5, <2>7 DEF MaxSize
    <3>4. (write.left \in 1 .. write.size)'
      BY <1>4, <2>1, <2>2, <2>3
    <3>5. write'.ext # 0
      BY <1>3, <2>1, <2>3
    <3>6. QED BY <1>2, <2>1, <2>3, <3>1, <3>2, <3>3, <3>4, <3>5 DEF Writing, WriteState
  <2>10. QED BY <1>7, <2>1, <2>3, <2>4, <2>5, <2>9
<1>8. QED BY <1>6, <1>7

\* A chunk fills in a piece of the range the call asks for.
LEMMA WriteChunkStep ==
  ASSUME AllocInv, SpaceInv, FileInv, WriteChunk
  PROVE  AllocInv' /\ SpaceInv' /\ FileInv' /\ Store!Next
<1>1. PICK f \in Files : f = file
  BY DEF SpaceInv, TypeOK
<1>2. PICK k \in DOMAIN extents[f] : k = write.ext
  BY <1>1 DEF WriteChunk
<1>3. /\ pc = "idle" /\ pc' = "idle" /\ UNCHANGED vars
      /\ extents' = extents /\ file' = file /\ fork' = fork /\ need' = need
      /\ size' = size /\ target' = target
  BY DEF WriteChunk, vars, locals
<1>4. AllocInv' /\ SpaceInv'
  BY <1>3, StutterInv, StutterSpace
<1>5. /\ Writing'
      /\ Fitting = write.left => write' = NoWrite
      /\ Fitting # write.left =>
            /\ write' # NoWrite /\ EndOf(write)' = EndOf(write)
            /\ write'.left = write.left - Fitting
            /\ write'.loc = write.loc /\ write'.size = write.size /\ write'.byte = write.byte
  BY <1>1, ChunkWriting
<1>6. /\ write # NoWrite /\ Reached \in Nat /\ Reached + write.left = EndOf(write)
      /\ Fitting \in 1 .. write.left
  BY <1>1, <1>2, <1>3, ChunkPlace
<1>7. /\ write.left \in Nat /\ write.byte \in Bytes /\ EndOf(write) \in Nat /\ EndOf(write) <= size[f]
      /\ size[f] \in Nat
      /\ EndOf(write) = write.loc + write.size /\ write.loc \in Nat /\ write.size \in Nat
  BY <1>1, <1>3, <1>6, InsideWrite
<1>8. FileInv'
  <2>1. image' \in [0 .. TotalBlocks * BlockSize - 1 -> Bytes]
    <3>1. \E at, n : Overwrite(at, n, write.byte)
      BY DEF WriteChunk
    <3>2. QED BY <1>7, <3>1 DEF Overwrite, FileInv, Sized
  <2>2. Sized' /\ Targeted' /\ Longer' /\ Cleared'
    BY <1>3, <2>1 DEF FileInv, Sized, Targeted, Longer, Cleared, BlocksNeeded
  <2>3. QED BY <1>5, <2>2 DEF FileInv
<1>9. ASSUME NEW g \in Files
      PROVE  /\ ContentSize(g)' = ContentSize(g) /\ ContentSize(g) = size[g] /\ size[g] \in Nat
             /\ \A q \in Nat : q < size[g] => q < BlockSum(extents[g]) * BlockSize
  <2>1. ContentSize(g)' = ContentSize(g) /\ ContentSize(g) = size[g]
    BY <1>3 DEF ContentSize
  <2>2. /\ size[g] \in Nat /\ BlockSum(extents[g]) \in Nat
        /\ ContentSize(g) <= BlockSum(extents[g]) * BlockSize
    BY Covered
  <2> DEFINE b == BlockSum(extents[g]) * BlockSize
  <2>3. b \in Nat /\ size[g] <= b
    BY <2>1, <2>2, Bytewise
  <2> HIDE DEF b
  <2>4. \A q \in Nat : q < size[g] => q < b
    BY ONLY <2>2, <2>3
  <2>5. QED BY <2>1, <2>2, <2>4 DEF b
<1>10. ASSUME NEW g \in Files, g # f PROVE Text(g)' = Text(g)
  <2>1. ASSUME NEW q \in Nat, q < ContentSize(g)
        PROVE  image'[Address(extents'[g], q)] = image[Address(extents[g], q)]
    <3>1. q < BlockSum(extents[g]) * BlockSize
      BY <1>9, <2>1
    <3>2. QED BY <1>1, <1>3, <1>10, <3>1, ChunkBytes
  <2>2. ContentSize(g)' = ContentSize(g) /\ ContentSize(g) \in Nat
    BY <1>9
  <2>3. QED BY <2>1, <2>2, TextKept
<1> DEFINE last == Reached + Fitting
           old == Text(f)
           new == [i \in DOMAIN old |-> IF Reached + 1 <= i /\ i <= last THEN write.byte ELSE old[i]]
<1>11. DOMAIN old = 1 .. size[f] /\ Len(old) = size[f]
  BY <1>9 DEF Text
<1>12. Text(f)' = new
  <2>1. Text(f)' = [i \in 1 .. ContentSize(f)' |-> image'[Address(extents'[f], i - 1)]]
    BY DEF Text, Address, Holds, Before, BlockSum
  <2>2. ASSUME NEW i \in 1 .. size[f]
        PROVE  image'[Address(extents'[f], i - 1)] = new[i]
    <3>1. i - 1 \in Nat /\ i - 1 < size[f]
      BY <1>9
    <3>2. i - 1 < BlockSum(extents[f]) * BlockSize
      BY <1>9, <3>1
    <3>3. image'[Address(extents[f], i - 1)] =
             IF Reached <= i - 1 /\ i - 1 < Reached + Fitting THEN write.byte
             ELSE image[Address(extents[f], i - 1)]
      BY <1>1, <3>1, <3>2, ChunkBytes
    <3>4. Reached <= i - 1 /\ i - 1 < Reached + Fitting <=> Reached + 1 <= i /\ i <= last
      <4>1. Fitting \in Nat /\ i \in Nat
        BY <1>6, <1>7
      <4>2. QED BY ONLY <1>6, <4>1
    <3>5. old[i] = image[Address(extents[f], i - 1)]
      BY <1>9 DEF Text
    <3>6. new[i] = IF Reached + 1 <= i /\ i <= last THEN write.byte ELSE old[i]
      BY <1>11
    <3> HIDE DEF new, old, last
    <3>7. QED BY <1>3, <3>3, <3>4, <3>5, <3>6
  <2>3. ContentSize(f)' = size[f]
    BY <1>9
  <2> HIDE DEF old
  <2>4. QED BY <1>11, <2>1, <2>2, <2>3
<1>13. Content = [g \in Files |-> Text(g)] /\ Content' = [g \in Files |-> Text(g)']
  BY <1>4, <1>8, ContentNow, ContentNext
<1>14. Request = [fork |-> f, size |-> size[f], from |-> Reached + 1, to |-> EndOf(write), byte |-> write.byte]
  <2>1. ~(size[file] < write.loc + write.size)
    BY <1>1, <1>7
  <2>2. write.loc + write.size - write.left = Reached
    BY <1>7 DEF Reached, EndOf
  <2>3. QED BY <1>1, <1>6, <1>7, <2>1, <2>2 DEF Request
<1>15. Request # Store!NoRequest
  BY <1>14 DEF Store!NoRequest
<1>16. last \in Reached + 1 .. EndOf(write) /\ last \in Nat /\ (last = EndOf(write) <=> Fitting = write.left)
  BY ONLY <1>6, <1>7
<1>17. Request' = IF last = EndOf(write) THEN Store!NoRequest ELSE [Request EXCEPT !.from = last + 1]
  <2>1. CASE last = EndOf(write)
    <3>1. write' = NoWrite
      BY <1>5, <1>16, <2>1
    <3>2. Request' = Store!NoRequest
      BY <1>3, <3>1 DEF Request, NoWrite, Store!NoRequest
    <3>3. QED BY <2>1, <3>2
  <2>2. CASE last # EndOf(write)
    <3>1. /\ write' # NoWrite /\ write'.left = write.left - Fitting
          /\ write'.loc = write.loc /\ write'.size = write.size /\ write'.byte = write.byte
      BY <1>5, <1>16, <2>2
    <3>2. /\ ~(size'[file'] < write'.loc + write'.size)
          /\ write'.loc + write'.size = EndOf(write)
      BY <1>1, <1>3, <1>7, <3>1
    <3>3. EndOf(write) - write'.left + 1 = last + 1
      <4>1. Fitting \in Nat
        BY <1>6, <1>7
      <4>2. write'.left = write.left - Fitting
        BY <3>1
      <4>3. QED BY ONLY <1>6, <1>7, <4>1, <4>2
    <3>4. Request' = [fork |-> f, size |-> size[f], from |-> last + 1, to |-> EndOf(write), byte |-> write.byte]
      <4> HIDE DEF last
      <4> QED BY <1>1, <1>3, <3>1, <3>2, <3>3 DEF Request, NoWrite
    <3> HIDE DEF last
    <3>5. QED BY <1>14, <2>2, <3>4
  <2>3. QED BY <2>1, <2>2
<1>18. Store!Fill
  <2>1. Request.fork = f /\ Request.size = size[f] /\ Request.from = Reached + 1
        /\ Request.to = EndOf(write) /\ Request.byte = write.byte
    BY <1>14
  <2>2. Content[f] = old /\ Content'[f] = new /\ \A g \in Files \ {f} : Content'[g] = Content[g]
    BY <1>10, <1>12, <1>13
  <2>3. Len(Content[Request.fork]) = Request.size
    BY <1>11, <2>1, <2>2
  <2>4. Store!Filled(Content[Request.fork], Content'[Request.fork], Request.from, last, Request.byte)
    <3> HIDE DEF old, last
    <3> QED BY <2>1, <2>2 DEF Store!Filled
  <2>5. \E j \in Request.from .. Request.to :
           /\ Store!Filled(Content[Request.fork], Content'[Request.fork], Request.from, j, Request.byte)
           /\ Request' = IF j = Request.to THEN Store!NoRequest ELSE [Request EXCEPT !.from = j + 1]
    <3>1. last \in Request.from .. Request.to
      BY <1>16, <2>1
    <3>2. Request' = IF last = Request.to THEN Store!NoRequest ELSE [Request EXCEPT !.from = last + 1]
      BY <1>17, <2>1
    <3> HIDE DEF last
    <3>3. QED BY <2>4, <3>1, <3>2
  <2>6. Store!Others(Request.fork)
    BY <2>1, <2>2 DEF Store!Others, Content
  <2>7. QED BY <1>15, <2>3, <2>5, <2>6 DEF Store!Fill, Content
<1>19. QED BY <1>4, <1>8, <1>18 DEF Store!Next

\* rawFileRead of a list of extents, on an image.
ReadOf(img, exts, n) ==
    LET first == Locate(exts, 0)
        read[k \in 0 .. Len(exts)] ==
            IF k < first.ext THEN <<>>
            ELSE LET got == read[k - 1]
                     in == IF k = first.ext THEN first.in ELSE 0
                     possible == exts[k].count * BlockSize - in
                     now == IF n - Len(got) > possible THEN possible ELSE n - Len(got)
                     at == exts[k].start * BlockSize + in
                 IN  got \o [i \in 1 .. now |-> img[at + i - 1]]
    IN  read[Len(exts)]

\* A step that touches neither the image, nor a list, nor a size leaves all
\* contents.
LEMMA ContentStays ==
  ASSUME image' = image, extents' = extents, \A f : ContentSize(f)' = ContentSize(f)
  PROVE  Content' = Content
<1>1. ASSUME NEW f \in Files PROVE RawFileRead(f, 0, ContentSize(f))' = RawFileRead(f, 0, ContentSize(f))
  <2>1. RawFileRead(f, 0, ContentSize(f)) = ReadOf(image, extents[f], ContentSize(f))
    BY DEF RawFileRead, ReadOf
  <2>2. RawFileRead(f, 0, ContentSize(f))' = ReadOf(image', extents'[f], ContentSize(f)')
    BY DEF RawFileRead, ReadOf, Locate
  <2>3. QED BY <2>1, <2>2
<1>2. QED BY <1>1 DEF Content

\* A full volume ends the process: no byte has changed.
LEMMA RefusedStep ==
  ASSUME AllocInv, NEW f, NEW loc, NEW n, WriteRefused(f, loc, n)
  PROVE  AllocInv' /\ pc' = "panic" /\ Content' = Content /\ Request' = Request
<1>1. /\ pc = "idle" /\ pc' = "panic" /\ write = NoWrite
      /\ UNCHANGED <<used, header, extents, fork, overflow, saved, need, left, cur, list, idx, history>>
      /\ file' = file /\ image' = image /\ size' = size /\ target' = target /\ write' = write
  BY DEF WriteRefused, locals, fileVars
<1>2. file' \in Files
  BY <1>1 DEF AllocInv, TypeOK
<1>3. AllocInv'
  BY <1>1, <1>2, IdleStep
<1>4. \A g : ContentSize(g)' = ContentSize(g)
  BY <1>1 DEF ContentSize
<1>5. Content' = Content
  BY <1>1, <1>4, ContentStays
<1>6. Request' = Request
  BY <1>1 DEF Request, NoWrite
<1>7. QED BY <1>1, <1>3, <1>5, <1>6

-----------------------------------------------------------------------------
(* The refinement *)

\* On a new volume every fork is empty and no call runs.
LEMMA RawInitial ==
  RawInit => /\ AllocInv /\ SpaceInv /\ FileInv
             /\ Content = [f \in Files |-> <<>>] /\ Request = Store!NoRequest
<1> SUFFICES ASSUME RawInit
             PROVE  /\ AllocInv /\ SpaceInv /\ FileInv
                    /\ Content = [f \in Files |-> <<>>] /\ Request = Store!NoRequest
  OBVIOUS
<1>1. /\ Init /\ pc = "idle" /\ write = NoWrite /\ target = 0 /\ size = [f \in Files |-> 0]
      /\ image = [a \in 0 .. TotalBlocks * BlockSize - 1 |-> Zero]
      /\ fork = [f \in Files |-> NoFork]
  BY DEF RawInit, Init
<1>2. AllocInv /\ SpaceInv
  BY <1>1, InitInv, InitSpace
<1>3. BlocksNeeded(0) = 0
  <2>1. 0 \in Nat /\ 0 <= 0 * BlockSize
    BY Bytewise
  <2>2. BlocksNeeded(0) \in Nat /\ BlocksNeeded(0) <= 0
    BY <2>1, Needed
  <2>3. QED BY <2>2
<1>4. Sized
  <2>1. MaxSize \in Nat
    BY Bytewise DEF MaxSize
  <2>2. QED BY <1>1, <1>3, <2>1, DataAssumption DEF Sized, NoFork
<1>5. NoWrite \in WriteState
  BY DataAssumption DEF NoWrite, WriteState
<1>6. Targeted /\ Longer /\ Cleared /\ Writing
  BY <1>1, <1>5 DEF Targeted, Longer, Cleared, Writing
<1>7. FileInv
  BY <1>4, <1>6 DEF FileInv
<1>8. \A f \in Files : ContentSize(f) = 0
  BY <1>1 DEF ContentSize
<1>9. \A f \in Files : Text(f) = <<>>
  BY <1>8 DEF Text
<1>10. Content = [f \in Files |-> <<>>]
  BY <1>2, <1>7, <1>9, ContentNow
<1>11. Request = Store!NoRequest
  BY <1>1 DEF Request, Store!NoRequest
<1>12. QED BY <1>2, <1>7, <1>10, <1>11

\* The inductive invariant. After hfs_panic only the blocks are still accounted for.
RawInv == AllocInv /\ (pc # "panic" => SpaceInv /\ FileInv)

\* Nothing happens after hfs_panic.
LEMMA PanicStays == pc = "panic" /\ RawNext => UNCHANGED allVars
  BY DEF RawNext, SetSize, Allocate, AllocateGrow, AllocateShrink, AllocateSame, WriteStart, WriteRefused,
         RawStep, WriteLocate, WriteChunk, TakeAndClear, GrowTake, SaveExtents, WriteExtents, AllocStep,
         GrowSkip, GrowDone, ShrinkWalk, ShrinkCut, ShrinkFree, ShrinkNextExtent, UpdateVolume,
         UpdateCatalog, Panicked

\* Nothing changes, and nothing is seen to change.
LEMMA RawStutter ==
  ASSUME RawInv, UNCHANGED allVars
  PROVE  RawInv' /\ Content' = Content /\ Request' = Request
<1>1. /\ UNCHANGED vars /\ extents' = extents /\ file' = file /\ fork' = fork /\ need' = need /\ pc' = pc
      /\ image' = image /\ size' = size /\ target' = target /\ write' = write
  BY DEF allVars, fileVars, vars, locals
<1>2. AllocInv'
  BY <1>1, StutterInv DEF RawInv
<1>3. ASSUME pc # "panic" PROVE SpaceInv' /\ FileInv'
  <2>1. SpaceInv'
    BY <1>1, <1>3, StutterSpace DEF RawInv
  <2>2. Sized' /\ Targeted' /\ Longer' /\ Cleared' /\ Writing'
    BY <1>1, <1>3 DEF RawInv, FileInv, Sized, Targeted, Longer, Cleared, Writing, BlocksNeeded
  <2>3. QED BY <2>1, <2>2 DEF FileInv
<1>4. RawInv'
  BY <1>1, <1>2, <1>3 DEF RawInv
<1>5. \A g : ContentSize(g)' = ContentSize(g)
  BY <1>1 DEF ContentSize
<1>6. Content' = Content
  BY <1>1, <1>5, ContentStays
<1>7. Request' = Request
  BY <1>1 DEF Request, NoWrite
<1>8. QED BY <1>4, <1>6, <1>7

\* The sizes of the model are sizes a fork may have.
LEMMA SizesBounded == Sizes \subseteq 0 .. MaxSize /\ MaxSize \in Nat
  BY DataAssumption, Bytewise DEF MaxSize

\* Every step is one of FileStore, or changes nothing that FileStore sees.
LEMMA RawNextStep ==
  ASSUME FitsInline, NoWrap, RawInv, [RawNext]_allVars
  PROVE  RawInv' /\ [Store!Next]_<<Content, Request>>
<1>1. CASE UNCHANGED allVars
  BY <1>1, RawStutter
<1>2. CASE pc = "panic"
  BY <1>1, <1>2, PanicStays
<1>3. ASSUME pc # "panic", RawNext PROVE RawInv' /\ [Store!Next]_<<Content, Request>>
  <2>1. AllocInv /\ SpaceInv /\ FileInv
    BY <1>3 DEF RawInv
  <2>2. ASSUME NEW f \in Files, NEW n \in Sizes, SetSize(f, n)
        PROVE  RawInv' /\ [Store!Next]_<<Content, Request>>
    <3>1. n \in 0 .. MaxSize
      BY SizesBounded
    <3>2. AllocInv' /\ SpaceInv' /\ FileInv' /\ Store!Next
      BY <2>1, <2>2, <3>1, SetSizeStep
    <3>3. QED BY <3>2 DEF RawInv
  <2>3. ASSUME NEW f \in Files, NEW loc \in Sizes, NEW end \in Sizes, NEW b \in Data, loc < end,
               WriteStart(f, loc, end - loc, b) \/ WriteRefused(f, loc, end - loc)
        PROVE  RawInv' /\ [Store!Next]_<<Content, Request>>
    <3>1. /\ loc \in Nat /\ end \in 0 .. MaxSize /\ end - loc \in Nat \ {0}
          /\ loc + (end - loc) \in 0 .. MaxSize
      BY <2>3, SizesBounded
    <3>2. CASE WriteStart(f, loc, end - loc, b)
      <4>1. AllocInv' /\ SpaceInv' /\ FileInv' /\ Store!Next
        BY <2>1, <3>1, <3>2, WriteStartStep
      <4>2. QED BY <4>1 DEF RawInv
    <3>3. CASE WriteRefused(f, loc, end - loc)
      <4>1. AllocInv' /\ pc' = "panic" /\ Content' = Content /\ Request' = Request
        BY <2>1, <3>3, RefusedStep
      <4>2. QED BY <4>1 DEF RawInv
    <3>4. QED BY <2>3, <3>2, <3>3
  <2>4. CASE WriteLocate
    <3>1. AllocInv' /\ SpaceInv' /\ FileInv' /\ Content' = Content /\ Request' = Request
      BY <2>1, <2>4, WriteLocateStep
    <3>2. QED BY <3>1 DEF RawInv
  <2>5. CASE WriteChunk
    <3>1. AllocInv' /\ SpaceInv' /\ FileInv' /\ Store!Next
      BY <2>1, <2>5, WriteChunkStep
    <3>2. QED BY <3>1 DEF RawInv
  <2>6. ASSUME Step PROVE AllocInv' /\ SpaceInv'
    <3>1. Next
      BY <2>6 DEF Next
    <3>2. QED BY <2>1, <3>1, NextInv, NextSpace
  <2>7. CASE TakeAndClear
    <3>1. Step
      BY <2>7 DEF TakeAndClear, Step
    <3>2. AllocInv' /\ SpaceInv' /\ FileInv' /\ Content' = Content /\ Request' = Request
      BY <2>1, <2>6, <2>7, <3>1, TakeStep
    <3>3. QED BY <3>2 DEF RawInv
  <2>8. CASE SaveExtents
    <3>1. Step
      BY <2>8 DEF SaveExtents, Step
    <3>2. AllocInv' /\ SpaceInv' /\ FileInv' /\ Store!Next
      BY <2>1, <2>6, <2>8, <3>1, SaveStep
    <3>3. QED BY <3>2 DEF RawInv
  <2>9. CASE AllocStep
    <3>1. /\ Step /\ UNCHANGED fileVars
          /\ \/ GrowSkip \/ GrowDone \/ ShrinkWalk \/ ShrinkFree \/ ShrinkNextExtent \/ UpdateVolume
             \/ ShrinkCut
             \/ UpdateCatalog
      BY <2>9 DEF AllocStep, Step
    <3>2. AllocInv' /\ SpaceInv'
      BY <2>6, <3>1
    <3>3. CASE GrowSkip \/ GrowDone \/ ShrinkWalk \/ ShrinkFree \/ ShrinkNextExtent \/ UpdateVolume
      <4>1. FileInv' /\ Content' = Content /\ Request' = Request
        BY <2>1, <3>1, <3>2, <3>3, QuietSteps
      <4>2. QED BY <3>2, <4>1 DEF RawInv
    <3>4. CASE ShrinkCut
      <4>1. FileInv' /\ Store!Next
        BY <2>1, <3>1, <3>2, <3>4, CutStep
      <4>2. QED BY <3>2, <4>1 DEF RawInv
    <3>5. CASE UpdateCatalog
      <4>1. FileInv' /\ [Store!Next]_<<Content, Request>>
        BY <2>1, <3>1, <3>2, <3>5, CatalogStep
      <4>2. QED BY <3>2, <4>1 DEF RawInv
    <3>6. QED BY <3>1, <3>3, <3>4, <3>5
  <2>10. CASE Panicked
    BY <1>3, <2>10 DEF Panicked
  <2>11. QED BY <1>3, <2>2, <2>3, <2>4, <2>5, <2>7, <2>8, <2>9, <2>10 DEF RawNext, RawStep
<1>4. QED BY <1>1, <1>2, <1>3

\* rawFileRead and rawFileWrite keep the promise of FileStore: every fork is a
\* string of bytes of its own, as long as no call leaves a fork more extents than
\* inline descriptors, on an image whose block offsets fit into 32 bits.
THEOREM ForksAreStringsAlways ==
  ASSUME NoWrap
  PROVE  RawSpec /\ []FitsInline => ForksAreStrings
<1>1. RawInit => RawInv /\ Store!Init
  BY RawInitial DEF RawInv, Store!Init, Content
<1>2. FitsInline /\ RawInv /\ [RawNext]_allVars => RawInv' /\ [Store!Next]_<<Content, Request>>
  BY RawNextStep
<1>3. RawSpec /\ []FitsInline => Store!Init /\ [][Store!Next]_<<Content, Request>>
  BY <1>1, <1>2, PTL DEF RawSpec
<1>4. QED BY <1>3, PTL DEF ForksAreStrings, Store!Spec, Content

-----------------------------------------------------------------------------
\* A call of allocate() from a write or for a size is one of BlockAlloc.
LEMMA AllocateInv ==
  ASSUME AllocInv, NEW f \in Files, NEW n \in 0 .. MaxSize, Allocate(f, n)
  PROVE  AllocInv'
<1>1. BlocksNeeded(n) \in 0 .. MaxFileBlocks
  BY NeedBounded
<1>2. Next
  BY <1>1 DEF Allocate, Next, Call
<1>3. QED BY <1>2, NextInv

\* Reading and writing disturb nothing of what allocate() keeps, on a volume and
\* with forks of any size: blocks are counted exactly, and never shared.
THEOREM WritesKeepBlocks == RawSpec => []AllocInv
<1>1. RawInit => AllocInv
  BY InitInv DEF RawInit
<1>2. AllocInv /\ [RawNext]_allVars => AllocInv'
  <2> SUFFICES ASSUME AllocInv, [RawNext]_allVars PROVE AllocInv'
    OBVIOUS
  <2>1. ASSUME NEW f \in Files, NEW n \in Sizes, SetSize(f, n) PROVE AllocInv'
    BY <2>1, SizesBounded, AllocateInv DEF SetSize
  <2>2. ASSUME NEW f \in Files, NEW loc \in Sizes, NEW end \in Sizes, NEW b \in Data, loc < end,
               WriteStart(f, loc, end - loc, b)
        PROVE  AllocInv'
    <3>1. EndOfWrite(f, loc, end - loc) \in 0 .. MaxSize
      BY SizesBounded DEF EndOfWrite
    <3>2. CASE size[f] < EndOfWrite(f, loc, end - loc)
      BY <2>2, <3>1, <3>2, AllocateInv DEF WriteStart
    <3>3. CASE ~(size[f] < EndOfWrite(f, loc, end - loc))
      <4>1. /\ pc = "idle" /\ pc' = "idle" /\ file' \in Files
            /\ UNCHANGED <<used, header, extents, fork, overflow, saved, need, left, cur, list, idx, history>>
        BY <2>2, <3>3 DEF WriteStart
      <4>2. QED BY <4>1, IdleStep
    <3>4. QED BY <3>2, <3>3
  <2>3. ASSUME NEW f \in Files, NEW loc \in Sizes, NEW end \in Sizes, WriteRefused(f, loc, end - loc)
        PROVE  AllocInv'
    BY <2>3, RefusedStep
  <2>4. CASE RawStep
    <3>1. [Next]_vars
      BY <2>4 DEF RawStep, WriteLocate, WriteChunk, TakeAndClear, SaveExtents, AllocStep, Next, Step
    <3>2. QED BY <3>1, NextInv
  <2>5. CASE UNCHANGED allVars
    BY <2>5, StutterInv DEF allVars
  <2>6. QED BY <2>1, <2>2, <2>3, <2>4, <2>5 DEF RawNext, Panicked
<1>3. QED BY <1>1, <1>2, PTL DEF RawSpec
=============================================================================
