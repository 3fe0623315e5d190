--------------------------- MODULE CompressProofs ---------------------------
(***************************************************************************)
(* What is read from and left in a compressed file, for files, blocks and  *)
(* buffers of every size and any number of deaths: the inductive invariant *)
(* CompressInv of Compress, and FileIsOverlay, ReadsTheFile and            *)
(* AllOrNothing from it.                                                   *)
(***************************************************************************)
EXTENDS Compress, Induction, FiniteSetTheorems, SequenceTheorems

Text == Seq(Chars \cup {"?"})
Piece == {t \in Text : Len(t) <= CompBlock}

\* The units a fork is made of. Padding lies where a table's head may be read.
ZipUnit == [type : {"zip"}, of : Piece, unit : Nat]
Entry == [type : {"entry"}, offset : Nat, size : Nat]
Mark == [type : {"head", "end"}]
TableHead == [type : {"table", "zero"}, blocks : Nat]
Unit == ZipUnit \cup Entry \cup Mark \cup TableHead

-----------------------------------------------------------------------------
(* Numbers                                                                 *)

\* The sizes a configuration gives.
LEMMA Sizes ==
  /\ CompBlock \in Nat /\ CompBlock > 0 /\ Buffer \in Nat /\ Buffer > 0
  /\ InlineLimit \in Nat
  BY CompressAssumption

\* The multiples of the block size.
LEMMA Multiples ==
  /\ CompBlock * 0 = 0
  /\ \A k \in Nat : CompBlock * k \in Nat /\ CompBlock * (k + 1) = CompBlock * k + CompBlock
  /\ \A k \in Nat \ {0} : CompBlock * k = CompBlock * (k - 1) + CompBlock
  /\ \A j, k \in Nat : j <= k => CompBlock * j <= CompBlock * k
  /\ \A j, k \in Nat : j < k => CompBlock * j + CompBlock <= CompBlock * k
<1>1. CompBlock \in Nat /\ CompBlock > 0
  BY Sizes
<1>2. \A k \in Nat : CompBlock * k \in Nat /\ CompBlock * (k + 1) = CompBlock * k + CompBlock
  BY <1>1
<1>3. \A k \in Nat \ {0} : CompBlock * k = CompBlock * (k - 1) + CompBlock
  BY <1>1
<1>4. \A j, k \in Nat : j <= k => CompBlock * j <= CompBlock * k
  <2>1. \A j, d \in Nat : CompBlock * (j + d) = CompBlock * j + CompBlock * d
    BY <1>1
  <2>2. \A j, k \in Nat : j <= k => k - j \in Nat /\ j + (k - j) = k
    OBVIOUS
  <2>3. ASSUME NEW j \in Nat, NEW k \in Nat, j <= k PROVE CompBlock * j <= CompBlock * k
    <3>1. CompBlock * k = CompBlock * j + CompBlock * (k - j)
      BY <2>1, <2>2, <2>3
    <3>2. CompBlock * (k - j) \in Nat /\ CompBlock * j \in Nat
      BY <1>2, <2>2, <2>3
    <3>3. QED BY <3>1, <3>2
  <2>4. QED BY <2>3
<1>5. \A j, k \in Nat : j < k => CompBlock * j + CompBlock <= CompBlock * k
  <2>1. ASSUME NEW j \in Nat, NEW k \in Nat, j < k PROVE CompBlock * j + CompBlock <= CompBlock * k
    <3>1. j + 1 \in Nat /\ j + 1 <= k
      BY <2>1
    <3>2. CompBlock * (j + 1) <= CompBlock * k
      BY <1>4, <3>1
    <3>3. CompBlock * (j + 1) = CompBlock * j + CompBlock
      BY <1>2
    <3>4. QED BY <3>2, <3>3
  <2>2. QED BY <2>1
<1>6. QED BY <1>1, <1>2, <1>3, <1>4, <1>5

\* Division with remainder.
LEMMA Division ==
  ASSUME NEW b \in Nat \ {0}, NEW n \in Nat
  PROVE  n \div b \in Nat /\ n % b \in 0 .. b - 1 /\ n = b * (n \div b) + (n % b)
  OBVIOUS

\* The block a place of the file is in.
LEMMA BlockOfPlace ==
  ASSUME NEW n \in Nat
  PROVE  /\ n \div CompBlock \in Nat
         /\ CompBlock * (n \div CompBlock) <= n
         /\ n < CompBlock * (n \div CompBlock) + CompBlock
<1>1. CompBlock \in Nat /\ CompBlock > 0
  BY Sizes
<1>2. n = CompBlock * (n \div CompBlock) + (n % CompBlock) /\ n % CompBlock \in 0 .. CompBlock - 1
      /\ n \div CompBlock \in Nat
  BY <1>1, Division
<1>3. CompBlock * (n \div CompBlock) \in Nat
  BY <1>2, Multiples
<1>4. QED BY <1>1, <1>2, <1>3

\* A file has a block for every multiple of the block size inside it.
LEMMA NumBlocksExact ==
  ASSUME NEW n \in Nat
  PROVE  NumBlocks(n) \in Nat /\ \A k \in Nat : k < NumBlocks(n) <=> CompBlock * k < n
<1> DEFINE m == n + CompBlock - 1
           q == m \div CompBlock
<1>1. m \in Nat /\ CompBlock \in Nat /\ CompBlock > 0
  BY Sizes
<1>2. q \in Nat /\ CompBlock * q <= m /\ m < CompBlock * q + CompBlock
  BY <1>1, BlockOfPlace
<1>3. NumBlocks(n) = q
  BY DEF NumBlocks
<1> HIDE DEF q
<1>4. CompBlock * q \in Nat
  BY <1>2, Multiples
<1>5. ASSUME NEW k \in Nat PROVE k < q <=> CompBlock * k < n
  <2>1. CompBlock * k \in Nat
    BY Multiples
  <2>2. k < q => CompBlock * k + CompBlock <= CompBlock * q
    BY <1>2, Multiples
  <2>3. ~(k < q) => CompBlock * q <= CompBlock * k
    <3>1. ~(k < q) => q <= k
      BY <1>2
    <3>2. QED BY <1>2, <3>1, Multiples
  <2>4. m = n + CompBlock - 1
    OBVIOUS
  <2> HIDE DEF m
  <2>5. QED BY <1>1, <1>2, <1>4, <2>1, <2>2, <2>3, <2>4
<1>6. QED BY <1>2, <1>3, <1>5

\* The smaller of two numbers.
LEMMA LeastOf ==
  ASSUME NEW m \in Int, NEW n \in Int
  PROVE  /\ Least(m, n) \in {m, n} /\ Least(m, n) <= m /\ Least(m, n) <= n
         /\ Least(m, n) \in Int
  BY DEF Least

-----------------------------------------------------------------------------
(* Sequences                                                               *)

\* A piece of a sequence.
LEMMA Cut ==
  ASSUME NEW S, NEW s \in Seq(S), NEW m \in Nat, NEW n \in Nat, m + n <= Len(s)
  PROVE  /\ SubSeq(s, m + 1, m + n) \in Seq(S)
         /\ Len(SubSeq(s, m + 1, m + n)) = n
         /\ \A i \in 1 .. n : SubSeq(s, m + 1, m + n)[i] = s[m + i]
<1> DEFINE t == [i \in 1 .. n |-> s[m + i]]
<1>1. \A i \in 1 .. n : m + i \in 1 .. Len(s)
  OBVIOUS
<1>2. t \in Seq(S) /\ Len(t) = n /\ \A i \in 1 .. n : t[i] = s[m + i]
  BY <1>1
<1>3. SubSeq(s, m + 1, m + n) = t
  <2>1. SubSeq(s, m + 1, m + n) = [i \in 1 .. (m + n) - (m + 1) + 1 |-> s[i + (m + 1) - 1]]
    OBVIOUS
  <2>2. (m + n) - (m + 1) + 1 = n /\ \A i \in 1 .. n : i + (m + 1) - 1 = m + i
    OBVIOUS
  <2>3. QED BY <2>1, <2>2
<1>4. QED BY <1>2, <1>3

\* Two sequences one behind the other.
LEMMA Joined ==
  ASSUME NEW S, NEW s \in Seq(S), NEW t \in Seq(S)
  PROVE  /\ s \o t \in Seq(S)
         /\ Len(s \o t) = Len(s) + Len(t)
         /\ \A i \in 1 .. Len(s) : (s \o t)[i] = s[i]
         /\ \A i \in 1 .. Len(t) : (s \o t)[Len(s) + i] = t[i]
  OBVIOUS

\* Sequences with the same members are the same.
LEMMA SameSeq ==
  ASSUME NEW S, NEW s \in Seq(S), NEW t \in Seq(S), Len(s) = Len(t),
         \A i \in 1 .. Len(s) : s[i] = t[i]
  PROVE  s = t
  BY SeqEqual

\* What FlattenSeq makes of blocks of which the first n are full.
LEMMA FullBlocks ==
  ASSUME NEW S, NEW blocks \in Seq(Seq(S)), NEW n \in 0 .. Len(blocks),
         \A k \in 1 .. n : Len(blocks[k]) = CompBlock
  PROVE  /\ FlattenSeq(blocks) \in Seq(S)
         /\ CompBlock * n <= Len(FlattenSeq(blocks))
         /\ n < Len(blocks) =>
              /\ CompBlock * n + Len(blocks[n + 1]) <= Len(FlattenSeq(blocks))
              /\ \A i \in 1 .. Len(blocks[n + 1]) :
                     FlattenSeq(blocks)[CompBlock * n + i] = blocks[n + 1][i]
<1> DEFINE last == Len(blocks)
<1>1. PICK f : Fronts(f, blocks, S)
  BY FlattenFronts
<1>2. last \in Nat /\ n \in Nat /\ n <= last /\ last \in 0 .. last /\ n \in 0 .. last
  OBVIOUS
<1>3. /\ \A m \in 0 .. last : f[m] \in Seq(S) /\ Len(f[m]) \in Nat
      /\ f[0] = <<>>
      /\ FlattenSeq(blocks) = f[last]
  BY <1>1 DEF Fronts
<1>4. \A m \in 1 .. last : f[m] = f[m - 1] \o blocks[m]
  BY <1>1 DEF Fronts
<1>5. \A m \in 1 .. last : blocks[m] \in Seq(S) /\ Len(blocks[m]) \in Nat
  OBVIOUS
<1>6. \A m \in 0 .. last : Len(f[m]) <= Len(f[last]) /\ \A i \in 1 .. Len(f[m]) : f[last][i] = f[m][i]
  <2> SUFFICES ASSUME NEW m \in 0 .. last
               PROVE  Len(f[m]) <= Len(f[last]) /\ \A i \in 1 .. Len(f[m]) : f[last][i] = f[m][i]
    OBVIOUS
  <2>1. last \in m .. last
    BY <1>2
  <2>2. QED BY <1>1, <2>1, FrontsGrow
<1>7. Len(f[n]) = CompBlock * n
  <2> DEFINE P == {m \in Nat : m <= n => Len(f[m]) = CompBlock * m}
  <2>1. 0 \in P
    <3>1. Len(<<>>) = 0
      OBVIOUS
    <3>2. QED BY <1>3, <3>1, Multiples
  <2>2. ASSUME NEW m \in P PROVE m + 1 \in P
    <3> SUFFICES ASSUME m + 1 <= n PROVE Len(f[m + 1]) = CompBlock * (m + 1)
      BY <2>2
    <3> DEFINE k == m + 1
    <3>1. k \in 1 .. last /\ k \in 1 .. n /\ k - 1 = m /\ m \in 0 .. last /\ m <= n /\ m \in Nat
      BY <1>2, <2>2
    <3>2. Len(f[m]) = CompBlock * m
      BY <2>2, <3>1
    <3> HIDE DEF k
    <3>3. f[k] = f[k - 1] \o blocks[k]
      BY ONLY <1>4, <3>1
    <3>4. f[k] = f[m] \o blocks[k]
      BY ONLY <3>1, <3>3
    <3>5. f[m] \in Seq(S) /\ blocks[k] \in Seq(S)
      BY <1>3, <1>5, <3>1
    <3>6. Len(f[m] \o blocks[k]) = Len(f[m]) + Len(blocks[k])
      BY <3>5, Joined
    <3>7. Len(blocks[k]) = CompBlock
      BY <3>1
    <3>8. Len(f[k]) = CompBlock * m + CompBlock
      BY ONLY <3>2, <3>4, <3>6, <3>7
    <3>9. CompBlock * (m + 1) = CompBlock * m + CompBlock
      BY <3>1, Multiples
    <3>10. QED BY ONLY <3>8, <3>9 DEF k
  <2> HIDE DEF P
  <2>3. P = Nat
    <3>1. P \in SUBSET Nat
      BY DEF P
    <3>2. QED BY <2>1, <2>2, <3>1, SetInduction
  <2>4. n \in P
    BY <1>2, <2>3
  <2>5. QED BY <1>2, <2>4 DEF P
<1>8. CompBlock * n <= Len(FlattenSeq(blocks))
  BY <1>2, <1>3, <1>6, <1>7
<1>9. CASE n = last
  BY <1>2, <1>3, <1>7, <1>8, <1>9
<1>10. CASE n < last
  <2> DEFINE k == n + 1
  <2>1. k \in 1 .. last /\ k \in 0 .. last /\ k - 1 = n
    BY <1>2, <1>10
  <2> HIDE DEF k
  <2>2. f[k] = f[k - 1] \o blocks[k]
    BY ONLY <1>4, <2>1
  <2>3. f[k] = f[n] \o blocks[k]
    BY ONLY <2>1, <2>2
  <2>4. f[n] \in Seq(S) /\ blocks[k] \in Seq(S) /\ Len(blocks[k]) \in Nat
    BY <1>2, <1>3, <1>5, <2>1
  <2>5. /\ Len(f[k]) = CompBlock * n + Len(blocks[k])
        /\ \A i \in 1 .. Len(blocks[k]) : f[k][CompBlock * n + i] = blocks[k][i]
    <3>1. /\ Len(f[n] \o blocks[k]) = Len(f[n]) + Len(blocks[k])
          /\ \A i \in 1 .. Len(blocks[k]) : (f[n] \o blocks[k])[Len(f[n]) + i] = blocks[k][i]
      <4>1. \A s, t \in Seq(S) :
               /\ Len(s \o t) = Len(s) + Len(t)
               /\ \A i \in 1 .. Len(t) : (s \o t)[Len(s) + i] = t[i]
        OBVIOUS
      <4>2. QED BY ONLY <2>4, <4>1
    <3>2. QED BY ONLY <1>7, <2>3, <3>1
  <2>6. Len(f[k]) <= Len(f[last]) /\ \A i \in 1 .. Len(f[k]) : f[last][i] = f[k][i]
    BY <1>6, <2>1
  <2>7. CompBlock * n \in Nat
    BY <1>2, Multiples
  <2>8. \A i \in 1 .. Len(blocks[k]) : CompBlock * n + i \in 1 .. Len(f[k])
    BY <2>4, <2>5, <2>7
  <2>9. \A i \in 1 .. Len(blocks[k]) : f[last][CompBlock * n + i] = blocks[k][i]
    BY <2>5, <2>6, <2>8
  <2>10. QED BY <1>2, <1>3, <1>8, <2>5, <2>6, <2>9 DEF k
<1>11. QED BY <1>2, <1>9, <1>10

-----------------------------------------------------------------------------
(* Blocks and forks                                                        *)

\* What compressing makes of anything has a unit.
LEMMA SomeRuns ==
  ASSUME NEW s \in Text
  PROVE  Runs(s) \in Nat /\ Runs(s) >= 1
<1> DEFINE ends == {i \in 2 .. Len(s) : s[i] # s[i - 1]}
<1>1. IsFiniteSet(2 .. Len(s))
  BY FS_Interval
<1>2. IsFiniteSet(ends)
  BY <1>1, FS_Subset
<1>3. Cardinality(ends) \in Nat
  <2> HIDE DEF ends
  <2> QED BY <1>2, FS_CardinalityType
<1>4. Runs(s) = 1 + Cardinality(ends)
  BY DEF Runs
<1> HIDE DEF ends
<1>5. QED BY <1>3, <1>4

\* What was compressed is read back.
LEMMA ReadsBack ==
  ASSUME NEW s \in Text
  PROVE  /\ Len(Compressed(s)) = Runs(s)
         /\ \A i \in 1 .. Runs(s) : Compressed(s)[i] = [type |-> "zip", of |-> s, unit |-> i]
         /\ Uncompressed(Compressed(s)) = s
<1>1. Runs(s) \in Nat /\ Runs(s) >= 1 /\ 1 \in 1 .. Runs(s)
  BY SomeRuns
<1>2. /\ Compressed(s) = [i \in 1 .. Runs(s) |-> [type |-> "zip", of |-> s, unit |-> i]]
      /\ DOMAIN Compressed(s) = 1 .. Runs(s)
      /\ Len(Compressed(s)) = Runs(s)
  BY <1>1 DEF Compressed
<1>3. \A i \in 1 .. Runs(s) : Compressed(s)[i] = [type |-> "zip", of |-> s, unit |-> i]
  BY <1>2
<1>4. \A u \in ToSet(Compressed(s)) : u.type = "zip"
  BY <1>2, <1>3 DEF ToSet
<1>5. Compressed(s)[1].of = s
  <2>1. Compressed(s)[1] = [type |-> "zip", of |-> s, unit |-> 1]
    BY <1>1, <1>3
  <2> HIDE DEF Compressed
  <2>2. QED BY <2>1
<1>6. Compressed(s) # <<>>
  BY <1>1, <1>2
<1> HIDE DEF Compressed
<1>7. Uncompressed(Compressed(s)) = s
  BY <1>4, <1>5, <1>6 DEF Uncompressed
<1>8. QED BY <1>2, <1>3, <1>7

\* A compressed block is a part of a fork.
LEMMA CompressedUnits ==
  ASSUME NEW s \in Piece
  PROVE  Compressed(s) \in Seq(Unit) /\ Compressed(s) \in Seq(ZipUnit)
<1>1. s \in Text /\ Runs(s) \in Nat
  BY SomeRuns DEF Piece
<1>2. \A i \in 1 .. Runs(s) : [type |-> "zip", of |-> s, unit |-> i] \in ZipUnit
  BY <1>1 DEF ZipUnit
<1>3. Compressed(s) = [i \in 1 .. Runs(s) |-> [type |-> "zip", of |-> s, unit |-> i]]
  BY DEF Compressed
<1>4. Compressed(s) \in Seq(ZipUnit)
  BY <1>1, <1>2, <1>3
<1>5. \A u \in ZipUnit : u \in Unit
  BY DEF Unit
<1> HIDE DEF Compressed
<1>6. QED BY <1>4, <1>5

\* Whatever is uncompressed, no more than a block comes out.
LEMMA UncompressedFits ==
  ASSUME NEW units \in Seq(Unit)
  PROVE  Uncompressed(units) \in Piece
<1>1. Garbage \in Piece
  <2>1. CompBlock \in Nat
    BY Sizes
  <2>2. Garbage \in Text /\ Len(Garbage) = CompBlock
    BY <2>1 DEF Garbage, Text
  <2>3. QED BY <2>1, <2>2 DEF Piece
<1>2. CASE /\ \A u \in ToSet(units) : u.type = "zip"
           /\ units # <<>> /\ units = Compressed(units[1].of)
  <2>1. 1 \in DOMAIN units
    BY <1>2
  <2>2. units[1] \in Unit /\ units[1].type = "zip"
    BY <1>2, <2>1 DEF ToSet
  <2>3. units[1] \in ZipUnit
    BY <2>2 DEF Unit, Entry, Mark, TableHead
  <2>4. units[1].of \in Piece
    BY <2>3 DEF ZipUnit
  <2>5. Uncompressed(units) = units[1].of
    BY <1>2 DEF Uncompressed
  <2>6. QED BY <2>4, <2>5
<1>3. CASE ~(/\ \A u \in ToSet(units) : u.type = "zip"
             /\ units # <<>> /\ units = Compressed(units[1].of))
  BY <1>1, <1>3 DEF Uncompressed
<1>4. QED BY <1>2, <1>3

\* What writing to a fork makes of it.
LEMMA WrittenFork ==
  ASSUME NEW fork \in Seq(Unit), NEW at \in Nat, NEW units \in Seq(Unit)
  PROVE  LET new == Written(fork, at, units)
         IN  /\ new \in Seq(Unit)
             /\ Len(new) >= Len(fork) /\ Len(new) >= at + Len(units)
             /\ \A i \in 1 .. Len(units) : new[at + i] = units[i]
             /\ \A i \in 1 .. Len(fork) : ~(at < i /\ i <= at + Len(units)) => new[i] = fork[i]
             /\ \A i \in 1 .. Len(new) : \/ \E j \in 1 .. Len(units) : i = at + j /\ new[i] = units[j]
                                         \/ i \in 1 .. Len(fork) /\ new[i] = fork[i]
                                         \/ i > Len(fork) /\ i <= at /\ new[i] = [type |-> "zero", blocks |-> 0]
<1> DEFINE new == Written(fork, at, units)
           size == IF Len(fork) < at + Len(units) THEN at + Len(units) ELSE Len(fork)
           zero == [type |-> "zero", blocks |-> 0]
           At(i) == IF i - at \in DOMAIN units THEN units[i - at]
                    ELSE IF i <= Len(fork) THEN fork[i] ELSE zero
<1>1. Len(fork) \in Nat /\ Len(units) \in Nat /\ DOMAIN units = 1 .. Len(units)
      /\ (\A i \in 1 .. Len(fork) : fork[i] \in Unit) /\ (\A i \in 1 .. Len(units) : units[i] \in Unit)
  OBVIOUS
<1>2. size \in Nat /\ size >= Len(fork) /\ size >= at + Len(units)
      /\ (size = Len(fork) \/ size = at + Len(units))
  BY <1>1
<1>3. zero \in Unit
  BY DEF Unit, TableHead
<1>4. new = [i \in 1 .. size |-> At(i)]
  BY DEF Written
<1> HIDE DEF zero
<1>5. \A i \in 1 .. size : At(i) \in Unit
  BY <1>1, <1>2, <1>3
<1> HIDE DEF At, size
<1>6. new \in Seq(Unit) /\ Len(new) = size /\ \A i \in 1 .. size : new[i] = At(i)
  BY <1>2, <1>4, <1>5
<1> HIDE DEF new
<1>7. \A i \in 1 .. Len(units) : new[at + i] = units[i]
  <2> SUFFICES ASSUME NEW i \in 1 .. Len(units) PROVE new[at + i] = units[i]
    OBVIOUS
  <2>1. at + i \in 1 .. size /\ at + i - at = i
    BY <1>1, <1>2
  <2>2. At(at + i) = units[i]
    BY <1>1, <2>1 DEF At
  <2>3. QED BY <1>6, <2>1, <2>2
<1>8. \A i \in 1 .. Len(fork) : ~(at < i /\ i <= at + Len(units)) => new[i] = fork[i]
  <2> SUFFICES ASSUME NEW i \in 1 .. Len(fork), ~(at < i /\ i <= at + Len(units)) PROVE new[i] = fork[i]
    OBVIOUS
  <2>1. i \in 1 .. size /\ i - at \notin 1 .. Len(units) /\ i <= Len(fork)
    BY <1>1, <1>2
  <2>2. At(i) = fork[i]
    BY <1>1, <2>1 DEF At
  <2>3. QED BY <1>6, <2>1, <2>2
<1>9. \A i \in 1 .. size : \/ \E j \in 1 .. Len(units) : i = at + j /\ new[i] = units[j]
                           \/ i \in 1 .. Len(fork) /\ new[i] = fork[i]
                           \/ i > Len(fork) /\ i <= at /\ new[i] = zero
  <2> SUFFICES ASSUME NEW i \in 1 .. size
               PROVE  \/ \E j \in 1 .. Len(units) : i = at + j /\ new[i] = units[j]
                      \/ i \in 1 .. Len(fork) /\ new[i] = fork[i]
                      \/ i > Len(fork) /\ i <= at /\ new[i] = zero
    OBVIOUS
  <2>1. new[i] = At(i)
    BY <1>6
  <2>2. CASE i - at \in 1 .. Len(units)
    <3>1. i = at + (i - at)
      BY <1>2
    <3>2. new[i] = units[i - at]
      BY <1>1, <2>1, <2>2 DEF At
    <3>3. QED BY <2>2, <3>1, <3>2
  <2>3. CASE i - at \notin 1 .. Len(units) /\ i <= Len(fork)
    BY <1>1, <1>2, <2>1, <2>3 DEF At
  <2>4. CASE i - at \notin 1 .. Len(units) /\ i > Len(fork)
    <3>1. new[i] = zero
      BY <1>1, <1>2, <2>1, <2>4 DEF At
    <3>2. i <= at
      BY <1>1, <1>2, <2>4
    <3>3. QED BY <2>4, <3>1, <3>2
  <2>5. QED BY <1>1, <1>2, <2>2, <2>3, <2>4
<1>10. QED BY <1>2, <1>6, <1>7, <1>8, <1>9 DEF new, zero

\* A fork that can be read without a step outside: its table lies inside, and what
\* an entry speaks of does.
ForkOK(fork) ==
    /\ fork \in Seq(Unit)
    /\ fork # <<>> => Len(fork) >= 2 /\ fork[2] \in TableHead /\ fork[2].blocks + 2 <= Len(fork)
    /\ \A i \in 1 .. Len(fork) :
          fork[i] \in Entry => HeaderSize + fork[i].offset + fork[i].size <= Len(fork)

\* The table of such a fork.
LEMMA TableOf ==
  ASSUME NEW fork, ForkOK(fork)
  PROVE  /\ TableIn(fork) \in Seq(Unit)
         /\ fork = <<>> => TableIn(fork) = <<>>
         /\ fork # <<>> => /\ Len(TableIn(fork)) = fork[2].blocks
                           /\ \A k \in 1 .. fork[2].blocks : TableIn(fork)[k] = fork[2 + k]
<1>1. CASE fork = <<>>
  <2>1. TableIn(fork) = <<>>
    BY <1>1 DEF TableIn
  <2>2. <<>> \in Seq(Unit)
    OBVIOUS
  <2> HIDE DEF TableIn
  <2>3. QED BY <1>1, <2>1, <2>2
<1>2. CASE fork # <<>>
  <2> DEFINE n == fork[2].blocks
  <2>1. fork \in Seq(Unit) /\ n \in Nat /\ 2 + n <= Len(fork)
    BY <1>2 DEF ForkOK, TableHead
  <2>2. HeaderSize + 1 = 2 /\ HeaderSize + 2 = 2 + 1 /\ 2 \in Nat
    BY DEF HeaderSize
  <2>3. TableIn(fork) = SubSeq(fork, 2 + 1, 2 + n)
    BY <1>2, <2>2 DEF TableIn
  <2> HIDE DEF n
  <2>4. QED BY <1>2, <2>1, <2>2, <2>3, Cut DEF n
<1>3. QED BY <1>1, <1>2

\* A block of a fork is never larger than a block.
LEMMA BlockFits ==
  ASSUME NEW fork, ForkOK(fork), NEW k
  PROVE  BlockAt(fork, TableIn(fork), k) \in Piece
<1> DEFINE table == TableIn(fork)
<1>1. CASE k \in DOMAIN table /\ table[k].type = "entry"
  <2>1. fork # <<>>
    <3>1. DOMAIN <<>> = {}
      OBVIOUS
    <3>2. QED BY <1>1, <3>1, TableOf
  <2>2. k \in 1 .. fork[2].blocks /\ table[k] = fork[2 + k] /\ table[k] \in Unit
    BY <1>1, <2>1, TableOf
  <2>3. fork[2].blocks \in Nat /\ fork[2].blocks + 2 <= Len(fork) /\ fork \in Seq(Unit)
    BY <2>1 DEF ForkOK, TableHead
  <2>4. table[k] \in Entry
    BY <1>1, <2>2 DEF Unit, ZipUnit, Mark, TableHead
  <2> DEFINE at == HeaderSize + table[k].offset
             size == table[k].size
  <2>5. at \in Nat /\ size \in Nat /\ at + size <= Len(fork)
    <3>1. 2 + k \in 1 .. Len(fork)
      BY <2>2, <2>3
    <3>2. table[k].offset \in Nat /\ table[k].size \in Nat
      BY <2>4 DEF Entry
    <3>3. HeaderSize + table[k].offset + table[k].size <= Len(fork)
      BY <2>2, <2>4, <3>1 DEF ForkOK
    <3>4. HeaderSize \in Nat
      BY DEF HeaderSize
    <3>5. QED BY <3>2, <3>3, <3>4
  <2>6. BlockAt(fork, table, k) = Uncompressed(SubSeq(fork, at + 1, at + size))
    BY <1>1 DEF BlockAt
  <2> HIDE DEF at, size
  <2>7. SubSeq(fork, at + 1, at + size) \in Seq(Unit)
    BY <2>3, <2>5, Cut
  <2>8. QED BY <2>6, <2>7, UncompressedFits
<1>2. CASE ~(k \in DOMAIN table /\ table[k].type = "entry")
  <2>1. BlockAt(fork, table, k) = Garbage
    BY <1>2 DEF BlockAt
  <2>2. CompBlock \in Nat
    BY Sizes
  <2>3. Garbage \in Text /\ Len(Garbage) = CompBlock
    BY <2>2 DEF Garbage, Text
  <2>4. QED BY <2>1, <2>2, <2>3 DEF Piece
<1>3. QED BY <1>1, <1>2

\* A block that an entry leads to.
LEMMA BlockThere ==
  ASSUME NEW fork \in Seq(Unit), NEW table, NEW k \in DOMAIN table, table[k] \in Entry,
         NEW s \in Text,
         table[k].size = Len(Compressed(s)),
         HeaderSize + table[k].offset + table[k].size <= Len(fork),
         \A i \in 1 .. table[k].size : fork[HeaderSize + table[k].offset + i] = Compressed(s)[i]
  PROVE  BlockAt(fork, table, k) = s
<1> DEFINE at == HeaderSize + table[k].offset
           size == table[k].size
           part == SubSeq(fork, at + 1, at + size)
<1>1. at \in Nat /\ size \in Nat /\ table[k].type = "entry"
  BY DEF Entry, HeaderSize
<1>2. at + size <= Len(fork) /\ \A i \in 1 .. size : fork[at + i] = Compressed(s)[i]
  OBVIOUS
<1>3. size = Runs(s) /\ Compressed(s) = [i \in 1 .. size |-> Compressed(s)[i]]
  BY ReadsBack DEF Compressed
<1>4. BlockAt(fork, table, k) = Uncompressed(part)
  BY <1>1 DEF BlockAt
<1> HIDE DEF at, size
<1>5. part \in Seq(Unit) /\ Len(part) = size /\ \A i \in 1 .. size : part[i] = fork[at + i]
  BY <1>1, <1>2, Cut
<1> HIDE DEF part
<1>6. part = [i \in 1 .. size |-> part[i]]
  BY <1>1, <1>5
<1>7. part = Compressed(s)
  BY <1>2, <1>3, <1>5, <1>6
<1>8. QED BY <1>4, <1>7, ReadsBack

\* The k-th block of a file.
LEMMA BlockOfText ==
  ASSUME NEW s \in Text, NEW k \in Nat, CompBlock * k <= Len(s)
  PROVE  /\ BlockOf(s, k) \in Piece
         /\ Len(BlockOf(s, k)) = Least(CompBlock, Len(s) - CompBlock * k)
         /\ \A i \in 1 .. Len(BlockOf(s, k)) : BlockOf(s, k)[i] = s[CompBlock * k + i]
<1> DEFINE m == CompBlock * k
           n == Least(CompBlock, Len(s) - m)
<1>1. m \in Nat /\ CompBlock * (k + 1) = m + CompBlock /\ CompBlock \in Nat
  BY Multiples, Sizes
<1>2. Len(s) \in Nat /\ m <= Len(s) /\ s \in Seq(Chars \cup {"?"})
  BY DEF Text
<1> HIDE DEF m
<1>3. n \in Nat /\ n <= CompBlock /\ m + n <= Len(s) /\ Least(m + CompBlock, Len(s)) = m + n
  BY <1>1, <1>2 DEF Least
<1>4. BlockOf(s, k) = SubSeq(s, m + 1, m + n)
  BY <1>1, <1>3 DEF BlockOf, m
<1>5. \A t \in Seq(Chars \cup {"?"}) : Len(t) <= CompBlock => t \in Piece
  BY DEF Piece, Text
<1> HIDE DEF n
<1>6. /\ BlockOf(s, k) \in Seq(Chars \cup {"?"})
      /\ Len(BlockOf(s, k)) = n
      /\ \A i \in 1 .. n : BlockOf(s, k)[i] = s[m + i]
  BY <1>1, <1>2, <1>3, <1>4, Cut
<1>7. BlockOf(s, k) \in Piece
  BY <1>3, <1>5, <1>6
<1>8. QED BY <1>6, <1>7 DEF m, n

-----------------------------------------------------------------------------
(* What the next process reads                                             *)

\* The attribute is missing, has the compressed file, was spoilt in memory, or has
\* the file's size.
AttrOK(a) ==
    \/ a = NoAttribute
    \/ \E n \in Nat, data \in Seq({Spoilt}) \ {<<>>} : a = [type |-> "inline", size |-> n, data |-> data]
    \/ \E s \in Text : a = [type |-> "inline", size |-> Len(s), data |-> Compressed(s)]
    \/ \E n \in Nat : a = [type |-> "rsrc", size |-> n, data |-> <<>>]

\* The k-th block of the file that fork is, and that a file of n characters has the first m in full.
Block(fork, k) == BlockAt(fork, TableIn(fork), k)
FullUpTo(fork, m) == \A k \in 1 .. m : Len(Block(fork, k)) = CompBlock

\* Pieces are texts.
LEMMA Pieces ==
  ASSUME NEW t \in Piece
  PROVE  t \in Text /\ t \in Seq(Chars \cup {"?"}) /\ Len(t) \in Nat /\ Len(t) <= CompBlock
  BY DEF Piece, Text

\* A file in a fork: the blocks one behind the other, cut at the size.
LEMMA ContentOfFork ==
  ASSUME NEW fork, ForkOK(fork), NEW a, a.type = "rsrc", a.size \in Nat,
         NEW m \in 0 .. NumBlocks(a.size), FullUpTo(fork, m)
  PROVE  /\ Content(a, fork) \in Text /\ Len(Content(a, fork)) <= a.size
         /\ m < NumBlocks(a.size) =>
              \A i \in 1 .. Len(Block(fork, m + 1)) :
                  CompBlock * m + i <= a.size =>
                     /\ CompBlock * m + i <= Len(Content(a, fork))
                     /\ Content(a, fork)[CompBlock * m + i] = Block(fork, m + 1)[i]
<1> DEFINE S == Chars \cup {"?"}
           last == NumBlocks(a.size)
           blocks == [k \in 1 .. last |-> Block(fork, k)]
           all == FlattenSeq(blocks)
           size == Least(a.size, Len(all))
<1>1. last \in Nat /\ m \in Nat /\ m <= last
  BY NumBlocksExact
<1>2. Content(a, fork) = SubSeq(all, 1, size)
  BY DEF Content, Block
<1>3. blocks \in Seq(Seq(S)) /\ Len(blocks) = last /\ \A k \in 1 .. last : blocks[k] = Block(fork, k)
  <2>1. \A k \in 1 .. last : Block(fork, k) \in Seq(S)
    BY BlockFits, Pieces DEF Block
  <2> HIDE DEF last
  <2>2. QED BY <1>1, <2>1
<1>4. \A k \in 1 .. m : Len(blocks[k]) = CompBlock
  BY <1>1, <1>3 DEF FullUpTo
<1>5. m \in 0 .. Len(blocks)
  BY <1>1, <1>3
<1> HIDE DEF blocks, last, S
<1>6. /\ all \in Seq(S) /\ Len(all) \in Nat
      /\ m < Len(blocks) =>
            /\ CompBlock * m + Len(blocks[m + 1]) <= Len(all)
            /\ \A i \in 1 .. Len(blocks[m + 1]) : all[CompBlock * m + i] = blocks[m + 1][i]
  <2>1. /\ all \in Seq(S)
        /\ m < Len(blocks) =>
              /\ CompBlock * m + Len(blocks[m + 1]) <= Len(all)
              /\ \A i \in 1 .. Len(blocks[m + 1]) : all[CompBlock * m + i] = blocks[m + 1][i]
    <3>1. blocks \in Seq(Seq(S))
      BY <1>3
    <3>2. QED BY ONLY <3>1, <1>4, <1>5, FullBlocks
  <2>2. QED BY <2>1
<1> HIDE DEF all
<1>7. size \in Nat /\ size <= a.size /\ size <= Len(all) /\ size \in {a.size, Len(all)}
  <2>1. Len(all) \in Int /\ a.size \in Int
    BY <1>6
  <2>2. size \in {a.size, Len(all)} /\ size <= a.size /\ size <= Len(all)
    BY <2>1, LeastOf
  <2> HIDE DEF size
  <2>3. QED BY <1>6, <2>2
<1> HIDE DEF size
<1>8. /\ Content(a, fork) \in Seq(S) /\ Len(Content(a, fork)) = size
      /\ \A i \in 1 .. size : Content(a, fork)[i] = all[i]
  <2>1. 0 \in Nat /\ 0 + 1 = 1 /\ 0 + size = size /\ 0 + size <= Len(all) /\ \A i \in 1 .. size : 0 + i = i
    BY <1>6, <1>7
  <2>2. /\ SubSeq(all, 0 + 1, 0 + size) \in Seq(S) /\ Len(SubSeq(all, 0 + 1, 0 + size)) = size
        /\ \A i \in 1 .. size : SubSeq(all, 0 + 1, 0 + size)[i] = all[0 + i]
    BY <1>6, <1>7, <2>1, Cut
  <2>3. QED BY <1>2, <2>1, <2>2
<1>9. ASSUME m < last, NEW i \in 1 .. Len(Block(fork, m + 1)), CompBlock * m + i <= a.size
      PROVE  /\ CompBlock * m + i <= Len(Content(a, fork))
             /\ Content(a, fork)[CompBlock * m + i] = Block(fork, m + 1)[i]
  <2> DEFINE t == Block(fork, m + 1)
  <2>1. m + 1 \in 1 .. last
    BY <1>1, <1>9
  <2>2. blocks[m + 1] = t
    BY <1>3, <2>1
  <2>3. t \in Piece
    BY BlockFits DEF Block
  <2>4. Len(t) \in Nat /\ CompBlock * m \in Nat
    BY <1>1, <2>3, Pieces, Multiples
  <2>5. i \in 1 .. Len(t)
    OBVIOUS
  <2> HIDE DEF t
  <2>6. CompBlock * m + Len(t) <= Len(all) /\ all[CompBlock * m + i] = t[i]
    BY <1>3, <1>6, <1>9, <2>2, <2>5
  <2>7. CompBlock * m + i \in 1 .. size
    BY <1>6, <1>7, <1>9, <2>4, <2>5, <2>6
  <2>8. QED BY <1>8, <2>6, <2>7 DEF t
<1>10. QED BY <1>7, <1>8, <1>9 DEF Text, S, last

\* A file is in a fork when each of its blocks is.
LEMMA ContentIs ==
  ASSUME NEW fork, ForkOK(fork), NEW s \in Text, NEW a, a.type = "rsrc", a.size = Len(s),
         \A k \in 1 .. NumBlocks(Len(s)) : Block(fork, k) = BlockOf(s, k - 1)
  PROVE  Content(a, fork) = s
<1> DEFINE size == Len(s)
           now == Content(a, fork)
<1>1. size \in Nat /\ NumBlocks(size) \in Nat
  <2>1. size \in Nat
    BY DEF Text
  <2>2. QED BY <2>1, NumBlocksExact
<1>2. now \in Text /\ Len(now) <= size /\ Len(now) \in Nat
  <2>1. 0 \in 0 .. NumBlocks(size)
    BY <1>1
  <2>2. FullUpTo(fork, 0)
    BY DEF FullUpTo
  <2>3. now \in Text /\ Len(now) <= size
    BY <1>1, <2>1, <2>2, ContentOfFork
  <2>4. QED BY <2>3 DEF Text
<1>3. ASSUME NEW i \in 1 .. size PROVE i <= Len(now) /\ now[i] = s[i]
  <2> DEFINE k == (i - 1) \div CompBlock
             r == i - CompBlock * k
             t == BlockOf(s, k)
  <2>1. i - 1 \in Nat /\ i \in Nat /\ i <= size /\ i - 1 < size /\ CompBlock \in Nat
    BY <1>1, Sizes
  <2>2. k \in Nat /\ CompBlock * k \in Nat /\ CompBlock * k <= i - 1 /\ i - 1 < CompBlock * k + CompBlock
    BY <2>1, BlockOfPlace, Multiples
  <2> HIDE DEF k
  <2>3. k < NumBlocks(size) /\ CompBlock * k < size
    <3>1. CompBlock * k < size
      BY <1>1, <2>1, <2>2
    <3>2. QED BY <1>1, <2>2, <3>1, NumBlocksExact
  <2>4. FullUpTo(fork, k)
    <3> SUFFICES ASSUME NEW j \in 1 .. k PROVE Len(Block(fork, j)) = CompBlock
      BY DEF FullUpTo
    <3>1. j \in 1 .. NumBlocks(size) /\ j - 1 \in Nat /\ j - 1 < k /\ j \in Nat
      BY <1>1, <2>2, <2>3
    <3>2. CompBlock * (j - 1) + CompBlock <= CompBlock * k /\ CompBlock * (j - 1) \in Nat
      BY <2>2, <3>1, Multiples
    <3>3. CompBlock * (j - 1) <= size /\ CompBlock <= size - CompBlock * (j - 1)
      <4> DEFINE x == CompBlock * (j - 1)
                 y == CompBlock * k
      <4>1. x \in Nat /\ y \in Nat /\ x + CompBlock <= y /\ y < size
        BY <2>2, <2>3, <3>2
      <4> HIDE DEF x, y
      <4>2. x <= size /\ CompBlock <= size - x
        BY <1>1, <2>1, <4>1
      <4>3. QED BY <4>2 DEF x
    <3>4. Len(BlockOf(s, j - 1)) = Least(CompBlock, size - CompBlock * (j - 1))
      BY <3>1, <3>3, BlockOfText
    <3>5. Least(CompBlock, size - CompBlock * (j - 1)) = CompBlock
      <4>1. \A n \in Int : CompBlock <= n => Least(CompBlock, n) = CompBlock
        BY <2>1 DEF Least
      <4>2. size - CompBlock * (j - 1) \in Int
        BY <1>1, <3>2
      <4>3. QED BY <3>3, <4>1, <4>2
    <3>6. QED BY <3>1, <3>4, <3>5
  <2>5. k + 1 \in 1 .. NumBlocks(size) /\ k + 1 - 1 = k
    BY <1>1, <2>2, <2>3
  <2>6. Block(fork, k + 1) = t
    <3>1. \A j \in 1 .. NumBlocks(size) : Block(fork, j) = BlockOf(s, j - 1)
      OBVIOUS
    <3>2. PICK j \in 1 .. NumBlocks(size) : j = k + 1 /\ j - 1 = k
      BY <1>1, <2>2, <2>5
    <3>3. Block(fork, j) = BlockOf(s, j - 1)
      BY <3>1
    <3>4. QED BY <3>2, <3>3
  <2>7. /\ Len(t) = Least(CompBlock, size - CompBlock * k)
        /\ \A j \in 1 .. Len(t) : t[j] = s[CompBlock * k + j]
    <3>1. CompBlock * k <= Len(s)
      BY <1>1, <2>2, <2>3
    <3>2. QED BY <2>2, <3>1, BlockOfText
  <2> HIDE DEF t
  <2>8. r \in 1 .. Len(t) /\ CompBlock * k + r = i
    <3> DEFINE y == CompBlock * k
    <3>1. y \in Nat /\ y <= i - 1 /\ i - 1 < y + CompBlock /\ Len(t) = Least(CompBlock, size - y)
      BY <2>2, <2>7
    <3>2. r = i - y
      OBVIOUS
    <3> HIDE DEF y
    <3>3. i - y \in 1 .. Len(t) /\ y + (i - y) = i
      BY <1>1, <2>1, <3>1 DEF Least
    <3>4. QED BY <3>2, <3>3 DEF y
  <2> HIDE DEF r
  <2>9. k \in 0 .. NumBlocks(size)
    BY <1>1, <2>2, <2>3
  <2>10. \A j \in 1 .. Len(t) : CompBlock * k + j <= size =>
             CompBlock * k + j <= Len(now) /\ now[CompBlock * k + j] = t[j]
    BY <1>1, <2>3, <2>4, <2>6, <2>9, ContentOfFork
  <2>11. i <= Len(now) /\ now[i] = t[r]
    BY <2>1, <2>8, <2>10
  <2>12. t[r] = s[i]
    BY <2>7, <2>8
  <2>13. QED BY <2>11, <2>12
<1> HIDE DEF now
<1>4. Len(now) = size
  <2>1. CASE size = 0
    BY <1>2, <2>1
  <2>2. CASE size # 0
    <3>1. size \in 1 .. size
      BY <1>1, <2>2
    <3>2. size <= Len(now)
      BY <1>3, <3>1
    <3>3. QED BY <1>1, <1>2, <3>2
  <2>3. QED BY <2>1, <2>2
<1>5. \A i \in 1 .. size : now[i] = s[i]
  BY <1>3
<1>6. now = s
  <2>1. \A x, y \in Seq(Chars \cup {"?"}) :
           Len(x) = Len(y) /\ (\A i \in 1 .. Len(x) : x[i] = y[i]) => x = y
    BY SameSeq
  <2>2. QED BY <1>2, <1>4, <1>5, <2>1 DEF Text
<1>7. QED BY <1>6 DEF now

\* What was kept in the attribute is read back.
LEMMA StoredBack ==
  ASSUME NEW s \in Text, NEW a, a.data = Compressed(s)
  PROVE  Stored(a) = s
<1>1. Runs(s) \in Nat /\ 1 \in 1 .. Runs(s)
  BY SomeRuns
<1>2. a.data[1] = [type |-> "zip", of |-> s, unit |-> 1] /\ Uncompressed(a.data) = s
  BY <1>1, ReadsBack
<1>3. a.data[1].type = "zip" /\ Spoilt.type = "spoilt"
  BY <1>2 DEF Spoilt
<1>4. QED BY <1>2, <1>3 DEF Stored

\* What can be said of the file, whatever form it has.
LEMMA ContentFacts ==
  ASSUME NEW fork, ForkOK(fork), NEW a, AttrOK(a)
  PROVE  /\ Content(a, fork) \in Text /\ Len(Content(a, fork)) \in Nat
         /\ a.size \in Nat /\ Len(Content(a, fork)) <= a.size
         /\ a.type \in {"none", "inline", "rsrc"}
         /\ a.type # "rsrc" => Len(Content(a, fork)) = a.size
         /\ a.type = "none" => a = NoAttribute
         /\ a.type = "inline" => Content(a, fork) = Stored(a)
<1>1. CASE a = NoAttribute
  <2>1. a.type = "none" /\ a.size = 0
    BY <1>1 DEF NoAttribute
  <2>2. Content(a, fork) = <<>>
    BY <2>1 DEF Content
  <2>3. <<>> \in Text /\ Len(<<>>) = 0
    BY DEF Text
  <2>4. QED BY <1>1, <2>1, <2>2, <2>3
<1>2. CASE \E s \in Text : a = [type |-> "inline", size |-> Len(s), data |-> Compressed(s)]
  <2>1. PICK s \in Text : a = [type |-> "inline", size |-> Len(s), data |-> Compressed(s)]
    BY <1>2
  <2>2. a.type = "inline" /\ a.size = Len(s) /\ a.data = Compressed(s)
    BY <2>1
  <2>3. Content(a, fork) = Stored(a)
    BY <2>2 DEF Content
  <2>4. Content(a, fork) = s
    BY <2>2, <2>3, StoredBack
  <2>5. Len(s) \in Nat
    BY DEF Text
  <2>6. QED BY <2>2, <2>3, <2>4, <2>5
<1>3. CASE \E n \in Nat : a = [type |-> "rsrc", size |-> n, data |-> <<>>]
  <2>1. PICK n \in Nat : a = [type |-> "rsrc", size |-> n, data |-> <<>>]
    BY <1>3
  <2>2. a.type = "rsrc" /\ a.size = n
    BY <2>1
  <2>3. 0 \in 0 .. NumBlocks(a.size)
    BY <2>2, NumBlocksExact
  <2>4. FullUpTo(fork, 0)
    BY DEF FullUpTo
  <2>5. Content(a, fork) \in Text /\ Len(Content(a, fork)) <= a.size
    BY <2>2, <2>3, <2>4, ContentOfFork
  <2>6. Len(Content(a, fork)) \in Nat
    BY <2>5 DEF Text
  <2>7. QED BY <2>2, <2>5, <2>6
<1>4. CASE \E n \in Nat, data \in Seq({Spoilt}) \ {<<>>} : a = [type |-> "inline", size |-> n, data |-> data]
  <2>1. PICK n \in Nat, data \in Seq({Spoilt}) \ {<<>>} : a = [type |-> "inline", size |-> n, data |-> data]
    BY <1>4
  <2>2. a.type = "inline" /\ a.size = n /\ a.data = data /\ data[1] = Spoilt
    BY <2>1
  <2>3. Content(a, fork) = Stored(a) /\ Stored(a) = [i \in 1 .. n |-> "?"]
    BY <2>2 DEF Content, Stored
  <2>4. [i \in 1 .. n |-> "?"] \in Text /\ Len([i \in 1 .. n |-> "?"]) = n
    BY <2>1 DEF Text
  <2>5. QED BY <2>1, <2>2, <2>3, <2>4
<1>5. QED BY <1>1, <1>2, <1>3, <1>4 DEF AttrOK

\* The fork of a file that was compressed in one go can be read.
LEMMA LayoutOK ==
  ASSUME NEW s \in Text
  PROVE  ForkOK(Layout(s))
<1> DEFINE n == NumBlocks(Len(s))
           blocks == [k \in 1 .. n |-> Compressed(BlockOf(s, k - 1))]
           entry(k) == [type |-> "entry", size |-> Len(blocks[k]),
                        offset |-> TableSize(n) + Len(FlattenSeq(SubSeq(blocks, 1, k - 1)))]
           head == <<[type |-> "head"], [type |-> "table", blocks |-> n]>>
           entries == [k \in 1 .. n |-> entry(k)]
           flat == FlattenSeq(blocks)
           end == <<[type |-> "end"]>>
           fork == Layout(s)
<1>1. Len(s) \in Nat /\ n \in Nat
  <2>1. Len(s) \in Nat
    BY DEF Text
  <2>2. QED BY <2>1, NumBlocksExact
<1>2. blocks \in Seq(Seq(ZipUnit)) /\ Len(blocks) = n
  <2>1. ASSUME NEW k \in 1 .. n PROVE Compressed(BlockOf(s, k - 1)) \in Seq(ZipUnit)
    <3>1. k - 1 \in Nat /\ k - 1 < n
      BY <1>1
    <3>2. CompBlock * (k - 1) < Len(s) /\ CompBlock * (k - 1) \in Nat
      BY <1>1, <3>1, NumBlocksExact, Multiples
    <3>3. CompBlock * (k - 1) <= Len(s)
      BY <1>1, <3>2
    <3>4. BlockOf(s, k - 1) \in Piece
      BY <3>1, <3>3, BlockOfText
    <3>5. QED BY <3>4, CompressedUnits
  <2> HIDE DEF n
  <2>2. QED BY <1>1, <2>1
<1>3. fork = head \o entries \o flat \o end
  BY DEF Layout
<1> HIDE DEF fork, blocks
<1>4. PICK f : Fronts(f, blocks, ZipUnit)
  BY <1>2, FlattenFronts
<1>5. /\ \A k \in 0 .. n : f[k] \in Seq(ZipUnit) /\ Len(f[k]) \in Nat
      /\ \A k \in 1 .. n : f[k] = f[k - 1] \o blocks[k]
      /\ \A k \in 0 .. n : FlattenSeq(SubSeq(blocks, 1, k)) = f[k]
      /\ flat = f[n]
  <2>1. /\ f \in [0 .. Len(blocks) -> Seq(ZipUnit)]
        /\ \A k \in 1 .. Len(blocks) : f[k] = f[k - 1] \o blocks[k]
        /\ \A k \in 0 .. Len(blocks) : FlattenSeq(SubSeq(blocks, 1, k)) = f[k]
        /\ FlattenSeq(blocks) = f[Len(blocks)]
    BY <1>4 DEF Fronts
  <2>2. \A k \in 0 .. n : f[k] \in Seq(ZipUnit)
    <3> HIDE DEF n
    <3> QED BY ONLY <1>2, <2>1
  <2>3. \A k \in 0 .. n : Len(f[k]) \in Nat
    <3> HIDE DEF n
    <3> QED BY ONLY <2>2
  <2> HIDE DEF n
  <2>4. QED BY ONLY <1>2, <2>1, <2>2, <2>3
<1>6. \A k \in 0 .. n : Len(f[k]) <= Len(f[n])
  <2> SUFFICES ASSUME NEW k \in 0 .. n PROVE Len(f[k]) <= Len(f[n])
    OBVIOUS
  <2>1. k \in 0 .. Len(blocks) /\ n \in k .. Len(blocks)
    BY <1>1, <1>2
  <2>2. QED BY <1>2, <1>4, <2>1, FrontsGrow
<1>7. flat \in Seq(ZipUnit) /\ Len(flat) \in Nat
  BY <1>1, <1>5
<1> HIDE DEF flat
<1>8. ASSUME NEW k \in 1 .. n
      PROVE entry(k) \in Entry /\ HeaderSize + entry(k).offset + entry(k).size <= 2 + n + Len(flat)
  <2>1. k - 1 \in 0 .. n /\ k \in 0 .. n /\ k \in 1 .. Len(blocks)
    BY <1>1, <1>2
  <2>2. FlattenSeq(SubSeq(blocks, 1, k - 1)) = f[k - 1]
    BY <1>5, <2>1
  <2>3. entry(k).offset = 1 + n + Len(f[k - 1]) /\ entry(k).size = Len(blocks[k])
    BY <2>2 DEF TableSize
  <2>4. blocks[k] \in Seq(ZipUnit) /\ Len(blocks[k]) \in Nat
    BY <1>2, <2>1
  <2>5. f[k - 1] \in Seq(ZipUnit) /\ Len(f[k - 1]) \in Nat
    BY <1>5, <2>1
  <2>6. f[k] = f[k - 1] \o blocks[k]
    BY <1>5
  <2>7. Len(f[k - 1] \o blocks[k]) = Len(f[k - 1]) + Len(blocks[k])
    BY <2>4, <2>5, Joined
  <2>8. Len(f[k - 1]) + Len(blocks[k]) <= Len(flat)
    BY <1>5, <1>6, <2>1, <2>6, <2>7
  <2>9. entry(k) = [type |-> "entry", size |-> Len(blocks[k]), offset |-> 1 + n + Len(f[k - 1])]
    BY <2>2 DEF TableSize
  <2> HIDE DEF n
  <2>10. 1 + n + Len(f[k - 1]) \in Nat
    <3>1. \A x, y \in Nat : 1 + x + y \in Nat
      OBVIOUS
    <3>2. QED BY <1>1, <2>5, <3>1
  <2>11. entry(k) \in Entry
    BY <2>4, <2>9, <2>10 DEF Entry
  <2>12. HeaderSize + entry(k).offset + entry(k).size <= 2 + n + Len(flat)
    <3>1. \A x, y, z, w \in Nat : y + z <= w => 1 + (1 + x + y) + z <= 2 + x + w
      OBVIOUS
    <3>2. 1 + (1 + n + Len(f[k - 1])) + Len(blocks[k]) <= 2 + n + Len(flat)
      BY <1>1, <1>7, <2>4, <2>5, <2>8, <3>1
    <3>3. QED BY <2>3, <3>2 DEF HeaderSize
  <2>13. QED BY <2>11, <2>12
<1> HIDE DEF entry
<1>9. /\ head \in Seq(Unit) /\ Len(head) = 2 /\ \A i \in 1 .. 2 : head[i] \notin Entry
      /\ head[2] = [type |-> "table", blocks |-> n] /\ head[2] \in TableHead
  <2>1. [type |-> "head"] \in Mark /\ [type |-> "table", blocks |-> n] \in TableHead
    BY <1>1 DEF Mark, TableHead
  <2>2. [type |-> "head"] \in Unit /\ [type |-> "table", blocks |-> n] \in Unit
    BY <2>1 DEF Unit
  <2>3. \A u \in Entry : u.type = "entry"
    BY DEF Entry
  <2>4. [type |-> "head"] \notin Entry /\ [type |-> "table", blocks |-> n] \notin Entry
    <3>1. [type |-> "head"].type = "head" /\ [type |-> "table", blocks |-> n].type = "table"
      OBVIOUS
    <3>2. QED BY <2>3, <3>1
  <2> HIDE DEF n
  <2>5. QED BY <2>1, <2>2, <2>4
<1>10. entries \in Seq(Entry) /\ Len(entries) = n /\ \A k \in 1 .. n : entries[k] = entry(k)
  BY <1>1, <1>8
<1>11. end \in Seq(Unit) /\ Len(end) = 1 /\ end[1] \notin Entry
  <2>1. [type |-> "end"] \in Unit
    BY DEF Unit, Mark
  <2>2. [type |-> "end"] \notin Entry
    <3>1. [type |-> "end"].type = "end"
      OBVIOUS
    <3>2. QED BY <3>1 DEF Entry
  <2>3. QED BY <2>1, <2>2
<1>12. /\ \A u \in Entry : u \in Unit
       /\ \A u \in ZipUnit : u \in Unit /\ u \notin Entry
  <2>1. \A u \in ZipUnit : u.type = "zip"
    BY DEF ZipUnit
  <2>2. \A u \in Entry : u.type = "entry"
    BY DEF Entry
  <2>3. \A u \in ZipUnit : u \notin Entry
    BY <2>1, <2>2
  <2>4. QED BY <2>3 DEF Unit
<1>13. /\ entries \in Seq(Unit) /\ flat \in Seq(Unit)
       /\ \A i \in 1 .. Len(flat) : flat[i] \notin Entry
  <2> HIDE DEF entries
  <2>1. QED BY <1>7, <1>10, <1>12
<1> HIDE DEF head, entries, end, n
<1>14. /\ fork \in Seq(Unit) /\ Len(fork) = 2 + n + Len(flat) + 1
       /\ \A i \in 1 .. 2 : fork[i] = head[i]
       /\ \A k \in 1 .. n : fork[2 + k] = entries[k]
       /\ \A i \in 1 .. Len(flat) : fork[2 + n + i] = flat[i]
       /\ fork[2 + n + Len(flat) + 1] = end[1]
  <2> DEFINE two == head \o entries
             three == two \o flat
  <2>1. /\ two \in Seq(Unit) /\ Len(two) = 2 + n
        /\ \A i \in 1 .. 2 : two[i] = head[i]
        /\ \A k \in 1 .. n : two[2 + k] = entries[k]
    <3>1. /\ head \o entries \in Seq(Unit) /\ Len(head \o entries) = Len(head) + Len(entries)
          /\ \A i \in 1 .. Len(head) : (head \o entries)[i] = head[i]
          /\ \A i \in 1 .. Len(entries) : (head \o entries)[Len(head) + i] = entries[i]
      <4>1. head \in Seq(Unit) /\ entries \in Seq(Unit)
        BY <1>9, <1>13
      <4>2. QED BY ONLY <4>1, Joined
    <3>2. Len(head) = 2 /\ Len(entries) = n
      BY <1>9, <1>10
    <3>3. QED BY <3>1, <3>2
  <2> HIDE DEF two
  <2>2. /\ three \in Seq(Unit) /\ Len(three) = 2 + n + Len(flat)
        /\ \A i \in 1 .. 2 + n : three[i] = two[i]
        /\ \A i \in 1 .. Len(flat) : three[2 + n + i] = flat[i]
    <3>1. /\ two \o flat \in Seq(Unit) /\ Len(two \o flat) = Len(two) + Len(flat)
          /\ \A i \in 1 .. Len(two) : (two \o flat)[i] = two[i]
          /\ \A i \in 1 .. Len(flat) : (two \o flat)[Len(two) + i] = flat[i]
      <4>1. two \in Seq(Unit) /\ flat \in Seq(Unit)
        BY <2>1, <1>13
      <4>2. QED BY ONLY <4>1, Joined
    <3>2. Len(two) = 2 + n
      BY <2>1
    <3>3. QED BY <3>1, <3>2
  <2> HIDE DEF three
  <2>3. fork = three \o end
    BY <1>3 DEF three, two
  <2>4. /\ fork \in Seq(Unit) /\ Len(fork) = 2 + n + Len(flat) + 1
        /\ \A i \in 1 .. 2 + n + Len(flat) : fork[i] = three[i]
        /\ fork[2 + n + Len(flat) + 1] = end[1]
    <3>1. 1 \in 1 .. Len(end)
      BY <1>11
    <3>2. /\ three \o end \in Seq(Unit) /\ Len(three \o end) = Len(three) + Len(end)
          /\ \A i \in 1 .. Len(three) : (three \o end)[i] = three[i]
          /\ \A i \in 1 .. Len(end) : (three \o end)[Len(three) + i] = end[i]
      BY <2>2, <1>11, Joined
    <3>3. QED BY <1>11, <2>2, <2>3, <3>1, <3>2
  <2>5. \A i \in 1 .. 2 : fork[i] = head[i]
    BY <1>1, <1>7, <2>1, <2>2, <2>4
  <2>6. \A k \in 1 .. n : fork[2 + k] = entries[k]
    <3>1. \A k \in 1 .. n : 2 + k \in 1 .. 2 + n /\ 2 + k \in 1 .. 2 + n + Len(flat)
      BY <1>1, <1>7
    <3>2. QED BY <2>1, <2>2, <2>4, <3>1
  <2>7. \A i \in 1 .. Len(flat) : fork[2 + n + i] = flat[i]
    <3>1. \A i \in 1 .. Len(flat) : 2 + n + i \in 1 .. 2 + n + Len(flat)
      BY <1>1, <1>7
    <3>2. QED BY <2>2, <2>4, <3>1
  <2>8. QED BY <2>4, <2>5, <2>6, <2>7
<1>15. ASSUME NEW i \in 1 .. Len(fork), fork[i] \in Entry
       PROVE  HeaderSize + fork[i].offset + fork[i].size <= Len(fork)
  <2>1. CASE i \in 1 .. 2
    BY <1>9, <1>14, <1>15, <2>1
  <2>2. CASE i - 2 \in 1 .. n
    <3>1. PICK k \in 1 .. n : i = 2 + k
      BY <2>2
    <3>2. fork[i] = entry(k)
      BY <1>10, <1>14, <3>1
    <3>3. HeaderSize + entry(k).offset + entry(k).size <= 2 + n + Len(flat)
      BY <1>8
    <3>4. HeaderSize + entry(k).offset + entry(k).size \in Nat
      BY <1>8 DEF HeaderSize, Entry
    <3>5. QED BY <1>1, <1>7, <1>14, <3>2, <3>3, <3>4
  <2>3. CASE i - (2 + n) \in 1 .. Len(flat)
    <3>1. PICK k \in 1 .. Len(flat) : i = 2 + n + k
      BY <1>1, <2>3
    <3>2. fork[i] = flat[k]
      BY <1>14, <3>1
    <3>3. QED BY <1>13, <1>15, <3>2
  <2>4. CASE i = 2 + n + Len(flat) + 1
    BY <1>11, <1>14, <1>15, <2>4
  <2>5. QED BY <1>1, <1>7, <1>14, <2>1, <2>2, <2>3, <2>4
<1>16. Len(fork) >= 2 /\ fork[2] \in TableHead /\ fork[2].blocks + 2 <= Len(fork)
  <2>1. fork[2] = [type |-> "table", blocks |-> n] /\ fork[2] \in TableHead
    BY <1>9, <1>14
  <2>2. fork[2].blocks = n
    BY <2>1
  <2>3. QED BY <1>1, <1>7, <1>14, <2>1, <2>2
<1>17. QED BY <1>14, <1>15, <1>16 DEF ForkOK, fork

-----------------------------------------------------------------------------
(* The inductive invariant                                                 *)

Reading == {"loop", "read", "write", "close"}
Writing == {"blocks", "head", "table", "end", "unset", "set"}

Handle == [cached : Text, start : Nat, size : Nat, table : Seq(Unit), dirty : BOOLEAN]
Job == [kind : {"none", "extract", "add"}, sound : BOOLEAN, form : {"none", "inline", "rsrc"},
        input : Text, pos : Nat, left : Nat]
Request == [loc : Nat, left : Nat, buf : Text, for : {"none", "extract", "cache"}]

TypeOK ==
    /\ AttrOK(attr) /\ ForkOK(rsrc)
    /\ pc \in {"idle"} \cup Reading \cup Writing
    /\ handle \in Handle /\ job \in Job /\ req \in Request
    /\ before \in Text /\ want \in Text /\ overran \in BOOLEAN

\* The file on the image: it changes while blocks are written over an old fork,
\* and where the attribute is away.
ImageOK ==
    /\ pc = "idle" => (overran \/ Content(attr, rsrc) = want) /\ job = NoJob
    /\ pc \in Reading => Content(attr, rsrc) = before
    /\ pc \notin {"idle", "set"} => attr.type = job.form
    /\ pc \in Writing \ {"set"} /\ job.form # "rsrc" => Content(attr, rsrc) = before
    /\ pc = "set" => attr = NoAttribute

\* How far the call has come.
JobOK ==
    /\ pc # "idle" => job.kind \in {"extract", "add"}
    /\ job.kind = "extract" => want = before /\ pc \in {"loop", "read", "close"}
    /\ job.kind = "add" => want = Overlay(before, job.input) /\ job.pos + job.left = Len(job.input)
    /\ pc \in {"read", "write"} => job.left > 0
    /\ pc = "close" => job.left = 0
    /\ pc # "read" => req = NoReq

\* A handle as openHFSPlusCompressed makes it, and one that compressedRead has used:
\* its cache has a block of the fork.
Open(h, a, fork) ==
    /\ ~h.dirty /\ h.size = a.size
    /\ a.type = "rsrc" => h.table = TableIn(fork)
    /\ a.type # "rsrc" => h.start = 0 /\ h.cached = Content(a, fork)
Loaded(h, a, fork) ==
    \E k \in Nat : k < NumBlocks(a.size) /\ h.start = CompBlock * k /\ h.cached = Block(fork, k + 1)
Fresh(h, a, fork) == Open(h, a, fork) /\ (a.type = "rsrc" => h.start = 0 /\ h.cached = <<>>)
Serving(h, a, fork) == Open(h, a, fork) /\ (a.type = "rsrc" => h.cached = <<>> \/ Loaded(h, a, fork))

\* The first n characters of the file, whose blocks so far are full.
HasRead(text, n, a, fork) ==
    /\ Len(text) = n /\ n <= Len(Content(a, fork))
    /\ \A i \in 1 .. n : text[i] = Content(a, fork)[i]
    /\ a.type = "rsrc" =>
          \A k \in 1 .. NumBlocks(a.size) : CompBlock * k <= n => Len(Block(fork, k)) = CompBlock

\* What the running call has read.
ReadSoFar == IF job.kind = "extract" THEN job.input \o req.buf ELSE req.buf

ExtractOK ==
    job.kind = "extract" =>
        /\ Serving(handle, attr, rsrc)
        /\ job.pos + job.left = handle.size
        /\ HasRead(job.input, job.pos, attr, rsrc)

ReadOK ==
    pc = "read" =>
        /\ Serving(handle, attr, rsrc)
        /\ HasRead(ReadSoFar, req.loc, attr, rsrc)
        /\ job.kind = "extract" =>
              req.for = "extract" /\ req.loc + req.left = job.pos + Least(Buffer, job.left)
        /\ job.kind = "add" =>
              req.for = "cache" /\ req.loc + req.left = handle.size /\ job.pos = 0

\* The cache of a file that is written has all of it.
Whole(h, s) == h.start = 0 /\ h.cached = s /\ h.size = Len(s)
AddOK ==
    job.kind = "add" /\ pc \in {"loop", "write", "close"} =>
        \/ /\ handle.dirty /\ job.pos > 0
           /\ Whole(handle, Overlay(before, SubSeq(job.input, 1, job.pos)))
        \/ ~handle.dirty /\ job.pos = 0 /\ (Fresh(handle, attr, rsrc) \/ Whole(handle, before))

\* The blocks that are written lie one behind the other, behind the place of the table.
Zipped(h, k) == Compressed(BlockOf(h.cached, k - 1))
NextOffset(h) ==
    IF h.table = <<>> THEN TableSize(NumBlocks(h.size))
    ELSE h.table[Len(h.table)].offset + h.table[Len(h.table)].size
BlockWritten(h, fork, k) ==
    /\ TableSize(NumBlocks(h.size)) <= h.table[k].offset
    /\ h.table[k].offset + h.table[k].size <= NextOffset(h)
    /\ HeaderSize + h.table[k].offset + h.table[k].size <= Len(fork)
    /\ h.table[k].size = Len(Zipped(h, k))
    /\ \A i \in 1 .. h.table[k].size : fork[HeaderSize + h.table[k].offset + i] = Zipped(h, k)[i]
TableWritten(h, fork) ==
    /\ Len(fork) >= NumBlocks(h.size) + 2
    /\ fork[2] = [type |-> "table", blocks |-> NumBlocks(h.size)]
    /\ \A k \in 1 .. NumBlocks(h.size) : fork[2 + k] = h.table[k]

WriteOK ==
    pc \in Writing =>
        /\ job.kind = "add" /\ Whole(handle, want) /\ want # <<>>
        /\ handle.table \in Seq(Entry)
        /\ \A k \in 1 .. Len(handle.table) : BlockWritten(handle, rsrc, k)
        /\ pc = "blocks" => Len(handle.table) < NumBlocks(handle.size)
        /\ pc = "blocks" /\ FitsInline(handle.cached) => handle.table = <<>>
        /\ pc \in {"head", "table", "end"} => ~FitsInline(handle.cached)
        /\ pc \notin {"blocks"} /\ ~FitsInline(handle.cached) => Len(handle.table) = NumBlocks(handle.size)
        /\ pc \in {"end", "unset", "set"} /\ ~FitsInline(handle.cached) => TableWritten(handle, rsrc)

CompressInv == TypeOK /\ ImageOK /\ JobOK /\ ExtractOK /\ ReadOK /\ AddOK /\ WriteOK

\* A file opened anew.
LEMMA OpenedFresh ==
  ASSUME AttrOK(attr), ForkOK(rsrc)
  PROVE  Opened \in Handle /\ Fresh(Opened, attr, rsrc) /\ Opened.size = attr.size
<1>1. /\ Content(attr, rsrc) \in Text /\ Len(Content(attr, rsrc)) \in Nat /\ attr.size \in Nat
      /\ attr.type \in {"none", "inline", "rsrc"}
      /\ attr.type = "none" => attr = NoAttribute
      /\ attr.type = "inline" => Content(attr, rsrc) = Stored(attr)
  BY ContentFacts
<1>2. <<>> \in Text /\ <<>> \in Seq(Unit)
  BY DEF Text
<1>3. TableIn(rsrc) \in Seq(Unit)
  BY TableOf
<1>4. CASE attr.type = "none"
  <2>1. Opened = [cached |-> <<>>, start |-> 0, size |-> 0, table |-> <<>>, dirty |-> FALSE]
    BY <1>4 DEF Opened, NoHandle
  <2>2. Content(attr, rsrc) = <<>> /\ attr.size = 0
    BY <1>1, <1>4 DEF Content, NoAttribute
  <2>3. QED BY <1>2, <1>4, <2>1, <2>2 DEF Handle, Fresh, Open
<1>5. CASE attr.type = "inline"
  <2>1. Opened = [cached |-> Content(attr, rsrc), start |-> 0, size |-> attr.size, table |-> <<>>, dirty |-> FALSE]
    BY <1>1, <1>5 DEF Opened, NoHandle
  <2>2. QED BY <1>1, <1>2, <1>5, <2>1 DEF Handle, Fresh, Open
<1>6. CASE attr.type = "rsrc"
  <2>1. Opened = [cached |-> <<>>, start |-> 0, size |-> attr.size, table |-> TableIn(rsrc), dirty |-> FALSE]
    BY <1>6 DEF Opened, NoHandle
  <2>2. QED BY <1>1, <1>2, <1>3, <1>6, <2>1 DEF Handle, Fresh, Open
<1>7. QED BY <1>1, <1>4, <1>5, <1>6

\* Nothing is read at first.
LEMMA NothingRead ==
  ASSUME NEW fork, ForkOK(fork), NEW a, AttrOK(a)
  PROVE  HasRead(<<>>, 0, a, fork)
<1>1. Len(Content(a, fork)) \in Nat
  BY ContentFacts
<1>2. Len(<<>>) = 0
  OBVIOUS
<1>3. ASSUME a.type = "rsrc", NEW k \in 1 .. NumBlocks(a.size), CompBlock * k <= 0
      PROVE  Len(Block(fork, k)) = CompBlock
  <2>1. a.size \in Nat
    BY ContentFacts
  <2>2. k \in Nat /\ k > 0
    BY <2>1, NumBlocksExact
  <2>3. CompBlock * 0 + CompBlock <= CompBlock * k
    BY <2>2, Multiples
  <2>4. CompBlock <= CompBlock * k /\ CompBlock > 0 /\ CompBlock \in Nat /\ CompBlock * k \in Nat
    BY <2>2, <2>3, Multiples, Sizes
  <2>5. QED BY <1>3, <2>4
<1>4. QED BY <1>1, <1>2, <1>3 DEF HasRead

\* What the cache has of the file is the file.
LEMMA ServeBytes ==
  ASSUME NEW fork, ForkOK(fork), NEW a, AttrOK(a),
         NEW h \in Handle, Serving(h, a, fork),
         NEW text \in Text, NEW loc \in Nat, HasRead(text, loc, a, fork),
         NEW n \in Nat, n > 0,
         h.start <= loc, loc + n <= h.start + Len(h.cached), loc + n <= h.size
  PROVE  LET more == SubSeq(h.cached, (loc - h.start) + 1, (loc - h.start) + n)
         IN  more \in Text /\ Len(more) = n /\ text \o more \in Text /\ HasRead(text \o more, loc + n, a, fork)
<1> DEFINE now == Content(a, fork)
           from == loc - h.start
           more == SubSeq(h.cached, from + 1, from + n)
           S == Chars \cup {"?"}
<1>1. /\ now \in Text /\ Len(now) \in Nat /\ a.size \in Nat /\ Len(now) <= a.size
      /\ a.type # "rsrc" => Len(now) = a.size
  BY ContentFacts
<1>2. h.cached \in Text /\ h.start \in Nat /\ h.size \in Nat /\ h.size = a.size
  BY DEF Handle, Serving, Open
<1>3. h.cached \in Seq(S) /\ Len(h.cached) \in Nat /\ text \in Seq(S)
  BY <1>2 DEF Text
<1>4. from \in Nat /\ from + n <= Len(h.cached) /\ h.start + from = loc
  BY <1>2, <1>3
<1> HIDE DEF from
<1>5. more \in Seq(S) /\ Len(more) = n /\ \A i \in 1 .. n : more[i] = h.cached[from + i]
  BY <1>3, <1>4, Cut
<1> HIDE DEF more, S, now
<1>6. /\ text \o more \in Seq(S) /\ Len(text \o more) = Len(text) + Len(more)
      /\ \A i \in 1 .. Len(text) : (text \o more)[i] = text[i]
      /\ \A i \in 1 .. Len(more) : (text \o more)[Len(text) + i] = more[i]
  <2>1. text \in Seq(S) /\ more \in Seq(S)
    BY <1>3, <1>5
  <2>2. QED BY ONLY <2>1, Joined
<1>7. Len(text) = loc /\ loc <= Len(now) /\ \A i \in 1 .. loc : text[i] = now[i]
  BY DEF HasRead, now
<1>8. /\ loc + n <= Len(now)
      /\ \A i \in 1 .. n : more[i] = now[loc + i]
      /\ a.type = "rsrc" => \A k \in 1 .. NumBlocks(a.size) :
                               CompBlock * k <= loc + n => Len(Block(fork, k)) = CompBlock
  <2>1. CASE a.type # "rsrc"
    <3>1. h.start = 0 /\ h.cached = now
      BY <2>1 DEF Serving, Open, now
    <3>2. from = loc
      BY <1>4, <3>1
    <3>3. QED BY <1>1, <1>2, <1>5, <2>1, <3>1, <3>2
  <2>2. CASE a.type = "rsrc"
    <3>1. h.cached # <<>>
      <4>1. Len(<<>>) = 0
        OBVIOUS
      <4>2. Len(h.cached) > 0
        BY <1>3, <1>4
      <4>3. QED BY <4>1, <4>2
    <3>2. PICK k \in Nat : k < NumBlocks(a.size) /\ h.start = CompBlock * k /\ h.cached = Block(fork, k + 1)
      BY <2>2, <3>1 DEF Serving, Loaded
    <3>3. NumBlocks(a.size) \in Nat /\ k \in 0 .. NumBlocks(a.size)
      <4>1. NumBlocks(a.size) \in Nat
        BY <1>1, NumBlocksExact
      <4>2. QED BY <3>2, <4>1
    <3>4. \A j \in 1 .. NumBlocks(a.size) : CompBlock * j <= loc => Len(Block(fork, j)) = CompBlock
      BY <2>2 DEF HasRead
    <3>5. FullUpTo(fork, k)
      <4> SUFFICES ASSUME NEW j \in 1 .. k PROVE Len(Block(fork, j)) = CompBlock
        BY DEF FullUpTo
      <4>1. j \in Nat /\ j <= k /\ j \in 1 .. NumBlocks(a.size)
        BY <3>3
      <4>2. CompBlock * j <= CompBlock * k /\ CompBlock * j \in Nat /\ CompBlock * k \in Nat
        BY <4>1, Multiples
      <4>3. CompBlock * k <= loc
        BY <3>2
      <4>4. CompBlock * j <= loc
        BY <4>2, <4>3
      <4>5. QED BY <3>4, <4>1, <4>4
    <3>6. \A i \in 1 .. Len(Block(fork, k + 1)) :
             CompBlock * k + i <= a.size =>
                CompBlock * k + i <= Len(now) /\ now[CompBlock * k + i] = Block(fork, k + 1)[i]
      BY <1>1, <2>2, <3>2, <3>3, <3>5, ContentOfFork DEF now
    <3>7. \A i \in 1 .. Len(h.cached) :
             h.start + i <= a.size => h.start + i <= Len(now) /\ now[h.start + i] = h.cached[i]
      BY <3>2, <3>6
    <3>8. ASSUME NEW i \in 1 .. n PROVE loc + i <= Len(now) /\ more[i] = now[loc + i]
      <4>1. from + i \in 1 .. Len(h.cached) /\ h.start + (from + i) = loc + i /\ loc + i <= a.size
        BY <1>2, <1>3, <1>4
      <4>2. loc + i <= Len(now) /\ now[loc + i] = h.cached[from + i]
        BY <3>7, <4>1
      <4>3. QED BY <1>5, <4>2
    <3>9. loc + n <= Len(now)
      BY <3>8
    <3>10. ASSUME NEW j \in 1 .. NumBlocks(a.size), CompBlock * j <= loc + n
           PROVE  Len(Block(fork, j)) = CompBlock
      <4>1. j \in Nat
        BY <3>3
      <4>2. CASE j <= k
        BY <3>5, <4>2 DEF FullUpTo
      <4>3. CASE j = k + 1
        <5>1. CompBlock * j = CompBlock * k + CompBlock /\ CompBlock * k \in Nat /\ CompBlock \in Nat
          BY <4>3, Multiples, Sizes
        <5>2. Block(fork, j) \in Piece
          BY BlockFits DEF Block
        <5>3. Len(h.cached) <= CompBlock
          BY <3>2, <4>3, <5>2, Pieces
        <5>4. CompBlock * k + CompBlock <= CompBlock * k + Len(h.cached)
          BY <1>2, <1>3, <3>2, <3>10, <5>1
        <5>5. Len(h.cached) = CompBlock
          BY <1>3, <5>1, <5>3, <5>4
        <5>6. QED BY <3>2, <4>3, <5>5
      <4>4. CASE j > k + 1
        <5>1. k + 1 \in Nat /\ k + 1 < j
          BY <4>4
        <5>2. CompBlock * (k + 1) + CompBlock <= CompBlock * j /\ CompBlock * j \in Nat
              /\ CompBlock * (k + 1) = CompBlock * k + CompBlock /\ CompBlock * k \in Nat
          BY <4>1, <5>1, Multiples
        <5>3. Block(fork, k + 1) \in Piece
          BY BlockFits DEF Block
        <5>4. Len(h.cached) <= CompBlock /\ CompBlock \in Nat /\ CompBlock > 0
          BY <3>2, <5>3, Pieces, Sizes
        <5>5. loc + n <= CompBlock * k + Len(h.cached)
          BY <3>2
        <5>6. \A x, y, c, l \in Nat : c > 0 /\ l <= c /\ loc + n <= x + l /\ x + c + c <= y => ~(y <= loc + n)
          OBVIOUS
        <5>7. QED BY <1>3, <3>10, <5>2, <5>4, <5>5, <5>6
      <4>5. QED BY <3>2, <4>1, <4>2, <4>3, <4>4
    <3>11. QED BY <3>8, <3>9, <3>10
  <2>3. QED BY <2>1, <2>2
<1>9. Len(text \o more) = loc + n
  BY <1>5, <1>6, <1>7
<1>10. ASSUME NEW i \in 1 .. loc + n PROVE (text \o more)[i] = now[i]
  <2>1. CASE i <= loc
    <3>1. i \in 1 .. Len(text)
      BY <1>7, <2>1
    <3>2. QED BY <1>6, <1>7, <3>1
  <2>2. CASE ~(i <= loc)
    <3>1. PICK j \in 1 .. n : i = loc + j
      BY <2>2
    <3>2. (text \o more)[loc + j] = more[j]
      BY <1>5, <1>6, <1>7
    <3>3. QED BY <1>8, <3>1, <3>2
  <2>3. QED BY <2>1, <2>2
<1>11. HasRead(text \o more, loc + n, a, fork)
  BY <1>8, <1>9, <1>10 DEF HasRead, now
<1>12. QED BY <1>5, <1>6, <1>11 DEF Text, S, more, from

\* What writing over the front of a file makes of it.
LEMMA OverlayOf ==
  ASSUME NEW old \in Text, NEW new \in Text
  PROVE  /\ Overlay(old, new) \in Text
         /\ Len(Overlay(old, new)) = IF Len(old) < Len(new) THEN Len(new) ELSE Len(old)
         /\ \A i \in 1 .. Len(new) : Overlay(old, new)[i] = new[i]
         /\ \A i \in 1 .. Len(old) : i > Len(new) => Overlay(old, new)[i] = old[i]
<1> DEFINE S == Chars \cup {"?"}
           m == Len(new)
           n == Len(old) - m
           rest == SubSeq(old, m + 1, Len(old))
<1>1. old \in Seq(S) /\ new \in Seq(S) /\ Len(old) \in Nat /\ m \in Nat
  BY DEF Text
<1>2. Overlay(old, new) = new \o rest
  BY DEF Overlay
<1> HIDE DEF S
<1>3. CASE m <= Len(old)
  <2>1. n \in Nat /\ m + n = Len(old)
    BY <1>1, <1>3
  <2> HIDE DEF n
  <2>2. rest \in Seq(S) /\ Len(rest) = n /\ \A i \in 1 .. n : rest[i] = old[m + i]
    <3>1. rest = SubSeq(old, m + 1, m + n)
      BY <2>1
    <3>2. QED BY <1>1, <2>1, <3>1, Cut
  <2> HIDE DEF rest
  <2>3. /\ new \o rest \in Seq(S) /\ Len(new \o rest) = m + Len(rest)
        /\ \A i \in 1 .. m : (new \o rest)[i] = new[i]
        /\ \A i \in 1 .. Len(rest) : (new \o rest)[m + i] = rest[i]
    <3>1. new \in Seq(S) /\ rest \in Seq(S)
      BY <1>1, <2>2
    <3>2. QED BY ONLY <3>1, Joined
  <2>4. ASSUME NEW i \in 1 .. Len(old), i > m PROVE (new \o rest)[i] = old[i]
    <3>1. PICK j \in 1 .. n : i = m + j
      <4>1. i - m \in 1 .. n /\ i = m + (i - m)
        BY <1>1, <2>1, <2>4
      <4>2. QED BY <4>1
    <3>2. QED BY <2>2, <2>3, <3>1
  <2>5. Len(new \o rest) = IF Len(old) < m THEN m ELSE Len(old)
    <3>1. Len(new \o rest) = m + n
      BY <2>2, <2>3
    <3>2. ~(Len(old) < m) /\ m + n = Len(old)
      BY <1>1, <1>3, <2>1
    <3>3. QED BY <3>1, <3>2
  <2> HIDE DEF m
  <2>6. QED BY <1>2, <2>3, <2>4, <2>5 DEF Text, S, m
<1>4. CASE ~(m <= Len(old))
  <2>1. rest = <<>>
    BY <1>1, <1>4
  <2>2. new \o <<>> = new
    BY <1>1
  <2>3. Overlay(old, new) = new
    BY <1>2, <2>1, <2>2
  <2>4. Len(old) < m /\ \A i \in 1 .. Len(old) : ~(i > m)
    BY <1>1, <1>4
  <2>5. QED BY <1>1, <2>3, <2>4
<1>5. QED BY <1>3, <1>4

-----------------------------------------------------------------------------
(* The invariant holds at first and between calls                          *)

\* The empty handle, job and request.
LEMMA Empties ==
  NoHandle \in Handle /\ NoJob \in Job /\ NoReq \in Request /\ <<>> \in Text
<1>1. <<>> \in Text /\ <<>> \in Seq(Unit)
  BY DEF Text
<1>2. QED BY <1>1 DEF NoHandle, NoJob, NoReq, Handle, Job, Request

\* No call is running: the rest of the invariant is about running calls.
LEMMA AtRest ==
  ASSUME AttrOK(attr), ForkOK(rsrc), pc = "idle", handle = NoHandle, job = NoJob, req = NoReq,
         Content(attr, rsrc) = want, before \in Text, overran = FALSE
  PROVE  CompressInv
<1>1. want \in Text
  BY ContentFacts
<1>2. TypeOK
  BY <1>1, Empties DEF TypeOK
<1>3. job.kind = "none"
  BY DEF NoJob
<1>4. ImageOK /\ JobOK
  BY <1>3 DEF ImageOK, JobOK, Reading, Writing
<1>5. ExtractOK /\ ReadOK /\ AddOK /\ WriteOK
  BY <1>3 DEF ExtractOK, ReadOK, AddOK, WriteOK, Writing
<1>6. QED BY <1>2, <1>4, <1>5 DEF CompressInv

\* The same of the state behind a step that ends a call.
LEMMA AtRestNext ==
  ASSUME AttrOK(attr'), ForkOK(rsrc'), pc' = "idle", handle' = NoHandle, job' = NoJob, req' = NoReq,
         overran' \/ Content(attr', rsrc') = want', before' \in Text, want' \in Text, overran' \in BOOLEAN
  PROVE  CompressInv'
<1>2. TypeOK'
  BY Empties DEF TypeOK
<1>3. job'.kind = "none"
  BY DEF NoJob
<1>4. ImageOK' /\ JobOK'
  BY <1>3 DEF ImageOK, JobOK, Reading, Writing
<1>5. ExtractOK' /\ ReadOK' /\ AddOK' /\ WriteOK'
  BY <1>3 DEF ExtractOK, ReadOK, AddOK, WriteOK, Writing
<1>6. QED BY <1>2, <1>4, <1>5 DEF CompressInv

\* Files are texts.
LEMMA FilesAreTexts ==
  \A s \in Inputs \cup Initial : s \in Text
<1>1. \A s \in Inputs \cup Initial : s \in Seq(Chars)
  BY CompressAssumption
<1>2. \A s \in Seq(Chars) : s \in Seq(Chars \cup {"?"})
  OBVIOUS
<1>3. QED BY <1>1, <1>2 DEF Text

\* A compressed file as it is at first: in the attribute, or a fork written in one go.
LEMMA InitInv ==
  ASSUME Init
  PROVE  CompressInv
<1>1. PICK s \in Initial :
         IF FitsInline(s)
         THEN attr = [type |-> "inline", size |-> Len(s), data |-> Compressed(s)] /\ rsrc = <<>>
         ELSE attr = [type |-> "rsrc", size |-> Len(s), data |-> <<>>] /\ rsrc = Layout(s)
  BY DEF Init
<1>2. s \in Text /\ Len(s) \in Nat
  BY FilesAreTexts DEF Text
<1>3. AttrOK(attr)
  BY <1>1, <1>2 DEF AttrOK
<1>4. ForkOK(<<>>)
  <2>1. <<>> \in Seq(Unit) /\ 1 .. Len(<<>>) = {}
    OBVIOUS
  <2>2. QED BY <2>1 DEF ForkOK
<1>5. ForkOK(rsrc)
  BY <1>1, <1>2, <1>4, LayoutOK
<1>6. Content(attr, rsrc) \in Text
  BY <1>3, <1>5, ContentFacts
<1>7. QED BY <1>3, <1>5, <1>6, AtRest DEF Init

-----------------------------------------------------------------------------
(* Steps that read                                                         *)

\* The file is opened to be read.
LEMMA ExtractInv ==
  ASSUME CompressInv, Extract
  PROVE  CompressInv'
<1>1. /\ AttrOK(attr) /\ ForkOK(rsrc) /\ pc = "idle" /\ req = NoReq
  BY DEF CompressInv, TypeOK, JobOK, Extract
<1>2. /\ attr' = attr /\ rsrc' = rsrc /\ req' = req /\ pc' = "loop"
      /\ handle' = Opened /\ before' = Content(attr, rsrc) /\ want' = before' /\ overran' = FALSE
      /\ job' = NewJob("extract", <<>>, Opened.size)
  BY DEF Extract
<1>3. Opened \in Handle /\ Fresh(Opened, attr, rsrc) /\ Opened.size \in Nat
  BY <1>1, OpenedFresh DEF Handle
<1>4. Content(attr, rsrc) \in Text /\ attr.type \in {"none", "inline", "rsrc"}
  BY <1>1, ContentFacts
<1>5. /\ job' \in Job /\ job'.kind = "extract" /\ job'.form = attr.type /\ job'.input = <<>>
      /\ job'.pos = 0 /\ job'.left = Opened.size
  <2>1. Sound \in BOOLEAN
    BY DEF Sound
  <2>2. <<>> \in Text
    BY Empties
  <2>3. job' = [kind |-> "extract", form |-> attr.type, sound |-> Sound, input |-> <<>>,
                pos |-> 0, left |-> Opened.size]
    BY <1>2 DEF NewJob
  <2>4. QED BY <1>3, <1>4, <2>1, <2>2, <2>3 DEF Job
<1>6. TypeOK'
  BY <1>1, <1>2, <1>3, <1>4, <1>5, Empties DEF TypeOK, Reading
<1>7. ImageOK' /\ JobOK'
  BY <1>1, <1>2, <1>5 DEF ImageOK, JobOK, Reading, Writing
<1>8. ExtractOK'
  <2>1. Serving(handle', attr', rsrc') /\ handle'.size = Opened.size
    BY <1>2, <1>3 DEF Fresh, Serving
  <2>2. HasRead(<<>>, 0, attr', rsrc')
    BY <1>1, <1>2, NothingRead
  <2>3. 0 + Opened.size = Opened.size
    BY <1>3
  <2>4. QED BY <1>5, <2>1, <2>2, <2>3 DEF ExtractOK
<1>9. ReadOK' /\ AddOK' /\ WriteOK'
  BY <1>2, <1>5 DEF ReadOK, AddOK, WriteOK, Writing
<1>10. QED BY <1>6, <1>7, <1>8, <1>9 DEF CompressInv

\* The file is opened to be written.
LEMMA AddInv ==
  ASSUME CompressInv, NEW s \in Inputs, Add(s)
  PROVE  CompressInv'
<1>1. /\ AttrOK(attr) /\ ForkOK(rsrc) /\ pc = "idle" /\ req = NoReq
  BY DEF CompressInv, TypeOK, JobOK, Add
<1>2. /\ attr' = attr /\ rsrc' = rsrc /\ req' = req /\ pc' = "loop"
      /\ handle' = Opened /\ before' = Content(attr, rsrc) /\ want' = Overlay(before', s) /\ overran' = FALSE
      /\ job' = NewJob("add", s, Len(s))
  BY DEF Add
<1>3. Opened \in Handle /\ Fresh(Opened, attr, rsrc) /\ Opened.size \in Nat
  BY <1>1, OpenedFresh DEF Handle
<1>4. Content(attr, rsrc) \in Text /\ attr.type \in {"none", "inline", "rsrc"}
  BY <1>1, ContentFacts
<1>5. s \in Text /\ Len(s) \in Nat /\ want' \in Text
  <2>1. s \in Text
    BY FilesAreTexts
  <2>2. QED BY <1>2, <1>4, <2>1, OverlayOf DEF Text
<1>6. /\ job' \in Job /\ job'.kind = "add" /\ job'.form = attr.type /\ job'.input = s
      /\ job'.pos = 0 /\ job'.left = Len(s)
  <2>1. Sound \in BOOLEAN
    BY DEF Sound
  <2>2. job' = [kind |-> "add", form |-> attr.type, sound |-> Sound, input |-> s, pos |-> 0, left |-> Len(s)]
    BY <1>2 DEF NewJob
  <2>3. QED BY <1>4, <1>5, <2>1, <2>2 DEF Job
<1>7. TypeOK'
  BY <1>1, <1>2, <1>3, <1>4, <1>5, <1>6, Empties DEF TypeOK, Reading
<1>8. ImageOK'
  BY <1>1, <1>2, <1>6 DEF ImageOK, Reading, Writing
<1>9. JobOK'
  <2>1. 0 + Len(s) = Len(s)
    BY <1>5
  <2>2. QED BY <1>1, <1>2, <1>6, <2>1 DEF JobOK
<1>10. AddOK'
  <2>1. Fresh(handle', attr', rsrc') /\ ~handle'.dirty
    BY <1>2, <1>3 DEF Fresh, Open
  <2>2. QED BY <1>6, <2>1 DEF AddOK
<1>11. ExtractOK' /\ ReadOK' /\ WriteOK'
  BY <1>2, <1>6 DEF ExtractOK, ReadOK, WriteOK, Writing
<1>12. QED BY <1>7, <1>8, <1>9, <1>10, <1>11 DEF CompressInv

\* The next piece of a file to read, or of the input to write.
LEMMA NextPieceInv ==
  ASSUME CompressInv, NextPiece
  PROVE  CompressInv'
<1>1. /\ TypeOK /\ ImageOK /\ JobOK /\ ExtractOK /\ ReadOK /\ AddOK /\ WriteOK
      /\ pc = "loop" /\ job.left > 0 /\ req = NoReq
      /\ UNCHANGED <<attr, rsrc, handle, job, overran, deaths, before, want>>
  BY DEF CompressInv, NextPiece, JobOK
<1>2. job.kind \in {"extract", "add"} /\ job \in Job /\ job.pos \in Nat /\ job.left \in Nat /\ job.input \in Text
  BY <1>1 DEF JobOK, TypeOK, Job
<1>3. Buffer \in Nat /\ Least(Buffer, job.left) \in Nat
  <2>1. Buffer \in Nat
    BY Sizes
  <2>2. QED BY <1>2, <2>1 DEF Least
<1>4. CASE job.kind = "extract"
  <2>1. /\ req' = [loc |-> job.pos, left |-> Least(Buffer, job.left), buf |-> <<>>, for |-> "extract"]
        /\ pc' = "read"
    BY <1>4 DEF NextPiece
  <2>2. TypeOK'
    <3>1. <<>> \in Text
      BY Empties
    <3>2. req' \in Request
      BY <1>2, <1>3, <2>1, <3>1 DEF Request
    <3>3. QED BY <1>1, <2>1, <3>2 DEF TypeOK, Reading
  <2>3. ImageOK' /\ JobOK'
    BY <1>1, <1>4, <2>1 DEF ImageOK, JobOK, Reading, Writing
  <2>4. ExtractOK' /\ Serving(handle, attr, rsrc) /\ HasRead(job.input, job.pos, attr, rsrc)
    BY <1>1, <1>4 DEF ExtractOK
  <2>5. ReadOK'
    <3>1. job.input \o <<>> = job.input
      BY <1>2 DEF Text
    <3>2. ReadSoFar' = job.input
      BY <1>1, <1>4, <2>1, <3>1 DEF ReadSoFar
    <3>3. req'.loc = job.pos /\ req'.left = Least(Buffer, job.left) /\ req'.for = "extract"
      BY <2>1
    <3>4. QED BY <1>1, <1>4, <2>4, <3>2, <3>3 DEF ReadOK
  <2>6. AddOK' /\ WriteOK'
    BY <1>1, <1>4, <2>1 DEF AddOK, WriteOK, Writing
  <2>7. QED BY <2>2, <2>3, <2>4, <2>5, <2>6 DEF CompressInv
<1>5. CASE job.kind = "add"
  <2>1. pc' = "write" /\ req' = req
    BY <1>5 DEF NextPiece
  <2>2. TypeOK' /\ ImageOK' /\ JobOK'
    BY <1>1, <1>5, <2>1 DEF TypeOK, ImageOK, JobOK, Reading, Writing
  <2>3. ExtractOK' /\ ReadOK' /\ WriteOK'
    BY <1>1, <1>5, <2>1 DEF ExtractOK, ReadOK, WriteOK, Writing
  <2>4. AddOK'
    BY <1>1, <1>5, <2>1 DEF AddOK
  <2>5. QED BY <2>2, <2>3, <2>4 DEF CompressInv
<1>6. QED BY <1>2, <1>4, <1>5

\* All pieces are done.
LEMMA LastPieceInv ==
  ASSUME CompressInv, LastPiece
  PROVE  CompressInv'
<1>1. /\ TypeOK /\ ImageOK /\ JobOK /\ ExtractOK /\ ReadOK /\ AddOK /\ WriteOK
      /\ pc = "loop" /\ job.left = 0 /\ pc' = "close"
      /\ UNCHANGED <<attr, rsrc, handle, job, req, overran, deaths, before, want>>
  BY DEF CompressInv, LastPiece
<1>2. TypeOK' /\ ImageOK' /\ JobOK'
  BY <1>1 DEF TypeOK, ImageOK, JobOK, Reading, Writing
<1>3. ExtractOK' /\ ReadOK' /\ AddOK' /\ WriteOK'
  BY <1>1 DEF ExtractOK, ReadOK, AddOK, WriteOK, Writing
<1>4. QED BY <1>2, <1>3 DEF CompressInv

\* What compressedRead takes from its cache.
LEMMA ReadCachedInv ==
  ASSUME CompressInv, ReadCached
  PROVE  CompressInv'
<1> DEFINE n == Least(CachedEnd - req.loc, req.left)
           from == req.loc - handle.start
           more == SubSeq(handle.cached, from + 1, from + n)
           S == Chars \cup {"?"}
<1>1. /\ TypeOK /\ ImageOK /\ JobOK /\ ExtractOK /\ ReadOK /\ AddOK /\ WriteOK
      /\ pc = "read" /\ req.left > 0 /\ InCache(req.loc) /\ pc' = pc
      /\ UNCHANGED <<attr, rsrc, pc, handle, job, overran, deaths, before, want>>
  BY DEF CompressInv, ReadCached
<1>2. /\ AttrOK(attr) /\ ForkOK(rsrc) /\ handle \in Handle /\ job \in Job /\ req \in Request
      /\ Serving(handle, attr, rsrc) /\ HasRead(ReadSoFar, req.loc, attr, rsrc)
      /\ job.kind \in {"extract", "add"}
  BY <1>1 DEF TypeOK, ReadOK, JobOK
<1>3. /\ req.loc \in Nat /\ req.left \in Nat /\ req.buf \in Text /\ req.for \in {"none", "extract", "cache"}
      /\ handle.start \in Nat /\ handle.cached \in Text /\ handle.size \in Nat
      /\ job.pos \in Nat /\ job.left \in Nat /\ job.input \in Text
      /\ Len(handle.cached) \in Nat
  BY <1>2 DEF Request, Handle, Job, Text
<1>4. req' = [req EXCEPT !.loc = req.loc + n, !.left = @ - n, !.buf = @ \o more]
  BY DEF ReadCached, AfterCopy
<1>5. /\ n \in Nat /\ n > 0 /\ n <= req.left
      /\ handle.start <= req.loc /\ req.loc + n <= handle.start + Len(handle.cached)
  <2>1. /\ handle.start <= req.loc /\ req.loc < handle.start + Len(handle.cached)
        /\ CachedEnd = handle.start + Len(handle.cached)
    BY <1>1 DEF InCache, CachedEnd
  <2>2. QED BY <1>1, <1>3, <2>1 DEF Least
<1>6. req.loc + n <= handle.size
  <2>1. CASE job.kind = "extract"
    <3>1. req.loc + req.left = job.pos + Least(Buffer, job.left) /\ job.pos + job.left = handle.size
      BY <1>1, <2>1 DEF ReadOK, ExtractOK
    <3>2. Buffer \in Nat
      BY Sizes
    <3> HIDE DEF n
    <3>3. QED BY <1>3, <1>5, <3>1, <3>2 DEF Least
  <2>2. CASE job.kind = "add"
    <3>1. req.loc + req.left = handle.size
      BY <1>1, <2>2 DEF ReadOK
    <3> HIDE DEF n
    <3>2. QED BY <1>3, <1>5, <3>1
  <2>3. QED BY <1>2, <2>1, <2>2
<1>7. ReadSoFar \in Text
  <2>1. job.input \o req.buf \in Text
    BY <1>3 DEF Text
  <2>2. QED BY <1>3, <2>1 DEF ReadSoFar
<1> HIDE DEF n
<1>8. /\ more \in Text /\ Len(more) = n
      /\ HasRead(ReadSoFar \o more, req.loc + n, attr, rsrc)
  BY <1>2, <1>3, <1>5, <1>6, <1>7, ServeBytes
<1> HIDE DEF more, from
<1>9. req' = [loc |-> req.loc + n, left |-> req.left - n, buf |-> req.buf \o more, for |-> req.for]
  <2>1. req = [loc |-> req.loc, left |-> req.left, buf |-> req.buf, for |-> req.for]
    BY <1>2 DEF Request
  <2>2. QED BY <1>4, <2>1
<1>10. /\ req' \in Request
       /\ req'.loc + req'.left = req.loc + req.left /\ req'.for = req.for /\ req'.loc = req.loc + n
       /\ req'.buf = req.buf \o more
  <2>1. req.loc + n \in Nat /\ req.left - n \in Nat /\ (req.loc + n) + (req.left - n) = req.loc + req.left
    BY <1>3, <1>5
  <2>2. req.buf \o more \in Text
    BY <1>3, <1>8 DEF Text
  <2>3. QED BY <1>3, <1>9, <2>1, <2>2 DEF Request
<1>11. ReadSoFar' = ReadSoFar \o more
  <2>1. job.input \o (req.buf \o more) = (job.input \o req.buf) \o more
    <3>1. job.input \in Seq(S) /\ req.buf \in Seq(S) /\ more \in Seq(S)
      BY <1>3, <1>8 DEF Text
    <3> HIDE DEF S
    <3>2. \A x, y, z \in Seq(S) : x \o (y \o z) = (x \o y) \o z
      BY ConcatAssociative
    <3>3. QED BY ONLY <3>1, <3>2
  <2>2. job' = job
    BY <1>1
  <2>3. QED BY <1>10, <2>1, <2>2 DEF ReadSoFar
<1>12. TypeOK' /\ ImageOK' /\ JobOK'
  BY <1>1, <1>10 DEF TypeOK, ImageOK, JobOK
<1>13. ReadOK'
  BY <1>1, <1>2, <1>8, <1>10, <1>11 DEF ReadOK
<1>14. ExtractOK' /\ AddOK' /\ WriteOK'
  BY <1>1 DEF ExtractOK, AddOK, WriteOK, Writing
<1>15. QED BY <1>12, <1>13, <1>14 DEF CompressInv

\* A block is loaded when the next character is in it.
LEMMA ReadLoadInv ==
  ASSUME CompressInv, ReadLoad
  PROVE  CompressInv'
<1> DEFINE k == req.loc \div CompBlock
<1>1. /\ TypeOK /\ ImageOK /\ JobOK /\ ExtractOK /\ ReadOK /\ AddOK /\ WriteOK
      /\ pc = "read" /\ req.left > 0 /\ ~InCache(req.loc) /\ pc' = pc
      /\ UNCHANGED <<attr, rsrc, pc, job, req, overran, deaths, before, want>>
      /\ handle' = [handle EXCEPT !.cached = BlockAt(rsrc, handle.table, k + 1), !.start = CompBlock * k]
  BY DEF CompressInv, ReadLoad
<1>2. /\ AttrOK(attr) /\ ForkOK(rsrc) /\ handle \in Handle /\ job \in Job /\ req \in Request
      /\ Serving(handle, attr, rsrc) /\ job.kind \in {"extract", "add"}
  BY <1>1 DEF TypeOK, ReadOK, JobOK
<1>3. /\ req.loc \in Nat /\ req.left \in Nat
      /\ handle.start \in Nat /\ handle.cached \in Text /\ handle.size \in Nat
      /\ handle.table \in Seq(Unit) /\ handle.dirty \in BOOLEAN
      /\ job.pos \in Nat /\ job.left \in Nat /\ Len(handle.cached) \in Nat
  BY <1>2 DEF Request, Handle, Job, Text
<1>4. req.loc < handle.size
  <2>1. CASE job.kind = "extract"
    <3>1. req.loc + req.left = job.pos + Least(Buffer, job.left) /\ job.pos + job.left = handle.size
      BY <1>1, <2>1 DEF ReadOK, ExtractOK
    <3>2. Buffer \in Nat
      BY Sizes
    <3>3. QED BY <1>1, <1>3, <3>1, <3>2 DEF Least
  <2>2. CASE job.kind = "add"
    <3>1. req.loc + req.left = handle.size
      BY <1>1, <2>2 DEF ReadOK
    <3>2. QED BY <1>1, <1>3, <3>1
  <2>3. QED BY <1>2, <2>1, <2>2
<1>5. ~handle.dirty /\ handle.size = attr.size
  BY <1>2 DEF Serving, Open
<1>6. attr.type = "rsrc"
  <2> SUFFICES ASSUME attr.type # "rsrc" PROVE FALSE
    OBVIOUS
  <2>1. handle.start = 0 /\ handle.cached = Content(attr, rsrc) /\ Len(Content(attr, rsrc)) = attr.size
    BY <1>2, ContentFacts DEF Serving, Open
  <2>2. InCache(req.loc)
    BY <1>3, <1>4, <1>5, <2>1 DEF InCache, CachedEnd
  <2>3. QED BY <1>1, <2>2
<1>7. handle.table = TableIn(rsrc)
  BY <1>2, <1>6 DEF Serving, Open
<1>8. k \in Nat /\ CompBlock * k \in Nat /\ k < NumBlocks(attr.size)
  <2>1. k \in Nat /\ CompBlock * k <= req.loc /\ CompBlock * k \in Nat
    BY <1>3, BlockOfPlace, Multiples
  <2> HIDE DEF k
  <2>2. CompBlock * k < attr.size /\ attr.size \in Nat
    BY <1>3, <1>4, <1>5, <2>1
  <2>3. QED BY <2>1, <2>2, NumBlocksExact
<1> HIDE DEF k
<1>9. Block(rsrc, k + 1) \in Text
  <2>1. Block(rsrc, k + 1) \in Piece
    BY <1>2, BlockFits DEF Block
  <2>2. QED BY <2>1, Pieces
<1>10. handle' = [cached |-> Block(rsrc, k + 1), start |-> CompBlock * k, size |-> handle.size,
                  table |-> handle.table, dirty |-> handle.dirty]
  <2>1. handle = [cached |-> handle.cached, start |-> handle.start, size |-> handle.size,
                  table |-> handle.table, dirty |-> handle.dirty]
    BY <1>2 DEF Handle
  <2>2. QED BY <1>1, <1>7, <2>1 DEF Block
<1>11. /\ handle' \in Handle /\ ~handle'.dirty /\ handle'.size = handle.size
       /\ handle'.table = TableIn(rsrc)
       /\ handle'.start = CompBlock * k /\ handle'.cached = Block(rsrc, k + 1)
  BY <1>3, <1>5, <1>7, <1>8, <1>9, <1>10 DEF Handle
<1>12. Serving(handle', attr', rsrc')
  <2>1. Loaded(handle', attr, rsrc)
    BY <1>8, <1>11 DEF Loaded
  <2>2. QED BY <1>1, <1>5, <1>6, <1>11, <2>1 DEF Serving, Open
<1>13. TypeOK' /\ ImageOK' /\ JobOK'
  BY <1>1, <1>11 DEF TypeOK, ImageOK, JobOK
<1>14. ReadSoFar' = ReadSoFar
  BY <1>1 DEF ReadSoFar
<1>15. ReadOK'
  BY <1>1, <1>11, <1>12, <1>14 DEF ReadOK
<1>16. ExtractOK' /\ AddOK' /\ WriteOK'
  BY <1>1, <1>11, <1>12 DEF ExtractOK, AddOK, WriteOK, Writing
<1>17. QED BY <1>13, <1>15, <1>16 DEF CompressInv

\* The same text.
LEMMA SameText ==
  ASSUME NEW s \in Text, NEW t \in Text, Len(s) = Len(t), \A i \in 1 .. Len(s) : s[i] = t[i]
  PROVE  s = t
<1>1. s \in Seq(Chars \cup {"?"}) /\ t \in Seq(Chars \cup {"?"})
  BY DEF Text
<1>2. QED BY <1>1, SameSeq

\* compressedRead returns to the loop of writeToFile or to compressedWrite.
LEMMA ReadDoneInv ==
  ASSUME CompressInv, ReadDone
  PROVE  CompressInv'
<1>1. /\ TypeOK /\ ImageOK /\ JobOK /\ ExtractOK /\ ReadOK /\ AddOK /\ WriteOK
      /\ pc = "read" /\ req.left = 0 /\ req' = NoReq
      /\ UNCHANGED <<attr, rsrc, overran, deaths, before, want>>
  BY DEF CompressInv, ReadDone
<1>2. /\ AttrOK(attr) /\ ForkOK(rsrc) /\ handle \in Handle /\ job \in Job /\ req \in Request
      /\ Serving(handle, attr, rsrc) /\ HasRead(ReadSoFar, req.loc, attr, rsrc)
      /\ job.kind \in {"extract", "add"} /\ job.left > 0
      /\ Content(attr, rsrc) = before /\ before \in Text
  BY <1>1 DEF TypeOK, ReadOK, JobOK, ImageOK, Reading
<1>3. /\ req.loc \in Nat /\ req.buf \in Text /\ Len(req.buf) \in Nat
      /\ handle.start \in Nat /\ handle.cached \in Text /\ handle.size \in Nat
      /\ handle.table \in Seq(Unit) /\ handle.dirty \in BOOLEAN
      /\ job.pos \in Nat /\ job.left \in Nat /\ job.input \in Text /\ Len(job.input) \in Nat
  BY <1>2 DEF Request, Handle, Job, Text
<1>4. CASE job.kind = "extract"
  <2>1. /\ job' = [job EXCEPT !.input = @ \o req.buf, !.pos = req.loc, !.left = @ - Len(req.buf)]
        /\ pc' = "loop" /\ handle' = handle
    <3>1. req.for = "extract"
      BY <1>1, <1>4 DEF ReadOK
    <3>2. QED BY <3>1 DEF ReadDone
  <2>2. job' = [kind |-> job.kind, sound |-> job.sound, form |-> job.form, input |-> job.input \o req.buf,
                pos |-> req.loc, left |-> job.left - Len(req.buf)]
    <3>1. job = [kind |-> job.kind, sound |-> job.sound, form |-> job.form, input |-> job.input,
                 pos |-> job.pos, left |-> job.left]
      BY <1>2 DEF Job
    <3>2. QED BY <2>1, <3>1
  <2>3. /\ job.input \o req.buf \in Text /\ Len(job.input \o req.buf) = Len(job.input) + Len(req.buf)
    BY <1>3 DEF Text
  <2>4. /\ HasRead(job.input \o req.buf, req.loc, attr, rsrc) /\ Len(job.input \o req.buf) = req.loc
    BY <1>2, <1>4 DEF ReadSoFar, HasRead
  <2>5. Len(job.input) = job.pos /\ job.pos + job.left = handle.size
    BY <1>1, <1>4 DEF ExtractOK, HasRead
  <2>6. req.loc + req.left = job.pos + Least(Buffer, job.left)
    BY <1>1, <1>4 DEF ReadOK
  <2>7. Buffer \in Nat
    BY Sizes
  <2>8. Len(req.buf) = Least(Buffer, job.left) /\ Len(req.buf) <= job.left
    <3>1. job.pos + Len(req.buf) = req.loc /\ req.loc + 0 = job.pos + Least(Buffer, job.left)
      BY <1>1, <2>3, <2>4, <2>5, <2>6
    <3>2. Least(Buffer, job.left) \in Nat /\ Least(Buffer, job.left) <= job.left
      BY <1>3, <2>7 DEF Least
    <3>3. \A p, b, m, n \in Nat : p + b = n /\ n + 0 = p + m => b = m
      OBVIOUS
    <3>4. QED BY <1>3, <3>1, <3>2, <3>3
  <2>9. job.left - Len(req.buf) \in Nat /\ req.loc + (job.left - Len(req.buf)) = handle.size
    <3>1. job.pos + Len(req.buf) = req.loc
      BY <2>3, <2>4, <2>5
    <3>2. \A p, b, m, n \in Nat : b <= m /\ p + b = n => m - b \in Nat /\ n + (m - b) = p + m
      OBVIOUS
    <3>3. job.left - Len(req.buf) \in Nat /\ req.loc + (job.left - Len(req.buf)) = job.pos + job.left
      BY <1>3, <2>8, <3>1, <3>2
    <3>4. QED BY <2>5, <3>3
  <2>10. /\ job' \in Job /\ job'.kind = "extract" /\ job'.form = job.form
         /\ job'.input = job.input \o req.buf /\ job'.pos = req.loc /\ job'.left = job.left - Len(req.buf)
    <3>1. job.kind \in {"none", "extract", "add"} /\ job.sound \in BOOLEAN /\ job.form \in {"none", "inline", "rsrc"}
      BY <1>2 DEF Job
    <3>2. QED BY <1>3, <1>4, <2>2, <2>3, <2>9, <3>1 DEF Job
  <2>11. TypeOK'
    BY <1>1, <2>1, <2>10, Empties DEF TypeOK, Reading
  <2>12. ImageOK' /\ JobOK'
    BY <1>1, <1>4, <2>1, <2>10 DEF ImageOK, JobOK, Reading, Writing
  <2>13. ExtractOK'
    BY <1>1, <1>2, <2>1, <2>4, <2>9, <2>10 DEF ExtractOK
  <2>14. ReadOK' /\ AddOK' /\ WriteOK'
    BY <2>1, <2>10 DEF ReadOK, AddOK, WriteOK, Writing
  <2>15. QED BY <2>11, <2>12, <2>13, <2>14 DEF CompressInv
<1>5. CASE job.kind = "add"
  <2>1. /\ req.for = "cache" /\ req.loc + req.left = handle.size /\ job.pos = 0
    BY <1>1, <1>5 DEF ReadOK
  <2>2. handle' = [handle EXCEPT !.cached = req.buf, !.start = 0] /\ pc' = "write" /\ job' = job
    BY <2>1 DEF ReadDone
  <2>3. handle' = [cached |-> req.buf, start |-> 0, size |-> handle.size, table |-> handle.table,
                   dirty |-> handle.dirty]
    <3>1. handle = [cached |-> handle.cached, start |-> handle.start, size |-> handle.size,
                    table |-> handle.table, dirty |-> handle.dirty]
      BY <1>2 DEF Handle
    <3>2. QED BY <2>2, <3>1
  <2>4. handle' \in Handle /\ handle'.cached = req.buf /\ handle'.start = 0 /\ handle'.size = handle.size
        /\ handle'.dirty = handle.dirty
    BY <1>3, <2>3 DEF Handle
  <2>5. ~handle.dirty /\ handle.size = attr.size
    BY <1>2 DEF Serving, Open
  <2>6. HasRead(req.buf, req.loc, attr, rsrc)
    BY <1>2, <1>5 DEF ReadSoFar
  <2>7. req.loc = handle.size
    BY <1>1, <1>3, <2>1
  <2>8. Len(req.buf) = req.loc /\ req.loc <= Len(before) /\ \A i \in 1 .. req.loc : req.buf[i] = before[i]
    BY <1>2, <2>6 DEF HasRead
  <2>9. Len(before) <= attr.size /\ Len(before) \in Nat
    BY <1>2, ContentFacts
  <2>10. Len(before) = Len(req.buf) /\ Len(before) = handle.size
    BY <1>3, <2>5, <2>7, <2>8, <2>9
  <2>11. req.buf = before
    BY <1>2, <1>3, <2>8, <2>10, SameText
  <2>12. Whole(handle', before)
    BY <2>4, <2>10, <2>11 DEF Whole
  <2>13. TypeOK'
    BY <1>1, <2>2, <2>4, Empties DEF TypeOK, Reading
  <2>14. ImageOK' /\ JobOK'
    BY <1>1, <1>5, <2>2 DEF ImageOK, JobOK, Reading, Writing
  <2>15. AddOK'
    BY <1>1, <2>1, <2>2, <2>4, <2>5, <2>12 DEF AddOK
  <2>16. ExtractOK' /\ ReadOK' /\ WriteOK'
    BY <1>5, <2>2 DEF ExtractOK, ReadOK, WriteOK, Writing
  <2>17. QED BY <2>13, <2>14, <2>15, <2>16 DEF CompressInv
<1>6. QED BY <1>2, <1>4, <1>5

-----------------------------------------------------------------------------
(* Steps that write to the cache                                           *)

\* The cache of a file that is to be written has the whole file, or nothing was
\* written yet and it is read.
LEMMA CacheWholeFileInv ==
  ASSUME CompressInv, CacheWholeFile
  PROVE  CompressInv'
<1>1. /\ TypeOK /\ ImageOK /\ JobOK /\ ExtractOK /\ ReadOK /\ AddOK /\ WriteOK
      /\ pc = "write" /\ ~WholeFileCached /\ pc' = "read"
      /\ req' = [loc |-> 0, left |-> handle.size, buf |-> <<>>, for |-> "cache"]
      /\ UNCHANGED <<attr, rsrc, handle, job, overran, deaths, before, want>>
  BY DEF CompressInv, CacheWholeFile
<1>2. /\ AttrOK(attr) /\ ForkOK(rsrc) /\ handle \in Handle /\ job.kind = "add" /\ before \in Text
      /\ job.input \in Text /\ job.pos \in Nat
  BY <1>1 DEF TypeOK, JobOK, Job
<1>3. handle.size \in Nat
  BY <1>2 DEF Handle
<1>4. \A s \in Text : ~Whole(handle, s)
  <2> SUFFICES ASSUME NEW s \in Text, Whole(handle, s) PROVE FALSE
    OBVIOUS
  <2>1. handle.start = 0 /\ handle.cached = s /\ handle.size = Len(s) /\ Len(s) \in Nat
    BY DEF Whole, Text
  <2>2. WholeFileCached
    BY <2>1 DEF WholeFileCached, CachedEnd
  <2>3. QED BY <1>1, <2>2
<1>5. ~handle.dirty /\ job.pos = 0 /\ Fresh(handle, attr, rsrc)
  <2>1. job.pos > 0 /\ Whole(handle, Overlay(before, SubSeq(job.input, 1, job.pos))) => FALSE
    <3> SUFFICES ASSUME job.pos > 0, Whole(handle, Overlay(before, SubSeq(job.input, 1, job.pos)))
                 PROVE  FALSE
      OBVIOUS
    <3>1. handle.cached = Overlay(before, SubSeq(job.input, 1, job.pos)) /\ handle.cached \in Text
      BY <1>2 DEF Whole, Handle
    <3>2. QED BY <1>4, <3>1
  <2>2. ~Whole(handle, before)
    BY <1>2, <1>4
  <2>3. QED BY <1>1, <1>2, <2>1, <2>2 DEF AddOK
<1>6. req' \in Request
  BY <1>1, <1>3, Empties DEF Request
<1>7. TypeOK' /\ ImageOK' /\ JobOK'
  BY <1>1, <1>2, <1>6 DEF TypeOK, ImageOK, JobOK, Reading, Writing
<1>8. ReadOK'
  <2>1. Serving(handle, attr, rsrc)
    BY <1>5 DEF Fresh, Serving
  <2>2. HasRead(<<>>, 0, attr, rsrc)
    BY <1>2, NothingRead
  <2>3. ReadSoFar' = <<>> /\ req'.loc = 0 /\ req'.left = handle.size /\ req'.for = "cache"
    BY <1>1, <1>2 DEF ReadSoFar
  <2>4. 0 + handle.size = handle.size
    BY <1>3
  <2>5. QED BY <1>1, <1>2, <1>5, <2>1, <2>2, <2>3, <2>4 DEF ReadOK
<1>9. ExtractOK' /\ AddOK' /\ WriteOK'
  BY <1>1, <1>2 DEF ExtractOK, AddOK, WriteOK, Writing
<1>10. QED BY <1>7, <1>8, <1>9 DEF CompressInv

\* The first n characters of an input.
LEMMA FrontOf ==
  ASSUME NEW s \in Text, NEW n \in Nat, n <= Len(s)
  PROVE  /\ SubSeq(s, 1, n) \in Text /\ Len(SubSeq(s, 1, n)) = n
         /\ \A i \in 1 .. n : SubSeq(s, 1, n)[i] = s[i]
         /\ n = Len(s) => SubSeq(s, 1, n) = s
<1>1. /\ SubSeq(s, 1, n) \in Text /\ Len(SubSeq(s, 1, n)) = n
      /\ \A i \in 1 .. n : SubSeq(s, 1, n)[i] = s[i]
  BY DEF Text
<1>2. ASSUME n = Len(s) PROVE SubSeq(s, 1, n) = s
  <2> DEFINE t == SubSeq(s, 1, n)
  <2>1. t \in Text /\ Len(t) = Len(s) /\ \A i \in 1 .. Len(t) : t[i] = s[i]
    BY <1>1, <1>2
  <2> HIDE DEF t
  <2>2. t = s
    BY <2>1, SameText
  <2>3. QED BY <2>2 DEF t
<1>3. QED BY <1>1, <1>2

\* Writing nothing leaves a file as it is.
LEMMA OverlayNothing ==
  ASSUME NEW s \in Text
  PROVE  Overlay(s, <<>>) = s
<1>1. <<>> \in Text /\ Len(<<>>) = 0 /\ Len(s) \in Nat
  BY DEF Text
<1>2. /\ Overlay(s, <<>>) \in Text
      /\ Len(Overlay(s, <<>>)) = Len(s)
      /\ \A i \in 1 .. Len(s) : Overlay(s, <<>>)[i] = s[i]
  BY <1>1, OverlayOf
<1>3. QED BY <1>2, SameText

\* A cache that has the whole file has what was written so far over the old file.
LEMMA CachedIsOverlay ==
  ASSUME CompressInv, pc \in {"loop", "write", "close"}, job.kind = "add", WholeFileCached
  PROVE  Whole(handle, Overlay(before, SubSeq(job.input, 1, job.pos)))
<1>1. TypeOK /\ ImageOK /\ AddOK
  BY DEF CompressInv
<1>2. /\ AttrOK(attr) /\ ForkOK(rsrc) /\ handle \in Handle /\ before \in Text /\ job.input \in Text
      /\ before = Content(attr, rsrc)
  BY <1>1 DEF TypeOK, ImageOK, Job, Reading
<1>3. CASE handle.dirty
  BY <1>1, <1>3 DEF AddOK
<1>4. CASE ~handle.dirty
  <2>1. job.pos = 0 /\ (Fresh(handle, attr, rsrc) \/ Whole(handle, before))
    BY <1>1, <1>4 DEF AddOK
  <2>2. Len(job.input) \in Nat
    BY <1>2 DEF Text
  <2>3. SubSeq(job.input, 1, 0) = <<>>
    BY <1>2 DEF Text
  <2>4. Overlay(before, SubSeq(job.input, 1, job.pos)) = before
    BY <1>2, <2>1, <2>3, OverlayNothing
  <2>5. Len(before) \in Nat /\ attr.size \in Nat /\ Len(before) <= attr.size
        /\ (attr.type # "rsrc" => Len(before) = attr.size)
    BY <1>2, ContentFacts
  <2>6. Fresh(handle, attr, rsrc) => Whole(handle, before)
    <3> SUFFICES ASSUME Fresh(handle, attr, rsrc) PROVE Whole(handle, before)
      OBVIOUS
    <3>1. CASE attr.type # "rsrc"
      BY <1>2, <2>5, <3>1 DEF Fresh, Open, Whole
    <3>2. CASE attr.type = "rsrc"
      <4>1. handle.start = 0 /\ handle.cached = <<>> /\ handle.size = attr.size
        BY <3>2 DEF Fresh, Open
      <4>2. Len(<<>>) = 0
        OBVIOUS
      <4>3. handle.size = 0
        BY <4>1, <4>2 DEF WholeFileCached, CachedEnd
      <4>4. Len(before) = 0
        BY <2>5, <4>1, <4>3
      <4>5. before = <<>>
        BY <1>2, <4>4 DEF Text
      <4>6. QED BY <4>1, <4>3, <4>4, <4>5 DEF Whole
    <3>3. QED BY <3>1, <3>2
  <2>7. QED BY <2>1, <2>4, <2>6
<1>5. QED BY <1>3, <1>4

\* A piece of the input goes over the cache, which has the whole file.
LEMMA WritePieceInv ==
  ASSUME CompressInv, WritePiece
  PROVE  CompressInv'
<1> DEFINE n == Least(Buffer, job.left)
           end == job.pos + n
           size == IF end > handle.size THEN end ELSE handle.size
           cached == [i \in 1 .. size |->
                         IF i > job.pos /\ i <= end THEN job.input[i] ELSE handle.cached[i]]
           old == Overlay(before, SubSeq(job.input, 1, job.pos))
           new == Overlay(before, SubSeq(job.input, 1, end))
           S == Chars \cup {"?"}
<1>1. /\ TypeOK /\ ImageOK /\ JobOK /\ ExtractOK /\ ReadOK /\ AddOK /\ WriteOK
      /\ pc = "write" /\ WholeFileCached /\ pc' = "loop"
      /\ handle' = [handle EXCEPT !.size = size, !.dirty = TRUE, !.cached = cached]
      /\ job' = [job EXCEPT !.pos = end, !.left = @ - n]
      /\ UNCHANGED <<attr, rsrc, req, overran, deaths, before, want>>
  BY DEF CompressInv, WritePiece
<1>2. /\ handle \in Handle /\ job \in Job /\ before \in Text
      /\ job.kind = "add" /\ job.left > 0 /\ job.pos + job.left = Len(job.input)
  BY <1>1 DEF TypeOK, JobOK
<1>3. /\ job.input \in Text /\ job.pos \in Nat /\ job.left \in Nat /\ Len(job.input) \in Nat
      /\ Len(before) \in Nat
      /\ job.sound \in BOOLEAN /\ job.form \in {"none", "inline", "rsrc"}
      /\ handle.start \in Nat /\ handle.size \in Nat /\ handle.table \in Seq(Unit)
  BY <1>2 DEF Handle, Job, Text
<1>4. n \in Nat /\ n > 0 /\ n <= job.left
  BY <1>2, <1>3, Sizes DEF Least
<1> HIDE DEF n
<1>5. /\ end \in Nat /\ end > 0 /\ job.pos < end /\ end <= Len(job.input) /\ job.left - n \in Nat
      /\ end + (job.left - n) = Len(job.input) /\ job.pos <= Len(job.input)
  BY <1>2, <1>3, <1>4
<1> HIDE DEF end
<1>6. Whole(handle, old)
  BY <1>1, <1>2, CachedIsOverlay
<1>7. handle.start = 0 /\ handle.cached = old /\ handle.size = Len(old)
  BY <1>6 DEF Whole
<1>8. /\ SubSeq(job.input, 1, job.pos) \in Text /\ Len(SubSeq(job.input, 1, job.pos)) = job.pos
      /\ \A i \in 1 .. job.pos : SubSeq(job.input, 1, job.pos)[i] = job.input[i]
  BY <1>3, <1>5, FrontOf
<1>9. /\ SubSeq(job.input, 1, end) \in Text /\ Len(SubSeq(job.input, 1, end)) = end
      /\ \A i \in 1 .. end : SubSeq(job.input, 1, end)[i] = job.input[i]
  BY <1>3, <1>5, FrontOf
<1>10. /\ old \in Text /\ Len(old) = IF Len(before) < job.pos THEN job.pos ELSE Len(before)
       /\ \A i \in 1 .. job.pos : old[i] = job.input[i]
       /\ \A i \in 1 .. Len(before) : i > job.pos => old[i] = before[i]
  <2> DEFINE part == SubSeq(job.input, 1, job.pos)
  <2>1. part \in Text /\ Len(part) = job.pos /\ \A i \in 1 .. job.pos : part[i] = job.input[i]
    BY <1>8
  <2>2. old = Overlay(before, part)
    OBVIOUS
  <2> HIDE DEF part, old
  <2>3. /\ Overlay(before, part) \in Text
        /\ Len(Overlay(before, part)) = IF Len(before) < Len(part) THEN Len(part) ELSE Len(before)
        /\ \A i \in 1 .. Len(part) : Overlay(before, part)[i] = part[i]
        /\ \A i \in 1 .. Len(before) : i > Len(part) => Overlay(before, part)[i] = before[i]
    BY <1>2, <2>1, OverlayOf
  <2>4. QED BY <2>1, <2>2, <2>3
<1>11. /\ new \in Text /\ Len(new) = IF Len(before) < end THEN end ELSE Len(before)
       /\ \A i \in 1 .. end : new[i] = job.input[i]
       /\ \A i \in 1 .. Len(before) : i > end => new[i] = before[i]
  <2> DEFINE part == SubSeq(job.input, 1, end)
  <2>1. part \in Text /\ Len(part) = end /\ \A i \in 1 .. end : part[i] = job.input[i]
    BY <1>9
  <2>2. new = Overlay(before, part)
    OBVIOUS
  <2> HIDE DEF part, new
  <2>3. /\ Overlay(before, part) \in Text
        /\ Len(Overlay(before, part)) = IF Len(before) < Len(part) THEN Len(part) ELSE Len(before)
        /\ \A i \in 1 .. Len(part) : Overlay(before, part)[i] = part[i]
        /\ \A i \in 1 .. Len(before) : i > Len(part) => Overlay(before, part)[i] = before[i]
    BY <1>2, <2>1, OverlayOf
  <2>4. QED BY <2>1, <2>2, <2>3
<1> HIDE DEF old, new
<1>12. size = Len(new) /\ size \in Nat
  BY <1>3, <1>5, <1>7, <1>10, <1>11
<1>13. \A i \in 1 .. size : (IF i > job.pos /\ i <= end THEN job.input[i] ELSE handle.cached[i]) = new[i]
  <2> SUFFICES ASSUME NEW i \in 1 .. size
               PROVE  (IF i > job.pos /\ i <= end THEN job.input[i] ELSE old[i]) = new[i]
    BY <1>7
  <2>1. i \in Nat /\ i >= 1
    BY <1>12
  <2>2. CASE i > job.pos /\ i <= end
    <3>1. i \in 1 .. end
      BY <1>5, <2>1, <2>2
    <3>2. QED BY <1>11, <2>2, <3>1
  <2>3. CASE i <= job.pos
    <3>1. i \in 1 .. job.pos /\ i \in 1 .. end /\ ~(i > job.pos)
      BY <1>3, <1>5, <2>1, <2>3
    <3>2. QED BY <1>10, <1>11, <3>1
  <2>4. CASE i > end
    <3>1. i \in 1 .. Len(before) /\ i > job.pos /\ ~(i <= end)
      BY <1>3, <1>5, <1>11, <1>12, <2>1, <2>4
    <3>2. QED BY <1>10, <1>11, <2>4, <3>1
  <2>5. QED BY <1>3, <1>5, <2>1, <2>2, <2>3, <2>4
<1>14. cached = new
  <2>1. new = [i \in 1 .. size |-> new[i]]
    BY <1>11, <1>12 DEF Text
  <2> HIDE DEF size
  <2>2. QED BY <1>13, <2>1
<1> HIDE DEF size, cached
<1>15. handle' = [cached |-> new, start |-> 0, size |-> Len(new), table |-> handle.table, dirty |-> TRUE]
  <2>1. handle = [cached |-> handle.cached, start |-> handle.start, size |-> handle.size,
                  table |-> handle.table, dirty |-> handle.dirty]
    BY <1>2 DEF Handle
  <2>2. QED BY <1>1, <1>7, <1>12, <1>14, <2>1
<1>16. job' = [kind |-> "add", sound |-> job.sound, form |-> job.form, input |-> job.input,
               pos |-> end, left |-> job.left - n]
  <2>1. job = [kind |-> job.kind, sound |-> job.sound, form |-> job.form, input |-> job.input,
               pos |-> job.pos, left |-> job.left]
    BY <1>2 DEF Job
  <2>2. job' = [kind |-> job.kind, sound |-> job.sound, form |-> job.form, input |-> job.input,
                pos |-> end, left |-> job.left - n]
    BY <1>1, <2>1
  <2>3. QED BY <1>2, <2>2
<1>17. handle' \in Handle /\ handle'.dirty /\ Whole(handle', new)
  <2>1. Len(new) \in Nat
    BY <1>11 DEF Text
  <2>2. handle' \in Handle
    BY <1>3, <1>11, <1>15, <2>1 DEF Handle
  <2>3. QED BY <1>15, <2>2 DEF Whole
<1>18. /\ job' \in Job /\ job'.kind = "add" /\ job'.form = job.form /\ job'.input = job.input
       /\ job'.pos = end /\ job'.left = job.left - n
  BY <1>3, <1>5, <1>16 DEF Job
<1>19. TypeOK' /\ ImageOK' /\ JobOK'
  <2>1. TypeOK'
    BY <1>1, <1>17, <1>18 DEF TypeOK, Reading
  <2>2. ImageOK'
    BY <1>1, <1>18 DEF ImageOK, Reading, Writing
  <2>3. JobOK'
    BY <1>1, <1>2, <1>5, <1>18 DEF JobOK
  <2>4. QED BY <2>1, <2>2, <2>3
<1>20. AddOK'
  BY <1>1, <1>5, <1>17, <1>18 DEF AddOK, new
<1>21. ExtractOK' /\ ReadOK' /\ WriteOK'
  BY <1>1, <1>18 DEF ExtractOK, ReadOK, WriteOK, Writing
<1>22. QED BY <1>19, <1>20, <1>21 DEF CompressInv

-----------------------------------------------------------------------------
(* Steps that write to the image                                           *)

\* A file that was not written to is closed.
LEMMA CloseCleanInv ==
  ASSUME CompressInv, CloseClean
  PROVE  CompressInv'
<1>1. /\ TypeOK /\ ImageOK /\ JobOK /\ AddOK
      /\ pc = "close" /\ ~handle.dirty /\ pc' = "idle" /\ handle' = NoHandle /\ job' = NoJob
      /\ UNCHANGED <<attr, rsrc, req, overran, deaths, before, want>>
  BY DEF CompressInv, CloseClean
<1>2. /\ AttrOK(attr) /\ ForkOK(rsrc) /\ before \in Text /\ job.input \in Text /\ req = NoReq
      /\ Content(attr, rsrc) = before /\ job.kind \in {"extract", "add"} /\ job.left = 0
      /\ overran \in BOOLEAN
  BY <1>1 DEF TypeOK, ImageOK, JobOK, Job, Reading
<1>3. want = before
  <2>1. CASE job.kind = "extract"
    BY <1>1, <2>1 DEF JobOK
  <2>2. CASE job.kind = "add"
    <3>1. job.pos = 0 /\ job.pos + job.left = Len(job.input) /\ want = Overlay(before, job.input)
      BY <1>1, <2>2 DEF AddOK, JobOK
    <3>2. job.input = <<>>
      BY <1>2, <3>1 DEF Text
    <3>3. QED BY <1>2, <3>1, <3>2, OverlayNothing
  <2>3. QED BY <1>2, <2>1, <2>2
<1>4. QED BY <1>1, <1>2, <1>3, AtRestNext

\* A file that was written to is compressed as it is to be.
LEMMA StartBlocksInv ==
  ASSUME CompressInv, StartBlocks
  PROVE  CompressInv'
<1>1. /\ TypeOK /\ ImageOK /\ JobOK /\ ExtractOK /\ AddOK
      /\ pc = "close" /\ handle.dirty /\ pc' = "blocks"
      /\ handle' = [handle EXCEPT !.table = <<>>]
      /\ UNCHANGED <<attr, rsrc, job, req, overran, deaths, before, want>>
  BY DEF CompressInv, StartBlocks, AttributeMeanwhile
<1>2. /\ handle \in Handle /\ before \in Text /\ job.input \in Text /\ job.pos \in Nat /\ want \in Text
      /\ job.kind \in {"extract", "add"} /\ job.left = 0
  BY <1>1 DEF TypeOK, JobOK, Job
<1>3. job.kind = "add"
  <2>1. job.kind = "extract" => ~handle.dirty
    BY <1>1 DEF ExtractOK, Serving, Open
  <2>2. QED BY <1>1, <1>2, <2>1
<1>4. /\ job.pos > 0 /\ Whole(handle, Overlay(before, SubSeq(job.input, 1, job.pos)))
      /\ want = Overlay(before, job.input) /\ job.pos + job.left = Len(job.input)
  BY <1>1, <1>3 DEF AddOK, JobOK
<1>5. job.pos = Len(job.input)
  BY <1>2, <1>4
<1>6. SubSeq(job.input, 1, job.pos) = job.input
  <2>1. job.pos <= Len(job.input)
    BY <1>2, <1>5
  <2>2. QED BY <1>2, <1>5, <2>1, FrontOf
<1>7. Whole(handle, want)
  BY <1>4, <1>6
<1>8. Len(want) > 0 /\ Len(want) \in Nat
  <2>1. Len(want) = IF Len(before) < Len(job.input) THEN Len(job.input) ELSE Len(before)
    BY <1>2, <1>4, OverlayOf
  <2>2. Len(before) \in Nat /\ Len(job.input) \in Nat
    BY <1>2 DEF Text
  <2>3. QED BY <1>4, <1>5, <2>1, <2>2
<1>9. want # <<>>
  <2>1. Len(<<>>) = 0
    OBVIOUS
  <2>2. QED BY <1>8, <2>1
<1>10. handle' = [cached |-> handle.cached, start |-> handle.start, size |-> handle.size,
                  table |-> <<>>, dirty |-> handle.dirty]
  <2>1. handle = [cached |-> handle.cached, start |-> handle.start, size |-> handle.size,
                  table |-> handle.table, dirty |-> handle.dirty]
    BY <1>2 DEF Handle
  <2>2. QED BY <1>1, <2>1
<1>11. /\ handle' \in Handle /\ handle'.table = <<>> /\ Whole(handle', want)
       /\ handle'.size = Len(want)
  <2>1. handle.cached \in Text /\ handle.start \in Nat /\ handle.size \in Nat /\ handle.dirty \in BOOLEAN
    BY <1>2 DEF Handle
  <2>2. <<>> \in Seq(Unit)
    OBVIOUS
  <2>3. handle' \in Handle
    BY <1>10, <2>1, <2>2 DEF Handle
  <2>4. QED BY <1>7, <1>10, <2>3 DEF Whole
<1>12. 0 < NumBlocks(Len(want))
  <2>1. CompBlock * 0 < Len(want)
    BY <1>8, Multiples
  <2>2. QED BY <1>8, <2>1, NumBlocksExact
<1>13. <<>> \in Seq(Entry) /\ Len(<<>>) = 0 /\ 1 .. 0 = {}
  OBVIOUS
<1>14. WriteOK'
  BY <1>1, <1>3, <1>9, <1>11, <1>12, <1>13 DEF WriteOK
<1>15. TypeOK' /\ ImageOK' /\ JobOK'
  BY <1>1, <1>3, <1>11 DEF TypeOK, ImageOK, JobOK, Reading, Writing
<1>16. ExtractOK' /\ ReadOK' /\ AddOK'
  BY <1>1, <1>3 DEF ExtractOK, ReadOK, AddOK
<1>17. QED BY <1>14, <1>15, <1>16 DEF CompressInv

\* What is known while blocks, table and attribute are written.
LEMMA WritingFacts ==
  ASSUME CompressInv, pc \in Writing
  PROVE  /\ job.kind = "add" /\ req = NoReq /\ handle \in Handle /\ ForkOK(rsrc) /\ rsrc \in Seq(Unit)
         /\ handle.cached = want /\ want \in Text /\ handle.size = Len(want) /\ handle.start = 0
         /\ handle.size \in Nat /\ NumBlocks(handle.size) \in Nat /\ NumBlocks(handle.size) >= 1
         /\ handle.table \in Seq(Entry) /\ Len(handle.table) \in Nat
         /\ \A k \in 1 .. Len(handle.table) : handle.table[k] \in Entry
         /\ TableSize(NumBlocks(handle.size)) = 1 + NumBlocks(handle.size)
         /\ NextOffset(handle) \in Nat /\ TableSize(NumBlocks(handle.size)) <= NextOffset(handle)
<1>1. TypeOK /\ JobOK /\ WriteOK
  BY DEF CompressInv
<1>2. /\ job.kind = "add" /\ req = NoReq /\ handle \in Handle /\ ForkOK(rsrc) /\ want \in Text
      /\ Whole(handle, want) /\ want # <<>> /\ handle.table \in Seq(Entry)
      /\ \A k \in 1 .. Len(handle.table) : BlockWritten(handle, rsrc, k)
  BY <1>1 DEF TypeOK, JobOK, WriteOK, Writing
<1>3. rsrc \in Seq(Unit)
  BY <1>2 DEF ForkOK
<1>4. handle.cached = want /\ handle.size = Len(want) /\ handle.start = 0 /\ Len(want) \in Nat
  BY <1>2 DEF Whole, Text
<1>5. Len(want) > 0
  <2>1. Len(want) # 0
    BY <1>2 DEF Text
  <2>2. QED BY <1>4, <2>1
<1>6. NumBlocks(handle.size) \in Nat /\ NumBlocks(handle.size) >= 1
  <2>1. CompBlock * 0 < Len(want)
    BY <1>5, Multiples
  <2>2. NumBlocks(handle.size) \in Nat /\ 0 < NumBlocks(handle.size)
    BY <1>4, <2>1, NumBlocksExact
  <2>3. QED BY <2>2
<1>7. Len(handle.table) \in Nat /\ \A k \in 1 .. Len(handle.table) : handle.table[k] \in Entry
  BY <1>2
<1>8. TableSize(NumBlocks(handle.size)) = 1 + NumBlocks(handle.size)
  BY DEF TableSize
<1>9. NextOffset(handle) \in Nat /\ TableSize(NumBlocks(handle.size)) <= NextOffset(handle)
  <2>1. CASE handle.table = <<>>
    BY <1>6, <1>8, <2>1 DEF NextOffset
  <2>2. CASE handle.table # <<>>
    <3> DEFINE k == Len(handle.table)
    <3>1. k \in 1 .. Len(handle.table)
      BY <1>2, <2>2
    <3>2. handle.table[k] \in Entry /\ BlockWritten(handle, rsrc, k)
      BY <1>2, <1>7, <3>1
    <3>3. NextOffset(handle) = handle.table[k].offset + handle.table[k].size
      BY <2>2 DEF NextOffset
    <3> HIDE DEF k
    <3>4. handle.table[k].offset \in Nat /\ handle.table[k].size \in Nat
          /\ TableSize(NumBlocks(handle.size)) <= handle.table[k].offset
      BY <3>2 DEF Entry, BlockWritten
    <3>5. QED BY <1>6, <1>8, <3>3, <3>4
  <2>3. QED BY <2>1, <2>2
<1>10. QED BY <1>2, <1>3, <1>4, <1>6, <1>7, <1>8, <1>9

\* The parts of the invariant that no writing step disturbs.
LEMMA WritingStep ==
  ASSUME CompressInv, pc \in Writing \ {"set"}, pc' \in Writing \ {"set"},
         UNCHANGED <<attr, job, req, before, want>>, handle' \in Handle, ForkOK(rsrc'), WriteOK',
         overran' \in BOOLEAN
  PROVE  CompressInv'
<1>1. TypeOK /\ ImageOK /\ JobOK /\ job.kind = "add" /\ req = NoReq /\ AttrOK(attr)
  BY WritingFacts DEF CompressInv, TypeOK
<1>2. TypeOK'
  BY <1>1 DEF TypeOK
<1>3. attr.type = job.form
  BY <1>1 DEF ImageOK, Writing
<1>4. attr.type # "rsrc" => Content(attr, rsrc') = Content(attr, rsrc)
  <2>1. attr.type \in {"none", "inline", "rsrc"} /\ ForkOK(rsrc)
    BY <1>1, ContentFacts DEF TypeOK
  <2>2. ASSUME attr.type = "none" PROVE Content(attr, rsrc') = Content(attr, rsrc)
    BY <2>2 DEF Content
  <2>3. ASSUME attr.type = "inline" PROVE Content(attr, rsrc') = Content(attr, rsrc)
    BY <2>3 DEF Content
  <2>4. QED BY <2>1, <2>2, <2>3
<1>5. job.form # "rsrc" => Content(attr, rsrc) = before
  BY <1>1 DEF ImageOK
<1>6. pc' \notin {"idle", "set"} /\ pc' \notin Reading
  BY DEF Reading, Writing
<1>7. ImageOK'
  BY <1>3, <1>4, <1>5, <1>6 DEF ImageOK
<1>8. JobOK'
  BY <1>1, <1>6 DEF JobOK, Reading
<1>9. ExtractOK' /\ ReadOK' /\ AddOK'
  BY <1>1, <1>6 DEF ExtractOK, ReadOK, AddOK, Reading
<1>10. QED BY <1>2, <1>7, <1>8, <1>9 DEF CompressInv

\* A block that is written stays written when what changes is not between the place
\* of the table and the end of the blocks.
LEMMA BlockKept ==
  ASSUME NEW h, NEW h2, NEW fork \in Seq(Unit), NEW new \in Seq(Unit), NEW k,
         h.table[k] \in Entry, h2.table[k] = h.table[k],
         h2.size = h.size, h2.cached = h.cached,
         NumBlocks(h.size) \in Nat, NextOffset(h) \in Nat, NextOffset(h2) \in Nat,
         NextOffset(h) <= NextOffset(h2),
         Len(fork) <= Len(new),
         \A p \in 1 .. Len(fork) :
             NumBlocks(h.size) + 2 < p /\ p <= HeaderSize + NextOffset(h) => new[p] = fork[p],
         BlockWritten(h, fork, k)
  PROVE  BlockWritten(h2, new, k)
<1> DEFINE e == h.table[k]
<1>1. e.offset \in Nat /\ e.size \in Nat /\ Len(fork) \in Nat /\ Len(new) \in Nat
  BY DEF Entry
<1>2. /\ 1 + NumBlocks(h.size) <= e.offset /\ e.offset + e.size <= NextOffset(h)
      /\ 1 + e.offset + e.size <= Len(fork)
      /\ e.size = Len(Zipped(h, k))
      /\ \A i \in 1 .. e.size : fork[1 + e.offset + i] = Zipped(h, k)[i]
  BY DEF BlockWritten, TableSize, HeaderSize
<1>3. Zipped(h2, k) = Zipped(h, k)
  BY DEF Zipped
<1>4. h2.table[k] = e
  OBVIOUS
<1> HIDE DEF e
<1>5. ASSUME NEW i \in 1 .. e.size PROVE new[1 + e.offset + i] = Zipped(h, k)[i]
  <2> DEFINE p == 1 + e.offset + i
  <2>1. p \in 1 .. Len(fork) /\ NumBlocks(h.size) + 2 < p /\ p <= 1 + NextOffset(h)
    <3>1. \A o, z, l, b, x \in Nat : \A j \in 1 .. z :
             1 + b <= o /\ o + z <= x /\ 1 + o + z <= l =>
                1 + o + j \in 1 .. l /\ b + 2 < 1 + o + j /\ 1 + o + j <= 1 + x
      OBVIOUS
    <3>2. QED BY ONLY <1>1, <1>2, <3>1, i \in 1 .. e.size, NumBlocks(h.size) \in Nat, NextOffset(h) \in Nat
  <2> HIDE DEF p
  <2>2. new[p] = fork[p]
    BY <2>1 DEF HeaderSize
  <2>3. QED BY <1>2, <2>2 DEF p
<1>6. e.offset + e.size <= NextOffset(h2) /\ 1 + e.offset + e.size <= Len(new)
  BY <1>1, <1>2
<1>7. QED BY <1>2, <1>3, <1>4, <1>5, <1>6 DEF BlockWritten, TableSize, HeaderSize

\* Units behind the head of the table leave a fork that can be read as it is.
LEMMA WrittenBehind ==
  ASSUME NEW fork, ForkOK(fork), NEW at \in Nat, at >= 2,
         NEW units \in Seq(Unit), Len(units) > 0, \A i \in 1 .. Len(units) : units[i] \notin Entry
  PROVE  ForkOK(Written(fork, at, units))
<1> DEFINE new == Written(fork, at, units)
           zero == [type |-> "zero", blocks |-> 0]
<1>1. fork \in Seq(Unit) /\ Len(fork) \in Nat /\ Len(units) \in Nat
  BY DEF ForkOK
<1>2. /\ new \in Seq(Unit)
      /\ Len(new) >= Len(fork) /\ Len(new) >= at + Len(units)
      /\ \A i \in 1 .. Len(fork) : ~(at < i /\ i <= at + Len(units)) => new[i] = fork[i]
      /\ \A i \in 1 .. Len(new) : \/ \E j \in 1 .. Len(units) : i = at + j /\ new[i] = units[j]
                                  \/ i \in 1 .. Len(fork) /\ new[i] = fork[i]
                                  \/ i > Len(fork) /\ i <= at /\ new[i] = zero
  BY <1>1, WrittenFork
<1> HIDE DEF new
<1>3. zero \in TableHead /\ zero.blocks = 0 /\ zero \notin Entry
  BY DEF TableHead, Entry
<1> HIDE DEF zero
<1>4. Len(new) \in Nat /\ Len(new) >= 2
  BY <1>1, <1>2
<1>5. new[2] \in TableHead /\ new[2].blocks + 2 <= Len(new)
  <2>1. CASE fork = <<>>
    <3>1. Len(fork) = 0
      BY <2>1
    <3>2. 2 \in 1 .. Len(new) /\ ~(2 \in 1 .. Len(fork)) /\ \A j \in 1 .. Len(units) : 2 # at + j
      BY <1>1, <1>4, <3>1
    <3>3. new[2] = zero
      BY <1>2, <3>2
    <3>4. QED BY <1>3, <1>4, <3>3
  <2>2. CASE fork # <<>>
    <3>1. Len(fork) >= 2 /\ fork[2] \in TableHead /\ fork[2].blocks + 2 <= Len(fork)
      BY <2>2 DEF ForkOK
    <3>2. 2 \in 1 .. Len(fork) /\ ~(at < 2)
      BY <1>1, <3>1
    <3>3. new[2] = fork[2]
      BY <1>2, <3>2
    <3>4. fork[2].blocks \in Nat
      BY <3>1 DEF TableHead
    <3>5. QED BY <1>1, <1>2, <1>4, <3>1, <3>3, <3>4
  <2>3. QED BY <2>1, <2>2
<1>6. ASSUME NEW i \in 1 .. Len(new), new[i] \in Entry
      PROVE  HeaderSize + new[i].offset + new[i].size <= Len(new)
  <2>1. i \in 1 .. Len(fork) /\ new[i] = fork[i]
    BY <1>2, <1>3, <1>6
  <2>2. HeaderSize + fork[i].offset + fork[i].size <= Len(fork)
    BY <1>6, <2>1 DEF ForkOK
  <2>3. HeaderSize + fork[i].offset + fork[i].size \in Nat
    BY <1>6, <2>1 DEF Entry, HeaderSize
  <2>4. QED BY <1>1, <1>2, <1>4, <2>1, <2>2, <2>3
<1>7. QED BY <1>2, <1>4, <1>5, <1>6 DEF ForkOK, new

\* A block that fits the attribute is not written to the fork.
LEMMA KeepInlineInv ==
  ASSUME CompressInv, KeepInline
  PROVE  CompressInv'
<1>1. /\ WriteOK /\ pc = "blocks" /\ FitsInline(handle.cached) /\ pc' = "unset"
      /\ UNCHANGED <<attr, rsrc, handle, job, req, deaths, before, want>> /\ overran' \in BOOLEAN
  BY DEF CompressInv, KeepInline
<1>2. pc \in Writing \ {"set"} /\ pc' \in Writing \ {"set"} /\ handle' \in Handle /\ ForkOK(rsrc')
  BY <1>1, WritingFacts DEF Writing
<1>3. WriteOK'
  BY <1>1 DEF WriteOK, Writing
<1>4. QED BY <1>1, <1>2, <1>3, WritingStep

\* The next block of a file.
LEMMA NextBlock ==
  ASSUME CompressInv, pc = "blocks"
  PROVE  /\ Len(handle.table) < NumBlocks(handle.size)
         /\ BlockOf(handle.cached, Len(handle.table)) \in Piece
<1>1. Len(handle.table) < NumBlocks(handle.size)
  BY DEF CompressInv, WriteOK, Writing
<1>2. /\ handle.cached \in Text /\ handle.size = Len(handle.cached) /\ handle.size \in Nat
      /\ Len(handle.table) \in Nat
  BY WritingFacts DEF Writing
<1>3. CompBlock * Len(handle.table) < handle.size /\ CompBlock * Len(handle.table) \in Nat
  BY <1>1, <1>2, NumBlocksExact, Multiples
<1>4. CompBlock * Len(handle.table) <= Len(handle.cached)
  BY <1>2, <1>3
<1>5. QED BY <1>1, <1>2, <1>4, BlockOfText

\* A compressed block is written behind the ones in front of it.
LEMMA WriteBlockInv ==
  ASSUME CompressInv, WriteBlock
  PROVE  CompressInv'
<1> DEFINE n == NumBlocks(handle.size)
           k == Len(handle.table)
           s == BlockOf(handle.cached, k)
           units == Compressed(s)
           offset == NextOffset(handle)
           entry == [type |-> "entry", offset |-> offset, size |-> Len(units)]
           at == HeaderSize + offset
<1>1. /\ WriteOK /\ pc = "blocks" /\ ~FitsInline(handle.cached)
      /\ pc' = IF k + 1 = n THEN "head" ELSE "blocks"
      /\ UNCHANGED <<attr, job, req, overran, deaths, before, want>>
  BY DEF CompressInv, WriteBlock
<1>2. /\ handle \in Handle /\ ForkOK(rsrc) /\ rsrc \in Seq(Unit) /\ job.kind = "add"
      /\ handle.cached = want /\ handle.size = Len(want) /\ handle.size \in Nat
      /\ n \in Nat /\ n >= 1 /\ handle.table \in Seq(Entry) /\ k \in Nat
      /\ \A j \in 1 .. k : handle.table[j] \in Entry
      /\ TableSize(n) = 1 + n /\ offset \in Nat /\ TableSize(n) <= offset
      /\ Len(rsrc) \in Nat
  BY <1>1, WritingFacts DEF Writing
<1>3. k < n /\ s \in Piece /\ s \in Text
  BY <1>1, NextBlock, Pieces
<1>4. units \in Seq(Unit) /\ units \in Seq(ZipUnit) /\ Len(units) \in Nat /\ Len(units) > 0
  <2>1. units \in Seq(Unit) /\ units \in Seq(ZipUnit)
    BY <1>3, CompressedUnits
  <2>2. Len(units) = Runs(s) /\ Runs(s) \in Nat /\ Runs(s) >= 1
    BY <1>3, ReadsBack, SomeRuns
  <2>3. QED BY <2>1, <2>2
<1>5. /\ rsrc' = Written(rsrc, at, units)
      /\ handle' = [handle EXCEPT !.table = Append(@, entry)]
  <2>1. (IF k = 0 THEN FirstOffset(n) ELSE handle.table[k].offset + handle.table[k].size) = offset
    <3>1. k = 0 <=> handle.table = <<>>
      BY <1>2
    <3>2. QED BY <3>1 DEF NextOffset, FirstOffset
  <2>2. pc = "blocks" /\ rsrc' = Written(rsrc, HeaderSize + (IF k = 0 THEN FirstOffset(n)
                                 ELSE handle.table[k].offset + handle.table[k].size), units)
        /\ handle' = [handle EXCEPT !.table = Append(@, [type |-> "entry",
                          offset |-> IF k = 0 THEN FirstOffset(n)
                                     ELSE handle.table[k].offset + handle.table[k].size,
                          size |-> Len(units)])]
    BY DEF WriteBlock
  <2>3. QED BY <2>1, <2>2
<1>6. handle' = [cached |-> handle.cached, start |-> handle.start, size |-> handle.size,
                 table |-> Append(handle.table, entry), dirty |-> handle.dirty]
  <2>1. handle = [cached |-> handle.cached, start |-> handle.start, size |-> handle.size,
                  table |-> handle.table, dirty |-> handle.dirty]
    BY <1>2 DEF Handle
  <2> HIDE DEF entry
  <2>2. QED BY <1>5, <2>1
<1> HIDE DEF n, k, s, units, offset
<1>7. at \in Nat /\ at = 1 + offset /\ at >= 2 + n /\ at >= 2
  BY <1>2 DEF HeaderSize
<1>8. /\ rsrc' \in Seq(Unit) /\ Len(rsrc') \in Nat
      /\ Len(rsrc') >= Len(rsrc) /\ Len(rsrc') >= at + Len(units)
      /\ \A i \in 1 .. Len(units) : rsrc'[at + i] = units[i]
      /\ \A i \in 1 .. Len(rsrc) : ~(at < i /\ i <= at + Len(units)) => rsrc'[i] = rsrc[i]
  <2>1. rsrc \in Seq(Unit) /\ units \in Seq(Unit) /\ at \in Nat
    BY <1>2, <1>4, <1>7
  <2> HIDE DEF at
  <2>2. /\ Written(rsrc, at, units) \in Seq(Unit)
        /\ Len(Written(rsrc, at, units)) >= Len(rsrc) /\ Len(Written(rsrc, at, units)) >= at + Len(units)
        /\ \A i \in 1 .. Len(units) : Written(rsrc, at, units)[at + i] = units[i]
        /\ \A i \in 1 .. Len(rsrc) :
              ~(at < i /\ i <= at + Len(units)) => Written(rsrc, at, units)[i] = rsrc[i]
    BY ONLY <2>1, WrittenFork
  <2>3. Len(Written(rsrc, at, units)) \in Nat
    BY <2>2
  <2>4. QED BY <1>5, <2>2, <2>3
<1>9. ForkOK(rsrc')
  <2>1. \A i \in 1 .. Len(units) : units[i] \notin Entry
    <3>1. \A u \in ZipUnit : u.type = "zip"
      BY DEF ZipUnit
    <3>2. \A u \in Entry : u.type = "entry"
      BY DEF Entry
    <3>3. \A i \in 1 .. Len(units) : units[i] \in ZipUnit
      BY <1>4
    <3>4. QED BY <3>1, <3>2, <3>3
  <2> HIDE DEF at
  <2>2. QED BY <1>2, <1>4, <1>5, <1>7, <2>1, WrittenBehind
<1> HIDE DEF at
<1>10. entry \in Entry /\ entry.offset = offset /\ entry.size = Len(units)
  BY <1>2, <1>4 DEF Entry
<1> HIDE DEF entry
<1>11. /\ Append(handle.table, entry) \in Seq(Entry) /\ Len(Append(handle.table, entry)) = k + 1
       /\ \A j \in 1 .. k : Append(handle.table, entry)[j] = handle.table[j]
       /\ Append(handle.table, entry)[k + 1] = entry
  BY <1>2, <1>10 DEF k
<1>12. /\ handle'.cached = handle.cached /\ handle'.size = handle.size /\ handle'.start = handle.start
       /\ handle'.table \in Seq(Entry) /\ Len(handle'.table) = k + 1
       /\ \A j \in 1 .. k : handle'.table[j] = handle.table[j]
       /\ handle'.table[k + 1] = entry
       /\ handle' \in Handle
  <2>1. handle'.table = Append(handle.table, entry) /\ handle'.cached = handle.cached
        /\ handle'.size = handle.size /\ handle'.start = handle.start
    BY <1>6
  <2>2. handle' \in Handle
    <3>1. \A t \in Seq(Entry) : t \in Seq(Unit)
      BY DEF Unit
    <3>2. Append(handle.table, entry) \in Seq(Unit)
      BY <1>11, <3>1
    <3>3. /\ handle.cached \in Text /\ handle.start \in Nat /\ handle.size \in Nat
          /\ handle.dirty \in BOOLEAN
      BY <1>2 DEF Handle
    <3>4. QED BY <1>6, <3>2, <3>3 DEF Handle
  <2>3. QED BY <1>11, <2>1, <2>2
<1>13. NextOffset(handle') = offset + Len(units) /\ NextOffset(handle') \in Nat /\ offset <= NextOffset(handle')
  <2>1. handle'.table # <<>>
    <3>1. Len(<<>>) = 0 /\ k + 1 # 0
      BY <1>2
    <3>2. QED BY <1>12, <3>1
  <2>2. NextOffset(handle') = handle'.table[k + 1].offset + handle'.table[k + 1].size
    BY <1>12, <2>1 DEF NextOffset
  <2>3. NextOffset(handle') = offset + Len(units)
    BY <1>10, <1>12, <2>2
  <2>4. QED BY <1>2, <1>4, <2>3
<1>14. \A j \in 1 .. k + 1 : BlockWritten(handle', rsrc', j)
  <2>1. ASSUME NEW j \in 1 .. k PROVE BlockWritten(handle', rsrc', j)
    <3>1. BlockWritten(handle, rsrc, j)
      BY <1>1 DEF WriteOK, Writing, k
    <3>2. \A p \in 1 .. Len(rsrc) : p <= HeaderSize + NextOffset(handle) => rsrc'[p] = rsrc[p]
      BY <1>7, <1>8 DEF at, offset
    <3>3. handle.table[j] \in Entry /\ handle'.table[j] = handle.table[j]
      BY <1>2, <1>12
    <3>4. NumBlocks(handle.size) \in Nat /\ NextOffset(handle) \in Nat /\ NextOffset(handle) <= NextOffset(handle')
      BY <1>2, <1>13 DEF n, offset
    <3>5. QED BY <1>2, <1>8, <1>12, <1>13, <3>1, <3>2, <3>3, <3>4, BlockKept
  <2>2. BlockWritten(handle', rsrc', k + 1)
    <3>1. Zipped(handle', k + 1) = units
      <4>1. PICK j : j = k + 1
        OBVIOUS
      <4>2. j - 1 = k
        BY <1>2, <4>1
      <4>3. Zipped(handle', j) = Compressed(BlockOf(handle.cached, k))
        BY <1>12, <4>2 DEF Zipped
      <4>4. QED BY <4>1, <4>3 DEF units, s
    <3>2. NumBlocks(handle'.size) = n
      BY <1>12 DEF n
    <3>3. handle'.table[k + 1].offset = offset /\ handle'.table[k + 1].size = Len(units)
      BY <1>10, <1>12
    <3>4. \A i \in 1 .. Len(units) : rsrc'[HeaderSize + offset + i] = units[i]
      BY <1>8 DEF at
    <3>5. offset + Len(units) <= NextOffset(handle') /\ HeaderSize + offset + Len(units) <= Len(rsrc')
      BY <1>2, <1>4, <1>7, <1>8, <1>13 DEF HeaderSize
    <3>6. QED BY <1>2, <3>1, <3>2, <3>3, <3>4, <3>5 DEF BlockWritten
  <2>3. \A j \in 1 .. k + 1 : j \in 1 .. k \/ j = k + 1
    BY <1>2
  <2>4. QED BY <2>1, <2>2, <2>3
<1>15. WriteOK'
  <2>1. Whole(handle', want') /\ want' # <<>> /\ job'.kind = "add"
    BY <1>1, <1>2, <1>12 DEF WriteOK, Writing, Whole
  <2>2. /\ handle'.table \in Seq(Entry)
        /\ \A j \in 1 .. Len(handle'.table) : BlockWritten(handle', rsrc', j)
    BY <1>12, <1>14
  <2>3. ~FitsInline(handle'.cached)
    BY <1>1, <1>12
  <2>4. pc' = "blocks" => Len(handle'.table) < NumBlocks(handle'.size)
    BY <1>1, <1>2, <1>3, <1>12 DEF n
  <2>5. pc' # "blocks" => Len(handle'.table) = NumBlocks(handle'.size) /\ pc' = "head"
    BY <1>1, <1>12 DEF n
  <2>6. QED BY <1>1, <2>1, <2>2, <2>3, <2>4, <2>5 DEF WriteOK
<1>16. pc \in Writing \ {"set"} /\ pc' \in Writing \ {"set"}
  BY <1>1 DEF Writing
<1>17. overran' \in BOOLEAN
  BY DEF CompressInv, TypeOK, WriteBlock
<1>18. QED BY <1>1, <1>9, <1>12, <1>15, <1>16, <1>17, WritingStep

\* All blocks are written and lie behind the place of the table.
LEMMA AllWritten ==
  ASSUME CompressInv, pc \in {"head", "table", "end"}
  PROVE  LET n == NumBlocks(handle.size)
         IN  /\ n \in Nat /\ n >= 1 /\ Len(handle.table) = n /\ ~FitsInline(handle.cached)
             /\ \A k \in 1 .. n : handle.table[k] \in Entry /\ BlockWritten(handle, rsrc, k)
             /\ \A k \in 1 .. n : HeaderSize + handle.table[k].offset + handle.table[k].size <= Len(rsrc)
             /\ Len(rsrc) \in Nat /\ Len(rsrc) >= 2 + n /\ rsrc # <<>>
             /\ NextOffset(handle) = handle.table[n].offset + handle.table[n].size
<1> DEFINE n == NumBlocks(handle.size)
<1>1. pc \in Writing /\ pc # "blocks" /\ WriteOK
  BY DEF Writing, CompressInv
<1>2. /\ n \in Nat /\ n >= 1 /\ rsrc \in Seq(Unit) /\ handle.table \in Seq(Entry)
      /\ TableSize(n) = 1 + n
  BY <1>1, WritingFacts
<1>3. ~FitsInline(handle.cached) /\ Len(handle.table) = n
      /\ \A k \in 1 .. Len(handle.table) : BlockWritten(handle, rsrc, k)
  BY <1>1 DEF WriteOK
<1>4. \A k \in 1 .. n : handle.table[k] \in Entry /\ BlockWritten(handle, rsrc, k)
  BY <1>2, <1>3
<1>5. \A k \in 1 .. n : HeaderSize + handle.table[k].offset + handle.table[k].size <= Len(rsrc)
                        /\ TableSize(n) <= handle.table[k].offset
  BY <1>4 DEF BlockWritten
<1> HIDE DEF n
<1>6. Len(rsrc) \in Nat /\ Len(rsrc) >= 2 + n
  <2>1. 1 \in 1 .. n
    BY <1>2
  <2>2. handle.table[1].offset \in Nat /\ handle.table[1].size \in Nat
    BY <1>4, <2>1 DEF Entry
  <2>3. 1 + handle.table[1].offset + handle.table[1].size <= Len(rsrc) /\ 1 + n <= handle.table[1].offset
    BY <1>2, <1>5, <2>1 DEF HeaderSize
  <2>4. Len(rsrc) \in Nat
    BY <1>2
  <2>5. \A o, z, l, m \in Nat : 1 + o + z <= l /\ 1 + m <= o => l >= 2 + m
    OBVIOUS
  <2>6. QED BY <1>2, <2>2, <2>3, <2>4, <2>5
<1>7. rsrc # <<>>
  <2>1. Len(<<>>) = 0
    OBVIOUS
  <2>2. QED BY <1>2, <1>6, <2>1
<1>8. NextOffset(handle) = handle.table[n].offset + handle.table[n].size
  <2>1. handle.table # <<>>
    <3>1. Len(<<>>) = 0
      OBVIOUS
    <3>2. QED BY <1>2, <1>3, <3>1
  <2>2. QED BY <1>3, <2>1 DEF NextOffset
<1>9. QED BY <1>2, <1>3, <1>4, <1>5, <1>6, <1>7, <1>8 DEF n

\* They stay written while head, table and trailer are.
LEMMA AllKept ==
  ASSUME CompressInv, pc \in {"head", "table", "end"}, handle' = handle,
         rsrc' \in Seq(Unit), Len(rsrc) <= Len(rsrc'),
         \A p \in 1 .. Len(rsrc) :
             NumBlocks(handle.size) + 2 < p /\ p <= HeaderSize + NextOffset(handle) => rsrc'[p] = rsrc[p]
  PROVE  \A k \in 1 .. Len(handle'.table) : BlockWritten(handle', rsrc', k)
<1> SUFFICES ASSUME NEW k \in 1 .. Len(handle.table) PROVE BlockWritten(handle, rsrc', k)
  OBVIOUS
<1>1. /\ NumBlocks(handle.size) \in Nat /\ NextOffset(handle) \in Nat /\ rsrc \in Seq(Unit)
  BY WritingFacts DEF Writing
<1>2. handle.table[k] \in Entry /\ BlockWritten(handle, rsrc, k)
  BY AllWritten
<1>3. NextOffset(handle) <= NextOffset(handle)
  BY <1>1
<1>4. QED BY <1>1, <1>2, <1>3, BlockKept

\* The header of the fork.
LEMMA WriteHeadInv ==
  ASSUME CompressInv, WriteHead
  PROVE  CompressInv'
<1> DEFINE n == NumBlocks(handle.size)
           head == [type |-> "head"]
           units == <<head>>
           at == 0
           new == Written(rsrc, at, units)
<1>1. /\ WriteOK /\ pc = "head" /\ pc' = "table" /\ rsrc' = new /\ handle' = handle
      /\ UNCHANGED <<attr, job, req, overran, deaths, before, want>>
  BY DEF CompressInv, WriteHead
<1>2. /\ n \in Nat /\ n >= 1 /\ Len(handle.table) = n /\ ~FitsInline(handle.cached)
      /\ Len(rsrc) \in Nat /\ Len(rsrc) >= 2 + n /\ rsrc # <<>>
  BY <1>1, AllWritten
<1>3. handle \in Handle /\ ForkOK(rsrc) /\ rsrc \in Seq(Unit)
  BY <1>1, WritingFacts DEF Writing
<1>4. head \in Unit /\ head \notin Entry
  <2>1. head.type = "head" /\ head \in Unit
    BY DEF Unit, Mark
  <2>2. QED BY <2>1 DEF Entry
<1> HIDE DEF head
<1>5. units \in Seq(Unit) /\ Len(units) = 1 /\ units[1] = head /\ at \in Nat /\ at = 0
  BY <1>4
<1> HIDE DEF units, at
<1>6. /\ new \in Seq(Unit) /\ Len(new) >= Len(rsrc)
      /\ \A i \in 1 .. Len(rsrc) : ~(at < i /\ i <= at + Len(units)) => new[i] = rsrc[i]
      /\ \A i \in 1 .. Len(new) : \/ \E j \in 1 .. Len(units) : i = at + j /\ new[i] = units[j]
                                  \/ i \in 1 .. Len(rsrc) /\ new[i] = rsrc[i]
                                  \/ i > Len(rsrc) /\ i <= at /\ new[i] = [type |-> "zero", blocks |-> 0]
  <2>1. rsrc \in Seq(Unit) /\ at \in Nat /\ units \in Seq(Unit)
    BY <1>3, <1>5
  <2>2. QED BY ONLY <2>1, WrittenFork DEF new
<1> HIDE DEF new
<1>7. /\ \A i \in 1 .. Len(rsrc) : i > 1 => new[i] = rsrc[i]
      /\ \A i \in 1 .. Len(new) : new[i] = head \/ (i \in 1 .. Len(rsrc) /\ new[i] = rsrc[i])
  <2>1. \A i \in 1 .. Len(rsrc) : i > 1 => new[i] = rsrc[i]
    BY <1>2, <1>5, <1>6
  <2>2. ASSUME NEW i \in 1 .. Len(new)
        PROVE  new[i] = head \/ (i \in 1 .. Len(rsrc) /\ new[i] = rsrc[i])
    <3>1. \A j \in 1 .. Len(units) : units[j] = head
      BY <1>5
    <3>2. ~(i <= at)
      BY <1>5
    <3>3. QED BY <1>6, <3>1, <3>2
  <2>3. QED BY <2>1, <2>2
<1>8. Len(new) \in Nat
  BY <1>6
<1>9. ForkOK(new)
  <2>1. rsrc[2] \in TableHead /\ rsrc[2].blocks + 2 <= Len(rsrc) /\ rsrc[2].blocks \in Nat
    BY <1>2, <1>3 DEF ForkOK, TableHead
  <2>2. new[2] = rsrc[2]
    BY <1>2, <1>7
  <2>3. ASSUME NEW i \in 1 .. Len(new), new[i] \in Entry
        PROVE  HeaderSize + new[i].offset + new[i].size <= Len(new)
    <3>1. i \in 1 .. Len(rsrc) /\ new[i] = rsrc[i]
      BY <1>4, <1>7, <2>3
    <3>2. HeaderSize + rsrc[i].offset + rsrc[i].size <= Len(rsrc)
      BY <1>3, <2>3, <3>1 DEF ForkOK
    <3>3. HeaderSize + rsrc[i].offset + rsrc[i].size \in Nat
      BY <2>3, <3>1 DEF Entry, HeaderSize
    <3>4. QED BY <1>2, <1>6, <1>8, <3>1, <3>2, <3>3
  <2>4. Len(new) >= 2 /\ new[2].blocks + 2 <= Len(new)
    BY <1>2, <1>6, <1>8, <2>1, <2>2
  <2>5. QED BY <1>6, <2>1, <2>2, <2>3, <2>4 DEF ForkOK
<1>10. \A k \in 1 .. Len(handle'.table) : BlockWritten(handle', rsrc', k)
  <2>1. \A p \in 1 .. Len(rsrc) : n + 2 < p => new[p] = rsrc[p]
    BY <1>2, <1>7
  <2>2. QED BY <1>1, <1>6, <2>1, AllKept
<1>11. WriteOK'
  BY <1>1, <1>2, <1>10 DEF WriteOK, Writing
<1>12. overran' \in BOOLEAN
  BY DEF CompressInv, TypeOK, WriteHead
<1>13. QED BY <1>1, <1>3, <1>9, <1>11, <1>12, WritingStep DEF Writing

\* The table of the blocks.
LEMMA WriteTableInv ==
  ASSUME CompressInv, WriteTable
  PROVE  CompressInv'
<1> DEFINE n == NumBlocks(handle.size)
           top == [type |-> "table", blocks |-> n]
           units == <<top>> \o handle.table
           new == Written(rsrc, 1, units)
<1>1. /\ n \in Nat /\ n >= 1 /\ Len(handle.table) = n /\ ~FitsInline(handle.cached)
      /\ Len(rsrc) \in Nat /\ Len(rsrc) >= 2 + n
      /\ \A k \in 1 .. n : handle.table[k] \in Entry
      /\ \A k \in 1 .. n : HeaderSize + handle.table[k].offset + handle.table[k].size <= Len(rsrc)
  BY AllWritten DEF WriteTable
<1>2. /\ WriteOK /\ pc = "table" /\ pc' = "end" /\ rsrc' = new /\ handle' = handle
      /\ UNCHANGED <<attr, job, req, overran, deaths, before, want>>
  BY <1>1 DEF CompressInv, WriteTable, HeaderSize
<1>3. handle \in Handle /\ ForkOK(rsrc) /\ rsrc \in Seq(Unit) /\ handle.table \in Seq(Unit)
  BY <1>2, WritingFacts DEF Writing, Handle
<1>4. top \in Unit /\ top \in TableHead /\ top \notin Entry /\ top.blocks = n
  <2>1. top.type = "table" /\ top.blocks = n /\ top \in TableHead
    BY <1>1 DEF TableHead
  <2>2. QED BY <2>1 DEF Entry, Unit
<1>5. /\ units \in Seq(Unit) /\ Len(units) = 1 + n
      /\ units[1] = top /\ \A k \in 1 .. n : units[1 + k] = handle.table[k]
  <2> HIDE DEF top
  <2>1. <<top>> \in Seq(Unit) /\ Len(<<top>>) = 1 /\ <<top>>[1] = top
    BY <1>4
  <2>2. /\ <<top>> \o handle.table \in Seq(Unit)
        /\ Len(<<top>> \o handle.table) = Len(<<top>>) + Len(handle.table)
        /\ \A i \in 1 .. Len(<<top>>) : (<<top>> \o handle.table)[i] = <<top>>[i]
        /\ \A i \in 1 .. Len(handle.table) : (<<top>> \o handle.table)[Len(<<top>>) + i] = handle.table[i]
    <3>1. <<top>> \in Seq(Unit) /\ handle.table \in Seq(Unit)
      BY <1>3, <2>1
    <3>2. QED BY ONLY <3>1, Joined
  <2> HIDE DEF n
  <2>3. units = <<top>> \o handle.table
    BY DEF units
  <2> HIDE DEF units
  <2>4. 1 \in 1 .. Len(<<top>>)
    BY <2>1
  <2>5. Len(units) = 1 + n /\ units[1] = top
    BY <1>1, <2>1, <2>2, <2>3, <2>4
  <2>6. \A k \in 1 .. n : units[1 + k] = handle.table[k]
    BY <1>1, <2>1, <2>2, <2>3
  <2>7. QED BY <2>2, <2>3, <2>5, <2>6
<1> HIDE DEF top, units, n
<1>6. /\ new \in Seq(Unit) /\ Len(new) >= Len(rsrc)
      /\ \A i \in 1 .. Len(units) : new[1 + i] = units[i]
      /\ \A i \in 1 .. Len(rsrc) : ~(1 < i /\ i <= 1 + Len(units)) => new[i] = rsrc[i]
      /\ \A i \in 1 .. Len(new) : \/ \E j \in 1 .. Len(units) : i = 1 + j /\ new[i] = units[j]
                                  \/ i \in 1 .. Len(rsrc) /\ new[i] = rsrc[i]
                                  \/ i > Len(rsrc) /\ i <= 1 /\ new[i] = [type |-> "zero", blocks |-> 0]
  <2>1. rsrc \in Seq(Unit) /\ 1 \in Nat /\ units \in Seq(Unit)
    BY <1>3, <1>5
  <2>2. QED BY ONLY <2>1, WrittenFork DEF new
<1> HIDE DEF new
<1>7. Len(new) \in Nat
  BY <1>6
<1>8. /\ new[2] = top
      /\ \A k \in 1 .. n : new[2 + k] = handle.table[k]
      /\ \A i \in 1 .. Len(rsrc) : n + 2 < i => new[i] = rsrc[i]
      /\ \A i \in 1 .. Len(new) : \/ new[i] = top
                                  \/ \E k \in 1 .. n : new[i] = handle.table[k]
                                  \/ i \in 1 .. Len(rsrc) /\ new[i] = rsrc[i]
  <2>1. new[2] = top
    <3>1. PICK j : j = 1
      OBVIOUS
    <3>2. j \in 1 .. Len(units) /\ 1 + j = 2
      BY <1>1, <1>5, <3>1
    <3>3. QED BY <1>5, <1>6, <3>1, <3>2
  <2>2. ASSUME NEW k \in 1 .. n PROVE new[2 + k] = handle.table[k]
    <3>1. PICK j : j = 1 + k
      OBVIOUS
    <3>2. j \in 1 .. Len(units) /\ 1 + j = 2 + k
      BY <1>1, <1>5, <3>1
    <3>3. QED BY <1>5, <1>6, <3>1, <3>2
  <2>3. \A i \in 1 .. Len(rsrc) : n + 2 < i => new[i] = rsrc[i]
    BY <1>1, <1>5, <1>6
  <2>4. ASSUME NEW i \in 1 .. Len(new)
        PROVE  \/ new[i] = top
               \/ \E k \in 1 .. n : new[i] = handle.table[k]
               \/ i \in 1 .. Len(rsrc) /\ new[i] = rsrc[i]
    <3>1. CASE \E j \in 1 .. Len(units) : i = 1 + j /\ new[i] = units[j]
      <4>1. PICK j \in 1 .. Len(units) : new[i] = units[j]
        BY <3>1
      <4>2. CASE j = 1
        BY <1>5, <4>1, <4>2
      <4>3. CASE j # 1
        <5>1. PICK k \in 1 .. n : j = 1 + k
          <6>1. j - 1 \in 1 .. n /\ j = 1 + (j - 1)
            BY <1>1, <1>5, <4>3
          <6>2. QED BY <6>1
        <5>2. QED BY <1>5, <4>1, <5>1
      <4>4. QED BY <4>2, <4>3
    <3>2. CASE i \in 1 .. Len(rsrc) /\ new[i] = rsrc[i]
      BY <3>2
    <3>3. CASE i > Len(rsrc) /\ i <= 1
      BY <1>1, <3>3
    <3>4. QED BY <1>6, <3>1, <3>2, <3>3
  <2>5. QED BY <2>1, <2>2, <2>3, <2>4
<1>9. ForkOK(new)
  <2>1. ASSUME NEW i \in 1 .. Len(new), new[i] \in Entry
        PROVE  HeaderSize + new[i].offset + new[i].size <= Len(new)
    <3>1. HeaderSize + new[i].offset + new[i].size \in Nat
      BY <2>1 DEF Entry, HeaderSize
    <3>2. HeaderSize + new[i].offset + new[i].size <= Len(rsrc)
      <4>1. CASE \E k \in 1 .. n : new[i] = handle.table[k]
        BY <1>1, <4>1 DEF n
      <4>2. CASE i \in 1 .. Len(rsrc) /\ new[i] = rsrc[i]
        BY <1>3, <2>1, <4>2 DEF ForkOK
      <4>3. QED BY <1>4, <1>8, <2>1, <4>1, <4>2
    <3>3. QED BY <1>1, <1>6, <1>7, <3>1, <3>2
  <2>2. Len(new) >= 2 /\ new[2].blocks + 2 <= Len(new)
    BY <1>1, <1>4, <1>6, <1>7, <1>8 DEF n
  <2>3. QED BY <1>4, <1>6, <1>8, <2>1, <2>2 DEF ForkOK
<1>10. \A k \in 1 .. Len(handle'.table) : BlockWritten(handle', rsrc', k)
  <2>1. \A p \in 1 .. Len(rsrc) : NumBlocks(handle.size) + 2 < p => rsrc'[p] = rsrc[p]
    BY <1>2, <1>8 DEF n
  <2>2. rsrc' \in Seq(Unit) /\ Len(rsrc) <= Len(rsrc')
    BY <1>2, <1>6
  <2>3. QED BY <1>2, <2>1, <2>2, AllKept
<1>11. TableWritten(handle', rsrc')
  <2>1. Len(new) >= n + 2
    BY <1>1, <1>6, <1>7 DEF n
  <2>2. QED BY <1>2, <1>8, <2>1 DEF TableWritten, n, top
<1>12. WriteOK'
  BY <1>1, <1>2, <1>10, <1>11 DEF WriteOK, Writing
<1>13. overran' \in BOOLEAN
  BY DEF CompressInv, TypeOK, WriteTable
<1>14. QED BY <1>2, <1>3, <1>9, <1>12, <1>13, WritingStep DEF Writing

\* The trailer, behind all blocks.
LEMMA WriteEndInv ==
  ASSUME CompressInv, WriteEnd
  PROVE  CompressInv'
<1> DEFINE n == NumBlocks(handle.size)
           end == [type |-> "end"]
           units == <<end>>
           at == HeaderSize + NextOffset(handle)
           new == Written(rsrc, at, units)
<1>1. /\ n \in Nat /\ n >= 1 /\ Len(handle.table) = n /\ ~FitsInline(handle.cached)
      /\ Len(rsrc) \in Nat /\ Len(rsrc) >= 2 + n
      /\ \A k \in 1 .. n : handle.table[k] \in Entry
      /\ NextOffset(handle) = handle.table[n].offset + handle.table[n].size
  BY AllWritten DEF WriteEnd
<1>2. /\ handle \in Handle /\ ForkOK(rsrc) /\ rsrc \in Seq(Unit)
      /\ NextOffset(handle) \in Nat /\ 1 + n <= NextOffset(handle)
  BY WritingFacts DEF WriteEnd, Writing
<1>3. /\ WriteOK /\ TableWritten(handle, rsrc)
      /\ pc = "end" /\ pc' = "unset" /\ handle' = handle
      /\ UNCHANGED <<attr, job, req, overran, deaths, before, want>>
  BY <1>1 DEF CompressInv, WriteEnd, WriteOK, Writing
<1>4. rsrc' = new
  <2>1. rsrc' = Written(rsrc, HeaderSize + handle.table[n].offset + handle.table[n].size, <<end>>)
    BY <1>1 DEF WriteEnd
  <2>2. HeaderSize + handle.table[n].offset + handle.table[n].size = at
    <3>1. n \in 1 .. n
      BY <1>1
    <3>2. handle.table[n].offset \in Nat /\ handle.table[n].size \in Nat
      BY <1>1, <3>1 DEF Entry
    <3>3. NextOffset(handle) = handle.table[n].offset + handle.table[n].size
      BY <1>1
    <3> HIDE DEF n
    <3>4. QED BY ONLY <3>2, <3>3 DEF HeaderSize, at
  <2>3. QED BY <2>1, <2>2
<1>5. end \in Unit /\ end \notin Entry
  <2>1. end.type = "end" /\ end \in Unit
    BY DEF Unit, Mark
  <2>2. QED BY <2>1 DEF Entry
<1> HIDE DEF end
<1>6. units \in Seq(Unit) /\ Len(units) = 1 /\ units[1] = end
  BY <1>5
<1> HIDE DEF units
<1>7. at \in Nat /\ at >= 2 + n /\ at >= 2 /\ at = HeaderSize + NextOffset(handle)
  BY <1>1, <1>2 DEF HeaderSize
<1> HIDE DEF at, n
<1>8. ForkOK(new)
  <2>1. \A i \in 1 .. Len(units) : units[i] \notin Entry
    BY <1>5, <1>6
  <2>2. Len(units) > 0
    BY <1>6
  <2>3. QED BY <1>2, <1>6, <1>7, <2>1, <2>2, WrittenBehind
<1>9. /\ new \in Seq(Unit) /\ Len(new) >= Len(rsrc)
      /\ \A i \in 1 .. Len(rsrc) : ~(at < i /\ i <= at + Len(units)) => new[i] = rsrc[i]
  <2>1. rsrc \in Seq(Unit) /\ at \in Nat /\ units \in Seq(Unit)
    BY <1>2, <1>6, <1>7
  <2>2. QED BY ONLY <2>1, WrittenFork DEF new
<1> HIDE DEF new
<1>10. \A p \in 1 .. Len(rsrc) : p <= at => new[p] = rsrc[p]
  BY <1>7, <1>9
<1>11. \A k \in 1 .. Len(handle'.table) : BlockWritten(handle', rsrc', k)
  BY <1>3, <1>4, <1>7, <1>9, <1>10, AllKept
<1>12. TableWritten(handle', rsrc')
  <2>1. Len(rsrc) >= n + 2 /\ rsrc[2] = [type |-> "table", blocks |-> n]
        /\ \A k \in 1 .. n : rsrc[2 + k] = handle.table[k]
    BY <1>3 DEF TableWritten, n
  <2>2. Len(new) \in Nat /\ n \in Nat
    BY <1>1, <1>9 DEF n
  <2>3. new[2] = rsrc[2] /\ \A k \in 1 .. n : new[2 + k] = rsrc[2 + k]
    BY <1>1, <1>7, <1>10, <2>2
  <2>4. Len(new) >= n + 2
    BY <1>1, <1>9, <2>1, <2>2
  <2>5. QED BY <1>3, <1>4, <2>1, <2>3, <2>4 DEF TableWritten, n
<1>13. WriteOK'
  BY <1>1, <1>3, <1>11, <1>12 DEF WriteOK, Writing
<1>14. overran' \in BOOLEAN
  BY DEF CompressInv, TypeOK, WriteEnd
<1>15. QED BY <1>2, <1>3, <1>4, <1>8, <1>13, <1>14, WritingStep DEF Writing

-----------------------------------------------------------------------------
(* The attribute, and deaths                                               *)

\* The attribute is away for the time between the two writes of updateAttributes.
LEMMA RemoveAttributeInv ==
  ASSUME CompressInv, RemoveAttribute
  PROVE  CompressInv'
<1>1. /\ TypeOK /\ JobOK /\ WriteOK /\ pc = "unset" /\ pc' = "set" /\ attr' = NoAttribute
      /\ UNCHANGED <<rsrc, handle, job, req, overran, deaths, before, want>>
  BY DEF CompressInv, RemoveAttribute
<1>2. job.kind = "add" /\ req = NoReq
  BY <1>1, WritingFacts DEF Writing
<1>3. AttrOK(attr')
  BY <1>1 DEF AttrOK
<1>4. TypeOK'
  BY <1>1, <1>3 DEF TypeOK, Reading, Writing
<1>5. ImageOK' /\ JobOK'
  BY <1>1, <1>2 DEF ImageOK, JobOK, Reading, Writing
<1>6. ExtractOK' /\ ReadOK' /\ AddOK'
  BY <1>1, <1>2 DEF ExtractOK, ReadOK, AddOK
<1>7. WriteOK'
  BY <1>1 DEF WriteOK, Writing
<1>8. QED BY <1>4, <1>5, <1>6, <1>7 DEF CompressInv

\* With all blocks and their table in the fork, the fork is the file.
LEMMA ForkIsFile ==
  ASSUME CompressInv, pc = "set", ~FitsInline(handle.cached), NEW a, a.type = "rsrc", a.size = Len(want)
  PROVE  Content(a, rsrc) = want
<1> DEFINE n == NumBlocks(handle.size)
<1>1. /\ WriteOK /\ Len(handle.table) = n /\ TableWritten(handle, rsrc)
      /\ \A k \in 1 .. Len(handle.table) : BlockWritten(handle, rsrc, k)
  BY DEF CompressInv, WriteOK, Writing
<1>2. /\ ForkOK(rsrc) /\ rsrc \in Seq(Unit) /\ handle.cached = want /\ want \in Text
      /\ handle.size = Len(want) /\ handle.size \in Nat /\ n \in Nat /\ n >= 1
      /\ \A k \in 1 .. Len(handle.table) : handle.table[k] \in Entry
  BY WritingFacts DEF Writing
<1>3. /\ Len(rsrc) >= n + 2 /\ rsrc[2].blocks = n
      /\ \A k \in 1 .. n : rsrc[2 + k] = handle.table[k]
  BY <1>1 DEF TableWritten
<1> HIDE DEF n
<1>4. rsrc # <<>>
  <2>1. Len(<<>>) = 0
    OBVIOUS
  <2>2. QED BY <1>2, <1>3, <2>1
<1>5. /\ TableIn(rsrc) \in Seq(Unit) /\ Len(TableIn(rsrc)) = n
      /\ \A k \in 1 .. n : TableIn(rsrc)[k] = handle.table[k]
  BY <1>2, <1>3, <1>4, TableOf
<1>6. ASSUME NEW k \in 1 .. n PROVE Block(rsrc, k) = BlockOf(want, k - 1)
  <2> DEFINE s == BlockOf(want, k - 1)
             table == TableIn(rsrc)
  <2>1. k - 1 \in Nat /\ k - 1 < n
    BY <1>2
  <2>2. CompBlock * (k - 1) < Len(want)
    BY <1>2, <2>1, NumBlocksExact DEF n
  <2>3. CompBlock * (k - 1) <= Len(want)
    BY <1>2, <2>1, <2>2, Multiples
  <2>4. s \in Text
    BY <1>2, <2>1, <2>3, BlockOfText, Pieces
  <2>5. k \in DOMAIN table /\ table[k] = handle.table[k] /\ table[k] \in Entry
    BY <1>1, <1>2, <1>5
  <2>6. Zipped(handle, k) = Compressed(s)
    BY <1>2 DEF Zipped
  <2>7. BlockWritten(handle, rsrc, k)
    BY <1>1
  <2> HIDE DEF s, table
  <2>8. /\ table[k].size = Len(Compressed(s))
        /\ HeaderSize + table[k].offset + table[k].size <= Len(rsrc)
        /\ \A i \in 1 .. table[k].size : rsrc[HeaderSize + table[k].offset + i] = Compressed(s)[i]
    BY <2>5, <2>6, <2>7 DEF BlockWritten
  <2>9. BlockAt(rsrc, table, k) = s
    BY <1>2, <2>4, <2>5, <2>8, BlockThere
  <2>10. QED BY <2>9 DEF Block, s, table
<1>7. \A k \in 1 .. NumBlocks(Len(want)) : Block(rsrc, k) = BlockOf(want, k - 1)
  BY <1>2, <1>6 DEF n
<1>8. QED BY <1>2, <1>7, ContentIs

\* The attribute that ends a call makes the file what the call was to leave.
LEMMA SetAttributeInv ==
  ASSUME CompressInv, SetAttribute
  PROVE  CompressInv'
<1>1. /\ pc = "set" /\ pc' = "idle" /\ handle' = NoHandle /\ job' = NoJob
      /\ attr' = NewAttribute \/ (overran /\ attr' = SpoiltAttribute)
      /\ UNCHANGED <<rsrc, req, overran, deaths, before, want>> /\ before \in Text /\ overran \in BOOLEAN
  BY DEF CompressInv, TypeOK, SetAttribute
<1>2. /\ ForkOK(rsrc) /\ handle.cached = want /\ want \in Text /\ req = NoReq
      /\ handle.size = Len(want) /\ handle.size \in Nat
  BY <1>1, WritingFacts DEF Writing
<1> DEFINE a == NewAttribute
<1>3. CASE FitsInline(handle.cached)
  <2>1. a = [type |-> "inline", size |-> Len(want), data |-> Compressed(want)]
    BY <1>2, <1>3 DEF NewAttribute
  <2>2. a.type = "inline" /\ a.data = Compressed(want)
    BY <2>1
  <2> HIDE DEF a
  <2>3. AttrOK(a) /\ Content(a, rsrc) = want
    BY <1>2, <2>1, <2>2, StoredBack DEF AttrOK, Content
  <2>4. AttrOK(SpoiltAttribute)
    <3> DEFINE data == [i \in DOMAIN Compressed(want) |-> Spoilt]
    <3>1. SpoiltAttribute = [type |-> "inline", size |-> Len(want), data |-> data]
      BY <2>1 DEF SpoiltAttribute, a
    <3>2. DOMAIN Compressed(want) = 1 .. Runs(want) /\ Runs(want) \in Nat /\ Runs(want) >= 1
      BY <1>2, SomeRuns DEF Compressed
    <3>3. data \in Seq({Spoilt}) /\ data # <<>>
      BY <3>2
    <3> HIDE DEF data
    <3>4. QED BY <1>2, <3>1, <3>3 DEF AttrOK
  <2>5. AttrOK(attr') /\ (overran \/ Content(attr', rsrc) = want)
    BY <1>1, <2>3, <2>4 DEF a
  <2>6. QED BY <1>1, <1>2, <2>5, AtRestNext
<1>4. CASE ~FitsInline(handle.cached)
  <2>1. a = [type |-> "rsrc", size |-> Len(want), data |-> <<>>]
    BY <1>2, <1>4 DEF NewAttribute
  <2>2. a.type = "rsrc" /\ a.size = Len(want)
    BY <2>1
  <2>3. [i \in DOMAIN <<>> |-> Spoilt] = <<>>
    OBVIOUS
  <2>4. SpoiltAttribute = a
    BY <2>1, <2>3 DEF SpoiltAttribute
  <2> HIDE DEF a
  <2>5. AttrOK(a)
    BY <1>2, <2>1 DEF AttrOK
  <2>6. Content(a, rsrc) = want
    BY <1>1, <1>4, <2>2, ForkIsFile
  <2>7. attr' = a
    BY <1>1, <2>4 DEF a
  <2>8. QED BY <1>1, <1>2, <2>5, <2>6, <2>7, AtRestNext
<1>5. QED BY <1>3, <1>4

\* After a death the file is what the next process reads.
LEMMA DieInv ==
  ASSUME CompressInv, Die
  PROVE  CompressInv'
<1>1. /\ AttrOK(attr) /\ ForkOK(rsrc) /\ pc' = "idle" /\ handle' = NoHandle /\ job' = NoJob /\ req' = NoReq
      /\ before' = Content(attr, rsrc) /\ want' = before' /\ UNCHANGED <<attr, rsrc>>
      /\ overran' = FALSE
  BY DEF CompressInv, TypeOK, Die
<1>2. Content(attr, rsrc) \in Text
  BY <1>1, ContentFacts
<1>3. QED BY <1>1, <1>2, AtRestNext

\* A step that changes nothing.
LEMMA StutterInv ==
  ASSUME CompressInv, UNCHANGED vars
  PROVE  CompressInv'
<1>1. /\ attr' = attr /\ rsrc' = rsrc /\ pc' = pc /\ handle' = handle /\ job' = job /\ req' = req
      /\ before' = before /\ want' = want /\ overran' = overran
  BY DEF vars
<1>2. TypeOK' /\ ImageOK' /\ JobOK'
  BY <1>1 DEF CompressInv, TypeOK, ImageOK, JobOK
<1>3. ExtractOK' /\ AddOK' /\ WriteOK'
  BY <1>1 DEF CompressInv, ExtractOK, AddOK, WriteOK
<1>4. ReadSoFar' = ReadSoFar
  BY <1>1 DEF ReadSoFar
<1>5. ReadOK'
  BY <1>1, <1>4 DEF CompressInv, ReadOK
<1>6. QED BY <1>2, <1>3, <1>5 DEF CompressInv

\* No step of a call leaves the invariant.
LEMMA CompressNext ==
  ASSUME CompressInv, [Next]_vars
  PROVE  CompressInv'
<1>1. CASE Extract
  BY <1>1, ExtractInv
<1>2. CASE \E s \in Inputs : Add(s)
  BY <1>2, AddInv
<1>3. CASE NextPiece \/ LastPiece \/ ReadCached \/ ReadLoad \/ ReadDone \/ CacheWholeFile \/ WritePiece
  BY <1>3, NextPieceInv, LastPieceInv, ReadCachedInv, ReadLoadInv, ReadDoneInv, CacheWholeFileInv,
     WritePieceInv
<1>4. CASE CloseClean \/ StartBlocks \/ KeepInline \/ WriteBlock \/ WriteHead \/ WriteTable \/ WriteEnd
  BY <1>4, CloseCleanInv, StartBlocksInv, KeepInlineInv, WriteBlockInv, WriteHeadInv, WriteTableInv,
     WriteEndInv
<1>5. CASE RemoveAttribute \/ SetAttribute \/ Die
  BY <1>5, RemoveAttributeInv, SetAttributeInv, DieInv
<1>6. CASE UNCHANGED vars
  BY <1>6, StutterInv
<1>7. QED BY <1>1, <1>2, <1>3, <1>4, <1>5, <1>6 DEF Next, Step

-----------------------------------------------------------------------------
(* What the invariant says of the file                                     *)

\* What has been read of a file is its front.
LEMMA ReadIsPrefix ==
  ASSUME NEW text \in Text, NEW n \in Nat, HasRead(text, n, attr, rsrc),
         before \in Text, Content(attr, rsrc) = before
  PROVE  IsPrefix(text, before)
<1>1. Len(text) = n /\ n <= Len(before) /\ \A i \in 1 .. n : text[i] = before[i]
  BY DEF HasRead
<1>2. /\ SubSeq(before, 1, n) \in Text /\ Len(SubSeq(before, 1, n)) = n
      /\ \A i \in 1 .. n : SubSeq(before, 1, n)[i] = before[i]
  BY <1>1, FrontOf
<1>3. SubSeq(before, 1, n) = text
  BY <1>1, <1>2, SameText
<1>4. SubSeq(text, 1, n) = text
  BY <1>1 DEF Text
<1>5. QED BY <1>1, <1>3, <1>4 DEF IsPrefix

\* The invariant of the whole is the sum of three promises.
LEMMA ReadsIt ==
  ASSUME CompressInv
  PROVE  ReadsTheFile
<1>1. /\ TypeOK /\ ImageOK /\ JobOK /\ ExtractOK /\ ReadOK
      /\ job \in Job /\ req \in Request /\ before \in Text /\ AttrOK(attr) /\ ForkOK(rsrc)
  BY DEF CompressInv, TypeOK
<1>2. job.input \in Text /\ job.pos \in Nat /\ job.left \in Nat /\ req.loc \in Nat /\ req.buf \in Text
  BY <1>1 DEF Job, Request
<1>3. pc # "read" => req = NoReq
  BY <1>1 DEF JobOK
<1>4. NoReq.buf = <<>> /\ NoReq.for = "none"
  BY DEF NoReq
<1>5. ASSUME job.kind = "extract"
      PROVE  IsPrefix(job.input \o req.buf, before) /\ (pc = "close" => job.input = before)
  <2>1. pc \in {"loop", "read", "close"} /\ Content(attr, rsrc) = before
    BY <1>1, <1>5 DEF ImageOK, JobOK, Reading
  <2>2. /\ Serving(handle, attr, rsrc) /\ job.pos + job.left = handle.size
        /\ HasRead(job.input, job.pos, attr, rsrc)
    BY <1>1, <1>5 DEF ExtractOK
  <2>3. CASE pc = "read"
    <3>1. job.input \o req.buf \in Text
      BY <1>2 DEF Text
    <3>2. HasRead(job.input \o req.buf, req.loc, attr, rsrc)
      BY <1>1, <1>5, <2>3 DEF ReadOK, ReadSoFar
    <3>3. QED BY <1>1, <1>2, <2>1, <2>3, <3>1, <3>2, ReadIsPrefix
  <2>4. CASE pc # "read"
    <3>1. req.buf = <<>>
      BY <1>3, <1>4, <2>4
    <3>2. job.input \o req.buf = job.input
      BY <1>2, <3>1 DEF Text
    <3>3. IsPrefix(job.input, before)
      BY <1>1, <1>2, <2>1, <2>2, ReadIsPrefix
    <3>4. ASSUME pc = "close" PROVE job.input = before
      <4>1. job.left = 0
        BY <1>1, <3>4 DEF JobOK
      <4>2. handle.size = attr.size
        BY <2>2 DEF Serving, Open
      <4>3. Len(before) <= attr.size /\ attr.size \in Nat /\ Len(before) \in Nat
        BY <1>1, <2>1, ContentFacts
      <4>4. Len(job.input) = job.pos /\ job.pos <= Len(before)
            /\ \A i \in 1 .. job.pos : job.input[i] = before[i]
        BY <2>1, <2>2 DEF HasRead
      <4>5. job.pos = Len(before)
        BY <1>2, <2>2, <4>1, <4>2, <4>3, <4>4
      <4>6. QED BY <1>1, <1>2, <4>4, <4>5, SameText
    <3>5. QED BY <3>2, <3>3, <3>4
  <2>5. QED BY <2>3, <2>4
<1>6. ASSUME req.for = "cache" PROVE IsPrefix(req.buf, before)
  <2>1. pc = "read"
    BY <1>3, <1>4, <1>6
  <2>2. job.kind \in {"extract", "add"} /\ Content(attr, rsrc) = before
    BY <1>1, <2>1 DEF JobOK, ImageOK, Reading
  <2>3. job.kind # "extract"
    BY <1>1, <1>6, <2>1 DEF ReadOK
  <2>4. HasRead(req.buf, req.loc, attr, rsrc)
    BY <1>1, <2>1, <2>3 DEF ReadOK, ReadSoFar
  <2>5. QED BY <1>1, <1>2, <2>2, <2>4, ReadIsPrefix
<1>7. QED BY <1>5, <1>6 DEF ReadsTheFile

\* Until the attribute is removed a file that is not in the fork is as it was.
LEMMA AllOrNone ==
  ASSUME CompressInv
  PROVE  AllOrNothing
<1> SUFFICES ASSUME pc # "idle", job.form # "rsrc"
             PROVE  Content(attr, rsrc) \in {before, want, <<>>}
  BY DEF AllOrNothing
<1>1. ImageOK /\ pc \in Reading \cup Writing
  BY DEF CompressInv, TypeOK
<1>2. CASE pc \in Reading
  BY <1>1, <1>2 DEF ImageOK
<1>3. CASE pc \in Writing \ {"set"}
  BY <1>1, <1>3 DEF ImageOK
<1>4. CASE pc = "set"
  <2>1. attr.type = "none"
    BY <1>1, <1>4 DEF ImageOK, NoAttribute
  <2>2. Content(attr, rsrc) = <<>>
    BY <2>1 DEF Content
  <2>3. QED BY <2>2
<1>5. QED BY <1>1, <1>2, <1>3, <1>4

\* Attribute, fork, handle and running call fit each other at every step of every
\* run, deaths included, for all sizes of blocks and buffers and all files.
THEOREM CompressInvariant == Spec => []CompressInv
<1>1. Init => CompressInv
  BY InitInv
<1>2. CompressInv /\ [Next]_vars => CompressInv'
  BY CompressNext
<1> QED
  BY <1>1, <1>2, PTL DEF Spec

\* hfscompress.c, hfslib.c: what an add leaves is the input over the old file, and
\* what an extract leaves is the old file, in whichever form it is kept, however
\* many blocks and pieces it takes and whatever a death has left in the fork, unless the close has
\* kept it inline in a copy of the old attribute that was too short (hfscompress.c:148).
THEOREM FileIsOverlayAlways == Spec => []FileIsOverlay
<1>1. CompressInv => FileIsOverlay
  BY DEF CompressInv, ImageOK, FileIsOverlay
<1> QED
  BY CompressInvariant, <1>1, PTL

\* compressedRead hands out the file and nothing else, piece by piece, to its
\* caller and to compressedWrite, and writeToFile has all of it in the end.
THEOREM ReadsTheFileAlways == Spec => []ReadsTheFile
<1>1. CompressInv => ReadsTheFile
  BY ReadsIt
<1> QED
  BY CompressInvariant, <1>1, PTL

\* updateAttributes and closeHFSPlusCompressed: a death at any write leaves a file
\* that was kept in the attribute, or had none, as it was, as asked for, or empty.
THEOREM AllOrNothingAlways == Spec => []AllOrNothing
<1>1. CompressInv => AllOrNothing
  BY AllOrNone
<1> QED
  BY CompressInvariant, <1>1, PTL
=============================================================================
