---------------------------- MODULE Img3fsProofs ----------------------------
(***************************************************************************)
(* What img3fs keeps of an image for images of every length, any number of *)
(* FUSE threads, mounts and deaths: the elements are where the first mount *)
(* found them, a DATA element that was not written to is what the mount    *)
(* before has left, and a death while it is written back costs one block,  *)
(* as long as no thread has written through an offset that another moved.  *)
(***************************************************************************)
EXTENDS Img3fs, Induction, SequenceTheorems

USE Img3Assumption

Magics == {"", "TYPE", "KBAG", "DATA", "SHSH"}
Block == [type : {"tag", "plain", "cipher"}, magic : Magics, len : Nat, span : Nat, of : Seq(Int)]
Elem == [magic : Magics, at : Nat, len : Nat, span : Nat]

\* Where the tags of an image are, encrypted or not, and what they say.
DataPlace(bag) == RawBlocks + bag + 2
SealPlace(bag) == DataPlace(bag) + Span + 1
TagPlaces(bag) == {1, DataPlace(bag), SealPlace(bag)} \cup (IF bag = 2 THEN {RawBlocks + 2} ELSE {})
TagAt(bag, i) ==
    IF i = DataPlace(bag) THEN TagOf("DATA", DataBlocks + Rest, Span)
    ELSE IF i = 1 THEN TagOf("TYPE", RawBlocks, RawBlocks)
    ELSE IF i = SealPlace(bag) THEN TagOf("SHSH", RawBlocks, RawBlocks)
    ELSE TagOf("KBAG", 1, 1)

\* An image whose tags and KBAG are as they were made.
Shape(image, bag) ==
    /\ image \in Seq(Block)
    /\ Len(image) = SealPlace(bag) + RawBlocks
    /\ \A i \in 1 .. Len(image) : image[i].type = "tag" <=> i \in TagPlaces(bag)
    /\ \A i \in TagPlaces(bag) : image[i] = TagAt(bag, i)
    /\ bag = 2 => image[RawBlocks + 3] = Plain(1)

-----------------------------------------------------------------------------
(* The loop of img3_init *)

\* A set of places in a list has a last one, which is its maximum.
LEMMA LastPlace ==
  ASSUME NEW n \in Nat, NEW T \in SUBSET (1 .. n), T # {}
  PROVE  Max(T) \in T
<1> DEFINE U == {n - t : t \in T}
<1>1. U \in SUBSET Nat /\ U # {}
  <2>1. \A t \in T : n - t \in Nat
    OBVIOUS
  <2>2. QED BY <2>1
<1>2. PICK u \in U : \A v \in U : u <= v
  <2> HIDE DEF U
  <2> QED BY <1>1, LeastNumber
<1>3. n - u \in T /\ \A t \in T : n - u >= t
  <2>1. PICK t \in T : u = n - t
    BY <1>2
  <2>2. \A s \in T : n - s \in U
    OBVIOUS
  <2>3. \A s \in T : u <= n - s
    BY <1>2, <2>2
  <2>4. QED BY <2>1, <2>3
<1>4. \E x \in T : \A y \in T : x >= y
  BY <1>3
<1>5. QED BY <1>4 DEF Max

ParseState == [at : Nat \ {0}, list : Seq(Elem)]

\* An element more is an element more, or the end.
LEMMA NextElementType ==
  ASSUME NEW image \in Seq(Block), NEW acc \in ParseState
  PROVE  NextElement(image, acc) \in ParseState
<1> DEFINE more == [magic |-> image[acc.at].magic, at |-> acc.at + 1, len |-> image[acc.at].len, span |-> image[acc.at].span]
           ends == \/ acc.at > Len(image) \/ image[acc.at].type # "tag"
                   \/ image[acc.at].len > image[acc.at].span + 1
                   \/ acc.at + image[acc.at].span > Len(image)
<1>1. acc.at \in Nat \ {0} /\ acc.list \in Seq(Elem) /\ Len(image) \in Nat
  BY DEF ParseState
<1>2. CASE ends
  <2>1. NextElement(image, acc) = [acc EXCEPT !.at = Len(image) + 1]
    BY <1>2 DEF NextElement
  <2>2. Len(image) + 1 \in Nat \ {0}
    BY <1>1
  <2>3. QED BY <2>1, <2>2 DEF ParseState
<1>3. CASE ~ends
  <2>1. image[acc.at] \in Block
    BY <1>1, <1>3
  <2>2. more \in Elem /\ image[acc.at].span \in Nat
    BY <1>1, <2>1 DEF Block, Elem
  <2>3. NextElement(image, acc) = [at |-> acc.at + 1 + image[acc.at].span, list |-> Append(acc.list, more)]
    BY <1>3 DEF NextElement
  <2>4. Append(acc.list, more) \in Seq(Elem)
    BY <1>1, <2>2, AppendProperties
  <2>5. QED BY <1>1, <2>2, <2>3, <2>4 DEF ParseState
<1>4. QED BY <1>2, <1>3

\* The rounds of the loop, up to the last.
Rounds(f, image) ==
    /\ f \in [0 .. MaxElements -> ParseState]
    /\ f[0] = [at |-> 1, list |-> <<>>]
    /\ \A n \in 1 .. MaxElements : f[n] = NextElement(image, f[n - 1])
    /\ Parse(image) = f[MaxElements].list

\* Parsing an image is a sequence of rounds, each behind the element before it.
LEMMA ParseRounds ==
  ASSUME NEW image \in Seq(Block)
  PROVE  \E f : Rounds(f, image)
<1> DEFINE base == [at |-> 1, list |-> <<>>]
           Solves(f) == f = [n \in 0 .. MaxElements |-> IF n = 0 THEN base ELSE NextElement(image, f[n - 1])]
           step == [acc \in ParseState |-> NextElement(image, acc)]
           f == CHOOSE g : Solves(g)
<1>1. base \in ParseState /\ MaxElements \in Nat
  BY EmptySeq DEF ParseState
<1>2. step \in [ParseState -> ParseState]
  BY NextElementType
<1>3. PICK g \in [0 .. MaxElements -> ParseState] :
         g[0] = base /\ \A n \in 1 .. MaxElements : g[n] = step[g[n - 1]]
  <2> DEFINE S == ParseState
  <2>1. base \in S /\ step \in [S -> S] /\ MaxElements \in Nat
    BY <1>1, <1>2
  <2> HIDE DEF base, step, S
  <2>2. \E g : Iterates(g, S, base, step, MaxElements)
    BY <2>1, Iteration
  <2>3. QED BY <2>2 DEF S, Iterates
<1>4. Solves(g)
  <2>1. \A n \in 0 .. MaxElements : n # 0 => step[g[n - 1]] = NextElement(image, g[n - 1])
    <3>1. \A n \in 0 .. MaxElements : n # 0 => n - 1 \in 0 .. MaxElements
      BY <1>1
    <3> HIDE DEF base
    <3>2. \A n \in 0 .. MaxElements : n # 0 => g[n - 1] \in ParseState
      <4> HIDE DEF step
      <4> QED BY <1>3, <3>1
    <3>3. QED BY <3>2
  <2> HIDE DEF base, step
  <2>2. QED BY <1>3, <2>1
<1>5. Solves(f)
  <2> HIDE DEF Solves
  <2> QED BY <1>4
<1>6. Parse(image) = f[MaxElements].list
  BY DEF Parse
<1> HIDE DEF f
<1>7. f[0] = base /\ \A n \in 1 .. MaxElements : f[n] = NextElement(image, f[n - 1])
  <2> HIDE DEF base
  <2> QED BY <1>5
<1> DEFINE P == {n \in Nat : n <= MaxElements => f[n] \in ParseState}
<1>8. P = Nat
  <2>1. 0 \in P
    BY <1>1, <1>7
  <2>2. \A n \in P : n + 1 \in P
    <3> SUFFICES ASSUME NEW n \in P, n + 1 <= MaxElements PROVE f[n + 1] \in ParseState
      OBVIOUS
    <3>1. n \in Nat /\ n + 1 \in 1 .. MaxElements /\ n + 1 - 1 = n /\ n <= MaxElements
      BY <1>1
    <3> HIDE DEF base
    <3>2. f[n] \in ParseState /\ f[n + 1] = NextElement(image, f[n])
      BY <1>7, <3>1
    <3>3. QED BY <3>2, NextElementType
  <2> HIDE DEF P
  <2>3. QED BY <2>1, <2>2, SetInduction DEF P
<1>9. f \in [0 .. MaxElements -> ParseState]
  <2>1. \A n \in 0 .. MaxElements : f[n] \in ParseState
    BY <1>8
  <2>2. f = [n \in 0 .. MaxElements |-> f[n]]
    <3> HIDE DEF base
    <3> QED BY <1>5
  <2>3. QED BY <2>1, <2>2
<1>10. QED BY <1>6, <1>7, <1>9 DEF Rounds
\* An element behind its tag, with what the tag says.
Behind(el, bag) ==
    /\ el \in Elem
    /\ el.at - 1 \in TagPlaces(bag)
    /\ el.magic = TagAt(bag, el.at - 1).magic /\ el.len = TagAt(bag, el.at - 1).len
    /\ el.span = TagAt(bag, el.at - 1).span

\* DATA has room for its data in its total length.
LEMMA SpanFacts ==
  /\ Span \in Nat /\ DataBlocks + Rest <= Span
  /\ Covered \in Nat /\ DataBlocks <= Covered /\ Covered <= Span
<1>1. DataBlocks \in Nat /\ Rest \in {0, 1} /\ Padding \in Nat
  OBVIOUS
<1>2. QED BY <1>1 DEF Span, Covered

\* Where tags are and what they say, in numbers.
LEMMA TagFacts ==
  ASSUME NEW bag \in {0, 2}, NEW i \in TagPlaces(bag)
  PROVE  /\ i \in 1 .. SealPlace(bag) /\ SealPlace(bag) \in Nat
         /\ TagAt(bag, i).magic \in Magics /\ TagAt(bag, i).len \in Nat /\ TagAt(bag, i).span \in Nat
         /\ TagAt(bag, i).len <= TagAt(bag, i).span
         /\ i + TagAt(bag, i).span <= SealPlace(bag) + RawBlocks
         /\ TagAt(bag, i).magic = "DATA" <=> i = DataPlace(bag)
         /\ TagAt(bag, i).magic = "DATA" =>
               TagAt(bag, i).len = DataBlocks + Rest /\ TagAt(bag, i).span = Span
         /\ TagAt(bag, i).magic = "KBAG" => bag = 2 /\ i = RawBlocks + 2
         /\ i < DataPlace(bag) => i + TagAt(bag, i).span < DataPlace(bag)
         /\ i > DataPlace(bag) => i = SealPlace(bag)
<1> DEFINE tag == TagAt(bag, i)
<1> SUFFICES
      /\ i \in 1 .. SealPlace(bag) /\ SealPlace(bag) \in Nat
      /\ tag.magic \in Magics /\ tag.len \in Nat /\ tag.span \in Nat /\ tag.len <= tag.span
      /\ i + tag.span <= SealPlace(bag) + RawBlocks
      /\ tag.magic = "DATA" <=> i = DataPlace(bag)
      /\ tag.magic = "DATA" => tag.len = DataBlocks + Rest /\ tag.span = Span
      /\ tag.magic = "KBAG" => bag = 2 /\ i = RawBlocks + 2
      /\ i < DataPlace(bag) => i + tag.span < DataPlace(bag)
      /\ i > DataPlace(bag) => i = SealPlace(bag)
  OBVIOUS
<1>1. RawBlocks \in Nat /\ RawBlocks > 0 /\ DataBlocks \in Nat /\ DataBlocks > 0 /\ Rest \in Nat
      /\ bag \in Nat /\ Span \in Nat /\ DataBlocks + Rest <= Span
  BY SpanFacts
<1>2. DataPlace(bag) \in Nat /\ SealPlace(bag) \in Nat /\ DataPlace(bag) > RawBlocks + 1
      /\ SealPlace(bag) = DataPlace(bag) + Span + 1
      /\ DataPlace(bag) = RawBlocks + bag + 2
  BY <1>1 DEF DataPlace, SealPlace
<1>3. CASE i = DataPlace(bag)
  <2>1. i # 1 /\ i # SealPlace(bag)
    BY <1>1, <1>2, <1>3
  <2>2. tag = TagOf("DATA", DataBlocks + Rest, Span)
    BY <1>3, <2>1 DEF TagAt
  <2>3. tag.magic = "DATA" /\ tag.len = DataBlocks + Rest /\ tag.span = Span
    BY <2>2 DEF TagOf
  <2> HIDE DEF tag
  <2>4. tag.magic \in Magics /\ tag.len \in Nat /\ tag.span \in Nat /\ tag.len <= tag.span
    <3>1. tag.magic \in Magics
      BY <2>3 DEF Magics
    <3>2. tag.len \in Nat /\ tag.span \in Nat /\ tag.len <= tag.span
      BY <1>1, <2>3
    <3>3. QED BY <3>1, <3>2
  <2>5. QED BY <1>1, <1>2, <1>3, <2>1, <2>3, <2>4
<1>4. CASE i = 1
  <2>1. i # DataPlace(bag) /\ i # SealPlace(bag)
    BY <1>1, <1>2, <1>4
  <2>2. tag = TagOf("TYPE", RawBlocks, RawBlocks)
    BY <1>4, <2>1 DEF TagAt
  <2>3. tag.magic = "TYPE" /\ tag.len = RawBlocks /\ tag.span = RawBlocks
    BY <2>2 DEF TagOf
  <2> HIDE DEF tag
  <2>4. tag.magic \in Magics /\ tag.len \in Nat /\ tag.span \in Nat /\ tag.len <= tag.span
    <3>1. tag.magic \in Magics
      BY <2>3 DEF Magics
    <3>2. tag.len \in Nat /\ tag.span \in Nat /\ tag.len <= tag.span
      BY <1>1, <2>3
    <3>3. QED BY <3>1, <3>2
  <2>5. QED BY <1>1, <1>2, <1>4, <2>1, <2>3, <2>4
<1>5. CASE i = SealPlace(bag)
  <2>1. i # DataPlace(bag) /\ i # 1
    BY <1>1, <1>2, <1>5
  <2>2. tag = TagOf("SHSH", RawBlocks, RawBlocks)
    BY <1>5, <2>1 DEF TagAt
  <2>3. tag.magic = "SHSH" /\ tag.len = RawBlocks /\ tag.span = RawBlocks
    BY <2>2 DEF TagOf
  <2> HIDE DEF tag
  <2>4. tag.magic \in Magics /\ tag.len \in Nat /\ tag.span \in Nat /\ tag.len <= tag.span
    <3>1. tag.magic \in Magics
      BY <2>3 DEF Magics
    <3>2. tag.len \in Nat /\ tag.span \in Nat /\ tag.len <= tag.span
      BY <1>1, <2>3
    <3>3. QED BY <3>1, <3>2
  <2>5. QED BY <1>1, <1>2, <1>5, <2>1, <2>3, <2>4
<1>6. CASE bag = 2 /\ i = RawBlocks + 2
  <2>1. i # DataPlace(bag) /\ i # 1 /\ i # SealPlace(bag)
    BY <1>1, <1>2, <1>6
  <2>2. tag = TagOf("KBAG", 1, 1)
    BY <1>6, <2>1 DEF TagAt
  <2>3. tag.magic = "KBAG" /\ tag.len = 1 /\ tag.span = 1
    BY <2>2 DEF TagOf
  <2> HIDE DEF tag
  <2>4. tag.magic \in Magics /\ tag.len \in Nat /\ tag.span \in Nat /\ tag.len <= tag.span
    <3>1. tag.magic \in Magics
      BY <2>3 DEF Magics
    <3>2. tag.len \in Nat /\ tag.span \in Nat /\ tag.len <= tag.span
      BY <1>1, <2>3
    <3>3. QED BY <3>1, <3>2
  <2>5. QED BY <1>1, <1>2, <1>6, <2>1, <2>3, <2>4
<1>7. QED BY <1>3, <1>4, <1>5, <1>6 DEF TagPlaces

\* The loop goes from tag to tag: the elements it finds are behind tags.
LEMMA NextElementBehind ==
  ASSUME NEW bag \in {0, 2}, NEW image, Shape(image, bag), NEW acc \in ParseState,
         \A i \in DOMAIN acc.list : Behind(acc.list[i], bag)
  PROVE  \A i \in DOMAIN NextElement(image, acc).list : Behind(NextElement(image, acc).list[i], bag)
<1> DEFINE more == [magic |-> image[acc.at].magic, at |-> acc.at + 1, len |-> image[acc.at].len, span |-> image[acc.at].span]
           ends == \/ acc.at > Len(image) \/ image[acc.at].type # "tag"
                   \/ image[acc.at].len > image[acc.at].span + 1
                   \/ acc.at + image[acc.at].span > Len(image)
<1>1. acc.at \in Nat \ {0} /\ acc.list \in Seq(Elem) /\ image \in Seq(Block) /\ Len(image) \in Nat
  BY DEF ParseState, Shape
<1>2. CASE ends
  BY <1>1, <1>2 DEF NextElement, ParseState
<1>3. CASE ~ends
  <2>1. NextElement(image, acc).list = Append(acc.list, more)
    BY <1>3 DEF NextElement
  <2>2. acc.at \in 1 .. Len(image) /\ image[acc.at].type = "tag"
    BY <1>1, <1>3
  <2>3. acc.at \in TagPlaces(bag) /\ image[acc.at] = TagAt(bag, acc.at)
    BY <2>2 DEF Shape
  <2>4. acc.at + 1 \in Nat /\ acc.at + 1 - 1 = acc.at
    BY <1>1
  <2>5. TagAt(bag, acc.at).magic \in Magics /\ TagAt(bag, acc.at).len \in Nat
        /\ TagAt(bag, acc.at).span \in Nat
    BY <2>3, TagFacts
  <2>6. Behind(more, bag)
    <3>1. more \in Elem /\ more.at = acc.at + 1 /\ more.magic = TagAt(bag, acc.at).magic
          /\ more.len = TagAt(bag, acc.at).len /\ more.span = TagAt(bag, acc.at).span
      BY <2>3, <2>4, <2>5 DEF Elem
    <3> HIDE DEF more
    <3>2. more.at - 1 = acc.at
      BY <1>1, <2>4, <3>1
    <3>3. QED BY <2>3, <3>1, <3>2 DEF Behind
  <2> HIDE DEF more
  <2>7. more \in Elem
    BY <2>6 DEF Behind
  <2>8. Append(acc.list, more) = [i \in 1 .. Len(acc.list) + 1 |-> IF i = Len(acc.list) + 1 THEN more ELSE acc.list[i]]
    BY <1>1, <2>7
  <2>9. \A i \in 1 .. Len(acc.list) : i \in DOMAIN acc.list
    BY <1>1
  <2>10. QED BY <1>1, <2>1, <2>6, <2>8, <2>9
<1>4. QED BY <1>2, <1>3

\* The elements that parsing finds lie behind one another in the image.
LEMMA ParseBehind ==
  ASSUME NEW bag \in {0, 2}, NEW image, Shape(image, bag)
  PROVE  Parse(image) \in Seq(Elem) /\ \A i \in DOMAIN Parse(image) : Behind(Parse(image)[i], bag)
<1>1. image \in Seq(Block) /\ MaxElements \in Nat
  BY DEF Shape
<1>2. PICK f : Rounds(f, image)
  BY <1>1, ParseRounds
<1> DEFINE Fine(list) == \A i \in DOMAIN list : Behind(list[i], bag)
           P == {n \in Nat : n <= MaxElements => Fine(f[n].list)}
<1>3. 0 \in P
  BY <1>2 DEF Rounds
<1>4. \A n \in P : n + 1 \in P
  <2> SUFFICES ASSUME NEW n \in P, n + 1 <= MaxElements PROVE Fine(f[n + 1].list)
    OBVIOUS
  <2>1. n \in 0 .. MaxElements /\ n + 1 \in 1 .. MaxElements /\ n + 1 - 1 = n /\ n <= MaxElements
    BY <1>1
  <2>2. f[n] \in ParseState /\ f[n + 1] = NextElement(image, f[n])
    BY <1>2, <2>1 DEF Rounds
  <2>3. Fine(f[n].list)
    BY <2>1
  <2>4. QED BY <2>2, <2>3, NextElementBehind
<1>5. P = Nat
  <2>1. P \in SUBSET Nat
    OBVIOUS
  <2> HIDE DEF P
  <2>2. QED BY <1>3, <1>4, <2>1, SetInduction
<1>6. Fine(f[MaxElements].list)
  <2> HIDE DEF Fine
  <2> QED BY <1>1, <1>5
<1>7. MaxElements \in 0 .. MaxElements /\ f[MaxElements].list \in Seq(Elem)
  BY <1>1, <1>2 DEF Rounds, ParseState
<1>8. QED BY <1>2, <1>6, <1>7 DEF Rounds

\* What is between the tags does not matter.
LEMMA SameParse ==
  ASSUME NEW bag \in {0, 2}, NEW image, NEW next, Shape(image, bag), Shape(next, bag)
  PROVE  Parse(next) = Parse(image)
<1>1. image \in Seq(Block) /\ next \in Seq(Block) /\ MaxElements \in Nat
  BY DEF Shape
<1>2. PICK f : Rounds(f, image)
  BY <1>1, ParseRounds
<1>3. PICK g : Rounds(g, next)
  BY <1>1, ParseRounds
<1> DEFINE P == {n \in Nat : n <= MaxElements => f[n] = g[n]}
<1>4. ASSUME NEW acc \in ParseState PROVE NextElement(next, acc) = NextElement(image, acc)
  <2>1. acc.at \in Nat \ {0} /\ Len(next) = Len(image) /\ Len(image) \in Nat
    BY <1>1 DEF ParseState, Shape
  <2>2. CASE acc.at > Len(image)
    BY <2>1, <2>2 DEF NextElement
  <2>3. CASE acc.at \in TagPlaces(bag)
    <3>1. image[acc.at] = next[acc.at]
      BY <2>3 DEF Shape
    <3>2. QED BY <2>1, <3>1 DEF NextElement
  <2>4. CASE acc.at \in 1 .. Len(image) /\ acc.at \notin TagPlaces(bag)
    <3>1. image[acc.at].type # "tag" /\ next[acc.at].type # "tag"
      BY <2>1, <2>4 DEF Shape
    <3>2. QED BY <2>1, <3>1 DEF NextElement
  <2>5. QED BY <2>1, <2>2, <2>3, <2>4
<1>5. 0 \in P
  BY <1>2, <1>3 DEF Rounds
<1>6. \A n \in P : n + 1 \in P
  <2> SUFFICES ASSUME NEW n \in P, n + 1 <= MaxElements PROVE f[n + 1] = g[n + 1]
    OBVIOUS
  <2>1. n \in 0 .. MaxElements /\ n + 1 \in 1 .. MaxElements /\ n + 1 - 1 = n /\ n <= MaxElements
    BY <1>1
  <2>2. f[n] \in ParseState /\ f[n + 1] = NextElement(image, f[n]) /\ g[n + 1] = NextElement(next, g[n])
    BY <1>2, <1>3, <2>1 DEF Rounds
  <2>3. f[n] = g[n]
    BY <2>1
  <2>4. QED BY <1>4, <2>2, <2>3
<1>7. P = Nat
  <2>1. P \in SUBSET Nat
    OBVIOUS
  <2> HIDE DEF P
  <2>2. QED BY <1>5, <1>6, <2>1, SetInduction
<1>8. f[MaxElements] = g[MaxElements]
  BY <1>1, <1>7
<1>9. QED BY <1>2, <1>3, <1>8 DEF Rounds

\* Only an encrypted image has a KBAG, and it says so.
LEMMA KbagFacts ==
  ASSUME NEW bag \in {0, 2}, NEW image, Shape(image, bag)
  PROVE  /\ AesType(image, Parse(image)) = Has(Parse(image), "KBAG")
         /\ Has(Parse(image), "KBAG") => bag = 2
<1> DEFINE list == Parse(image)
<1>1. ASSUME NEW i \in Places(list, "KBAG") PROVE bag = 2 /\ image[list[i].at] = Plain(1)
  <2>1. Behind(list[i], bag) /\ list[i].magic = "KBAG"
    BY ParseBehind DEF Places
  <2>2. bag = 2 /\ list[i].at - 1 = RawBlocks + 2 /\ list[i].at \in Nat
    BY <2>1, TagFacts DEF Behind, Elem
  <2>3. list[i].at = RawBlocks + 3
    BY <2>2
  <2>4. QED BY <2>2, <2>3 DEF Shape
<1>2. QED BY <1>1 DEF AesType, Has

\* DATA is where it was put.
LEMMA DataFacts ==
  ASSUME NEW bag \in {0, 2}, NEW image, Shape(image, bag), Has(Parse(image), "DATA")
  PROVE  /\ Element(Parse(image), "DATA").at = DataPlace(bag) + 1
         /\ Element(Parse(image), "DATA").len = DataBlocks + Rest
         /\ Element(Parse(image), "DATA").span = Span
<1> DEFINE list == Parse(image)
           at == Places(list, "DATA")
<1>1. list \in Seq(Elem) /\ Len(list) \in Nat /\ \A i \in DOMAIN list : Behind(list[i], bag)
  BY ParseBehind
<1>2. at \in SUBSET (1 .. Len(list)) /\ at # {} /\ at \subseteq DOMAIN list
  BY <1>1 DEF Places, Has
<1>3. Max(at) \in at
  BY <1>1, <1>2, LastPlace
<1>4. Behind(list[Max(at)], bag) /\ list[Max(at)].magic = "DATA"
  BY <1>1, <1>3 DEF Places
<1>5. list[Max(at)].at - 1 = DataPlace(bag) /\ list[Max(at)].at \in Nat
      /\ list[Max(at)].len = DataBlocks + Rest /\ list[Max(at)].span = Span
  BY <1>4, TagFacts DEF Behind, Elem
<1>6. DataPlace(bag) \in Nat
  BY DEF DataPlace
<1>7. QED BY <1>5, <1>6 DEF Element

-----------------------------------------------------------------------------
(* The image at the start *)

\* A tag with the blocks of its element.
Piece(s, tag, n) ==
    /\ s \in Seq(Block) /\ Len(s) = n + 1
    /\ s[1] = tag
    /\ \A i \in 2 .. n + 1 : s[i].type # "tag"

\* A tag in front of a sequence of other blocks.
LEMMA MakePiece ==
  ASSUME NEW tag \in Block, NEW n \in Nat, NEW s \in Seq(Block), Len(s) = n,
         \A i \in 1 .. n : s[i].type # "tag"
  PROVE  Piece(<<tag>> \o s, tag, n)
<1>1. <<tag>> \in Seq(Block) /\ Len(<<tag>>) = 1 /\ <<tag>>[1] = tag
  OBVIOUS
<1> DEFINE one == <<tag>>
<1> HIDE DEF one
<1>2. /\ one \o s \in Seq(Block) /\ Len(one \o s) = 1 + n
      /\ \A i \in 1 .. 1 + n : (one \o s)[i] = IF i <= 1 THEN one[i] ELSE s[i - 1]
  BY <1>1, ConcatProperties DEF one
<1>3. \A i \in 2 .. n + 1 : (one \o s)[i] = s[i - 1] /\ i - 1 \in 1 .. n
  BY <1>2
<1>4. (one \o s)[1] = tag
  BY <1>1, <1>2 DEF one
<1>5. Piece(one \o s, tag, n)
  BY <1>2, <1>3, <1>4 DEF Piece
<1>6. QED BY <1>5 DEF one

\* Blocks of a kind, one after the other.
LEMMA Blocks ==
  ASSUME NEW n \in Nat, NEW f \in [1 .. n -> Block]
  PROVE  f \in Seq(Block) /\ Len(f) = n
OBVIOUS

\* Blocks in the clear and enciphered blocks are blocks.
LEMMA BlockKinds ==
  /\ \A v \in Nat : Plain(v) \in Block /\ Plain(v).type = "plain"
  /\ \A s \in Seq(Int) : Cipher(s) \in Block /\ Cipher(s).type = "cipher" /\ Cipher(s).of = s
  /\ \A magic \in Magics : \A n, m \in Nat :
        TagOf(magic, n, m) \in Block /\ TagOf(magic, n, m).type = "tag"
<1>1. "" \in Magics /\ <<>> \in Seq(Int)
  BY EmptySeq DEF Magics
<1>2. QED BY <1>1 DEF Plain, Cipher, TagOf, Block

\* An element whose data is not looked into is a piece of an image.
LEMMA RawPiece ==
  ASSUME NEW magic \in Magics
  PROVE  Piece(Raw(magic), TagOf(magic, RawBlocks, RawBlocks), RawBlocks)
<1> DEFINE s == [i \in 1 .. RawBlocks |-> Plain(0)]
<1>1. s \in [1 .. RawBlocks -> Block] /\ \A i \in 1 .. RawBlocks : s[i].type # "tag"
  BY BlockKinds
<1>2. RawBlocks \in Nat /\ TagOf(magic, RawBlocks, RawBlocks) \in Block
  BY BlockKinds
<1> HIDE DEF s
<1>3. s \in Seq(Block) /\ Len(s) = RawBlocks
  BY <1>1, <1>2, Blocks
<1>4. Piece(<<TagOf(magic, RawBlocks, RawBlocks)>> \o s, TagOf(magic, RawBlocks, RawBlocks), RawBlocks)
  BY <1>1, <1>2, <1>3, MakePiece
<1>5. QED BY <1>4 DEF Raw, s

\* So is a KBAG element, which says how the keys are wrapped.
LEMMA KbagPiece ==
  Piece(Kbag, TagOf("KBAG", 1, 1), 1) /\ Kbag[2] = Plain(1)
<1> DEFINE tag == TagOf("KBAG", 1, 1)
           block == Plain(1)
<1>1. tag \in Block /\ block \in Block /\ block.type # "tag"
  BY BlockKinds DEF Magics
<1> HIDE DEF tag, block
<1>2. Piece(<<tag, block>>, tag, 1) /\ <<tag, block>>[2] = block
  BY <1>1 DEF Piece
<1>3. QED BY <1>2 DEF Kbag, tag, block

\* So is the DATA element, enciphered or not.
LEMMA DataPiece ==
  ASSUME NEW encrypted \in BOOLEAN
  PROVE  Piece(Data(encrypted), TagOf("DATA", DataBlocks + Rest, Span), Span)
<1> DEFINE f == [i \in 1 .. Span |->
                    IF encrypted /\ i <= Covered THEN Cipher([j \in 1 .. i |-> 0]) ELSE Plain(0)]
           tag == TagOf("DATA", DataBlocks + Rest, Span)
<1>1. f \in [1 .. Span -> Block] /\ \A i \in 1 .. Span : f[i].type # "tag"
  <2>1. \A i \in 1 .. Span : [j \in 1 .. i |-> 0] \in Seq(Int)
    BY SpanFacts
  <2>2. QED BY <2>1, BlockKinds
<1>2. Span \in Nat /\ tag \in Block
  <2>1. Span \in Nat /\ DataBlocks + Rest \in Nat /\ "DATA" \in Magics
    BY SpanFacts DEF Magics
  <2>2. QED BY <2>1, BlockKinds
<1>3. Data(encrypted) = <<tag>> \o f
  BY DEF Data
<1> HIDE DEF f, tag
<1>4. f \in Seq(Block) /\ Len(f) = Span
  BY <1>1, <1>2, Blocks
<1>5. Piece(<<tag>> \o f, tag, Span)
  BY <1>1, <1>2, <1>4, MakePiece
<1>6. QED BY <1>3, <1>5 DEF tag

\* One piece behind the other: the tags of both, and no others.
LEMMA JoinPieces ==
  ASSUME NEW s \in Seq(Block), NEW t, NEW tag, NEW n \in Nat, Piece(t, tag, n)
  PROVE  /\ s \o t \in Seq(Block) /\ Len(s \o t) = Len(s) + n + 1 /\ Len(s) \in Nat
         /\ \A i \in 1 .. Len(s) : (s \o t)[i] = s[i]
         /\ (s \o t)[Len(s) + 1] = tag
         /\ \A i \in Len(s) + 2 .. Len(s) + n + 1 :
               (s \o t)[i] = t[i - Len(s)] /\ (s \o t)[i].type # "tag"
<1> DEFINE st == s \o t
<1>1. t \in Seq(Block) /\ Len(t) = n + 1 /\ t[1] = tag /\ \A i \in 2 .. n + 1 : t[i].type # "tag"
  BY DEF Piece
<1>2. /\ st \in Seq(Block) /\ Len(st) = Len(s) + (n + 1) /\ Len(s) \in Nat
      /\ \A i \in 1 .. Len(s) + (n + 1) : st[i] = IF i <= Len(s) THEN s[i] ELSE t[i - Len(s)]
  <2>1. /\ st \in Seq(Block) /\ Len(st) = Len(s) + Len(t)
        /\ \A i \in 1 .. Len(s) + Len(t) : st[i] = IF i <= Len(s) THEN s[i] ELSE t[i - Len(s)]
    BY <1>1, ConcatProperties
  <2>2. Len(s) \in Nat
    OBVIOUS
  <2> HIDE DEF st
  <2>3. QED BY <1>1, <2>1, <2>2
<1> HIDE DEF st
<1>3. \A i \in 1 .. Len(s) : st[i] = s[i]
  BY <1>2
<1>4. \A i \in Len(s) + 1 .. Len(s) + n + 1 : st[i] = t[i - Len(s)] /\ i - Len(s) \in 1 .. n + 1
  BY <1>2
<1>5. st[Len(s) + 1] = tag
  <2>1. Len(s) + 1 \in Len(s) + 1 .. Len(s) + n + 1 /\ Len(s) + 1 - Len(s) = 1
    BY <1>2
  <2>2. QED BY <1>1, <1>4, <2>1
<1>6. \A i \in Len(s) + 2 .. Len(s) + n + 1 : st[i] = t[i - Len(s)] /\ st[i].type # "tag"
  <2>1. \A i \in Len(s) + 2 .. Len(s) + n + 1 :
           i \in Len(s) + 1 .. Len(s) + n + 1 /\ i - Len(s) \in 2 .. n + 1
    BY <1>2
  <2>2. QED BY <1>1, <1>4, <2>1
<1>7. QED BY <1>2, <1>3, <1>5, <1>6 DEF st

\* The images that a volume is made of.
LEMMA InitShape ==
  ASSUME Init
  PROVE  \E bag \in {0, 2} : Shape(file, bag)
<1>1. PICK encrypted \in BOOLEAN :
         file = Raw("TYPE") \o (IF encrypted THEN Kbag ELSE <<>>) \o Data(encrypted) \o Raw("SHSH")
  BY DEF Init
<1> DEFINE bag == IF encrypted THEN 2 ELSE 0
           first == Raw("TYPE")
           kbag == IF encrypted THEN Kbag ELSE <<>>
           data == Data(encrypted)
           front == first \o kbag
           body == front \o data
           dataTag == TagOf("DATA", DataBlocks + Rest, Span)
           typeTag == TagOf("TYPE", RawBlocks, RawBlocks)
           sealTag == TagOf("SHSH", RawBlocks, RawBlocks)
           bagTag == TagOf("KBAG", 1, 1)
<1>2. Piece(first, typeTag, RawBlocks) /\ Piece(Raw("SHSH"), sealTag, RawBlocks)
      /\ Piece(data, dataTag, Span)
  BY RawPiece, DataPiece DEF Magics
<1>3. RawBlocks \in Nat \ {0} /\ DataBlocks \in Nat \ {0} /\ Rest \in Nat /\ bag \in {0, 2}
      /\ Span \in Nat
  BY SpanFacts
<1>4. typeTag.type = "tag" /\ sealTag.type = "tag" /\ dataTag.type = "tag" /\ bagTag.type = "tag"
  BY DEF TagOf
<1> HIDE DEF dataTag, typeTag, sealTag, bagTag
<1>5. /\ front \in Seq(Block) /\ Len(front) = RawBlocks + 1 + bag
      /\ front[1] = typeTag
      /\ \A i \in 2 .. RawBlocks + 1 : front[i].type # "tag"
      /\ bag = 2 => /\ front[RawBlocks + 2] = bagTag
                    /\ front[RawBlocks + 3] = Plain(1) /\ front[RawBlocks + 3].type # "tag"
  <2>1. first \in Seq(Block) /\ Len(first) = RawBlocks + 1 /\ first[1] = typeTag
        /\ \A i \in 2 .. RawBlocks + 1 : first[i].type # "tag"
    BY <1>2 DEF Piece
  <2>2. CASE encrypted
    <3>1. bag = 2 /\ kbag = Kbag
      BY <2>2
    <3> HIDE DEF first, kbag
    <3>2. Piece(kbag, bagTag, 1) /\ kbag[2] = Plain(1)
      BY <3>1, KbagPiece DEF bagTag
    <3>3. /\ front \in Seq(Block) /\ Len(front) = Len(first) + 1 + 1
          /\ \A i \in 1 .. Len(first) : front[i] = first[i]
          /\ front[Len(first) + 1] = bagTag
          /\ \A i \in Len(first) + 2 .. Len(first) + 1 + 1 :
               front[i] = kbag[i - Len(first)] /\ front[i].type # "tag"
      <4>1. first \in Seq(Block) /\ Piece(kbag, bagTag, 1) /\ 1 \in Nat
        BY <2>1, <3>2
      <4>2. /\ first \o kbag \in Seq(Block) /\ Len(first \o kbag) = Len(first) + 1 + 1
            /\ \A i \in 1 .. Len(first) : (first \o kbag)[i] = first[i]
            /\ (first \o kbag)[Len(first) + 1] = bagTag
            /\ \A i \in Len(first) + 2 .. Len(first) + 1 + 1 :
                  (first \o kbag)[i] = kbag[i - Len(first)] /\ (first \o kbag)[i].type # "tag"
        BY ONLY <4>1, JoinPieces
      <4>3. QED BY <4>2
    <3> HIDE DEF front, bag
    <3>4. RawBlocks + 3 \in Len(first) + 2 .. Len(first) + 1 + 1 /\ RawBlocks + 3 - Len(first) = 2
      BY <1>3, <2>1
    <3>5. front[RawBlocks + 3] = Plain(1) /\ front[RawBlocks + 3].type # "tag"
      BY <3>2, <3>3, <3>4
    <3>6. Len(front) = RawBlocks + 1 + bag /\ front[RawBlocks + 2] = bagTag
      BY <1>3, <2>1, <3>1, <3>3
    <3>7. front[1] = typeTag /\ \A i \in 2 .. RawBlocks + 1 : front[i].type # "tag"
      BY <1>3, <2>1, <3>3
    <3>8. QED BY <3>3, <3>5, <3>6, <3>7
  <2>3. CASE ~encrypted
    <3>1. bag = 0 /\ kbag = <<>>
      BY <2>3
    <3> HIDE DEF first, kbag
    <3>2. front = first
      BY <2>1, <3>1, ConcatEmptySeq
    <3> HIDE DEF front, bag
    <3>3. QED BY <1>3, <2>1, <3>1, <3>2
  <2>4. QED BY <2>2, <2>3
<1> DEFINE size == Span
           seal == Raw("SHSH")
<1>6. size \in Nat /\ size = Span /\ Piece(data, dataTag, size) /\ Piece(seal, sealTag, RawBlocks)
  BY <1>2, <1>3
<1> HIDE DEF bag, first, kbag, data, front, size, seal
<1>7. /\ body \in Seq(Block) /\ Len(body) = Len(front) + size + 1
      /\ \A i \in 1 .. Len(front) : body[i] = front[i]
      /\ body[Len(front) + 1] = dataTag
      /\ \A i \in Len(front) + 2 .. Len(front) + size + 1 : body[i].type # "tag"
  <2>1. front \in Seq(Block) /\ size \in Nat /\ Piece(data, dataTag, size)
    BY <1>6, <1>5
  <2>2. /\ front \o data \in Seq(Block) /\ Len(front \o data) = Len(front) + size + 1 /\ Len(front) \in Nat
        /\ \A i \in 1 .. Len(front) : (front \o data)[i] = front[i]
        /\ (front \o data)[Len(front) + 1] = dataTag
        /\ \A i \in Len(front) + 2 .. Len(front) + size + 1 :
              (front \o data)[i] = data[i - Len(front)] /\ (front \o data)[i].type # "tag"
    BY ONLY <2>1, JoinPieces
  <2>3. QED BY <2>2
<1> HIDE DEF body
<1>8. /\ file \in Seq(Block) /\ Len(file) = Len(body) + RawBlocks + 1
      /\ \A i \in 1 .. Len(body) : file[i] = body[i]
      /\ file[Len(body) + 1] = sealTag
      /\ \A i \in Len(body) + 2 .. Len(body) + RawBlocks + 1 : file[i].type # "tag"
  <2>1. file = body \o seal
    BY <1>1 DEF body, front, first, kbag, data, seal
  <2>2. RawBlocks \in Nat /\ body \in Seq(Block) /\ Piece(seal, sealTag, RawBlocks)
    BY <1>6, <1>7
  <2>3. /\ body \o seal \in Seq(Block) /\ Len(body \o seal) = Len(body) + RawBlocks + 1 /\ Len(body) \in Nat
        /\ \A i \in 1 .. Len(body) : (body \o seal)[i] = body[i]
        /\ (body \o seal)[Len(body) + 1] = sealTag
        /\ \A i \in Len(body) + 2 .. Len(body) + RawBlocks + 1 :
              (body \o seal)[i] = seal[i - Len(body)] /\ (body \o seal)[i].type # "tag"
    BY ONLY <2>2, JoinPieces
  <2>4. QED BY <2>1, <2>3
<1> DEFINE dp == DataPlace(bag)
           sp == SealPlace(bag)
<1>9. dp = Len(front) + 1 /\ sp = Len(body) + 1 /\ dp = RawBlocks + 2 + bag
      /\ sp = dp + size + 1 /\ dp \in Nat /\ sp \in Nat /\ bag \in Nat
  BY <1>6, <1>3, <1>5, <1>7 DEF DataPlace, SealPlace
<1> HIDE DEF dp, sp
<1>10. /\ file \in Seq(Block) /\ Len(file) = sp + RawBlocks
       /\ file[1] = typeTag /\ file[dp] = dataTag /\ file[sp] = sealTag
       /\ bag = 2 => file[RawBlocks + 2] = bagTag /\ file[RawBlocks + 3] = Plain(1)
  <2>1. 1 \in 1 .. Len(front) /\ (bag = 2 => RawBlocks + 2 \in 1 .. Len(front) /\ RawBlocks + 3 \in 1 .. Len(front))
    <3>1. Len(front) = RawBlocks + 1 + bag /\ bag \in Nat /\ RawBlocks \in Nat
      BY <1>5, <1>9
    <3>2. QED BY <3>1
  <2>2. \A i \in 1 .. Len(front) : i \in 1 .. Len(body) /\ file[i] = front[i]
    BY <1>7, <1>8, <1>9, <1>6
  <2>3. dp \in 1 .. Len(body)
    BY <1>9, <1>6
  <2>4. file[dp] = dataTag
    BY <1>7, <1>8, <1>9, <2>3
  <2>5. file[sp] = sealTag
    BY <1>8, <1>9
  <2>6. Len(file) = sp + RawBlocks
    BY <1>3, <1>8, <1>9
  <2>7. QED BY <1>5, <1>8, <2>1, <2>2, <2>4, <2>5, <2>6
<1>11. \A i \in 1 .. Len(file) : file[i].type = "tag" <=> i \in TagPlaces(bag)
  <2>1. TagPlaces(bag) = {1, dp, sp} \cup (IF bag = 2 THEN {RawBlocks + 2} ELSE {})
    BY DEF TagPlaces, dp, sp
  <2>2. \A i \in TagPlaces(bag) : file[i].type = "tag"
    BY <1>4, <1>10, <2>1
  <2>3. ASSUME NEW i \in 1 .. Len(file), i \notin TagPlaces(bag) PROVE file[i].type # "tag"
    <3>1. i # 1 /\ i # dp /\ i # sp /\ (bag = 2 => i # RawBlocks + 2)
      BY <2>1, <2>3
    <3>2. CASE i < dp
      <4>1. i \in 2 .. RawBlocks + 1 \/ (bag = 2 /\ i = RawBlocks + 3)
        BY <1>3, <1>9, <3>1, <3>2
      <4>2. file[i] = front[i]
        <5>1. i \in 1 .. Len(front)
          BY <1>9, <3>2
        <5>2. i \in 1 .. Len(body)
          BY <1>9, <1>6, <3>2
        <5>3. QED BY <1>7, <1>8, <5>1, <5>2
      <4>3. QED BY <1>5, <4>1, <4>2
    <3>3. CASE i > dp /\ i < sp
      <4>1. i \in Len(front) + 2 .. Len(front) + size + 1
        BY <1>9, <1>6, <3>3
      <4>2. i \in 1 .. Len(body)
        BY <1>9, <3>3
      <4>3. QED BY <1>7, <1>8, <4>1, <4>2
    <3>4. CASE i > sp
      BY <1>3, <1>8, <1>9, <1>10, <3>4
    <3>5. QED BY <1>9, <3>1, <3>2, <3>3, <3>4
  <2>4. QED BY <2>2, <2>3
<1>12. \A i \in TagPlaces(bag) : file[i] = TagAt(bag, i)
  <2>1. TagPlaces(bag) = {1, dp, sp} \cup (IF bag = 2 THEN {RawBlocks + 2} ELSE {})
    BY DEF TagPlaces, dp, sp
  <2>2. dp # 1 /\ sp # 1 /\ sp # dp /\ RawBlocks + 2 # 1
        /\ (bag = 2 => RawBlocks + 2 # dp /\ RawBlocks + 2 # sp)
    BY <1>3, <1>9, <1>6
  <2>3. TagAt(bag, 1) = typeTag /\ TagAt(bag, dp) = dataTag /\ TagAt(bag, sp) = sealTag
        /\ (bag = 2 => TagAt(bag, RawBlocks + 2) = bagTag)
    BY <2>2 DEF TagAt, typeTag, dataTag, sealTag, bagTag, dp, sp
  <2>4. QED BY <1>10, <2>1, <2>3
<1>13. Shape(file, bag)
  BY <1>10, <1>11, <1>12 DEF Shape, sp
<1>14. QED BY <1>3, <1>13

-----------------------------------------------------------------------------
(* The inductive invariant *)

\* DATA is in memory; it starts here in the file.
Start == DataPlace(2) + 1
InMemoryData == Has(elements, "KBAG") /\ Has(elements, "DATA")
DB(image, k) == DecryptedBlock(image, Start, k)

\* The table of elements is what is in the file.
TableInv(bag) ==
    /\ Shape(file, bag)
    /\ mounts \in Nat
    /\ mounts = 0 => state = "unmounted" /\ elements = <<>>
    /\ mounts > 0 => elements = Parse(file)
    /\ aes = Has(elements, "KBAG")

CallType == [pc : {"idle", "copy", "seek", "transfer"}, op : {"", "read", "write"}, e : Nat,
             off : Nat, end : Nat, val : Nat, overlapped : BOOLEAN]

\* A thread works in its element, and in memory or at the descriptor's offset.
CallInv(c) ==
    /\ c \in CallType
    /\ c.pc # "idle" =>
          /\ state = "mounted"
          /\ c.e \in DOMAIN elements
          /\ c.off < c.end /\ c.end <= elements[c.e].len
          /\ c.op = "write" => elements[c.e].magic # "KBAG"
          /\ c.pc = "copy" <=> InMemory(c.e)
    /\ c.pc = "transfer" /\ ~c.overlapped => pos = elements[c.e].at + c.off

ThreadInv == thread \in [Threads -> CallType] /\ \A t \in Threads : CallInv(thread[t])

\* The blocks in front of the next one to write back are new, those behind it old.
Closing ==
    /\ died /\ decrypted = kept
    /\ left \in 1 .. Covered
    /\ \A k \in 1 .. Covered - left : file[Start + k - 1] = Cipher(SubSeq(kept, 1, k))
    /\ \A k \in Whole : k > Covered - left + 1 => DB(file, k) = old[k]

Torn == \E k \in Whole : \A j \in Whole :
            (j < k => DB(file, j) = kept[j]) /\ (j > k => DB(file, j) = old[j])

DataInv ==
    /\ state \in {"unmounted", "mounted", "closing"} /\ modified \in BOOLEAN /\ died \in BOOLEAN
    /\ ~InMemoryData => decrypted = <<>> /\ kept = <<>> /\ ~died /\ state # "closing"
    /\ InMemoryData =>
          /\ decrypted \in [1 .. Span -> Int]
          /\ state = "unmounted" /\ ~died => \A k \in Whole : DB(file, k) = kept[k]
          /\ state = "mounted" /\ ~modified => \A k \in Whole : decrypted[k] = DB(file, k)
          /\ state = "mounted" /\ ~died /\ mounts > 1 => \A k \in Whole : DB(file, k) = kept[k]
          /\ state = "closing" => Closing
          /\ died => Torn

ImageInv(bag) == TableInv(bag) /\ ThreadInv /\ DataInv

\* As long as no write went astray.
Inv == spoilt \in BOOLEAN /\ (spoilt \/ \E bag \in {0, 2} : ImageInv(bag))

-----------------------------------------------------------------------------
(* Blocks of DATA *)

\* The sizes of the image and of its elements are natural numbers.
LEMMA Numbers ==
  /\ RawBlocks \in Nat /\ RawBlocks > 0 /\ DataBlocks \in Nat /\ DataBlocks > 0 /\ Rest \in {0, 1}
  /\ Span \in Nat /\ DataBlocks + Rest <= Span /\ Covered \in DataBlocks .. Span
  /\ Start \in Nat /\ Start = RawBlocks + 5
  /\ DataPlace(2) = Start - 1 /\ SealPlace(2) = Start + Span
BY SpanFacts DEF Start, DataPlace, SealPlace

\* What is decrypted depends on a block and the one in front of it.
LEMMA DBSame ==
  ASSUME NEW image, NEW next, NEW k \in Whole,
         next[Start + k - 1] = image[Start + k - 1],
         k > 1 => next[Start + k - 2] = image[Start + k - 2]
  PROVE  DB(next, k) = DB(image, k)
<1> DEFINE c == image[Start + k - 1]
           b == image[Start + k - 2]
           ok(d, a) == d.type = "cipher" /\ Len(d.of) = k /\ (k > 1 => a = Cipher(Front(d.of)))
<1>1. DB(image, k) = IF ok(c, b) THEN Last(c.of) ELSE Junk
  BY DEF DB, DecryptedBlock
<1>2. DB(next, k) = IF ok(next[Start + k - 1], next[Start + k - 2])
                    THEN Last(next[Start + k - 1].of) ELSE Junk
  BY DEF DB, DecryptedBlock
<1>3. ok(next[Start + k - 1], next[Start + k - 2]) <=> ok(c, b)
  OBVIOUS
<1> HIDE DEF ok
<1>4. QED BY <1>1, <1>2, <1>3

\* What a block that the total length covers decrypts to is a block's content.
LEMMA DBType ==
  ASSUME NEW image, Shape(image, 2), NEW k \in 1 .. Covered
  PROVE  DB(image, k) \in Int
<1> DEFINE c == image[Start + k - 1]
<1>1. image \in Seq(Block) /\ Len(image) = Start + Span + RawBlocks
  BY Numbers DEF Shape
<1>2. k \in Nat /\ k > 0 /\ k <= Span
  BY Numbers
<1>3. Start + k - 1 \in 1 .. Len(image)
  BY <1>1, <1>2, Numbers
<1>4. c \in Block
  BY <1>1, <1>3
<1> HIDE DEF c
<1>5. c.of \in Seq(Int)
  BY <1>4 DEF Block
<1>6. CASE DB(image, k) = Junk
  BY <1>6 DEF Junk
<1>7. CASE DB(image, k) # Junk
  <2>1. DB(image, k) = Last(c.of) /\ Len(c.of) = k
    BY <1>7 DEF DB, DecryptedBlock, c
  <2>2. c.of[k] \in Int
    BY <1>2, <1>5, <2>1
  <2>3. QED BY <2>1, <2>2 DEF Last
<1>8. QED BY <1>6, <1>7

\* A block that is chained to the one in front of it comes back.
LEMMA DBChained ==
  ASSUME NEW image, NEW s \in [1 .. Span -> Int], NEW k \in Whole,
         image[Start + k - 1] = Cipher(SubSeq(s, 1, k)),
         k > 1 => image[Start + k - 2] = Cipher(SubSeq(s, 1, k - 1))
  PROVE  DB(image, k) = s[k]
<1>1. k \in Nat /\ k > 0 /\ k <= Span /\ Span \in Nat
  BY Numbers DEF Whole
<1>2. s \in Seq(Int) /\ Len(s) = Span
  BY <1>1
<1> DEFINE part == SubSeq(s, 1, k)
<1>3. part \in Seq(Int) /\ Len(part) = k /\ part[k] = s[k]
  BY <1>1, <1>2
<1>4. SubSeq(part, 1, k - 1) = SubSeq(s, 1, k - 1)
  <2>1. \A i \in 1 .. k - 1 : part[i] = s[i]
    BY <1>1, <1>2
  <2> HIDE DEF part
  <2>2. SubSeq(part, 1, k - 1) = [i \in 1 .. k - 1 |-> part[i]] /\ SubSeq(s, 1, k - 1) = [i \in 1 .. k - 1 |-> s[i]]
    BY <1>1, <1>2, <1>3
  <2>3. QED BY <2>1, <2>2
<1>5. Cipher(part).type = "cipher" /\ Cipher(part).of = part
  BY DEF Cipher
<1> HIDE DEF part
<1>6. Front(part) = SubSeq(s, 1, k - 1) /\ Last(part) = s[k]
  BY <1>3, <1>4 DEF Front, Last
<1>7. QED BY <1>3, <1>5, <1>6 DEF DB, DecryptedBlock, part

\* What is between two tags is no tag, and DATA and the KBAG only behind their own.
LEMMA TagGaps ==
  ASSUME NEW bag \in {0, 2}, NEW i \in TagPlaces(bag), NEW p \in i + 1 .. i + TagAt(bag, i).len
  PROVE  /\ p \in Nat /\ p > 0 /\ p <= SealPlace(bag) + RawBlocks
         /\ p \notin TagPlaces(bag)
         /\ bag = 2 /\ TagAt(bag, i).magic # "KBAG" => p # RawBlocks + 3
         /\ bag = 2 /\ TagAt(bag, i).magic # "DATA" => p \notin Start .. Start + Span - 1
<1> DEFINE tag == TagAt(bag, i)
           dp == DataPlace(bag)
           sp == SealPlace(bag)
<1>1. RawBlocks \in Nat /\ RawBlocks > 0 /\ Span \in Nat /\ Span > 0 /\ Start \in Nat /\ bag \in Nat
      /\ DataBlocks + Rest \in Nat /\ DataBlocks + Rest <= Span
      /\ dp \in Nat /\ sp \in Nat /\ dp = RawBlocks + bag + 2 /\ sp = dp + Span + 1
      /\ (bag = 2 => Start = dp + 1)
  BY SpanFacts DEF DataPlace, SealPlace, Start
<1>2. TagPlaces(bag) = {1, dp, sp} \cup (IF bag = 2 THEN {RawBlocks + 2} ELSE {})
  BY DEF TagPlaces
<1>3. i = 1 \/ i = dp \/ i = sp \/ (bag = 2 /\ i = RawBlocks + 2)
  BY <1>2
<1>4. /\ i = dp => tag = TagOf("DATA", DataBlocks + Rest, Span)
      /\ i = 1 /\ i # dp => tag = TagOf("TYPE", RawBlocks, RawBlocks)
      /\ i = sp /\ i # 1 /\ i # dp => tag = TagOf("SHSH", RawBlocks, RawBlocks)
      /\ i # sp /\ i # 1 /\ i # dp => tag = TagOf("KBAG", 1, 1)
  BY DEF TagAt
<1>5. /\ i = dp => tag.magic = "DATA" /\ tag.len = DataBlocks + Rest
      /\ i = 1 => tag.magic = "TYPE" /\ tag.len = RawBlocks
      /\ i = sp => tag.magic = "SHSH" /\ tag.len = RawBlocks
      /\ bag = 2 /\ i = RawBlocks + 2 => tag.magic = "KBAG" /\ tag.len = 1
  <2>1. dp # 1 /\ sp # 1 /\ sp # dp /\ (bag = 2 => RawBlocks + 2 # 1 /\ RawBlocks + 2 # dp /\ RawBlocks + 2 # sp)
    BY <1>1
  <2> HIDE DEF dp, sp, tag
  <2>2. QED BY <1>4, <2>1 DEF TagOf
<1> HIDE DEF dp, sp, tag
<1>6. p \in i + 1 .. i + tag.len
  BY DEF tag
<1>7. /\ p \in Nat /\ p > 0 /\ p <= sp + RawBlocks
      /\ p # 1 /\ p # dp /\ p # sp /\ (bag = 2 => p # RawBlocks + 2)
      /\ bag = 2 /\ tag.magic # "KBAG" => p # RawBlocks + 3
      /\ bag = 2 /\ tag.magic # "DATA" => p \notin Start .. Start + Span - 1
  <2>1. CASE i = 1
    BY <1>1, <1>5, <1>6, <2>1
  <2>2. CASE i = dp
    BY <1>1, <1>5, <1>6, <2>2
  <2>3. CASE i = sp
    BY <1>1, <1>5, <1>6, <2>3
  <2>4. CASE bag = 2 /\ i = RawBlocks + 2
    BY <1>1, <1>5, <1>6, <2>4
  <2>5. QED BY <1>3, <2>1, <2>2, <2>3, <2>4
<1>8. p \notin TagPlaces(bag)
  BY <1>2, <1>7
<1>9. QED BY <1>7, <1>8 DEF sp, tag

-----------------------------------------------------------------------------
(* The steps *)

\* What the invariant says about an element of the table.
LEMMA ElementFacts ==
  ASSUME NEW bag \in {0, 2}, TableInv(bag), NEW e \in DOMAIN elements
  PROVE  /\ mounts > 0 /\ elements = Parse(file) /\ Behind(elements[e], bag)
         /\ elements[e].at \in Nat /\ elements[e].len \in Nat
         /\ InMemory(e) => /\ InMemoryData
                           /\ elements[e].len = DataBlocks + Rest
         /\ InMemoryData /\ ~InMemory(e) => elements[e].magic # "DATA"
<1>1. mounts > 0 /\ elements = Parse(file) /\ mounts \in Nat
  <2>1. mounts \in Nat /\ (mounts = 0 => elements = <<>>) /\ (mounts > 0 => elements = Parse(file))
    BY DEF TableInv
  <2>2. elements # <<>>
    OBVIOUS
  <2>3. QED BY <2>1, <2>2
<1>2. Behind(elements[e], bag)
  BY <1>1, ParseBehind DEF TableInv
<1>3. elements[e].at \in Nat /\ elements[e].len \in Nat /\ elements[e].at - 1 \in TagPlaces(bag)
      /\ elements[e].magic = TagAt(bag, elements[e].at - 1).magic
      /\ elements[e].len = TagAt(bag, elements[e].at - 1).len
  BY <1>2 DEF Behind, Elem
<1>4. elements[e].magic = "DATA" => elements[e].len = DataBlocks + Rest
  BY <1>3, TagFacts
<1>5. InMemory(e) <=> Has(elements, "KBAG") /\ elements[e].magic = "DATA"
  BY DEF InMemory, TableInv
<1>6. elements[e].magic = "DATA" => Has(elements, "DATA")
  BY DEF Has, Places
<1>7. QED BY <1>1, <1>2, <1>3, <1>4, <1>5, <1>6 DEF InMemoryData

\* DATA in memory is the one of an encrypted image.
LEMMA MemoryFacts ==
  ASSUME NEW bag \in {0, 2}, TableInv(bag), InMemoryData
  PROVE  /\ bag = 2 /\ mounts > 0 /\ Shape(file, 2)
         /\ Element(elements, "DATA").at = Start /\ Element(elements, "DATA").span = Span
<1>1. elements # <<>>
  BY DEF InMemoryData, Has, Places
<1>2. mounts \in Nat /\ mounts > 0 /\ elements = Parse(file) /\ Shape(file, bag)
  BY <1>1 DEF TableInv
<1>3. bag = 2
  BY <1>2, KbagFacts DEF InMemoryData
<1>4. QED BY <1>2, <1>3, DataFacts DEF InMemoryData, Start

\* A file of one of the forms that ipsw files have satisfies the invariant.
LEMMA InitInv ==
  ASSUME Init
  PROVE  Inv
<1>1. PICK bag \in {0, 2} : Shape(file, bag)
  BY InitShape
<1>2. Has(elements, "KBAG") = FALSE
  BY DEF Init, Has, Places
<1>3. TableInv(bag)
  <2>1. aes = Has(elements, "KBAG")
    BY <1>2 DEF Init
  <2>2. mounts = 0 /\ state = "unmounted" /\ elements = <<>>
    BY DEF Init
  <2>3. QED BY <1>1, <2>1, <2>2 DEF TableInv
<1>4. Idle \in CallType /\ Idle.pc = "idle"
  BY DEF Idle, CallType
<1>5. ThreadInv
  <2>1. thread \in [Threads -> CallType] /\ \A t \in Threads : thread[t] = Idle
    BY <1>4 DEF Init
  <2>2. QED BY <1>4, <2>1 DEF ThreadInv, CallInv
<1>6. DataInv
  BY <1>2 DEF Init, DataInv, InMemoryData
<1>7. spoilt \in BOOLEAN
  BY DEF Init
<1>8. QED BY <1>3, <1>5, <1>6, <1>7 DEF Inv, ImageInv

\* A step that leaves everything alone keeps it.
LEMMA StutterInv ==
  ASSUME NEW bag, ImageInv(bag), UNCHANGED vars
  PROVE  ImageInv(bag)'
BY DEF ImageInv, TableInv, ThreadInv, CallInv, DataInv, Closing, Torn, InMemoryData, InMemory, vars

\* Mounting an image parses it as its last unmounting has left it.
LEMMA MountInv ==
  ASSUME NEW bag \in {0, 2}, ImageInv(bag), Mount
  PROVE  ImageInv(bag)'
<1>1. TableInv(bag) /\ ThreadInv /\ DataInv
  BY DEF ImageInv
<1>2. /\ state = "unmounted" /\ file' = file /\ elements' = Parse(file) /\ mounts' = mounts + 1
      /\ aes' = AesType(file, elements') /\ state' = "mounted" /\ modified' = FALSE
      /\ UNCHANGED <<thread, kept, old, died>>
      /\ decrypted' = IF aes' /\ Has(elements', "DATA") THEN DecryptedData(file, Element(elements', "DATA")) ELSE <<>>
  BY DEF Mount
<1>3. Shape(file, bag) /\ mounts \in Nat
  BY <1>1 DEF TableInv
<1>4. aes' = Has(elements', "KBAG") /\ (Has(elements', "KBAG") => bag = 2)
  BY <1>2, <1>3, KbagFacts
<1>5. TableInv(bag)'
  BY <1>2, <1>3, <1>4 DEF TableInv
<1>6. ThreadInv'
  <2>1. \A t \in Threads : thread[t] \in CallType /\ thread[t].pc = "idle"
    BY <1>1, <1>2 DEF ThreadInv, CallInv
  <2>2. QED BY <1>1, <1>2, <2>1 DEF ThreadInv, CallInv
<1>7. InMemoryData => InMemoryData' /\ mounts > 0
  BY <1>1, <1>2, MemoryFacts DEF InMemoryData, TableInv
<1>8. InMemoryData' /\ mounts > 0 => InMemoryData
  BY <1>1, <1>2 DEF InMemoryData, TableInv
<1>9. DataInv'
  <2>1. CASE ~InMemoryData'
    <3>1. decrypted' = <<>> /\ kept' = <<>> /\ ~died' /\ state' # "closing"
      BY <1>1, <1>2, <1>4, <1>7, <2>1 DEF DataInv, InMemoryData
    <3>2. QED BY <1>1, <1>2, <2>1, <3>1 DEF DataInv
  <2>2. CASE InMemoryData'
    <3> DEFINE e == Element(Parse(file), "DATA")
    <3>1. bag = 2 /\ e.at = Start /\ e.span = Span
      BY <1>2, <1>3, <1>4, <2>2, DataFacts DEF InMemoryData, Start
    <3>2. decrypted' = [k \in 1 .. Span |-> IF k <= Covered THEN DB(file, k) ELSE Junk]
      BY <1>2, <1>4, <2>2, <3>1 DEF InMemoryData, DecryptedData, DB
    <3> HIDE DEF e
    <3>3. \A k \in Whole : k \in 1 .. Span /\ k <= Covered
      BY Numbers DEF Whole
    <3>4. \A k \in 1 .. Span : k <= Covered => DB(file, k) \in Int
      BY <1>3, <3>1, DBType, Numbers
    <3>5. decrypted' \in [1 .. Span -> Int] /\ \A k \in Whole : decrypted'[k] = DB(file, k)
      <4>1. Junk \in Int
        BY DEF Junk
      <4>2. QED BY <3>2, <3>3, <3>4, <4>1
    <3>6. mounts' > 1 => mounts > 0
      BY <1>2, <1>3
    <3>7. died' => Torn'
      BY <1>1, <1>2 DEF DataInv, Torn
    <3>8. ~died' /\ mounts' > 1 => \A k \in Whole : DB(file, k) = kept'[k]
      BY <1>1, <1>2, <1>8, <2>2, <3>6 DEF DataInv
    <3>9. QED BY <1>1, <1>2, <2>2, <3>5, <3>7, <3>8 DEF DataInv
  <2>3. QED BY <2>1, <2>2
<1>10. QED BY <1>5, <1>6, <1>9 DEF ImageInv

\* A call of a thread that begins or returns keeps it.
LEMMA CallsInv ==
  ASSUME NEW bag \in {0, 2}, ImageInv(bag), Calls
  PROVE  ImageInv(bag)'
<1>1. TableInv(bag) /\ ThreadInv /\ DataInv
  BY DEF ImageInv
<1>2. PICK t \in Threads, e \in DOMAIN elements, v \in Values, op \in {"read", "write"} :
         \E off \in 0 .. elements[e].len - 1 : \E n \in 1 .. elements[e].len - off :
            /\ elements[e].magic = "KBAG" => op = "read"
            /\ Call(t, op, e, off, n, v)
  BY DEF Calls
<1>3. PICK off \in 0 .. elements[e].len - 1 : \E n \in 1 .. elements[e].len - off :
         (elements[e].magic = "KBAG" => op = "read") /\ Call(t, op, e, off, n, v)
  BY <1>2
<1>4. PICK n \in 1 .. elements[e].len - off :
         (elements[e].magic = "KBAG" => op = "read") /\ Call(t, op, e, off, n, v)
  BY <1>3
<1> DEFINE end == IF off + n > elements[e].len THEN elements[e].len ELSE off + n
           pc == IF InMemory(e) THEN "copy" ELSE "seek"
           c == [pc |-> pc, op |-> op, e |-> e, off |-> off, end |-> end, val |-> v, overlapped |-> FALSE]
<1>5. /\ state = "mounted" /\ thread' = [thread EXCEPT ![t] = c]
      /\ UNCHANGED <<file, pos, state, elements, aes, decrypted, modified, left, mounts, kept, old, died>>
  BY <1>4 DEF Call
<1>6. elements[e].len \in Nat /\ e \in Nat
  <2>1. elements \in Seq(Elem)
    BY <1>1, ElementFacts, ParseBehind DEF TableInv
  <2>2. QED BY <1>1, <2>1, ElementFacts
<1>7. off \in Nat /\ end \in Nat /\ off < end /\ end <= elements[e].len
  BY <1>6
<1> HIDE DEF end
<1>8. pc \in {"copy", "seek"} /\ (pc = "copy" <=> InMemory(e))
  OBVIOUS
<1> HIDE DEF pc
<1>9. c \in CallType
  BY <1>6, <1>7, <1>8 DEF CallType
<1>10. /\ c.pc = pc /\ c.op = op /\ c.e = e /\ c.off = off /\ c.end = end /\ c.overlapped = FALSE
       /\ op = "write" => elements[e].magic # "KBAG"
  BY <1>4
<1> HIDE DEF c
<1>11. CallInv(c)
  BY <1>5, <1>7, <1>8, <1>9, <1>10 DEF CallInv
<1>12. ThreadInv'
  <2>1. thread' \in [Threads -> CallType]
    BY <1>1, <1>5, <1>9 DEF ThreadInv
  <2>2. ASSUME NEW u \in Threads PROVE CallInv(thread'[u])
    <3>1. CASE u = t
      BY <1>1, <1>5, <1>11, <3>1 DEF ThreadInv
    <3>2. CASE u # t
      BY <1>1, <1>5, <3>2 DEF ThreadInv
    <3>3. QED BY <3>1, <3>2
  <2>3. ASSUME NEW u \in Threads PROVE CallInv(thread[u])'
    BY <1>5, <2>2 DEF CallInv, InMemory
  <2>4. QED BY <2>1, <2>3 DEF ThreadInv
<1>13. TableInv(bag)'
  BY <1>1, <1>5 DEF TableInv
<1>14. DataInv'
  BY <1>1, <1>5 DEF DataInv, Closing, Torn, InMemoryData
<1>15. QED BY <1>12, <1>13, <1>14 DEF ImageInv

\* A thread that copies from or to the data in memory keeps it.
LEMMA CopyInv ==
  ASSUME NEW bag \in {0, 2}, ImageInv(bag), NEW t \in Threads, Copy(t)
  PROVE  ImageInv(bag)'
<1> DEFINE c == thread[t]
           new == IF c.off + 1 = c.end THEN Idle ELSE [c EXCEPT !.off = c.off + 1]
<1>1. TableInv(bag) /\ ThreadInv /\ DataInv
  BY DEF ImageInv
<1>2. /\ c.pc = "copy" /\ thread' = [thread EXCEPT ![t] = new]
      /\ modified' = (modified \/ c.op = "write")
      /\ decrypted' = IF c.op = "write" THEN [decrypted EXCEPT ![c.off + 1] = c.val] ELSE decrypted
      /\ UNCHANGED <<file, pos, state, elements, aes, left, mounts, kept, old, died>>
  <2>1. c.pc = "copy" /\ UNCHANGED <<file, pos, state, elements, aes, left, mounts, kept, old, died>>
    BY DEF Copy
  <2>2. thread' = [thread EXCEPT ![t] = new]
    <3>1. thread \in [Threads -> CallType] /\ c \in CallType /\ c.off \in Nat
      BY <1>1 DEF ThreadInv, CallType
    <3>2. QED BY <3>1 DEF Copy, CallType
  <2>3. modified' = (modified \/ c.op = "write")
    BY DEF Copy, ModifiedAfter
  <2>4. decrypted' = IF c.op = "write" THEN [decrypted EXCEPT ![c.off + 1] = c.val] ELSE decrypted
    BY DEF Copy
  <2>5. QED BY <2>1, <2>2, <2>3, <2>4
<1>3. c \in CallType /\ CallInv(c)
  BY <1>1 DEF ThreadInv
<1> HIDE DEF c
<1>4. /\ c.off \in Nat /\ c.end \in Nat /\ c.val \in Nat /\ c.off < c.end /\ c.e \in DOMAIN elements
      /\ c.end <= elements[c.e].len /\ InMemory(c.e) /\ state = "mounted"
      /\ c.op = "write" => elements[c.e].magic # "KBAG"
  BY <1>2, <1>3 DEF CallInv, CallType
<1>5. InMemoryData /\ elements[c.e].len <= Span
  BY <1>1, <1>4, ElementFacts, Numbers
<1>6. decrypted' \in [1 .. Span -> Int]
  <2>1. decrypted \in [1 .. Span -> Int]
    BY <1>1, <1>5 DEF DataInv
  <2>2. c.val \in Int
    BY <1>4
  <2>3. QED BY <1>2, <2>1, <2>2
<1>7. CallInv(new)
  <2>1. CASE c.off + 1 = c.end
    BY <2>1 DEF CallInv, CallType, Idle
  <2>2. CASE c.off + 1 # c.end
    <3> DEFINE d == [c EXCEPT !.off = c.off + 1]
    <3>1. c.off + 1 \in Nat
      BY <1>4
    <3>2. d \in CallType
      BY <1>3, <3>1 DEF CallType
    <3>3. /\ d.pc = c.pc /\ d.op = c.op /\ d.e = c.e /\ d.end = c.end /\ d.overlapped = c.overlapped
          /\ d.off = c.off + 1
      BY <1>3 DEF CallType
    <3> HIDE DEF d
    <3>4. d.off < d.end
      BY <1>4, <2>2, <3>3
    <3>5. CallInv(d)
      BY <1>2, <1>4, <3>2, <3>3, <3>4 DEF CallInv
    <3>6. QED BY <2>2, <3>5 DEF d
  <2>3. QED BY <2>1, <2>2
<1> HIDE DEF new
<1>8. ThreadInv'
  <2>1. new \in CallType
    BY <1>7 DEF CallInv
  <2>2. thread' \in [Threads -> CallType]
    BY <1>1, <1>2, <2>1 DEF ThreadInv
  <2>3. ASSUME NEW u \in Threads PROVE CallInv(thread'[u])
    <3>1. CASE u = t
      BY <1>1, <1>2, <1>7, <3>1 DEF ThreadInv
    <3>2. CASE u # t
      BY <1>1, <1>2, <3>2 DEF ThreadInv
    <3>3. QED BY <3>1, <3>2
  <2>4. ASSUME NEW u \in Threads PROVE CallInv(thread[u])'
    BY <1>2, <2>3 DEF CallInv, InMemory
  <2>5. QED BY <2>2, <2>4 DEF ThreadInv
<1>9. TableInv(bag)'
  BY <1>1, <1>2 DEF TableInv
<1>10. DataInv'
  <2>1. InMemoryData'
    BY <1>2, <1>5 DEF InMemoryData
  <2>2. modified' \in BOOLEAN
    BY <1>1, <1>2 DEF DataInv
  <2>3. ~modified' => decrypted' = decrypted /\ ~modified
    BY <1>2
  <2>4. died' => Torn'
    BY <1>1, <1>2, <1>5 DEF DataInv, Torn
  <2>5. QED BY <1>1, <1>2, <1>4, <1>5, <1>6, <2>1, <2>2, <2>3, <2>4 DEF DataInv
<1>11. QED BY <1>8, <1>9, <1>10 DEF ImageInv

\* What moving the descriptor does to the other threads.
LEMMA OverlapInv ==
  ASSUME ThreadInv, NEW t \in Threads, NEW new, Overlap(t, new),
         UNCHANGED <<state, elements, aes>>, CallInv(new)'
  PROVE  ThreadInv'
<1>1. thread \in [Threads -> CallType] /\ \A u \in Threads : CallInv(thread[u])
  BY DEF ThreadInv
<1>2. thread' = [u \in Threads |-> IF u = t THEN new
                    ELSE IF thread[u].pc = "transfer" THEN [thread[u] EXCEPT !.overlapped = TRUE] ELSE thread[u]]
  BY DEF Overlap
<1>3. ASSUME NEW u \in Threads PROVE CallInv(thread[u])'
  <2>1. CASE u = t
    BY <1>2, <2>1 DEF CallInv
  <2>2. CASE u # t /\ thread[u].pc # "transfer"
    <3>1. thread'[u] = thread[u] /\ CallInv(thread[u])
      BY <1>1, <1>2, <2>2
    <3>2. QED BY <2>2, <3>1 DEF CallInv, InMemory
  <2>3. CASE u # t /\ thread[u].pc = "transfer"
    <3> DEFINE c == thread[u]
               d == [c EXCEPT !.overlapped = TRUE]
    <3>1. thread'[u] = d /\ CallInv(c) /\ c \in CallType
      BY <1>1, <1>2, <2>3
    <3> HIDE DEF c
    <3>2. d \in CallType /\ d.pc = c.pc /\ d.op = c.op /\ d.e = c.e /\ d.off = c.off /\ d.end = c.end
          /\ d.overlapped = TRUE
      BY <3>1 DEF CallType
    <3> HIDE DEF d
    <3>3. QED BY <3>1, <3>2 DEF CallInv, InMemory
  <2>4. QED BY <2>1, <2>2, <2>3
<1>4. thread' \in [Threads -> CallType]
  <2>1. \A u \in Threads : thread'[u] \in CallType
    BY <1>3 DEF CallInv
  <2>2. QED BY <1>2, <2>1
<1>5. QED BY <1>3, <1>4 DEF ThreadInv

\* A thread that seeks in the image's file keeps it.
LEMMA SeekInv ==
  ASSUME NEW bag \in {0, 2}, ImageInv(bag), NEW t \in Threads, Seek(t)
  PROVE  ImageInv(bag)'
<1> DEFINE c == thread[t]
           new == [c EXCEPT !.pc = "transfer"]
<1>1. TableInv(bag) /\ ThreadInv /\ DataInv
  BY DEF ImageInv
<1>2. /\ c.pc = "seek" /\ pos' = elements[c.e].at + c.off /\ Overlap(t, new)
      /\ UNCHANGED <<file, state, elements, aes, decrypted, modified, left, mounts, kept, old, died>>
  BY DEF Seek, SeekOffset
<1>3. c \in CallType /\ CallInv(c)
  BY <1>1 DEF ThreadInv
<1> HIDE DEF c
<1>4. new \in CallType /\ new.pc = "transfer" /\ new.op = c.op /\ new.e = c.e /\ new.off = c.off /\ new.end = c.end
  BY <1>3 DEF CallType
<1> HIDE DEF new
<1>5. PICK d : d = new
  OBVIOUS
<1>6. CallInv(d)'
  BY <1>2, <1>3, <1>4, <1>5 DEF CallInv, InMemory
<1>7. ThreadInv'
  <2>1. Overlap(t, d) /\ UNCHANGED <<state, elements, aes>>
    BY <1>2, <1>5
  <2>2. QED BY <1>1, <1>6, <2>1, OverlapInv
<1>8. TableInv(bag)'
  BY <1>1, <1>2 DEF TableInv
<1>9. DataInv'
  BY <1>1, <1>2 DEF DataInv, Closing, Torn, InMemoryData
<1>10. QED BY <1>7, <1>8, <1>9 DEF ImageInv

\* A write between two tags leaves an image that is read as the same elements, and
\* DATA as it was, if it is in memory.
LEMMA TransferFile ==
  ASSUME NEW bag \in {0, 2}, TableInv(bag), NEW e \in DOMAIN elements, ~InMemory(e),
         elements[e].magic # "KBAG", NEW image, NEW v \in Nat, NEW off \in Nat, NEW end \in Nat,
         off < end, end <= elements[e].len,
         image = [i \in 1 .. Len(file) |->
                    IF elements[e].at + off <= i /\ i < elements[e].at + end THEN Plain(v) ELSE file[i]]
  PROVE  /\ Shape(image, bag)
         /\ InMemoryData => \A k \in Whole : DB(image, k) = DB(file, k)
<1> DEFINE tag == elements[e].at - 1
           len == elements[e].len
           from == elements[e].at + off
           to == elements[e].at + end
           sp == SealPlace(bag)
<1>1. /\ tag \in TagPlaces(bag) /\ tag \in Nat /\ len \in Nat /\ from = tag + 1 + off /\ to = tag + 1 + end
      /\ len = TagAt(bag, tag).len /\ elements[e].magic = TagAt(bag, tag).magic
      /\ InMemoryData => elements[e].magic # "DATA"
      /\ end <= len
  <2>1. Behind(elements[e], bag) /\ elements[e].at \in Nat /\ len \in Nat
        /\ (InMemoryData => elements[e].magic # "DATA")
    BY ElementFacts
  <2>2. tag \in TagPlaces(bag) /\ tag \in Nat
    BY <2>1, TagFacts DEF Behind
  <2>3. QED BY <2>1, <2>2 DEF Behind
<1>2. Shape(file, bag)
  BY DEF TableInv
<1>3. file \in Seq(Block) /\ Len(file) = sp + RawBlocks /\ sp \in Nat
  BY <1>1, <1>2, TagFacts DEF Shape
<1>4. \A i \in 1 .. Len(file) : image[i] = IF from <= i /\ i < to THEN Plain(v) ELSE file[i]
  OBVIOUS
<1>5. image \in Seq(Block) /\ Len(image) = Len(file)
  <2>1. \A i \in 1 .. Len(file) : file[i] \in Block /\ Plain(v) \in Block
    BY <1>3, BlockKinds
  <2>2. Len(file) \in Nat
    BY <1>3
  <2>3. image \in [1 .. Len(file) -> Block]
    BY <2>1
  <2>4. QED BY <2>2, <2>3, Blocks
<1> DEFINE bagTag == TagAt(bag, tag)
<1>6. ASSUME NEW i \in 1 .. Len(file), from <= i, i < to
      PROVE  /\ i \notin TagPlaces(bag) /\ (bag = 2 => i # RawBlocks + 3)
             /\ bag = 2 /\ bagTag.magic # "DATA" => i \notin Start .. Start + Span - 1
  <2> HIDE DEF tag, len, from, to, bagTag
  <2>1. len = bagTag.len /\ i \in Nat
    BY <1>1, <1>3 DEF bagTag
  <2>2. tag + 1 <= i /\ i <= tag + len
    BY <1>1, <1>6, <2>1
  <2>3. i \in tag + 1 .. tag + bagTag.len
    BY <1>1, <2>1, <2>2
  <2>4. QED BY <1>1, <2>3, TagGaps DEF bagTag
<1> HIDE DEF tag, len, from, to, bagTag
<1>7. \A i \in TagPlaces(bag) : i \in 1 .. Len(file) /\ image[i] = file[i]
  <2> TAKE i \in TagPlaces(bag)
  <2>1. i \in 1 .. Len(file)
    BY <1>3, TagFacts
  <2>2. QED BY <1>4, <1>6, <2>1
<1>8. \A i \in 1 .. Len(image) : image[i].type = "tag" <=> i \in TagPlaces(bag)
  <2> TAKE i \in 1 .. Len(image)
  <2>1. file[i].type = "tag" <=> i \in TagPlaces(bag)
    BY <1>2, <1>5 DEF Shape
  <2>2. CASE from <= i /\ i < to
    <3>1. image[i] = Plain(v) /\ i \notin TagPlaces(bag)
      BY <1>4, <1>5, <1>6, <2>2
    <3>2. QED BY <3>1, BlockKinds
  <2>3. CASE ~(from <= i /\ i < to)
    <3>1. image[i] = file[i]
      BY <1>4, <1>5, <2>3
    <3>2. QED BY <2>1, <3>1
  <2>4. QED BY <2>2, <2>3
<1>9. bag = 2 => image[RawBlocks + 3] = Plain(1)
  <2> SUFFICES ASSUME bag = 2 PROVE image[RawBlocks + 3] = Plain(1)
    OBVIOUS
  <2>1. RawBlocks + 3 \in 1 .. Len(file)
    BY <1>3, Numbers
  <2>2. ~(from <= RawBlocks + 3 /\ RawBlocks + 3 < to)
    BY <1>6, <2>1
  <2>3. QED BY <1>2, <1>4, <2>1, <2>2 DEF Shape
<1>10. Shape(image, bag)
  BY <1>2, <1>3, <1>5, <1>7, <1>8, <1>9 DEF Shape, sp
<1>11. ASSUME InMemoryData, NEW k \in Whole PROVE DB(image, k) = DB(file, k)
  <2>1. bag = 2 /\ bagTag.magic # "DATA"
    BY <1>1, <1>11, MemoryFacts DEF bagTag
  <2>2. \A i \in Start .. Start + Span - 1 : image[i] = file[i]
    <3> TAKE i \in Start .. Start + Span - 1
    <3>1. i \in 1 .. Len(file)
      BY <1>3, <2>1, Numbers DEF sp
    <3>2. ~(from <= i /\ i < to)
      BY <1>6, <2>1, <3>1
    <3>3. QED BY <1>4, <3>1, <3>2
  <2>3. k \in Nat /\ k > 0 /\ k <= Span
    BY Numbers DEF Whole
  <2>4. Start + k - 1 \in Start .. Start + Span - 1 /\ (k > 1 => Start + k - 2 \in Start .. Start + Span - 1)
    BY <2>3, Numbers
  <2>5. QED BY <2>2, <2>4, DBSame
<1>12. QED BY <1>10, <1>11

\* A thread that transfers at the place where the file stands keeps it, unless
\* another thread has moved that place since.
LEMMA TransferInv ==
  ASSUME NEW bag \in {0, 2}, ImageInv(bag), NEW t \in Threads, Transfer(t), ~spoilt'
  PROVE  ImageInv(bag)'
<1> DEFINE c == thread[t]
           n == c.end - c.off
           size == IF Len(file) < pos + n - 1 THEN pos + n - 1 ELSE Len(file)
<1>1. TableInv(bag) /\ ThreadInv /\ DataInv
  BY DEF ImageInv
<1>2. /\ c.pc = "transfer" /\ Overlap(t, Idle)
      /\ UNCHANGED <<state, elements, aes, decrypted, modified, left, mounts, kept, old, died>>
      /\ c.op # "write" => file' = file
      /\ c.op = "write" =>
            /\ file' = [i \in 1 .. size |-> IF pos <= i /\ i < pos + n THEN Plain(c.val) ELSE file[i]]
            /\ ~c.overlapped
  BY DEF Transfer
<1>3. c \in CallType /\ CallInv(c)
  BY <1>1 DEF ThreadInv
<1> HIDE DEF c
<1>4. /\ c.off \in Nat /\ c.end \in Nat /\ c.val \in Nat /\ c.off < c.end /\ c.e \in DOMAIN elements
      /\ c.end <= elements[c.e].len /\ ~InMemory(c.e) /\ state = "mounted"
      /\ c.op = "write" => elements[c.e].magic # "KBAG"
      /\ ~c.overlapped => pos = elements[c.e].at + c.off
  BY <1>2, <1>3 DEF CallInv, CallType
<1>5. ThreadInv'
  <2>1. Idle \in CallType /\ Idle.pc = "idle"
    BY DEF Idle, CallType
  <2>2. CallInv(Idle)'
    BY <2>1 DEF CallInv
  <2>3. QED BY <1>1, <1>2, <2>2, OverlapInv
<1>6. Shape(file', bag) /\ (InMemoryData => \A k \in Whole : DB(file', k) = DB(file, k))
  <2>1. CASE c.op # "write"
    BY <1>1, <1>2, <2>1 DEF TableInv
  <2>2. CASE c.op = "write"
    <3> DEFINE at == elements[c.e].at
               len == elements[c.e].len
    <3>1. at \in Nat /\ len \in Nat /\ at - 1 + len <= Len(file) /\ Len(file) \in Nat
      <4>1. Behind(elements[c.e], bag) /\ at \in Nat /\ len \in Nat
        BY <1>1, <1>4, ElementFacts
      <4>2. Len(file) = SealPlace(bag) + RawBlocks
        BY <1>1 DEF TableInv, Shape
      <4> DEFINE i == at - 1
                 tag == TagAt(bag, i)
      <4>3. i \in TagPlaces(bag) /\ len = tag.len
        BY <4>1 DEF Behind
      <4>4. /\ i \in 1 .. SealPlace(bag) /\ SealPlace(bag) \in Nat /\ tag.len \in Nat /\ tag.span \in Nat
            /\ tag.len <= tag.span /\ i + tag.span <= SealPlace(bag) + RawBlocks
        BY <4>3, TagFacts
      <4> HIDE DEF i, tag
      <4>5. i + len <= SealPlace(bag) + RawBlocks
        BY <4>3, <4>4, Numbers
      <4>6. QED BY <4>1, <4>2, <4>4, <4>5, Numbers DEF i
    <3> HIDE DEF at, len
    <3>2. pos = at + c.off /\ c.end <= len
      BY <1>2, <1>4, <2>2 DEF at, len
    <3>3. c.off \in Nat /\ c.end \in Nat /\ c.off < c.end
      BY <1>4
    <3>4. n \in Nat /\ pos + n = at + c.end
      BY <3>1, <3>2, <3>3
    <3>5. pos + n - 1 <= Len(file)
      BY <3>1, <3>2, <3>3, <3>4
    <3>6. size = Len(file)
      <4> HIDE DEF n
      <4>1. pos \in Int /\ n \in Nat
        BY <3>1, <3>2, <3>3, <3>4
      <4>2. ~(Len(file) < pos + n - 1)
        BY <3>1, <3>5, <4>1
      <4>3. QED BY <4>2
    <3>7. file' = [i \in 1 .. Len(file) |->
                      IF at + c.off <= i /\ i < at + c.end THEN Plain(c.val) ELSE file[i]]
      <4> HIDE DEF size, n
      <4>1. file' = [i \in 1 .. size |-> IF pos <= i /\ i < pos + n THEN Plain(c.val) ELSE file[i]]
        BY <1>2, <2>2
      <4>2. QED BY <3>2, <3>6, <3>4, <4>1
    <3>8. /\ TableInv(bag) /\ c.e \in DOMAIN elements /\ ~InMemory(c.e)
          /\ elements[c.e].magic # "KBAG" /\ c.val \in Nat /\ c.end <= elements[c.e].len
      BY <1>1, <1>4, <2>2
    <3>9. file' = [i \in 1 .. Len(file) |->
                      IF elements[c.e].at + c.off <= i /\ i < elements[c.e].at + c.end
                      THEN Plain(c.val) ELSE file[i]]
      BY <3>7 DEF at
    <3>10. QED BY <3>3, <3>8, <3>9, TransferFile
  <2>3. QED BY <2>1, <2>2
<1>7. TableInv(bag)'
  <2>1. Parse(file') = Parse(file)
    BY <1>1, <1>6, SameParse DEF TableInv
  <2>2. QED BY <1>1, <1>2, <1>6, <2>1 DEF TableInv
<1>8. DataInv'
  <2>1. InMemoryData' <=> InMemoryData
    BY <1>2 DEF InMemoryData
  <2>2. CASE ~InMemoryData
    BY <1>1, <1>2, <2>1, <2>2 DEF DataInv
  <2>3. CASE InMemoryData
    <3>1. state' = "mounted"
      BY <1>2, <1>4
    <3>2. died' => Torn'
      BY <1>1, <1>2, <1>6, <2>3 DEF DataInv, Torn
    <3>3. QED BY <1>1, <1>2, <1>4, <1>6, <2>1, <2>3, <3>1, <3>2 DEF DataInv
  <2>4. QED BY <2>2, <2>3
<1>9. QED BY <1>5, <1>7, <1>8 DEF ImageInv

\* What is in the file when a mount ends.
LEMMA LeftInFile ==
  ASSUME NEW bag \in {0, 2}, TableInv(bag), DataInv, InMemoryData
  PROVE  /\ decrypted # <<>> /\ aes
         /\ \A k \in Whole : DecryptedData(file, Element(elements, "DATA"))[k] = DB(file, k)
<1> DEFINE e == Element(elements, "DATA")
<1>1. e.at = Start /\ e.span = Span
  BY MemoryFacts
<1> HIDE DEF e
<1>2. DecryptedData(file, e) = [k \in 1 .. Span |-> IF k <= Covered THEN DB(file, k) ELSE Junk]
  BY <1>1 DEF DecryptedData, DB
<1>3. \A k \in Whole : k \in 1 .. Span /\ k <= Covered
  BY Numbers DEF Whole
<1>4. decrypted \in [1 .. Span -> Int] /\ Span \in Nat /\ 1 \in 1 .. Span
  BY Numbers DEF DataInv
<1>5. decrypted # <<>>
  BY <1>4
<1>6. aes
  BY DEF TableInv, InMemoryData
<1>7. QED BY <1>2, <1>3, <1>5, <1>6 DEF e

\* Steps that leave the file and the table alone and no thread in a call.
LEMMA IdleInv ==
  ASSUME ThreadInv, UNCHANGED <<thread, elements>>, \A t \in Threads : thread[t].pc = "idle"
  PROVE  ThreadInv'
BY DEF ThreadInv, CallInv

\* What others do to the memory behind the buffer is not in a whole block of DATA.
LEMMA TrampleInv ==
  ASSUME NEW bag \in {0, 2}, ImageInv(bag), Trample
  PROVE  ImageInv(bag)'
<1>1. TableInv(bag) /\ ThreadInv /\ DataInv
  BY DEF ImageInv
<1>2. PICK k \in DOMAIN decrypted : k > DataBlocks + Rest /\ decrypted' = [decrypted EXCEPT ![k] = Junk]
  BY DEF Trample
<1>3. state = "mounted"
      /\ UNCHANGED <<file, pos, state, elements, aes, modified, left, thread, mounts, kept, old, died>>
  BY DEF Trample
<1>4. TableInv(bag)' /\ ThreadInv'
  BY <1>1, <1>3 DEF TableInv, ThreadInv, CallInv, InMemory
<1>5. DataInv'
  <2>1. InMemoryData' <=> InMemoryData
    BY <1>3 DEF InMemoryData
  <2>2. CASE ~InMemoryData
    <3>1. decrypted = <<>> /\ DOMAIN <<>> = {}
      BY <1>1, <2>2 DEF DataInv
    <3>2. QED BY <1>2, <3>1
  <2>3. CASE InMemoryData
    <3>1. decrypted \in [1 .. Span -> Int]
      BY <1>1, <2>3 DEF DataInv
    <3>2. \A j \in Whole : j # k /\ j \in 1 .. Span
      <4>1. k \in Int
        BY <1>2, <3>1, Numbers
      <4>2. QED BY <1>2, <4>1, Numbers DEF Whole
    <3>3. decrypted' \in [1 .. Span -> Int] /\ \A j \in Whole : decrypted'[j] = decrypted[j]
      <4>1. Junk \in Int
        BY DEF Junk
      <4>2. QED BY <1>2, <3>1, <3>2, <4>1
    <3>4. died' => Torn'
      BY <1>1, <1>3, <2>3 DEF DataInv, Torn
    <3>5. QED BY <1>1, <1>3, <2>1, <2>3, <3>3, <3>4 DEF DataInv
  <2>4. QED BY <2>2, <2>3
<1>6. QED BY <1>4, <1>5 DEF ImageInv

\* Unmounting begins with writes that lead to the same data on the image.
LEMMA UnmountInv ==
  ASSUME NEW bag \in {0, 2}, ImageInv(bag), Unmount
  PROVE  ImageInv(bag)'
<1>1. TableInv(bag) /\ ThreadInv /\ DataInv
  BY DEF ImageInv
<1> DEFINE data == DecryptedData(file, Element(elements, "DATA"))
           back == aes /\ decrypted # <<>> /\ modified
<1>2. /\ state = "mounted" /\ \A t \in Threads : thread[t].pc = "idle"
      /\ kept' = decrypted /\ old' = IF decrypted = <<>> THEN <<>> ELSE data
      /\ back => state' = "closing" /\ left' = Covered /\ died' = TRUE
      /\ ~back => state' = "unmounted" /\ died' = FALSE
      /\ UNCHANGED <<file, elements, aes, decrypted, modified, thread, mounts>>
  BY DEF Unmount
<1> HIDE DEF data, back
<1>3. ThreadInv'
  BY <1>1, <1>2, IdleInv
<1>4. mounts # 0
  BY <1>1, <1>2 DEF TableInv
<1>5. TableInv(bag)'
  BY <1>1, <1>2, <1>4 DEF TableInv
<1>6. DataInv'
  <2>1. InMemoryData' <=> InMemoryData
    BY <1>2 DEF InMemoryData
  <2>2. CASE ~InMemoryData
    <3>1. decrypted = <<>> /\ ~back
      BY <1>1, <2>2 DEF DataInv, back
    <3>2. QED BY <1>1, <1>2, <2>1, <2>2, <3>1 DEF DataInv
  <2>3. CASE InMemoryData
    <3>1. decrypted # <<>> /\ aes /\ \A k \in Whole : data[k] = DB(file, k)
      BY <1>1, <2>3, LeftInFile DEF data
    <3>2. old' = data /\ decrypted' \in [1 .. Span -> Int] /\ modified \in BOOLEAN
      BY <1>1, <1>2, <2>3, <3>1 DEF DataInv
    <3>3. CASE back
      <4>1. left' = Covered /\ left' \in 1 .. Covered
        BY <1>2, <3>3, Numbers
      <4>2. 1 .. Covered - left' = {} /\ 1 \in Whole /\ \A k \in Whole : ~(k < 1)
        BY <4>1, Numbers DEF Whole
      <4>3. \A k \in Whole : DB(file', k) = old'[k]
        BY <1>2, <3>1, <3>2
      <4>4. Closing' /\ Torn'
        BY <1>2, <3>3, <4>1, <4>2, <4>3 DEF Closing, Torn
      <4>5. state' = "closing" /\ died' = TRUE /\ modified' \in BOOLEAN
        BY <1>2, <3>2, <3>3
      <4>6. QED BY <2>1, <2>3, <3>2, <4>4, <4>5 DEF DataInv
    <3>4. CASE ~back
      <4>1. state' = "unmounted" /\ died' = FALSE /\ modified' \in BOOLEAN
        BY <1>2, <3>2, <3>4
      <4>2. ~modified
        BY <3>1, <3>4 DEF back
      <4>3. \A k \in Whole : DB(file', k) = kept'[k]
        BY <1>1, <1>2, <2>3, <4>2 DEF DataInv
      <4>4. QED BY <2>1, <2>3, <3>2, <4>1, <4>3 DEF DataInv
    <3>5. QED BY <3>3, <3>4
  <2>4. QED BY <2>2, <2>3
<1>7. QED BY <1>3, <1>5, <1>6 DEF ImageInv

\* Each of those writes keeps it.
LEMMA WriteBackInv ==
  ASSUME NEW bag \in {0, 2}, ImageInv(bag), WriteBack
  PROVE  ImageInv(bag)'
<1> DEFINE n == Covered - left + 1
           at == Start + n - 1
<1>1. TableInv(bag) /\ ThreadInv /\ DataInv /\ state = "closing"
  BY DEF ImageInv, WriteBack
<1>2. InMemoryData /\ Closing /\ decrypted \in [1 .. Span -> Int] /\ Torn
  BY <1>1 DEF DataInv, Closing
<1>3. bag = 2 /\ Shape(file, 2) /\ Element(elements, "DATA").at = Start 
  BY <1>1, <1>2, MemoryFacts
<1>4. left \in Nat /\ left > 0 /\ left <= Covered /\ n \in Nat /\ n > 0 /\ n <= Covered
      /\ Covered <= Span
  BY <1>2, Numbers DEF Closing
<1>5. Covered - left + 1 = n
  OBVIOUS
<1>6. /\ file' = [file EXCEPT ![at] = Cipher(SubSeq(decrypted, 1, n))]
      /\ left' = left - 1
      /\ left = 1 => state' = "unmounted" /\ died' = FALSE
      /\ left # 1 => UNCHANGED <<state, died>>
      /\ UNCHANGED <<pos, elements, aes, decrypted, modified, thread, mounts, kept, old>>
  <2>1. file' = [file EXCEPT ![Start + n - 1] = Encrypted(n)]
    BY <1>3, <1>5 DEF WriteBack
  <2>2. QED BY <2>1 DEF WriteBack, Encrypted
<1> HIDE DEF n
<1>7. n = Covered - left + 1 /\ at = Start + n - 1 /\ at \in Nat
  BY <1>4, Numbers DEF n
<1> HIDE DEF at
<1>8. file \in Seq(Block) /\ Len(file) = Start + Span + RawBlocks
  BY <1>3, Numbers DEF Shape
<1> DEFINE new == Cipher(SubSeq(decrypted, 1, n))
<1>9. new \in Block /\ new.type = "cipher"
  <2>1. \A i \in 1 .. n : decrypted[i] \in Int
    BY <1>2, <1>4, Numbers
  <2>2. SubSeq(decrypted, 1, n) \in Seq(Int)
    BY <1>4, <2>1, SubSeqProperties
  <2>3. QED BY <2>2, BlockKinds
<1> HIDE DEF new
<1>10. at \in 1 .. Len(file) /\ at \in Start .. Start + Span - 1
  BY <1>4, <1>7, <1>8, Numbers
<1>11. /\ file' \in Seq(Block) /\ Len(file') = Len(file)
       /\ \A i \in 1 .. Len(file) : file'[i] = IF i = at THEN new ELSE file[i]
  BY <1>6, <1>8, <1>9, <1>10, ExceptSeq DEF new
<1>12. \A i \in TagPlaces(2) : i \in 1 .. Len(file) /\ i # at /\ file'[i] = file[i]
  <2> TAKE i \in TagPlaces(2)
  <2>1. TagPlaces(2) = {1, Start - 1, Start + Span} \cup {RawBlocks + 2}
    BY Numbers DEF TagPlaces
  <2>2. i \in 1 .. Len(file) /\ i # at
    BY <1>8, <1>10, <2>1, Numbers
  <2>3. QED BY <1>11, <2>2
<1>13. Shape(file', 2)
  <2>1. \A i \in 1 .. Len(file') : file'[i].type = "tag" <=> i \in TagPlaces(2)
    <3> TAKE i \in 1 .. Len(file')
    <3>1. CASE i = at
      BY <1>9, <1>11, <1>12, <3>1
    <3>2. CASE i # at
      BY <1>3, <1>11, <3>2 DEF Shape
    <3>3. QED BY <3>1, <3>2
  <2>2. RawBlocks + 3 # at /\ RawBlocks + 3 \in 1 .. Len(file)
    BY <1>8, <1>10, Numbers
  <2>3. file'[RawBlocks + 3] = Plain(1)
    BY <1>3, <1>11, <2>2 DEF Shape
  <2>4. QED BY <1>3, <1>11, <1>12, <2>1, <2>3 DEF Shape
<1>14. TableInv(bag)'
  <2>1. Parse(file') = Parse(file)
    BY <1>3, <1>13, SameParse
  <2>2. mounts # 0
    BY <1>1 DEF TableInv
  <2>3. QED BY <1>1, <1>3, <1>6, <1>13, <2>1, <2>2 DEF TableInv
<1>15. ThreadInv'
  <2>1. \A t \in Threads : thread[t].pc = "idle"
    BY <1>1 DEF ThreadInv, CallInv
  <2>2. QED BY <1>1, <1>6, <2>1, IdleInv
<1>16. \A k \in 1 .. n : file'[Start + k - 1] = Cipher(SubSeq(kept, 1, k))
  <2> TAKE k \in 1 .. n
  <2>1. Start + k - 1 \in 1 .. Len(file) /\ (Start + k - 1 = at <=> k = n) /\ (k # n => k \in 1 .. Covered - left)
    BY <1>4, <1>7, <1>8, Numbers
  <2>2. CASE k = n
    BY <1>2, <1>11, <2>1, <2>2 DEF Closing, new
  <2>3. CASE k # n
    BY <1>2, <1>11, <2>1, <2>3 DEF Closing
  <2>4. QED BY <2>2, <2>3
<1>17. \A k \in Whole : k > n + 1 => DB(file', k) = old[k]
  <2> SUFFICES ASSUME NEW k \in Whole, k > n + 1 PROVE DB(file', k) = old[k]
    OBVIOUS
  <2>1. /\ Start + k - 1 \in 1 .. Len(file) /\ Start + k - 1 # at
        /\ Start + k - 2 \in 1 .. Len(file) /\ Start + k - 2 # at
        /\ k > Covered - left + 1
    BY <1>4, <1>7, <1>8, Numbers DEF Whole
  <2>2. DB(file', k) = DB(file, k)
    BY <1>11, <2>1, DBSame
  <2>3. QED BY <1>2, <2>1, <2>2 DEF Closing
<1>18. \A k \in Whole : k <= n => DB(file', k) = kept[k]
  <2> SUFFICES ASSUME NEW k \in Whole, k <= n PROVE DB(file', k) = kept[k]
    OBVIOUS
  <2>1. k \in 1 .. n /\ (k > 1 => k - 1 \in 1 .. n /\ Start + (k - 1) - 1 = Start + k - 2)
    BY <1>4, Numbers DEF Whole
  <2>2. file'[Start + k - 1] = Cipher(SubSeq(kept, 1, k))
    BY <1>16, <2>1
  <2>3. k > 1 => file'[Start + k - 2] = Cipher(SubSeq(kept, 1, k - 1))
    BY <1>16, <2>1
  <2>4. kept \in [1 .. Span -> Int]
    BY <1>2 DEF Closing
  <2>5. QED BY <2>2, <2>3, <2>4, DBChained
<1>19. DataInv'
  <2>1. InMemoryData' /\ decrypted' \in [1 .. Span -> Int] /\ modified' \in BOOLEAN /\ kept' = kept /\ old' = old
    BY <1>1, <1>2, <1>6 DEF InMemoryData, DataInv
  <2>2. CASE left = 1
    <3>1. \A k \in Whole : k <= n
      BY <1>7, <2>2, Numbers DEF Whole
    <3>2. \A k \in Whole : DB(file', k) = kept'[k]
      BY <1>18, <2>1, <3>1
    <3>3. state' = "unmounted" /\ died' = FALSE
      BY <1>6, <2>2
    <3>4. QED BY <2>1, <3>2, <3>3 DEF DataInv
  <2>3. CASE left # 1
    <3>1. state' = "closing" /\ died' = TRUE
      BY <1>1, <1>2, <1>6, <2>3 DEF Closing, DataInv
    <3>2. left' \in 1 .. Covered /\ Covered - left' = n
      BY <1>4, <1>6, <1>7, <2>3, Numbers
    <3>3. Closing'
      BY <1>2, <1>6, <1>16, <1>17, <3>1, <3>2 DEF Closing
    <3>4. CASE n < DataBlocks
      <4>1. n + 1 \in Whole /\ \A j \in Whole : (j < n + 1 => j <= n)
        BY <1>4, <3>4, Numbers DEF Whole
      <4>2. Torn'
        BY <1>17, <1>18, <2>1, <4>1 DEF Torn
      <4>3. QED BY <2>1, <3>1, <3>3, <4>2 DEF DataInv
    <3>5. CASE n >= DataBlocks
      <4>1. DataBlocks \in Whole /\ \A j \in Whole : j <= n /\ ~(j > DataBlocks)
        BY <1>4, <3>5, Numbers DEF Whole
      <4>2. Torn'
        BY <1>18, <2>1, <4>1 DEF Torn
      <4>3. QED BY <2>1, <3>1, <3>3, <4>2 DEF DataInv
    <3>6. QED BY <1>4, <3>4, <3>5, Numbers
  <2>4. QED BY <2>2, <2>3
<1>20. QED BY <1>14, <1>15, <1>19 DEF ImageInv

\* A process that dies leaves an image that can be mounted again.
LEMMA DieInv ==
  ASSUME NEW bag \in {0, 2}, ImageInv(bag), Die
  PROVE  ImageInv(bag)'
<1>1. TableInv(bag) /\ ThreadInv /\ DataInv
  BY DEF ImageInv
<1> DEFINE data == DecryptedData(file, Element(elements, "DATA"))
<1>2. /\ state' = "unmounted" /\ thread' = [t \in Threads |-> Idle]
      /\ state = "mounted" \/ state = "closing"
      /\ state = "mounted" => kept' = (IF decrypted = <<>> THEN <<>> ELSE data) /\ old' = kept' /\ died' = FALSE
      /\ state # "mounted" => UNCHANGED <<kept, old, died>>
      /\ UNCHANGED <<file, elements, aes, decrypted, modified, mounts>>
  BY DEF Die
<1> HIDE DEF data
<1>3. ThreadInv'
  <2>1. Idle \in CallType /\ Idle.pc = "idle"
    BY DEF Idle, CallType
  <2>2. \A t \in Threads : thread'[t] = Idle
    BY <1>2
  <2>3. QED BY <1>2, <2>1, <2>2 DEF ThreadInv, CallInv
<1>4. TableInv(bag)'
  <2>1. mounts # 0
    BY <1>1, <1>2 DEF TableInv
  <2>2. QED BY <1>1, <1>2, <2>1 DEF TableInv
<1>5. DataInv'
  <2>1. InMemoryData' <=> InMemoryData
    BY <1>2 DEF InMemoryData
  <2>2. CASE ~InMemoryData
    <3>1. decrypted = <<>> /\ kept' = <<>> /\ ~died' /\ died' \in BOOLEAN
      BY <1>1, <1>2, <2>2 DEF DataInv
    <3>2. QED BY <1>1, <1>2, <2>1, <2>2, <3>1 DEF DataInv
  <2>3. CASE InMemoryData /\ state = "mounted"
    <3>1. decrypted # <<>> /\ \A k \in Whole : data[k] = DB(file, k)
      BY <1>1, <2>3, LeftInFile DEF data
    <3>2. \A k \in Whole : DB(file', k) = kept'[k]
      BY <1>2, <2>3, <3>1
    <3>3. QED BY <1>1, <1>2, <2>1, <2>3, <3>2 DEF DataInv
  <2>4. CASE InMemoryData /\ state = "closing"
    <3>1. died' = TRUE /\ Torn'
      BY <1>1, <1>2, <2>4 DEF DataInv, Closing, Torn
    <3>2. QED BY <1>1, <1>2, <2>1, <2>4, <3>1 DEF DataInv
  <2>5. QED BY <1>2, <2>2, <2>3, <2>4
<1>6. QED BY <1>3, <1>4, <1>5 DEF ImageInv

\* Every step keeps it.
LEMMA StepInv ==
  ASSUME Inv, [Next]_vars
  PROVE  Inv'
<1>1. spoilt \in BOOLEAN
  BY DEF Inv
<1>2. spoilt' \in BOOLEAN /\ (spoilt => spoilt')
  <2>1. CASE \E t \in Threads : Transfer(t)
    <3>1. PICK t \in Threads : Transfer(t)
      BY <2>1
    <3>2. spoilt' = (spoilt \/ thread[t].overlapped) \/ spoilt' = spoilt
      BY <3>1 DEF Transfer
    <3>3. thread[t].overlapped \in BOOLEAN \/ spoilt
      BY <3>1 DEF Inv, ImageInv, ThreadInv, CallType
    <3>4. QED BY <1>1, <3>2, <3>3
  <2>2. CASE ~\E t \in Threads : Transfer(t)
    <3>1. spoilt' = spoilt
      <4>1. ASSUME NEW t \in Threads, Copy(t) \/ Seek(t) PROVE spoilt' = spoilt
        BY <4>1 DEF Copy, Seek
      <4>2. CASE Calls
        BY <4>2 DEF Calls, Call
      <4>3. CASE Mount \/ Unmount \/ Trample
        BY <4>3 DEF Mount, Unmount, Trample
      <4>4. CASE WriteBack
        BY <4>4 DEF WriteBack
      <4>5. CASE Die
        BY <4>5 DEF Die
      <4>6. CASE UNCHANGED vars
        BY <4>6 DEF vars
      <4>7. QED BY <2>2, <4>1, <4>2, <4>3, <4>4, <4>5, <4>6 DEF Next
    <3>2. QED BY <1>1, <3>1
  <2>3. QED BY <2>1, <2>2
<1>3. CASE spoilt'
  BY <1>2, <1>3 DEF Inv
<1>4. CASE ~spoilt'
  <2>1. PICK bag \in {0, 2} : ImageInv(bag)
    BY <1>2, <1>4 DEF Inv
  <2>2. ImageInv(bag)'
    <3>1. CASE Mount
      BY <2>1, <3>1, MountInv
    <3>2. CASE Calls
      BY <2>1, <3>2, CallsInv
    <3>3. ASSUME NEW t \in Threads, Copy(t) \/ Seek(t) \/ Transfer(t) PROVE ImageInv(bag)'
      BY <1>4, <2>1, <3>3, CopyInv, SeekInv, TransferInv
    <3>4. CASE Unmount
      BY <2>1, <3>4, UnmountInv
    <3>5. CASE WriteBack
      BY <2>1, <3>5, WriteBackInv
    <3>6. CASE Die
      BY <2>1, <3>6, DieInv
    <3>7. CASE UNCHANGED vars
      BY <2>1, <3>7, StutterInv
    <3>8. CASE Trample
      BY <2>1, <3>8, TrampleInv
    <3>9. QED BY <3>1, <3>2, <3>3, <3>4, <3>5, <3>6, <3>7, <3>8 DEF Next
  <2>3. QED BY <1>2, <2>2 DEF Inv
<1>5. QED BY <1>3, <1>4

\* Until a write of one thread has gone to where another thread moved the file, the
\* elements are where parsing has found them, threads transfer inside theirs, and
\* the data on the image and in memory are those of the last unmounting.
THEOREM Img3Invariant ==
  Spec => []Inv
<1>1. Init => Inv
  BY InitInv
<1>2. Inv /\ [Next]_vars => Inv'
  BY StepInv
<1>3. QED BY <1>1, <1>2, PTL DEF Spec

-----------------------------------------------------------------------------
(* What follows *)

\* An encrypted DATA element, if nothing was written to it since it was mounted, is
\* what the mount before left in memory: no close of the volume and no write of
\* another element loses or changes a block of it, however many threads wrote.
THEOREM DataIsKept ==
  Spec => []DataSurvives
<1>1. Inv => DataSurvives
  <2> SUFFICES ASSUME Inv, state = "mounted", aes, ~modified, mounts > 1, ~spoilt, ~died
               PROVE  \A k \in Whole : decrypted[k] = kept[k]
    BY DEF DataSurvives
  <2>1. PICK bag \in {0, 2} : TableInv(bag) /\ DataInv
    BY DEF Inv, ImageInv
  <2>2. CASE InMemoryData
    BY <2>1, <2>2 DEF DataInv
  <2>3. CASE ~InMemoryData
    BY <2>1, <2>3 DEF DataInv
  <2>4. QED BY <2>2, <2>3
<1>2. QED BY <1>1, Img3Invariant, PTL

\* Whatever block a process dies at while it writes DATA back, one block at most
\* is neither what it was nor what it was to be.
THEOREM DeathTearsOneBlock ==
  Spec => []DeathCostsOneBlock
<1>1. Inv => DeathCostsOneBlock
  <2> DEFINE now == DecryptedData(file, Element(elements, "DATA"))
  <2> SUFFICES ASSUME Inv, died, ~spoilt
               PROVE  \E k \in Whole : \A j \in Whole : (j < k => now[j] = kept[j]) /\ (j > k => now[j] = old[j])
    BY DEF DeathCostsOneBlock
  <2>1. PICK bag \in {0, 2} : TableInv(bag) /\ DataInv
    BY DEF Inv, ImageInv
  <2>2. InMemoryData /\ Torn
    BY <2>1 DEF DataInv
  <2>3. \A k \in Whole : now[k] = DB(file, k)
    BY <2>1, <2>2, LeftInFile
  <2> HIDE DEF now
  <2>4. QED BY <2>2, <2>3 DEF Torn
<1>2. QED BY <1>1, Img3Invariant, PTL

\* A read or write that no other call comes in between is one of its own element:
\* the descriptor is behind the tag of its name and the transfer ends in front of
\* the next tag.
THEOREM TransferInOwnElement ==
  Spec => []OwnElement
<1>1. Inv => OwnElement
  <2> SUFFICES ASSUME Inv, NEW t \in Threads, thread[t].pc = "transfer", ~thread[t].overlapped, ~spoilt
               PROVE  \E tag \in DOMAIN file :
                        /\ file[tag].type = "tag" /\ file[tag].magic = elements[thread[t].e].magic
                        /\ pos = tag + 1 + thread[t].off
                        /\ tag + thread[t].end <= tag + file[tag].len
    BY DEF OwnElement
  <2>1. PICK bag \in {0, 2} : TableInv(bag) /\ ThreadInv
    BY DEF Inv, ImageInv
  <2> DEFINE c == thread[t]
             e == elements[c.e]
             tag == e.at - 1
  <2>2. c \in CallType /\ CallInv(c)
    BY <2>1 DEF ThreadInv
  <2>3. /\ c.e \in DOMAIN elements /\ c.end <= e.len /\ c.off \in Nat /\ c.end \in Nat
        /\ pos = e.at + c.off
    BY <2>2 DEF CallInv, CallType
  <2>4. Behind(e, bag) /\ e.at \in Nat /\ e.len \in Nat
    BY <2>1, <2>3, ElementFacts
  <2>5. tag \in TagPlaces(bag) /\ e.magic = TagAt(bag, tag).magic /\ e.len = TagAt(bag, tag).len
    BY <2>4 DEF Behind
  <2>6. file \in Seq(Block) /\ Len(file) = SealPlace(bag) + RawBlocks
        /\ file[tag] = TagAt(bag, tag)
        /\ \A i \in 1 .. Len(file) : file[i].type = "tag" <=> i \in TagPlaces(bag)
    BY <2>1, <2>5 DEF TableInv, Shape
  <2>7. tag \in 1 .. Len(file) /\ tag \in DOMAIN file /\ tag \in Nat
    BY <2>5, <2>6, TagFacts
  <2> HIDE DEF c, e
  <2>8. pos = tag + 1 + c.off /\ tag + c.end <= tag + file[tag].len
    BY <2>3, <2>4, <2>5, <2>6, <2>7
  <2>9. QED BY <2>5, <2>6, <2>7, <2>8 DEF c, e
<1>2. QED BY <1>1, Img3Invariant, PTL
=============================================================================
