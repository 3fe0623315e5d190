----------------------------- MODULE Induction ------------------------------
(***************************************************************************)
(* Induction over the natural numbers in a form the provers can cite: over *)
(* a set of numbers in place of a predicate, and with a function in place  *)
(* of the expression that defines the next value of a recursive function.  *)
(***************************************************************************)
EXTENDS Integers, SequencesExt, TLAPS, WellFoundedInduction

\* A set of numbers has a least one.
LEMMA LeastNumber ==
  ASSUME NEW T \in SUBSET Nat, T # {}
  PROVE  \E n \in T : \A m \in T : n <= m
<1> DEFINE R == {ss \in Nat \X Nat : ss[1] < ss[2]}
<1>1. IsWellFoundedOn(R, Nat)
  BY NatLessThanWellFounded DEF OpToRel
<1>2. \A m, n \in Nat : m < n => <<m, n>> \in R
  OBVIOUS
<1>3. PICK n \in T : \A m \in T : <<m, n>> \notin R
  <2> HIDE DEF R
  <2> QED BY <1>1, WFMin
<1> HIDE DEF R
<1>4. \A m \in T : ~(m < n)
  BY <1>2, <1>3
<1>5. QED BY <1>4

\* Induction, over a set instead of a predicate.
LEMMA SetInduction ==
  ASSUME NEW P \in SUBSET Nat, 0 \in P, \A n \in P : n + 1 \in P
  PROVE  P = Nat
<1> SUFFICES ASSUME P # Nat PROVE FALSE
  OBVIOUS
<1>1. PICK n \in Nat \ P : \A m \in Nat \ P : n <= m
  BY LeastNumber
<1>2. n # 0 /\ n - 1 \in Nat
  BY <1>1
<1>3. n - 1 \in P
  BY <1>1, <1>2
<1>4. QED BY <1>1, <1>3

\* The function of the numbers up to `last` that a first value and the step from
\* each value to the next define.
Recurs(f, S, base, next, last) ==
    /\ f \in [0 .. last -> S]
    /\ f[0] = base
    /\ \A n \in 1 .. last : f[n] = next[<<n, f[n - 1]>>]

\* There always is one.
LEMMA Recursion ==
  ASSUME NEW S, NEW base \in S, NEW last \in Nat, NEW next \in [(1 .. last) \X S -> S]
  PROVE  \E f : Recurs(f, S, base, next, last)
<1> DEFINE Solves(f, n) ==
              f \in [0 .. n -> S] /\ f[0] = base /\ \A k \in 1 .. n : f[k] = next[<<k, f[k - 1]>>]
           P == {n \in Nat : n <= last => \E f : Solves(f, n)}
<1>1. 0 \in P
  <2> DEFINE f == [k \in 0 .. 0 |-> base]
  <2>1. Solves(f, 0)
    OBVIOUS
  <2> HIDE DEF f, Solves
  <2>2. QED BY <2>1
<1>2. ASSUME NEW n \in P, n + 1 <= last PROVE n + 1 \in P
  <2>1. n \in Nat /\ n <= last /\ n + 1 \in 1 .. last
    BY <1>2
  <2>2. PICK f : Solves(f, n)
    BY <2>1
  <2> DEFINE g == [k \in 0 .. n + 1 |-> IF k = n + 1 THEN next[<<n + 1, f[n]>>] ELSE f[k]]
  <2>3. f[n] \in S /\ next[<<n + 1, f[n]>>] \in S
    BY <2>1, <2>2
  <2>4. g \in [0 .. n + 1 -> S] /\ g[0] = base
    BY <2>1, <2>2, <2>3
  <2>5. ASSUME NEW k \in 1 .. n + 1 PROVE g[k] = next[<<k, g[k - 1]>>]
    <3>1. CASE k = n + 1
      <4>1. n \in 0 .. n + 1 /\ n + 1 \in 0 .. n + 1 /\ n # n + 1 /\ k - 1 = n
        BY <2>1, <3>1
      <4>2. g[n] = f[n] /\ g[n + 1] = next[<<n + 1, f[n]>>]
        BY <4>1
      <4>3. QED BY <3>1, <4>1, <4>2
    <3>2. CASE k # n + 1
      <4>1. k \in 1 .. n /\ g[k] = f[k] /\ g[k - 1] = f[k - 1]
        BY <2>1, <3>2
      <4>2. QED BY <2>2, <4>1
    <3>3. QED BY <3>1, <3>2
  <2> HIDE DEF g
  <2>6. Solves(g, n + 1)
    BY <2>4, <2>5
  <2>7. QED BY <2>1, <2>6
<1> HIDE DEF Solves
<1>3. P = Nat
  <2>1. P \in SUBSET Nat /\ \A n \in P : n + 1 \in P
    BY <1>2
  <2> HIDE DEF P
  <2>2. QED BY <1>1, <2>1, SetInduction
<1>4. PICK f : Solves(f, last)
  BY <1>3
<1>5. QED BY <1>4 DEF Solves, Recurs

\* The same where the step is the same for every number.
Iterates(f, S, base, step, last) ==
    /\ f \in [0 .. last -> S]
    /\ f[0] = base
    /\ \A n \in 1 .. last : f[n] = step[f[n - 1]]

\* A loop has its sequence of values.
LEMMA Iteration ==
  ASSUME NEW S, NEW base \in S, NEW step \in [S -> S], NEW last \in Nat
  PROVE  \E f : Iterates(f, S, base, step, last)
<1> DEFINE next == [p \in (1 .. last) \X S |-> step[p[2]]]
<1>1. next \in [(1 .. last) \X S -> S]
  OBVIOUS
<1>2. PICK f : Recurs(f, S, base, next, last)
  <2> HIDE DEF next
  <2> QED BY <1>1, Recursion
<1>3. f \in [0 .. last -> S] /\ f[0] = base
  BY <1>2 DEF Recurs
<1>4. ASSUME NEW n \in 1 .. last PROVE f[n] = step[f[n - 1]]
  <2>1. n - 1 \in 0 .. last /\ f[n - 1] \in S
    BY <1>3
  <2>2. f[n] = next[<<n, f[n - 1]>>]
    BY <1>2 DEF Recurs
  <2>3. QED BY <2>1, <2>2
<1>5. QED BY <1>3, <1>4 DEF Iterates

-----------------------------------------------------------------------------
(* FlattenSeq of the community modules                                     *)

\* FlattenSeq of every front of a list, each from the one in front of it.
Fronts(f, seqs, S) ==
    /\ f \in [0 .. Len(seqs) -> Seq(S)]
    /\ f[0] = <<>>
    /\ \A n \in 1 .. Len(seqs) : f[n] = f[n - 1] \o seqs[n]
    /\ \A n \in 0 .. Len(seqs) : FlattenSeq(SubSeq(seqs, 1, n)) = f[n]
    /\ FlattenSeq(seqs) = f[Len(seqs)]

\* What FlattenSeq computes for a list with an element: the function its recursion defines.
LEMMA FlattenSolves ==
  ASSUME NEW S, NEW seqs \in Seq(Seq(S)), Len(seqs) # 0,
         NEW f \in [1 .. Len(seqs) -> Seq(S)], f[1] = seqs[1],
         \A n \in 2 .. Len(seqs) : f[n] = f[n - 1] \o seqs[n]
  PROVE  FlattenSeq(seqs) = f[Len(seqs)]
<1> DEFINE last == Len(seqs)
           Then(v, i) == v \o seqs[i]
           Solves(g) == g = [i \in 1 .. last |-> IF i = 1 THEN seqs[i] ELSE Then(g[i - 1], i)]
           g == CHOOSE h : Solves(h)
<1>1. last \in Nat /\ last >= 1 /\ 1 \in 1 .. last
  OBVIOUS
<1>2. Solves(f)
  <2>1. \A i \in 1 .. last : f[i] = IF i = 1 THEN seqs[i] ELSE Then(f[i - 1], i)
    <3> SUFFICES ASSUME NEW i \in 1 .. last PROVE f[i] = IF i = 1 THEN seqs[i] ELSE Then(f[i - 1], i)
      OBVIOUS
    <3>1. CASE i = 1
      BY <3>1
    <3>2. CASE i # 1
      <4>1. i \in 2 .. last
        BY <1>1, <3>2
      <4>2. QED BY <3>2, <4>1
    <3>3. QED BY <3>1, <3>2
  <2>2. f = [i \in 1 .. last |-> f[i]]
    OBVIOUS
  <2> HIDE DEF Then
  <2>3. QED BY <2>1, <2>2
<1>3. FlattenSeq(seqs) = g[last]
  BY DEF FlattenSeq
<1>4. Solves(g)
  <2> HIDE DEF Solves
  <2>1. QED BY <1>2
<1> HIDE DEF g
<1>5. \A i \in 1 .. last : g[i] = IF i = 1 THEN seqs[i] ELSE Then(g[i - 1], i)
  <2> HIDE DEF Then
  <2> QED BY <1>4
<1>6. \A i \in 1 .. last : f[i] = IF i = 1 THEN seqs[i] ELSE Then(f[i - 1], i)
  <2> HIDE DEF Then
  <2> QED BY <1>2
<1> DEFINE P == {n \in Nat : n + 1 <= last => g[n + 1] = f[n + 1]}
<1> HIDE DEF Then, last
<1>7. P = Nat
  <2>1. 0 \in P
    BY <1>1, <1>5, <1>6
  <2>2. ASSUME NEW n \in P, n + 1 + 1 <= last PROVE g[n + 1 + 1] = f[n + 1 + 1]
    <3>1. n + 1 + 1 \in 1 .. last /\ n + 1 + 1 # 1 /\ n + 1 + 1 - 1 = n + 1 /\ n + 1 <= last
      BY <1>1, <2>2
    <3>2. g[n + 1] = f[n + 1]
      BY <3>1
    <3>3. g[n + 1 + 1] = Then(g[n + 1 + 1 - 1], n + 1 + 1) /\ f[n + 1 + 1] = Then(f[n + 1 + 1 - 1], n + 1 + 1)
      BY <1>5, <1>6, <3>1
    <3>4. QED BY <3>1, <3>2, <3>3
  <2>3. P \in SUBSET Nat /\ \A n \in P : n + 1 \in P
    BY <2>2
  <2> HIDE DEF P
  <2>4. QED BY <2>1, <2>3, SetInduction
<1>8. last - 1 \in Nat /\ last - 1 + 1 = last
  BY <1>1
<1>9. g[last] = f[last]
  BY <1>7, <1>8
<1>10. QED BY <1>3, <1>9 DEF last

\* FlattenSeq of the fronts of a sequence grows piece by piece.
LEMMA FlattenFronts ==
  ASSUME NEW S, NEW seqs \in Seq(Seq(S))
  PROVE  \E f : Fronts(f, seqs, S)
<1> DEFINE last == Len(seqs)
           next == [p \in (1 .. last) \X Seq(S) |-> p[2] \o seqs[p[1]]]
<1>1. last \in Nat /\ \A i \in 1 .. last : seqs[i] \in Seq(S)
  OBVIOUS
<1>2. next \in [(1 .. last) \X Seq(S) -> Seq(S)]
  <2> SUFFICES ASSUME NEW p \in (1 .. last) \X Seq(S) PROVE p[2] \o seqs[p[1]] \in Seq(S)
    OBVIOUS
  <2>1. p[2] \in Seq(S) /\ seqs[p[1]] \in Seq(S)
    BY <1>1
  <2>2. QED BY <2>1
<1>3. <<>> \in Seq(S)
  OBVIOUS
<1>4. PICK f : Recurs(f, Seq(S), <<>>, next, last)
  <2> HIDE DEF next, last
  <2> QED BY <1>1, <1>2, <1>3, Recursion
<1>5. f \in [0 .. last -> Seq(S)] /\ f[0] = <<>>
  BY <1>4 DEF Recurs
<1>6. ASSUME NEW n \in 1 .. last PROVE f[n] = f[n - 1] \o seqs[n]
  <2>1. n - 1 \in 0 .. last
    BY <1>1
  <2>2. f[n - 1] \in Seq(S)
    BY <1>5, <2>1
  <2>3. f[n] = next[<<n, f[n - 1]>>]
    <3> HIDE DEF next, last
    <3> QED BY <1>4 DEF Recurs
  <2>4. QED BY <2>2, <2>3
<1> HIDE DEF next
<1>7. ASSUME NEW n \in 0 .. last PROVE FlattenSeq(SubSeq(seqs, 1, n)) = f[n]
  <2> DEFINE front == SubSeq(seqs, 1, n)
             h == [i \in 1 .. n |-> f[i]]
  <2>1. front \in Seq(Seq(S)) /\ Len(front) = n /\ n \in Nat /\ \A i \in 1 .. n : front[i] = seqs[i]
    BY <1>1
  <2>2. CASE n = 0
    <3>1. front = <<>>
      BY <2>1, <2>2
    <3>2. Len(<<>>) = 0
      OBVIOUS
    <3>3. FlattenSeq(<<>>) = <<>>
      BY <3>2 DEF FlattenSeq
    <3>4. QED BY <1>5, <2>2, <3>1, <3>3
  <2>3. CASE n # 0
    <3>1. h \in [1 .. n -> Seq(S)]
      <4>1. \A i \in 1 .. n : i \in 0 .. last
        BY <1>1, <2>1
      <4>2. QED BY <1>5, <4>1
    <3>2. h[1] = front[1]
      <4>1. 1 \in 1 .. last /\ 1 \in 1 .. n /\ 1 - 1 = 0 /\ seqs[1] \in Seq(S)
        BY <1>1, <2>1, <2>3
      <4>2. f[1] = <<>> \o seqs[1]
        BY <1>5, <1>6, <4>1
      <4>3. <<>> \o seqs[1] = seqs[1]
        BY <4>1
      <4>4. h[1] = f[1] /\ front[1] = seqs[1]
        BY <2>1, <4>1
      <4>5. QED BY <4>2, <4>3, <4>4
    <3>3. \A i \in 2 .. n : h[i] = h[i - 1] \o front[i]
      <4> SUFFICES ASSUME NEW i \in 2 .. n PROVE h[i] = h[i - 1] \o front[i]
        OBVIOUS
      <4>1. i \in 1 .. last /\ i \in 1 .. n /\ i - 1 \in 1 .. n
        BY <1>1, <2>1
      <4>2. h[i] = f[i] /\ h[i - 1] = f[i - 1] /\ front[i] = seqs[i]
        BY <2>1, <4>1
      <4>3. QED BY <1>6, <4>1, <4>2
    <3> HIDE DEF h, front
    <3>4. FlattenSeq(front) = h[Len(front)]
      BY <2>1, <2>3, <3>1, <3>2, <3>3, FlattenSolves
    <3>5. h[n] = f[n]
      BY <2>1, <2>3 DEF h
    <3>6. QED BY <2>1, <3>4, <3>5 DEF front
  <2>4. QED BY <2>2, <2>3
<1>8. SubSeq(seqs, 1, last) = seqs
  BY <1>1
<1>9. FlattenSeq(seqs) = f[last]
  <2>1. last \in 0 .. last
    BY <1>1
  <2>2. QED BY <1>7, <1>8, <2>1
<1>10. QED BY <1>5, <1>6, <1>7, <1>9 DEF Fronts

\* A later front begins with an earlier one.
LEMMA FrontsGrow ==
  ASSUME NEW S, NEW seqs \in Seq(Seq(S)), NEW f, Fronts(f, seqs, S), NEW j \in 0 .. Len(seqs)
  PROVE  \A m \in j .. Len(seqs) :
             Len(f[j]) <= Len(f[m]) /\ \A i \in 1 .. Len(f[j]) : f[m][i] = f[j][i]
<1> DEFINE last == Len(seqs)
           Grown(m) == Len(f[j]) <= Len(f[m]) /\ \A i \in 1 .. Len(f[j]) : f[m][i] = f[j][i]
           P == {d \in Nat : j + d <= last => Grown(j + d)}
<1>1. last \in Nat /\ j \in Nat /\ j <= last
  OBVIOUS
<1>2. \A m \in 0 .. last : f[m] \in Seq(S) /\ Len(f[m]) \in Nat
  BY DEF Fronts
<1>3. \A n \in 1 .. last : f[n] = f[n - 1] \o seqs[n]
  BY DEF Fronts
<1>4. ASSUME NEW m \in Nat, j <= m, m + 1 <= last, Grown(m) PROVE Grown(m + 1)
  <2> DEFINE n == m + 1
  <2>1. n \in 1 .. last /\ n - 1 = m /\ m \in 0 .. last /\ n \in 0 .. last /\ j \in 0 .. last
    BY <1>1, <1>4
  <2> HIDE DEF n
  <2>2. f[m] \in Seq(S) /\ f[n] \in Seq(S) /\ f[j] \in Seq(S) /\ seqs[n] \in Seq(S)
        /\ Len(f[m]) \in Nat /\ Len(f[j]) \in Nat /\ Len(f[n]) \in Nat
    BY <1>2, <2>1
  <2>3. f[n] = f[n - 1] \o seqs[n]
    BY ONLY <1>3, <2>1
  <2>4. f[n] = f[m] \o seqs[n]
    BY ONLY <2>1, <2>3
  <2>5. \A s, t \in Seq(S) : Len(s) <= Len(s \o t) /\ \A i \in 1 .. Len(s) : (s \o t)[i] = s[i]
    OBVIOUS
  <2>6. Len(f[m]) <= Len(f[n]) /\ \A i \in 1 .. Len(f[m]) : f[n][i] = f[m][i]
    <3>1. Len(f[m]) <= Len(f[m] \o seqs[n]) /\ \A i \in 1 .. Len(f[m]) : (f[m] \o seqs[n])[i] = f[m][i]
      BY ONLY <2>2, <2>5
    <3>2. QED BY ONLY <2>4, <3>1
  <2>7. \A i \in 1 .. Len(f[j]) : i \in 1 .. Len(f[m])
    BY <1>4, <2>2
  <2>8. Grown(n)
    BY <1>4, <2>2, <2>6, <2>7
  <2> HIDE DEF Grown
  <2>9. QED BY <2>8 DEF n
<1>5. P = Nat
  <2>1. 0 \in P
    <3>1. j + 0 = j
      BY <1>1
    <3>2. Grown(j)
      BY <1>1, <1>2
    <3> HIDE DEF Grown
    <3>3. QED BY <3>1, <3>2
  <2> HIDE DEF Grown
  <2>2. ASSUME NEW d \in P, j + (d + 1) <= last PROVE Grown(j + (d + 1))
    <3>1. d \in Nat /\ j + d \in Nat /\ j <= j + d /\ j + d + 1 <= last /\ j + d <= last /\ j + d + 1 = j + (d + 1)
      BY <1>1, <2>2
    <3>2. Grown(j + d)
      BY <3>1
    <3>3. Grown(j + d + 1)
      BY <1>4, <3>1, <3>2
    <3>4. QED BY <3>1, <3>3
  <2>3. P \in SUBSET Nat /\ \A d \in P : d + 1 \in P
    <3>1. \A d \in P : d + 1 \in Nat /\ (j + (d + 1) <= last => Grown(j + (d + 1)))
      BY <2>2
    <3>2. QED BY <3>1
  <2> HIDE DEF P
  <2>4. QED BY <2>1, <2>3, SetInduction
<1>6. ASSUME NEW m \in j .. last PROVE Grown(m)
  <2>1. m - j \in Nat /\ j + (m - j) = m /\ m <= last
    BY <1>1
  <2> HIDE DEF Grown
  <2>2. QED BY <1>5, <2>1
<1>7. QED BY <1>6
=============================================================================
