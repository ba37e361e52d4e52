------------------------- MODULE AudioOutputProofs -------------------------
(***************************************************************************)
(* TLAPS proofs about AudioOutput, for every back end and every number of  *)
(* blocks: no block of the sink pipe is lost, repeated or overtaken, the   *)
(* sink runs when the mixer does, and a sink that is stopped keeps nothing *)
(* audible.                                                                *)
(***************************************************************************)
EXTENDS AudioOutput, SequenceTheorems, WellFoundedInduction, TLAPS

USE OutputAssumption

-----------------------------------------------------------------------------
(* Induction over the natural numbers, as the least element of a set: the  *)
(* set of the numbers for which a fact fails has none, so it is empty.     *)

\* A set of numbers that is not empty has a least one.
LEMMA LeastNatural ==
  ASSUME NEW T, T \subseteq Nat, T # {}
  PROVE  \E x \in T : \A y \in T : x <= y
<1> DEFINE R == {ss \in Nat \X Nat : ss[1] < ss[2]}
<1>1. IsWellFoundedOn(R, Nat)
  BY NatLessThanWellFounded DEF OpToRel
<1>2. PICK x \in T : \A y \in T : ~(<<y, x>> \in R)
  <2> HIDE DEF R
  <2> QED
    BY <1>1, WFMin
<1>3. ASSUME NEW y \in T PROVE x <= y
  <2>1. x \in Nat /\ y \in Nat /\ <<y, x>> \in Nat \X Nat
    OBVIOUS
  <2>2. y < x => <<y, x>> \in R
    BY <2>1
  <2> HIDE DEF R
  <2> QED
    BY <2>1, <2>2, <1>2
<1> QED
  BY <1>3

\* What holds of 0 and of the successor of each number in a set is the whole of Nat up to a bound.
LEMMA NaturalsUpTo ==
  ASSUME NEW N \in Nat, NEW P, 0 \in P, \A n \in 0 .. N - 1 : n \in P => n + 1 \in P
  PROVE  0 .. N \subseteq P
<1> DEFINE T == {n \in 0 .. N : n \notin P}
<1> SUFFICES ASSUME T # {} PROVE FALSE
  OBVIOUS
<1>0. T \subseteq Nat
  OBVIOUS
<1>1. PICK x \in T : \A y \in T : x <= y
  <2> HIDE DEF T
  <2> QED
    BY <1>0, LeastNatural
<1>2. x \in 0 .. N /\ x \notin P /\ x # 0
  BY <1>1
<1>3. x - 1 \in 0 .. N - 1 /\ x - 1 \notin T /\ (x - 1) + 1 = x
  BY <1>1, <1>2
<1> QED
  BY <1>2, <1>3

-----------------------------------------------------------------------------
(* Without: all but one block of a sequence.                               *)

\* the function in its definition, for the first n blocks
KeptUpTo(kept, ring, block, n) ==
  kept = [i \in 0 .. n |-> IF i = 0 THEN <<>>
                           ELSE IF ring[i] = block THEN kept[i - 1] ELSE Append(kept[i - 1], ring[i])]

\* There is such a function, whatever the sequence.
LEMMA KeptExists ==
  ASSUME NEW ring, NEW block, NEW N \in Nat
  PROVE  \E kept : KeptUpTo(kept, ring, block, N)
<1> DEFINE P == {n \in 0 .. N : \E kept : KeptUpTo(kept, ring, block, n)}
<1>1. 0 \in P
  <2>1. KeptUpTo([i \in 0 .. 0 |-> <<>>], ring, block, 0)
    BY DEF KeptUpTo
  <2> QED
    BY <2>1
<1>2. ASSUME NEW n \in 0 .. N - 1, n \in P PROVE n + 1 \in P
  <2>1. PICK f : KeptUpTo(f, ring, block, n)
    BY <1>2
  <2> DEFINE g == [i \in 0 .. n + 1 |->
                     IF i <= n THEN f[i]
                     ELSE IF ring[n + 1] = block THEN f[n] ELSE Append(f[n], ring[n + 1])]
  <2>2. ASSUME NEW i \in 0 .. n + 1
        PROVE  g[i] = IF i = 0 THEN <<>> ELSE IF ring[i] = block THEN g[i - 1] ELSE Append(g[i - 1], ring[i])
    <3>1. CASE i = 0
      BY <2>1, <3>1 DEF KeptUpTo
    <3>2. CASE i # 0 /\ i <= n
      <4>1. /\ i \in 0 .. n /\ i - 1 \in 0 .. n /\ i - 1 <= n /\ i - 1 \in 0 .. n + 1
            /\ g[i] = f[i] /\ g[i - 1] = f[i - 1]
        BY <3>2
      <4>2. f[i] = IF ring[i] = block THEN f[i - 1] ELSE Append(f[i - 1], ring[i])
        BY <4>1, <3>2, <2>1 DEF KeptUpTo
      <4> QED
        BY <4>1, <4>2, <3>2
    <3>3. CASE i = n + 1
      <4>1. i # 0 /\ i - 1 = n /\ g[i - 1] = f[n]
        BY <3>3
      <4> QED
        BY <4>1, <3>3
    <3> QED
      BY <3>1, <3>2, <3>3
  <2>3. KeptUpTo(g, ring, block, n + 1)
    BY <2>2 DEF KeptUpTo
  <2> QED
    BY <2>3
<1>3. 0 .. N \subseteq P
  <2> HIDE DEF P
  <2> QED
    BY <1>1, <1>2, NaturalsUpTo
<1> QED
  BY <1>3

\* One block more.
LEMMA KeptStep ==
  ASSUME NEW f, NEW ring, NEW block, NEW N \in Nat, KeptUpTo(f, ring, block, N)
  PROVE  /\ f[0] = <<>>
         /\ \A n \in 0 .. N - 1 : f[n + 1] = IF ring[n + 1] = block THEN f[n] ELSE Append(f[n], ring[n + 1])
<1>1. f[0] = <<>>
  BY DEF KeptUpTo
<1>2. ASSUME NEW n \in 0 .. N - 1
      PROVE  f[n + 1] = IF ring[n + 1] = block THEN f[n] ELSE Append(f[n], ring[n + 1])
  <2>1. n + 1 \in 0 .. N /\ n + 1 # 0 /\ (n + 1) - 1 = n
    OBVIOUS
  <2> QED
    BY <2>1 DEF KeptUpTo
<1> QED
  BY <1>1, <1>2

\* What the definition chooses is that function.
LEMMA WithoutIsKept ==
  ASSUME NEW S, NEW ring \in Seq(S), NEW block
  PROVE  \E kept : KeptUpTo(kept, ring, block, Len(ring)) /\ Without(ring, block) = kept[Len(ring)]
<1> DEFINE kept == CHOOSE k : KeptUpTo(k, ring, block, Len(ring))
<1>1. Len(ring) \in Nat
  OBVIOUS
<1>2. KeptUpTo(kept, ring, block, Len(ring))
  BY <1>1, KeptExists
<1>3. Without(ring, block) = kept[Len(ring)]
  BY DEF Without, KeptUpTo
<1> QED
  BY <1>2, <1>3

\* It depends on no more of the sequence than the blocks it has passed.
LEMMA KeptAgrees ==
  ASSUME NEW f, NEW r, NEW g, NEW q, NEW block, NEW n \in Nat, NEW m \in Nat, NEW k \in Nat, k <= n, k <= m,
         KeptUpTo(f, r, block, n), KeptUpTo(g, q, block, m), \A i \in 1 .. k : r[i] = q[i]
  PROVE  \A i \in 0 .. k : f[i] = g[i]
<1> DEFINE P == {i \in 0 .. k : f[i] = g[i]}
<1>1. 0 \in P
  BY DEF KeptUpTo
<1>2. ASSUME NEW i \in 0 .. k - 1, i \in P PROVE i + 1 \in P
  <2>1. /\ i + 1 \in 0 .. n /\ i + 1 \in 0 .. m /\ i + 1 # 0 /\ (i + 1) - 1 = i
        /\ i + 1 \in 1 .. k /\ i + 1 \in 0 .. k /\ f[i] = g[i] /\ r[i + 1] = q[i + 1]
    BY <1>2
  <2>2. f[i + 1] = IF r[i + 1] = block THEN f[i] ELSE Append(f[i], r[i + 1])
    BY <2>1 DEF KeptUpTo
  <2>3. g[i + 1] = IF q[i + 1] = block THEN g[i] ELSE Append(g[i], q[i + 1])
    BY <2>1 DEF KeptUpTo
  <2> QED
    BY <2>1, <2>2, <2>3
<1>3. 0 .. k \subseteq P
  <2> HIDE DEF P
  <2> QED
    BY <1>1, <1>2, NaturalsUpTo
<1> QED
  BY <1>3

\* What is kept are blocks of the sequence, and not the one that is left out.
LEMMA WithoutType ==
  ASSUME NEW S, NEW ring \in Seq(S), NEW block
  PROVE  /\ Without(ring, block) \in Seq(S \ {block}) /\ Without(ring, block) \in Seq(S)
         /\ Len(Without(ring, block)) <= Len(ring)
         /\ Numbered(Without(ring, block)) \subseteq Numbered(ring)
<1> DEFINE N == Len(ring)
           R == {ring[j] : j \in 1 .. N}
           P == {n \in 0 .. N : \A f : KeptUpTo(f, ring, block, N) =>
                                  f[n] \in Seq((S \cap R) \ {block}) /\ Len(f[n]) <= n}
<1>1. N \in Nat /\ R \subseteq S
  OBVIOUS
<1>2. 0 \in P
  <2>1. ASSUME NEW f, KeptUpTo(f, ring, block, N) PROVE f[0] = <<>>
    BY <1>1, <2>1 DEF KeptUpTo
  <2>2. 0 \in 0 .. N /\ <<>> \in Seq((S \cap R) \ {block}) /\ Len(<<>>) <= 0
    BY <1>1
  <2> HIDE DEF R, N
  <2> QED
    BY <2>1, <2>2
<1>3. ASSUME NEW n \in 0 .. N - 1, n \in P PROVE n + 1 \in P
  <2>0. n + 1 \in 0 .. N
    BY <1>1
  <2> SUFFICES ASSUME NEW f, KeptUpTo(f, ring, block, N)
               PROVE  f[n + 1] \in Seq((S \cap R) \ {block}) /\ Len(f[n + 1]) <= n + 1
    <3> HIDE DEF R, N
    <3> QED
      BY <2>0
  <2>1. n + 1 \in 0 .. N /\ n + 1 # 0 /\ (n + 1) - 1 = n /\ n + 1 \in 1 .. N
    BY <1>1
  <2>2. f[n + 1] = IF ring[n + 1] = block THEN f[n] ELSE Append(f[n], ring[n + 1])
    BY <2>1 DEF KeptUpTo
  <2>3. f[n] \in Seq((S \cap R) \ {block}) /\ Len(f[n]) <= n
    BY <1>3
  <2>4. ring[n + 1] \in S \cap R
    BY <2>1, <1>1
  <2> HIDE DEF R, N
  <2>5. CASE ring[n + 1] = block
    BY <2>2, <2>3, <2>5
  <2>6. CASE ring[n + 1] # block
    BY <2>2, <2>3, <2>4, <2>6
  <2> QED
    BY <2>5, <2>6
<1>4. 0 .. N \subseteq P
  <2> HIDE DEF P, N
  <2> QED
    BY <1>1, <1>2, <1>3, NaturalsUpTo
<1>5. PICK f : KeptUpTo(f, ring, block, N) /\ Without(ring, block) = f[N]
  BY WithoutIsKept
<1>6. Without(ring, block) \in Seq((S \cap R) \ {block}) /\ Len(Without(ring, block)) <= N
  BY <1>1, <1>4, <1>5
<1>7. \A i \in 1 .. Len(Without(ring, block)) : Without(ring, block)[i] \in R
  <2> HIDE DEF R
  <2> QED
    BY <1>6
<1>8. Without(ring, block) \in Seq(S \ {block}) /\ Without(ring, block) \in Seq(S)
  <2> HIDE DEF R, N
  <2>1. (S \cap R) \ {block} \subseteq S \ {block} /\ (S \cap R) \ {block} \subseteq S
    OBVIOUS
  <2> QED
    BY <1>6, <2>1, SeqMonotonic
<1>9. Numbered(ring) = R /\ Numbered(Without(ring, block)) \subseteq R
  <2> HIDE DEF N
  <2>1. DOMAIN ring = 1 .. Len(ring)
    OBVIOUS
  <2>2. DOMAIN Without(ring, block) = 1 .. Len(Without(ring, block))
    BY <1>8
  <2>3. Numbered(ring) = R
    BY <2>1 DEF Numbered, N
  <2> HIDE DEF R
  <2> QED
    BY <1>7, <2>2, <2>3 DEF Numbered
<1> QED
  BY <1>6, <1>8, <1>9

\* Nothing is kept of nothing.
LEMMA WithoutEmpty ==
  ASSUME NEW block
  PROVE  Without(<<>>, block) = <<>>
<1>1. PICK kept : KeptUpTo(kept, <<>>, block, Len(<<>>)) /\ Without(<<>>, block) = kept[Len(<<>>)]
  <2>1. <<>> \in Seq({})
    OBVIOUS
  <2> QED
    BY <2>1, WithoutIsKept
<1> QED
  BY <1>1 DEF KeptUpTo

\* A block put behind the others is kept behind them, or left out.
LEMMA WithoutAppend ==
  ASSUME NEW S, NEW ring \in Seq(S), NEW x \in S, NEW block
  PROVE  Without(Append(ring, x), block) =
           IF x = block THEN Without(ring, block) ELSE Append(Without(ring, block), x)
<1> DEFINE N == Len(ring)
           longer == Append(ring, x)
<1>1. /\ N \in Nat /\ longer \in Seq(S) /\ Len(longer) = N + 1
      /\ \A i \in 1 .. N : longer[i] = ring[i]
      /\ longer[N + 1] = x
  OBVIOUS
<1>2. PICK f : KeptUpTo(f, ring, block, N) /\ Without(ring, block) = f[N]
  BY WithoutIsKept
<1>3. PICK g : KeptUpTo(g, longer, block, N + 1) /\ Without(longer, block) = g[N + 1]
  <2> HIDE DEF longer
  <2>1. \E g : KeptUpTo(g, longer, block, Len(longer)) /\ Without(longer, block) = g[Len(longer)]
    BY <1>1, WithoutIsKept
  <2> QED
    BY <1>1, <2>1
<1> HIDE DEF longer, N
<1>4. g[N] = f[N]
  <2>1. N + 1 \in Nat /\ N <= N /\ N <= N + 1
    BY <1>1
  <2>2. KeptUpTo(g, longer, block, N + 1) /\ KeptUpTo(f, ring, block, N) /\ N \in Nat
    BY <1>1, <1>2, <1>3
  <2>3. \A i \in 1 .. N : longer[i] = ring[i]
    BY <1>1
  <2>4. \A i \in 0 .. N : g[i] = f[i]
    BY <2>1, <2>2, <2>3, KeptAgrees
  <2> QED
    BY <1>1, <2>4
<1>5. g[N + 1] = IF longer[N + 1] = block THEN g[N] ELSE Append(g[N], longer[N + 1])
  <2>1. N + 1 \in Nat /\ N \in 0 .. (N + 1) - 1
    BY <1>1
  <2> QED
    BY <2>1, <1>3, KeptStep
<1>6. Without(longer, block) = IF x = block THEN Without(ring, block) ELSE Append(Without(ring, block), x)
  BY <1>1, <1>2, <1>3, <1>4, <1>5
<1> QED
  BY <1>6 DEF longer

\* The first block taken away is kept before the others, or left out.
LEMMA WithoutTail ==
  ASSUME NEW S, NEW ring \in Seq(S), ring # <<>>, NEW block
  PROVE  Without(ring, block) =
           IF Head(ring) = block THEN Without(Tail(ring), block)
           ELSE <<Head(ring)>> \o Without(Tail(ring), block)
<1> DEFINE N == Len(ring)
           rest == Tail(ring)
           first == IF Head(ring) = block THEN <<>> ELSE <<Head(ring)>>
<1>1. /\ N \in Nat \ {0} /\ rest \in Seq(S) /\ Len(rest) = N - 1 /\ Head(ring) = ring[1]
      /\ \A i \in 1 .. N - 1 : rest[i] = ring[i + 1] /\ rest[i] \in S
      /\ first \in Seq(S)
  OBVIOUS
<1>2. PICK f : KeptUpTo(f, ring, block, N) /\ Without(ring, block) = f[N]
  BY WithoutIsKept
<1>3. PICK g : KeptUpTo(g, rest, block, N - 1) /\ Without(rest, block) = g[N - 1]
  <2> HIDE DEF rest
  <2>1. \E g : KeptUpTo(g, rest, block, Len(rest)) /\ Without(rest, block) = g[Len(rest)]
    BY <1>1, WithoutIsKept
  <2> QED
    BY <1>1, <2>1
<1> HIDE DEF N, rest, first
<1>4. /\ f[0] = <<>> /\ f[1] = IF ring[1] = block THEN f[0] ELSE Append(f[0], ring[1])
      /\ \A i \in 0 .. N - 2 :
           f[i + 2] = IF rest[i + 1] = block THEN f[i + 1] ELSE Append(f[i + 1], rest[i + 1])
  <2>1. 0 \in 0 .. N - 1 /\ 0 + 1 = 1
    BY <1>1
  <2>2. ASSUME NEW i \in 0 .. N - 2
        PROVE  /\ i + 1 \in 0 .. N - 1 /\ (i + 1) + 1 = i + 2 /\ i + 1 \in 1 .. N - 1
               /\ rest[i + 1] = ring[i + 2]
    BY <1>1
  <2> QED
    BY <1>1, <1>2, <2>1, <2>2, KeptStep
<1>5. g[0] = <<>> /\ \A i \in 0 .. N - 2 :
                       g[i + 1] = IF rest[i + 1] = block THEN g[i] ELSE Append(g[i], rest[i + 1])
  <2>1. N - 1 \in Nat /\ (N - 1) - 1 = N - 2
    BY <1>1
  <2> QED
    BY <2>1, <1>3, KeptStep
<1> DEFINE P == {i \in 0 .. N - 1 : f[i + 1] = first \o g[i] /\ g[i] \in Seq(S)}
<1>10. 0 \in P
  <2>1. f[1] = first
    BY <1>1, <1>4 DEF first
  <2>2. first \o <<>> = first /\ <<>> \in Seq(S) /\ 0 \in 0 .. N - 1 /\ 0 + 1 = 1
    BY <1>1, ConcatEmptySeq
  <2> QED
    BY <1>5, <2>1, <2>2
<1>11. ASSUME NEW i \in 0 .. (N - 1) - 1, i \in P PROVE i + 1 \in P
  <2>1. /\ i \in 0 .. N - 2 /\ i + 1 \in 0 .. N - 1 /\ (i + 1) + 1 = i + 2 /\ i + 1 \in 1 .. N - 1
        /\ f[i + 1] = first \o g[i] /\ g[i] \in Seq(S)
    BY <1>1, <1>11
  <2>2. rest[i + 1] \in S
    BY <2>1, <1>1
  <2>3. Append(first \o g[i], rest[i + 1]) = first \o Append(g[i], rest[i + 1]) /\ Append(g[i], rest[i + 1]) \in Seq(S)
    <3> DEFINE q == g[i]
               x == rest[i + 1]
    <3>1. q \in Seq(S) /\ x \in S /\ first \in Seq(S)
      BY <1>1, <2>1, <2>2
    <3> HIDE DEF q, x
    <3>2. Append(first \o q, x) = first \o Append(q, x) /\ Append(q, x) \in Seq(S)
      BY <3>1
    <3> QED
      BY <3>2 DEF q, x
  <2>4. f[i + 2] = first \o g[i + 1] /\ g[i + 1] \in Seq(S)
    BY <2>1, <2>3, <1>4, <1>5
  <2> QED
    BY <2>1, <2>4
<1>6. 0 .. N - 1 \subseteq P
  <2> HIDE DEF P
  <2>1. N - 1 \in Nat
    BY <1>1
  <2> QED
    BY <2>1, <1>10, <1>11, NaturalsUpTo
<1>7. f[N] = first \o g[N - 1] /\ g[N - 1] \in Seq(S)
  <2>1. N - 1 \in 0 .. N - 1 /\ (N - 1) + 1 = N
    BY <1>1
  <2> QED
    BY <2>1, <1>6
<1>8. Without(ring, block) = first \o Without(rest, block) /\ Without(rest, block) \in Seq(S)
  BY <1>2, <1>3, <1>7
<1>9. <<>> \o Without(rest, block) = Without(rest, block)
  BY <1>8, ConcatEmptySeq
<1> QED
  BY <1>8, <1>9 DEF rest, first
\* Nothing is kept of a sequence of the block that is left out ...
LEMMA WithoutConstant ==
  ASSUME NEW S, NEW ring \in Seq(S), NEW block, \A i \in 1 .. Len(ring) : ring[i] = block
  PROVE  Without(ring, block) = <<>>
<1> DEFINE N == Len(ring)
<1>1. N \in Nat
  OBVIOUS
<1>2. PICK f : KeptUpTo(f, ring, block, N) /\ Without(ring, block) = f[N]
  BY WithoutIsKept
<1>3. \A i \in 1 .. N : ring[i] = block
  OBVIOUS
<1> HIDE DEF N
<1> DEFINE P == {i \in 0 .. N : f[i] = <<>>}
<1>4. 0 \in P
  BY <1>1, <1>2, KeptStep
<1>5. ASSUME NEW i \in 0 .. N - 1, i \in P PROVE i + 1 \in P
  <2>1. i + 1 \in 1 .. N /\ i + 1 \in 0 .. N
    BY <1>1
  <2> QED
    BY <2>1, <1>1, <1>2, <1>3, <1>5, KeptStep
<1>6. 0 .. N \subseteq P
  <2> HIDE DEF P
  <2> QED
    BY <1>1, <1>4, <1>5, NaturalsUpTo
<1> QED
  BY <1>1, <1>2, <1>6

\* ... and all of one in which it is not.
LEMMA WithoutAbsent ==
  ASSUME NEW S, NEW ring \in Seq(S), NEW block, \A i \in 1 .. Len(ring) : ring[i] # block
  PROVE  Without(ring, block) = ring
<1> DEFINE N == Len(ring)
<1>1. /\ N \in Nat
      /\ \A i \in 1 .. N : ring[i] # block /\ ring[i] \in S
  OBVIOUS
<1>2. PICK f : KeptUpTo(f, ring, block, N) /\ Without(ring, block) = f[N]
  BY WithoutIsKept
<1> HIDE DEF N
<1> DEFINE P == {i \in 0 .. N : f[i] \in Seq(S) /\ Len(f[i]) = i /\ \A j \in 1 .. i : f[i][j] = ring[j]}
<1>4. 0 \in P
  <2>1. f[0] = <<>>
    BY <1>1, <1>2, KeptStep
  <2>2. 0 \in 0 .. N /\ <<>> \in Seq(S) /\ Len(<<>>) = 0 /\ 1 .. 0 = {}
    BY <1>1
  <2> QED
    BY <2>1, <2>2
<1>5. ASSUME NEW i \in 0 .. N - 1, i \in P PROVE i + 1 \in P
  <2> DEFINE q == f[i]
             x == ring[i + 1]
  <2>1. i + 1 \in 1 .. N /\ i + 1 \in 0 .. N /\ i \in Nat
    BY <1>1
  <2>2. q \in Seq(S) /\ Len(q) = i /\ (\A j \in 1 .. i : q[j] = ring[j]) /\ x \in S
    BY <1>1, <1>5, <2>1
  <2>3. f[i + 1] = Append(q, x)
    <3>1. ring[i + 1] # block
      BY <2>1, <1>1
    <3>2. f[i + 1] = IF ring[i + 1] = block THEN f[i] ELSE Append(f[i], ring[i + 1])
      BY <1>1, <1>2, KeptStep
    <3> QED
      BY <3>1, <3>2
  <2> HIDE DEF q
  <2>4. Append(q, x) \in Seq(S) /\ Len(Append(q, x)) = i + 1 /\ \A j \in 1 .. i + 1 : Append(q, x)[j] = ring[j]
    BY <2>1, <2>2
  <2> QED
    BY <2>1, <2>3, <2>4
<1>6. 0 .. N \subseteq P
  <2> HIDE DEF P
  <2> QED
    BY <1>1, <1>4, <1>5, NaturalsUpTo
<1>7. N \in P
  BY <1>1, <1>6
<1>8. f[N] \in Seq(S) /\ Len(f[N]) = Len(ring) /\ \A j \in 1 .. Len(ring) : f[N][j] = ring[j]
  BY <1>7 DEF N
<1>9. f[N] = ring
  BY <1>8, SeqEqual
<1> QED
  BY <1>2, <1>9

\* Of blocks that are all different, the first one taken away leaves the others.
LEMMA WithoutHead ==
  ASSUME NEW S, NEW ring \in Seq(S), ring # <<>>, IsInjective(ring)
  PROVE  Without(ring, Head(ring)) = Tail(ring)
<1>1. /\ Tail(ring) \in Seq(S) /\ DOMAIN ring = 1 .. Len(ring) /\ Len(ring) \in Nat \ {0}
      /\ Len(Tail(ring)) = Len(ring) - 1 /\ Head(ring) = ring[1]
      /\ \A i \in 1 .. Len(ring) - 1 : Tail(ring)[i] = ring[i + 1]
  OBVIOUS
<1>2. ASSUME NEW i \in 1 .. Len(Tail(ring)) PROVE Tail(ring)[i] # Head(ring)
  <2>1. 1 \in DOMAIN ring /\ i + 1 \in DOMAIN ring /\ i + 1 # 1 /\ Tail(ring)[i] = ring[i + 1]
    BY <1>1
  <2> QED
    BY <1>1, <2>1 DEF IsInjective
<1>3. Without(Tail(ring), Head(ring)) = Tail(ring)
  BY <1>1, <1>2, WithoutAbsent
<1> QED
  BY <1>3, WithoutTail
-----------------------------------------------------------------------------
(* The inductive invariant.                                                *)

Half == PlayerBlocks \div 2
BinderType == [wait_completion : Seq(Blocks), pooled : Seq(Blocks), wait_buffering : {0, 1},
               silent : Blocks, num_blocks : {PlayerBlocks}]

\* The shape of the pipes and of the binder, of which TypeOK says what is in them.
ShapeOK ==
  /\ sink_pipe \in [producer : Seq(Blocks), consumer : Seq(Blocks)]
  /\ capture_pipe \in [producer : Nat, consumer : Nat]
  /\ order \in Seq(Blocks)
  /\ IF OpenSL THEN binder \in BinderType ELSE binder = None

\* Where the handler thread is in poll() tells what state mixer and sink are in.
PhaseInv ==
  /\ handler = "starting sink" => mixer_state = "started" /\ sink_state = "stopped" /\ waited = None
  /\ handler = "stopping sink" => mixer_state = "suspended" /\ sink_state = "started"
  /\ handler = "joining writer" => mixer_state = "suspended" /\ sink_state = "started" /\ stop_request_
  /\ handler = "joining mixer" => mixer_state = "stopped" /\ sink_state = "stopped"
  /\ handler \in {"idle", "polling mixer", "obtaining"} => (sink_state = "started") = (mixer_state = "started")
  /\ stop_request_ => handler = "joining writer" /\ ~OpenSL
  /\ OpenSL => writer = "none"
  /\ OpenSL \/ (writer = "none") = (sink_state = "stopped")

\* The player holds half its blocks while it runs, none when it is stopped; what it gave back when it
\* was stopped is no more, none of it is the silent block, and it is played before the next stop.
PlayerInv ==
  OpenSL =>
    /\ Len(binder.wait_completion) = IF sink_state = "started" THEN Half ELSE 0
    /\ Len(binder.pooled) <= Half
    /\ \A i \in 1 .. Len(binder.pooled) : binder.pooled[i] # binder.silent
    /\ handler = "stopping sink" => binder.pooled = <<>>
    /\ sink_state = "started" /\ waited # None => binder.pooled = <<>> \/ Len(binder.pooled) + waited <= Half

\* A block is free, being mixed, the silent one or queued, and only one of these.
OneOwner ==
  /\ IsInjective(order) /\ IsInjective(sink_pipe.producer)
  /\ Numbered(order) \cap Numbered(sink_pipe.producer) = {}
  /\ mixing \notin Numbered(order) \cup Numbered(sink_pipe.producer)
  /\ OpenSL => /\ binder.silent \notin Numbered(order) \cup Numbered(sink_pipe.producer)
               /\ binder.silent # mixing

MixingInv == (mixing # None => mixer_thread = "mixing") /\ (capturing => mixing # None)

IInv == TypeOK /\ ShapeOK /\ PhaseInv /\ PlayerInv /\ OneOwner /\ MixingInv /\ PlaysInOrder

\* What the sink has still to take, the silent blocks of the player included.
PendingOf(wait, pooled, consumer) == wait \o (pooled \o consumer)
Pending == IF OpenSL THEN PendingOf(binder.wait_completion, binder.pooled, sink_pipe.consumer)
           ELSE sink_pipe.consumer
Limit == IF OpenSL THEN NumPipeBlocks(backend) - 1 + Half ELSE NumPipeBlocks(backend)

\* No source is there while poll() counts the time without one, or suspends the mixer for the lack of one.
PauseInv == (waited # None \/ mixer_state = "suspended") /\ handler # "idle" => source = "none"
\* While nothing is mixed, what is audible moves up by a block with each one that is waited for ...
NearerInv == waited # None /\ source = "none" =>
               \A i \in 1 .. Len(Pending) : content[Pending[i]] = "sound" => i + waited <= Limit
\* ... the player's silent block never is ...
SilentInv == OpenSL => content[binder.silent] = "silence"
\* ... and when the mixer is suspended nothing that is queued is.
SuspendedInv == mixer_state = "suspended" /\ source = "none" => \A b \in Numbered(order) : content[b] = "silence"

SilenceInv == PauseInv /\ NearerInv /\ SilentInv /\ SuspendedInv

-----------------------------------------------------------------------------
(* Facts about the sizes.                                                  *)

\* What the sizes of the back ends come to.
LEMMA Sizes ==
  ASSUME backend \in Backends
  PROVE  /\ NumPipeBlocks(backend) \in Nat /\ NumPipeBlocks(backend) >= 2
         /\ Half \in Nat /\ Half > 0 /\ Half + Half <= PlayerBlocks
         /\ OpenSL => NumPipeBlocks(backend) >= PlayerBlocks + 2
         /\ MaxWait \in Nat /\ MaxWait = NumPipeBlocks(backend) - 1 + ExtraDelay /\ MaxWait >= 1
         /\ OpenSL => MaxWait > PlayerBlocks
BY DEF NumPipeBlocks, Half, MaxWait, OpenSL

\* Blocks are numbers, so that None is not one of them.
LEMMA NumberedBlocks ==
  ASSUME backend \in Backends
  PROVE  Blocks \subseteq Nat /\ None \notin Blocks
BY Sizes DEF Blocks

\* Nobody changes the back end.
LEMMA SameBackend ==
  ASSUME [Next]_vars
  PROVE  backend' = backend
BY DEF Next, Poll, MixerThread, Writer, Attach, Detach, setAudioCaptureEnabled, pollControlMixerAndSinkSuspendResume,
       startSink, startSinkFails, joinMixer, stopSink, joinWriter, pollMixer, pollObtainCapturedAudioData,
       mixerThreadChecksRequests, mixerThreadUpdatesSource, mixerThreadLocksBlocks, mixerThreadFindsNoBlock,
       mixerThreadUnlocksBlocks, playbackBufferQueueCallback, writerStarts, writerExits, audioTrackStreamCallback,
       writerWrites, vars

\* A block period more is still a count of blocks up to its limit.
LEMMA LaterType ==
  ASSUME backend \in Backends, waited \in (0 .. MaxWait) \cup {None}, Later
  PROVE  /\ waited' \in (0 .. MaxWait) \cup {None}
         /\ waited = None <=> waited' = None
         /\ waited # None => waited' = IF waited < MaxWait THEN waited + 1 ELSE waited
BY Sizes DEF Later

\* What the operations of a pipe make of it, written out.
LEMMA WithConsumer ==
  ASSUME NEW pipe, NEW p, NEW c, pipe = [producer |-> p, consumer |-> c], NEW t
  PROVE  [pipe EXCEPT !.consumer = t] = [producer |-> p, consumer |-> t]
OBVIOUS

\* ... and of the other queue.
LEMMA WithProducer ==
  ASSUME NEW pipe, NEW p, NEW c, pipe = [producer |-> p, consumer |-> c], NEW t
  PROVE  [pipe EXCEPT !.producer = t] = [producer |-> t, consumer |-> c]
OBVIOUS

\* The sink takes the oldest block of the consumer queue ...
LEMMA ReadLocked ==
  ASSUME NEW pipe, NEW p, NEW c, pipe = [producer |-> p, consumer |-> c]
  PROVE  lockRead(pipe) = [producer |-> p, consumer |-> Tail(c)]
<1>1. lockRead(pipe) = [pipe EXCEPT !.consumer = Tail(c)]
  BY DEF lockRead
<1> QED
  BY <1>1, WithConsumer

\* ... and gives one back, last of the producer queue.
LEMMA ReadUnlocked ==
  ASSUME NEW pipe, NEW p, NEW c, pipe = [producer |-> p, consumer |-> c], NEW b
  PROVE  unlockRead(pipe, b) = [producer |-> Append(p, b), consumer |-> c]
<1>1. unlockRead(pipe, b) = [pipe EXCEPT !.producer = Append(p, b)]
  BY DEF unlockRead
<1> QED
  BY <1>1, WithProducer

\* The mixer takes the oldest free block ...
LEMMA WriteLocked ==
  ASSUME NEW pipe, NEW p, NEW c, pipe = [producer |-> p, consumer |-> c]
  PROVE  lockWrite(pipe) = [producer |-> Tail(p), consumer |-> c]
<1>1. lockWrite(pipe) = [pipe EXCEPT !.producer = Tail(p)]
  BY DEF lockWrite
<1> QED
  BY <1>1, WithProducer

\* ... and gives it on, last of the consumer queue.
LEMMA WriteUnlocked ==
  ASSUME NEW pipe, NEW p, NEW c, pipe = [producer |-> p, consumer |-> c], NEW b
  PROVE  unlockWrite(pipe, b) = [producer |-> p, consumer |-> Append(c, b)]
<1>1. unlockWrite(pipe, b) = [pipe EXCEPT !.consumer = Append(c, b)]
  BY DEF unlockWrite
<1> QED
  BY <1>1, WithConsumer

\* The three ways in which the player's callback goes on from the block it gives back.
LEMMA CallbackCases ==
  ASSUME TypeOK, ShapeOK, PlayerInv, playbackBufferQueueCallback
  PROVE  LET first == Head(binder.wait_completion)
             rest == Tail(binder.wait_completion)
             producer == IF first = binder.silent THEN sink_pipe.producer ELSE Append(sink_pipe.producer, first)
         IN /\ OpenSL /\ sink_state = "started" /\ binder.wait_completion # <<>>
            /\ UNCHANGED <<backend, writer, buffer, stop_request_, thread, source, states, handler, delivered, captured>>
            /\ IF first = binder.silent THEN UNCHANGED <<order, content>> ELSE Play(first)
            /\ \/ /\ binder.pooled # <<>>
                  /\ binder' = [wait_completion |-> Append(rest, Head(binder.pooled)), pooled |-> Tail(binder.pooled),
                                wait_buffering |-> 0, silent |-> binder.silent, num_blocks |-> PlayerBlocks]
                  /\ sink_pipe' = [producer |-> producer, consumer |-> sink_pipe.consumer]
                  /\ Later
               \/ /\ binder.pooled = <<>> /\ sink_pipe.consumer # <<>>
                  /\ binder' = [wait_completion |-> Append(rest, Head(sink_pipe.consumer)), pooled |-> <<>>,
                                wait_buffering |-> 0, silent |-> binder.silent, num_blocks |-> PlayerBlocks]
                  /\ sink_pipe' = [producer |-> producer, consumer |-> Tail(sink_pipe.consumer)]
                  /\ Later
               \/ /\ binder.pooled = <<>>
                  /\ binder' = [wait_completion |-> Append(rest, binder.silent), pooled |-> <<>>,
                                wait_buffering |-> 1, silent |-> binder.silent, num_blocks |-> PlayerBlocks]
                  /\ sink_pipe' = [producer |-> producer, consumer |-> sink_pipe.consumer]
                  /\ UNCHANGED waited
<1> DEFINE first == Head(binder.wait_completion)
           rest == Tail(binder.wait_completion)
           producer == IF first = binder.silent THEN sink_pipe.producer ELSE Append(sink_pipe.producer, first)
           left == returned(binder, sink_pipe)
           next == NextBlock(binder, left)
           done == handleCallback(binder, sink_pipe)
<1>1. /\ OpenSL /\ sink_state = "started" /\ binder.wait_completion # <<>> /\ binder \in BinderType
      /\ sink_pipe \in [producer : Seq(Blocks), consumer : Seq(Blocks)]
      /\ UNCHANGED <<backend, writer, buffer, stop_request_, thread, source, states, handler, delivered, captured>>
      /\ IF first = binder.silent THEN UNCHANGED <<order, content>> ELSE Play(first)
      /\ binder' = done.binder /\ sink_pipe' = done.pipe /\ IF done.taken THEN Later ELSE UNCHANGED waited
  BY DEF playbackBufferQueueCallback, Completed, ShapeOK
<1>2. left = [producer |-> producer, consumer |-> sink_pipe.consumer]
  BY <1>1 DEF returned, unlockRead, Completed
<1>3. /\ Len(rest) < PlayerBlocks
      /\ \A b : enqueue(rest, b, binder.num_blocks) = Append(rest, b)
  <2>1. Len(binder.wait_completion) = Half /\ Half \in Nat /\ Half <= PlayerBlocks /\ Half > 0
    <3>1. backend \in Backends
      BY DEF TypeOK
    <3>2. Half \in Nat /\ Half > 0 /\ Half <= PlayerBlocks
      BY <3>1, Sizes
    <3> QED
      BY <1>1, <3>2 DEF PlayerInv
  <2>2. Len(rest) = Half - 1 /\ binder.num_blocks = PlayerBlocks
    BY <1>1, <2>1 DEF BinderType
  <2> QED
    BY <2>1, <2>2 DEF enqueue
<1>4. /\ done.pipe = IF next.from = "pipe" THEN lockRead(left) ELSE left
      /\ done.taken = (next.from # "nowhere")
      /\ done.binder = [wait_completion |-> Append(rest, next.block),
                        pooled |-> IF next.from = "pool" THEN Tail(binder.pooled) ELSE binder.pooled,
                        wait_buffering |-> IF next.from = "nowhere" THEN 1 ELSE 0,
                        silent |-> binder.silent, num_blocks |-> PlayerBlocks]
  <2>1. binder.num_blocks = PlayerBlocks
    BY <1>1 DEF BinderType
  <2> HIDE DEF next
  <2> QED
    BY <1>1, <1>3, <2>1 DEF handleCallback, BinderType, next, left
<1> HIDE DEF done
<1>5. CASE binder.pooled # <<>>
  <2>1. next.from = "pool" /\ next.block = Head(binder.pooled)
    BY <1>5 DEF NextBlock
  <2> QED
    BY <1>1, <1>2, <1>4, <1>5, <2>1
<1>6. CASE binder.pooled = <<>> /\ CanLockRead(left, binder.wait_buffering)
  <2>1. next.from = "pipe" /\ next.block = Head(left.consumer)
    BY <1>6 DEF NextBlock
  <2>2. left.consumer = sink_pipe.consumer /\ sink_pipe.consumer # <<>>
    BY <1>1, <1>2, <1>6 DEF CanLockRead, BinderType
  <2>3. lockRead(left) = [producer |-> producer, consumer |-> Tail(sink_pipe.consumer)]
    <3> HIDE DEF left, producer
    <3> QED
      BY <1>2, ReadLocked
  <2> QED
    BY <1>1, <1>4, <1>6, <2>1, <2>2, <2>3
<1>7. CASE binder.pooled = <<>> /\ ~CanLockRead(left, binder.wait_buffering)
  <2>1. next.from = "nowhere" /\ next.block = binder.silent
    BY <1>7 DEF NextBlock
  <2> QED
    BY <1>1, <1>2, <1>4, <1>7, <2>1
<1> QED
  BY <1>5, <1>6, <1>7
\* Most steps leave the pipes and the player's queue alone.
LEMMA PipeSteps ==
  ASSUME [Next]_vars
  PROVE  \/ UNCHANGED <<sink_pipe, capture_pipe, content, order, binder, mixing, capturing>>
         \/ startSink \/ stopSink \/ pollObtainCapturedAudioData \/ mixerThreadLocksBlocks
         \/ mixerThreadUnlocksBlocks \/ playbackBufferQueueCallback \/ audioTrackStreamCallback
BY DEF Next, Poll, MixerThread, Writer, Attach, Detach, setAudioCaptureEnabled, pollControlMixerAndSinkSuspendResume,
       startSinkFails, joinMixer, joinWriter, pollMixer, mixerThreadChecksRequests, mixerThreadUpdatesSource,
       mixerThreadFindsNoBlock, writerStarts, writerExits, writerWrites, vars, pipes, device, thread, captured

\* The elements of a sequence, as AudioOutput writes them.
LEMMA NumberedSeq ==
  ASSUME NEW S, NEW q \in Seq(S)
  PROVE  Numbered(q) \subseteq S /\ Numbered(q) = {q[i] : i \in 1 .. Len(q)}
BY DEF Numbered

\* What each of the other steps makes of the pipes and of the player's queue, written out.
LEMMA Written ==
  ASSUME ShapeOK
  PROVE  /\ sink_pipe = [producer |-> sink_pipe.producer, consumer |-> sink_pipe.consumer]
         /\ sink_pipe.producer \in Seq(Blocks) /\ sink_pipe.consumer \in Seq(Blocks)
         /\ capture_pipe = [producer |-> capture_pipe.producer, consumer |-> capture_pipe.consumer]
         /\ capture_pipe.producer \in Nat /\ capture_pipe.consumer \in Nat
BY DEF ShapeOK

\* A player is started with half its queue silent.
LEMMA StartEffect ==
  ASSUME ShapeOK, startSink
  PROVE  /\ UNCHANGED <<sink_pipe, capture_pipe, content, order, mixing, capturing>>
         /\ IF OpenSL
            THEN binder' = [wait_completion |-> [i \in 1 .. Half |-> binder.silent], pooled |-> binder.pooled,
                            wait_buffering |-> IF binder.pooled = <<>> THEN 1 ELSE 0,
                            silent |-> binder.silent, num_blocks |-> PlayerBlocks]
            ELSE binder' = binder
<1>1. /\ UNCHANGED <<sink_pipe, capture_pipe, content, order, mixing, capturing>>
      /\ IF OpenSL THEN binder' = beforeStart(binder) ELSE binder' = binder
  BY DEF startSink, startPlayer, startStream, pipes, captured, thread
<1>2. ASSUME OpenSL
      PROVE  beforeStart(binder) =
               [wait_completion |-> [i \in 1 .. Half |-> binder.silent], pooled |-> binder.pooled,
                wait_buffering |-> IF binder.pooled = <<>> THEN 1 ELSE 0,
                silent |-> binder.silent, num_blocks |-> PlayerBlocks]
  <2>1. binder \in BinderType /\ binder.num_blocks = PlayerBlocks
    BY <1>2 DEF ShapeOK, BinderType
  <2> DEFINE w == [i \in 1 .. Half |-> binder.silent]
             n == IF binder.pooled = <<>> THEN 1 ELSE 0
  <2>2. beforeStart(binder) = [binder EXCEPT !.wait_completion = w, !.wait_buffering = n]
    BY <2>1 DEF beforeStart, Half
  <2> HIDE DEF w, n
  <2>3. beforeStart(binder) = [wait_completion |-> w, pooled |-> binder.pooled, wait_buffering |-> n,
                               silent |-> binder.silent, num_blocks |-> PlayerBlocks]
    BY <2>1, <2>2 DEF BinderType
  <2> QED
    BY <2>3 DEF w, n
<1> QED
  BY <1>1, <1>2

\* A player that is stopped gives back what it had not played.
LEMMA StopEffect ==
  ASSUME ShapeOK, stopSink
  PROVE  /\ UNCHANGED <<sink_pipe, capture_pipe, content, order, mixing, capturing>>
         /\ IF OpenSL
            THEN binder' = [wait_completion |-> <<>>, pooled |-> Without(binder.wait_completion, binder.silent),
                            wait_buffering |-> binder.wait_buffering,
                            silent |-> binder.silent, num_blocks |-> PlayerBlocks]
            ELSE binder' = binder
<1>1. /\ UNCHANGED <<sink_pipe, capture_pipe, content, order, mixing, capturing>>
      /\ IF OpenSL THEN binder' = afterStop(binder) ELSE binder' = binder
  BY DEF stopSink, stopPlayer, stopStream, pipes, captured, thread
<1>2. ASSUME OpenSL
      PROVE  afterStop(binder) =
               [wait_completion |-> <<>>, pooled |-> Without(binder.wait_completion, binder.silent),
                wait_buffering |-> binder.wait_buffering, silent |-> binder.silent, num_blocks |-> PlayerBlocks]
  <2>1. binder \in BinderType /\ binder.num_blocks = PlayerBlocks
    BY <1>2 DEF ShapeOK, BinderType
  <2> DEFINE w == Without(binder.wait_completion, binder.silent)
  <2>2. afterStop(binder) = [binder EXCEPT !.pooled = w, !.wait_completion = <<>>]
    BY <2>1 DEF afterStop
  <2> HIDE DEF w
  <2>3. afterStop(binder) = [wait_completion |-> <<>>, pooled |-> w, wait_buffering |-> binder.wait_buffering,
                             silent |-> binder.silent, num_blocks |-> PlayerBlocks]
    BY <2>1, <2>2 DEF BinderType
  <2> QED
    BY <2>3 DEF w
<1> QED
  BY <1>1, <1>2

\* A captured block is handled, or the poll ends.
LEMMA ObtainEffect ==
  ASSUME ShapeOK, pollObtainCapturedAudioData
  PROVE  /\ UNCHANGED <<sink_pipe, content, order, binder, mixing, capturing>>
         /\ \/ capture_pipe' = capture_pipe
            \/ /\ capture_pipe.consumer > 0
               /\ capture_pipe' = [producer |-> capture_pipe.producer + 1, consumer |-> capture_pipe.consumer - 1]
<1>1. /\ UNCHANGED <<sink_pipe, content, order, binder, mixing, capturing>>
      /\ \/ capture_pipe' = capture_pipe
         \/ capture_pipe.consumer > 0 /\ capture_pipe' = unlockCaptureRead(lockCaptureRead(capture_pipe))
  BY DEF pollObtainCapturedAudioData, pipes, device, thread, isCapturedDataAvailable
<1>2. unlockCaptureRead(lockCaptureRead(capture_pipe)) =
        [producer |-> capture_pipe.producer + 1, consumer |-> capture_pipe.consumer - 1]
  <2> DEFINE one == lockCaptureRead(capture_pipe)
  <2>1. one = [producer |-> capture_pipe.producer, consumer |-> capture_pipe.consumer - 1]
    BY Written, WithConsumer DEF lockCaptureRead
  <2> HIDE DEF one
  <2>2. unlockCaptureRead(one) = [producer |-> capture_pipe.producer + 1, consumer |-> capture_pipe.consumer - 1]
    BY <2>1, WithProducer DEF unlockCaptureRead
  <2> QED
    BY <2>2 DEF one
<1> QED
  BY <1>1, <1>2

\* The mixer thread takes a block, and one to capture it if that is asked for and there is one.
LEMMA LockEffect ==
  ASSUME ShapeOK, mixerThreadLocksBlocks
  PROVE  /\ UNCHANGED <<content, order, binder>> /\ mixing = None /\ mixer_thread = "mixing"
         /\ sink_pipe.producer # <<>> /\ mixing' = Head(sink_pipe.producer)
         /\ sink_pipe' = [producer |-> Tail(sink_pipe.producer), consumer |-> sink_pipe.consumer]
         /\ capturing' \in BOOLEAN
         /\ IF capturing'
            THEN /\ capture_pipe.producer > 0
                 /\ capture_pipe' = [producer |-> capture_pipe.producer - 1, consumer |-> capture_pipe.consumer]
            ELSE capture_pipe' = capture_pipe
<1>1. /\ UNCHANGED <<content, order, binder>> /\ mixing = None /\ mixer_thread = "mixing"
      /\ CanLockWrite(sink_pipe, 0) /\ mixing' = Head(sink_pipe.producer) /\ sink_pipe' = lockWrite(sink_pipe)
      /\ capturing' = (capture_enabled /\ CanCapture(capture_pipe))
      /\ capture_pipe' = IF capturing' THEN lockCaptureWrite(capture_pipe) ELSE capture_pipe
  BY DEF mixerThreadLocksBlocks, device
<1>2. sink_pipe.producer # <<>>
  BY <1>1, Written DEF CanLockWrite
<1>3. lockWrite(sink_pipe) = [producer |-> Tail(sink_pipe.producer), consumer |-> sink_pipe.consumer]
  BY Written, WriteLocked
<1>4. lockCaptureWrite(capture_pipe) = [producer |-> capture_pipe.producer - 1, consumer |-> capture_pipe.consumer]
  BY Written, WithProducer DEF lockCaptureWrite
<1>5. capturing' \in BOOLEAN
  BY <1>1
<1>6. capturing' => capture_pipe.producer > 0
  BY <1>1 DEF CanCapture
<1>7. IF capturing'
      THEN capture_pipe' = [producer |-> capture_pipe.producer - 1, consumer |-> capture_pipe.consumer]
      ELSE capture_pipe' = capture_pipe
  BY <1>1, <1>4
<1> QED
  BY <1>1, <1>2, <1>3, <1>5, <1>6, <1>7

\* It gives both on.
LEMMA UnlockEffect ==
  ASSUME TypeOK, ShapeOK, mixerThreadUnlocksBlocks
  PROVE  /\ UNCHANGED binder /\ mixing \in Blocks /\ mixing' = None /\ capturing' = FALSE
         /\ content' = [content EXCEPT ![mixing] = IF source \in Audible THEN "sound" ELSE "silence"]
         /\ order' = Append(order, mixing)
         /\ sink_pipe' = [producer |-> sink_pipe.producer, consumer |-> Append(sink_pipe.consumer, mixing)]
         /\ IF capturing
            THEN capture_pipe' = [producer |-> capture_pipe.producer, consumer |-> capture_pipe.consumer + 1]
            ELSE capture_pipe' = capture_pipe
<1>1. /\ UNCHANGED binder /\ mixing # None /\ mixing' = None /\ capturing' = FALSE
      /\ content' = [content EXCEPT ![mixing] = IF source \in Audible THEN "sound" ELSE "silence"]
      /\ order' = Append(order, mixing) /\ sink_pipe' = unlockWrite(sink_pipe, mixing)
      /\ capture_pipe' = IF capturing THEN unlockCaptureWrite(capture_pipe) ELSE capture_pipe
  BY DEF mixerThreadUnlocksBlocks, device
<1>2. mixing \in Blocks
  BY <1>1 DEF TypeOK
<1>3. unlockWrite(sink_pipe, mixing) = [producer |-> sink_pipe.producer, consumer |-> Append(sink_pipe.consumer, mixing)]
  BY Written, WriteUnlocked
<1>4. unlockCaptureWrite(capture_pipe) = [producer |-> capture_pipe.producer, consumer |-> capture_pipe.consumer + 1]
  BY Written, WithConsumer DEF unlockCaptureWrite
<1>5. IF capturing
      THEN capture_pipe' = [producer |-> capture_pipe.producer, consumer |-> capture_pipe.consumer + 1]
      ELSE capture_pipe' = capture_pipe
  BY <1>1, <1>4
<1> QED
  BY <1>1, <1>2, <1>3, <1>5

\* The writer thread copies a block and frees it at once, or finds none.
LEMMA StreamEffect ==
  ASSUME ShapeOK, audioTrackStreamCallback
  PROVE  /\ UNCHANGED <<binder, capture_pipe, mixing, capturing>>
         /\ \/ UNCHANGED <<sink_pipe, content, order, waited>>
            \/ /\ sink_pipe.consumer # <<>> /\ Play(Head(sink_pipe.consumer)) /\ Later
               /\ sink_pipe' = [producer |-> Append(sink_pipe.producer, Head(sink_pipe.consumer)),
                                consumer |-> Tail(sink_pipe.consumer)]
<1> DEFINE block == Head(sink_pipe.consumer)
           read == lockRead(sink_pipe)
<1>1. /\ UNCHANGED <<binder, capture_pipe, mixing, capturing>>
      /\ \/ UNCHANGED <<sink_pipe, content, order, waited>>
         \/ CanLockRead(sink_pipe, 0) /\ Play(block) /\ Later /\ sink_pipe' = unlockRead(read, block)
  BY DEF audioTrackStreamCallback, captured, thread
<1>2. CanLockRead(sink_pipe, 0) => sink_pipe.consumer # <<>>
  BY Written DEF CanLockRead
<1>3. read = [producer |-> sink_pipe.producer, consumer |-> Tail(sink_pipe.consumer)]
  BY Written, ReadLocked
<1> HIDE DEF read
<1>4. unlockRead(read, block) = [producer |-> Append(sink_pipe.producer, block), consumer |-> Tail(sink_pipe.consumer)]
  <2> DEFINE p == sink_pipe.producer
             c == Tail(sink_pipe.consumer)
  <2>1. read = [producer |-> p, consumer |-> c]
    BY <1>3
  <2> HIDE DEF p, c, block
  <2>2. unlockRead(read, block) = [producer |-> Append(p, block), consumer |-> c]
    BY <2>1, ReadUnlocked
  <2> QED
    BY <2>2 DEF p, c
<1> QED
  BY <1>1, <1>2, <1>4

\* The queues and the binder keep their shape.
LEMMA ShapeStep ==
  ASSUME TypeOK, ShapeOK, PlayerInv, [Next]_vars
  PROVE  ShapeOK'
<1>0. backend' = backend /\ Blocks' = Blocks /\ OpenSL' = OpenSL /\ BinderType' = BinderType
  BY SameBackend DEF Blocks, OpenSL, BinderType
<1>00. /\ sink_pipe.producer \in Seq(Blocks) /\ sink_pipe.consumer \in Seq(Blocks) /\ order \in Seq(Blocks)
       /\ capture_pipe.producer \in Nat /\ capture_pipe.consumer \in Nat
       /\ OpenSL => binder \in BinderType
  BY Written DEF ShapeOK
<1>1. CASE UNCHANGED <<sink_pipe, capture_pipe, content, order, binder, mixing, capturing>>
  BY <1>0, <1>1 DEF ShapeOK
<1>2. CASE startSink
  <2>1. OpenSL => [i \in 1 .. Half |-> binder.silent] \in Seq(Blocks)
    <3>1. backend \in Backends
      BY DEF TypeOK
    <3>2. Half \in Nat /\ (OpenSL => binder.silent \in Blocks)
      BY <1>00, <3>1, Sizes DEF BinderType
    <3> QED
      BY <3>2
  <2>2. OpenSL => binder' \in BinderType
    <3> DEFINE w == [i \in 1 .. Half |-> binder.silent]
    <3>1. OpenSL => w \in Seq(Blocks)
      BY <2>1
    <3>2. OpenSL => binder' = [wait_completion |-> w, pooled |-> binder.pooled,
                               wait_buffering |-> IF binder.pooled = <<>> THEN 1 ELSE 0,
                               silent |-> binder.silent, num_blocks |-> PlayerBlocks]
      BY <1>2, StartEffect
    <3> HIDE DEF w
    <3> QED
      BY <1>00, <3>1, <3>2 DEF BinderType
  <2> QED
    BY <1>0, <1>2, <2>2, StartEffect DEF ShapeOK
<1>3. CASE stopSink
  <2>1. OpenSL => Without(binder.wait_completion, binder.silent) \in Seq(Blocks)
    BY <1>00, WithoutType DEF BinderType
  <2>2. OpenSL => binder' \in BinderType
    <3> DEFINE w == Without(binder.wait_completion, binder.silent)
    <3>1. OpenSL => binder' = [wait_completion |-> <<>>, pooled |-> w, wait_buffering |-> binder.wait_buffering,
                               silent |-> binder.silent, num_blocks |-> PlayerBlocks]
      BY <1>3, StopEffect
    <3>2. OpenSL => /\ w \in Seq(Blocks) /\ <<>> \in Seq(Blocks)
                    /\ binder.wait_buffering \in {0, 1} /\ binder.silent \in Blocks
      BY <1>00, <2>1 DEF BinderType
    <3> HIDE DEF w
    <3>3. OpenSL => [wait_completion |-> <<>>, pooled |-> w, wait_buffering |-> binder.wait_buffering,
                     silent |-> binder.silent, num_blocks |-> PlayerBlocks] \in BinderType
      BY <3>2 DEF BinderType
    <3> QED
      BY <3>1, <3>3
  <2> QED
    BY <1>0, <1>3, <2>2, StopEffect DEF ShapeOK
<1>4. CASE pollObtainCapturedAudioData
  <2>1. capture_pipe' \in [producer : Nat, consumer : Nat]
    BY <1>00, <1>4, ObtainEffect DEF ShapeOK
  <2> QED
    BY <1>0, <1>4, <2>1, ObtainEffect DEF ShapeOK
<1>5. CASE mixerThreadLocksBlocks
  <2>1. capture_pipe' \in [producer : Nat, consumer : Nat]
    BY <1>00, <1>5, LockEffect DEF ShapeOK
  <2>2. Tail(sink_pipe.producer) \in Seq(Blocks)
    BY <1>00, <1>5, LockEffect
  <2>3. sink_pipe' \in [producer : Seq(Blocks), consumer : Seq(Blocks)]
    <3>1. sink_pipe' = [producer |-> Tail(sink_pipe.producer), consumer |-> sink_pipe.consumer]
      BY <1>5, LockEffect
    <3> QED
      BY <1>00, <2>2, <3>1
  <2> QED
    BY <1>0, <1>5, <2>1, <2>3, LockEffect DEF ShapeOK
<1>6. CASE mixerThreadUnlocksBlocks
  <2>1. capture_pipe' \in [producer : Nat, consumer : Nat]
    <3>1. \/ capture_pipe' = [producer |-> capture_pipe.producer, consumer |-> capture_pipe.consumer + 1]
          \/ capture_pipe' = capture_pipe
      BY <1>6, UnlockEffect
    <3> QED
      BY <1>00, <3>1 DEF ShapeOK
  <2>2. Append(sink_pipe.consumer, mixing) \in Seq(Blocks) /\ Append(order, mixing) \in Seq(Blocks)
    BY <1>00, <1>6, UnlockEffect
  <2>3. sink_pipe' \in [producer : Seq(Blocks), consumer : Seq(Blocks)] /\ order' \in Seq(Blocks)
    <3>1. /\ sink_pipe' = [producer |-> sink_pipe.producer, consumer |-> Append(sink_pipe.consumer, mixing)]
          /\ order' = Append(order, mixing)
      BY <1>6, UnlockEffect
    <3> QED
      BY <1>00, <2>2, <3>1
  <2> QED
    BY <1>0, <1>6, <2>1, <2>3, UnlockEffect DEF ShapeOK
<1>7. CASE playbackBufferQueueCallback
  <2> DEFINE first == Head(binder.wait_completion)
             rest == Tail(binder.wait_completion)
             producer == IF first = binder.silent THEN sink_pipe.producer ELSE Append(sink_pipe.producer, first)
  <2>1. OpenSL /\ binder.wait_completion # <<>> /\ binder \in BinderType /\ capture_pipe' = capture_pipe
    BY <1>00, <1>7, CallbackCases DEF captured
  <2>2. first \in Blocks /\ rest \in Seq(Blocks) /\ producer \in Seq(Blocks)
    BY <1>00, <2>1 DEF BinderType
  <2>3. order' \in Seq(Blocks)
    <3>1. order' = order \/ order' = Without(order, first)
      BY <1>7 DEF playbackBufferQueueCallback, Play, Completed
    <3>2. Without(order, first) \in Seq(Blocks)
      BY <1>00, WithoutType
    <3> QED
      BY <1>00, <3>1, <3>2
  <2>4. binder' \in BinderType /\ sink_pipe' \in [producer : Seq(Blocks), consumer : Seq(Blocks)]
    <3>1. CASE /\ binder.pooled # <<>>
               /\ binder' = [wait_completion |-> Append(rest, Head(binder.pooled)), pooled |-> Tail(binder.pooled),
                             wait_buffering |-> 0, silent |-> binder.silent, num_blocks |-> PlayerBlocks]
               /\ sink_pipe' = [producer |-> producer, consumer |-> sink_pipe.consumer]
      <4> HIDE DEF first, rest, producer
      <4> QED
        BY <1>00, <2>1, <2>2, <3>1 DEF BinderType
    <3>2. CASE /\ binder.pooled = <<>> /\ sink_pipe.consumer # <<>>
               /\ binder' = [wait_completion |-> Append(rest, Head(sink_pipe.consumer)), pooled |-> <<>>,
                             wait_buffering |-> 0, silent |-> binder.silent, num_blocks |-> PlayerBlocks]
               /\ sink_pipe' = [producer |-> producer, consumer |-> Tail(sink_pipe.consumer)]
      <4> HIDE DEF first, rest, producer
      <4> QED
        BY <1>00, <2>1, <2>2, <3>2 DEF BinderType
    <3>3. CASE /\ binder' = [wait_completion |-> Append(rest, binder.silent), pooled |-> <<>>,
                             wait_buffering |-> 1, silent |-> binder.silent, num_blocks |-> PlayerBlocks]
               /\ sink_pipe' = [producer |-> producer, consumer |-> sink_pipe.consumer]
      <4> HIDE DEF first, rest, producer
      <4> QED
        BY <1>00, <2>1, <2>2, <3>3 DEF BinderType
    <3> QED
      BY <1>7, <3>1, <3>2, <3>3, CallbackCases
  <2> QED
    BY <1>0, <2>1, <2>3, <2>4 DEF ShapeOK
<1>8. CASE audioTrackStreamCallback
  <2>1. CASE UNCHANGED <<sink_pipe, content, order, waited>>
    BY <1>0, <1>8, <2>1, StreamEffect DEF ShapeOK
  <2>2. CASE /\ sink_pipe.consumer # <<>> /\ Play(Head(sink_pipe.consumer))
             /\ sink_pipe' = [producer |-> Append(sink_pipe.producer, Head(sink_pipe.consumer)),
                              consumer |-> Tail(sink_pipe.consumer)]
    <3>1. /\ Head(sink_pipe.consumer) \in Blocks /\ Tail(sink_pipe.consumer) \in Seq(Blocks)
          /\ Append(sink_pipe.producer, Head(sink_pipe.consumer)) \in Seq(Blocks)
      BY <1>00, <2>2
    <3>2. sink_pipe' \in [producer : Seq(Blocks), consumer : Seq(Blocks)]
      BY <2>2, <3>1
    <3>3. order' = Without(order, Head(sink_pipe.consumer))
      BY <2>2 DEF Play
    <3>4. Without(order, Head(sink_pipe.consumer)) \in Seq(Blocks)
      BY <1>00, WithoutType
    <3> QED
      BY <1>0, <1>8, <3>2, <3>3, <3>4, StreamEffect DEF ShapeOK
  <2> QED
    BY <1>8, <2>1, <2>2, StreamEffect
<1> QED
  BY <1>1, <1>2, <1>3, <1>4, <1>5, <1>6, <1>7, <1>8, PipeSteps
-----------------------------------------------------------------------------
(* The inductive step, part by part.                                       *)

\* The small variables: which phase each thread is in, and what it holds.
Small ==
  /\ writer \in {"none", "starting", "pulling", "writing", "exited"} /\ stop_request_ \in BOOLEAN
  /\ sink_state \in {"stopped", "started"} /\ mixer_state \in {"suspended", "started", "stopped"}
  /\ mixer_thread \in {"checking", "suspended", "updating", "mixing", "ended"}
  /\ capturing \in BOOLEAN /\ capture_enabled \in BOOLEAN
  /\ source \in {"none", "requested", "started", "detached", "ended"}
  /\ handler \in {"idle", "starting sink", "stopping sink", "joining writer", "joining mixer",
                  "polling mixer", "obtaining"}
  /\ delivered \in 0 .. MaxPerPoll

\* Each thread is in a phase that its own steps lead to, in the state of mixer and sink that goes with it.
LEMMA SmallStep ==
  ASSUME backend \in Backends, Small, ShapeOK, PhaseInv, MixingInv, [Next]_vars
  PROVE  Small' /\ MixingInv' /\ PhaseInv'
<1> USE DEF Small, PhaseInv, MixingInv
<1>0. OpenSL' = OpenSL
  BY SameBackend DEF OpenSL
<1>1. CASE Attach
  BY <1>0, <1>1 DEF Attach, pipes, device, thread, states, polling, captured
<1>2. CASE Detach
  BY <1>0, <1>2 DEF Detach, pipes, device, thread, states, polling, captured
<1>3. CASE setAudioCaptureEnabled
  BY <1>0, <1>3 DEF setAudioCaptureEnabled, pipes, device, thread, states, polling
<1>4. CASE pollControlMixerAndSinkSuspendResume
  BY <1>0, <1>4 DEF pollControlMixerAndSinkSuspendResume, pipes, device, thread, captured, Suspends, Resumes, EnteredCanSuspend, canSuspend
<1>5. CASE startSink
  BY <1>0, <1>5 DEF startSink, pipes, thread, captured, startPlayer, startStream
<1>6. CASE startSinkFails
  BY <1>0, <1>6 DEF startSinkFails, pipes, device, thread, captured
<1>7. CASE joinMixer
  BY <1>0, <1>7 DEF joinMixer, pipes, device, thread, states, captured
<1>8. CASE stopSink
  BY <1>0, <1>8 DEF stopSink, pipes, thread, captured, stopPlayer, stopStream
<1>9. CASE joinWriter
  BY <1>0, <1>9 DEF joinWriter, pipes, thread, captured
<1>10. CASE pollMixer
  <2>1. Small'
    <3>1. delivered' \in 0 .. MaxPerPoll
      <4>1. delivered' = 0
        BY <1>10 DEF pollMixer
      <4>2. MaxPerPoll \in Nat /\ delivered \in 0 .. MaxPerPoll
        OBVIOUS
      <4> HIDE DEF Small, PhaseInv, MixingInv
      <4> QED
        BY <4>1, <4>2
    <3>2. /\ UNCHANGED <<writer, stop_request_, sink_state, mixer_state, mixer_thread, capturing, capture_enabled>>
          /\ source' \in {source, "none"} /\ handler' \in {handler, "idle", "obtaining"}
      BY <1>10 DEF pollMixer, pipes, device, thread, states, captured
    <3>3. capturing' \in BOOLEAN /\ capture_enabled' \in BOOLEAN /\ stop_request_' \in BOOLEAN
      BY <3>2
    <3> HIDE DEF PhaseInv, MixingInv
    <3> QED
      BY <3>1, <3>2, <3>3
  <2>2. MixingInv'
    BY <1>0, <1>10 DEF pollMixer, pipes, device, thread, states, captured
  <2>3. PhaseInv'
    BY <1>0, <1>10 DEF pollMixer, pipes, device, thread, states, captured
  <2> QED
    BY <2>1, <2>2, <2>3
<1>11. CASE pollObtainCapturedAudioData
  <2>1. Small'
    <3>1. delivered' \in 0 .. MaxPerPoll
      <4>1. delivered' = 0 \/ (delivered' = delivered + 1 /\ delivered < MaxPerPoll) \/ delivered' = delivered
        BY <1>11 DEF pollObtainCapturedAudioData
      <4>2. MaxPerPoll \in Nat /\ delivered \in 0 .. MaxPerPoll
        OBVIOUS
      <4> HIDE DEF Small, PhaseInv, MixingInv
      <4> QED
        BY <4>1, <4>2
    <3>2. /\ UNCHANGED <<writer, stop_request_, sink_state, mixer_state, mixer_thread, capturing, capture_enabled>>
          /\ source' \in {source, "none"} /\ handler' \in {handler, "idle", "obtaining"}
      BY <1>11 DEF pollObtainCapturedAudioData, pipes, device, thread, states
    <3>3. capturing' \in BOOLEAN /\ capture_enabled' \in BOOLEAN /\ stop_request_' \in BOOLEAN
      BY <3>2
    <3> HIDE DEF PhaseInv, MixingInv
    <3> QED
      BY <3>1, <3>2, <3>3
  <2>2. MixingInv'
    BY <1>0, <1>11 DEF pollObtainCapturedAudioData, pipes, device, thread, states
  <2>3. PhaseInv'
    BY <1>0, <1>11 DEF pollObtainCapturedAudioData, pipes, device, thread, states
  <2> QED
    BY <2>1, <2>2, <2>3
<1>12. CASE mixerThreadChecksRequests
  BY <1>0, <1>12 DEF mixerThreadChecksRequests, pipes, device, states, polling, captured
<1>13. CASE mixerThreadUpdatesSource
  BY <1>0, <1>13 DEF mixerThreadUpdatesSource, pipes, device, states, polling, captured
<1>14. CASE mixerThreadLocksBlocks
  <2>1. Head(sink_pipe.producer) \in Blocks /\ Blocks \subseteq Nat
    <3>1. sink_pipe.producer \in Seq(Blocks) /\ sink_pipe.producer # <<>>
      BY <1>14, Written, LockEffect
    <3>2. Blocks \subseteq Nat
      BY NumberedBlocks
    <3> HIDE DEF Small, PhaseInv, MixingInv
    <3> QED
      BY <3>1, <3>2
  <2>2. mixing' # None /\ mixer_thread = "mixing" /\ capturing' \in BOOLEAN
    BY <1>14, <2>1, LockEffect
  <2>3. UNCHANGED <<writer, stop_request_, sink_state, mixer_state, mixer_thread, capture_enabled, source, handler,
                    waited, delivered>>
    BY <1>14 DEF mixerThreadLocksBlocks, device, states, polling
  <2> QED
    BY <1>0, <2>2, <2>3
<1>15. CASE mixerThreadFindsNoBlock
  BY <1>0, <1>15 DEF mixerThreadFindsNoBlock, pipes, device, states, polling, captured
<1>16. CASE mixerThreadUnlocksBlocks
  BY <1>0, <1>16 DEF mixerThreadUnlocksBlocks, device, states, polling
<1>17. CASE playbackBufferQueueCallback
  BY <1>0, <1>17 DEF playbackBufferQueueCallback, thread, states, captured
<1>18. CASE writerStarts
  BY <1>0, <1>18 DEF writerStarts, pipes, thread, states, polling, captured
<1>19. CASE writerExits
  BY <1>0, <1>19 DEF writerExits, pipes, thread, states, polling, captured
<1>20. CASE audioTrackStreamCallback
  BY <1>0, <1>20 DEF audioTrackStreamCallback, thread, states, captured
<1>21. CASE writerWrites
  BY <1>0, <1>21 DEF writerWrites, pipes, thread, states, polling, captured
<1>22. CASE UNCHANGED vars
  <2>1. Small'
    BY <1>0, <1>22 DEF vars, pipes, device, thread, states, polling, captured
  <2>2. MixingInv'
    BY <1>0, <1>22 DEF vars, pipes, device, thread, states, polling, captured
  <2>3. PhaseInv'
    BY <1>0, <1>22 DEF vars, pipes, device, thread, states, polling, captured
  <2> QED
    BY <2>1, <2>2, <2>3
<1> QED
  BY <1>1, <1>2, <1>3, <1>4, <1>5, <1>6, <1>7, <1>8, <1>9, <1>10, <1>11, <1>12, <1>13, <1>14, <1>15, <1>16, <1>17, <1>18, <1>19, <1>20, <1>21, <1>22
     DEF Next, Poll, MixerThread, Writer

\* The waiting time is left alone, counted on, or set by the poll that looks whether the mixer is needed.
LEMMA WaitedSteps ==
  ASSUME [Next]_vars
  PROVE  \/ waited' = waited
         \/ Later /\ handler' = handler
         \/ pollControlMixerAndSinkSuspendResume /\ waited' = EnteredCanSuspend
BY DEF Next, Poll, MixerThread, Writer, Attach, Detach, setAudioCaptureEnabled, pollControlMixerAndSinkSuspendResume,
       startSink, startSinkFails, joinMixer, stopSink, joinWriter, pollMixer, pollObtainCapturedAudioData,
       mixerThreadChecksRequests, mixerThreadUpdatesSource, mixerThreadLocksBlocks, mixerThreadFindsNoBlock,
       mixerThreadUnlocksBlocks, playbackBufferQueueCallback, writerStarts, writerExits, audioTrackStreamCallback,
       writerWrites, vars, polling

\* What the blocks hold changes when one is mixed and when one is played.
LEMMA ContentSteps ==
  ASSUME TypeOK, ShapeOK, PlayerInv, [Next]_vars
  PROVE  \/ content' = content
         \/ mixerThreadUnlocksBlocks
         \/ \E b \in Blocks : content' = [content EXCEPT ![b] = "silence"]
<1>1. CASE playbackBufferQueueCallback
  <2>1. OpenSL /\ binder.wait_completion # <<>>
    BY <1>1 DEF playbackBufferQueueCallback
  <2>2. binder.wait_completion \in Seq(Blocks)
    BY <2>1 DEF ShapeOK, BinderType
  <2>3. Head(binder.wait_completion) \in Blocks
    BY <2>1, <2>2
  <2>4. \/ content' = content
        \/ content' = [content EXCEPT ![Head(binder.wait_completion)] = "silence"]
    BY <1>1 DEF playbackBufferQueueCallback, Play, Completed
  <2> QED
    BY <2>3, <2>4
<1>2. CASE audioTrackStreamCallback
  <2>1. CASE UNCHANGED <<sink_pipe, content, order, waited>>
    BY <2>1
  <2>2. CASE sink_pipe.consumer # <<>> /\ Play(Head(sink_pipe.consumer))
    <3>1. Head(sink_pipe.consumer) \in Blocks
      BY <2>2, Written
    <3> QED
      BY <2>2, <3>1 DEF Play
  <2> QED
    BY <1>2, <2>1, <2>2, StreamEffect
<1>3. CASE startSink \/ stopSink \/ pollObtainCapturedAudioData \/ mixerThreadLocksBlocks
  BY <1>3, StartEffect, StopEffect, ObtainEffect, LockEffect
<1> QED
  BY <1>1, <1>2, <1>3, PipeSteps

\* Every variable keeps its type.
LEMMA TypeStep ==
  ASSUME TypeOK, ShapeOK, PlayerInv, PhaseInv, MixingInv, [Next]_vars
  PROVE  TypeOK' /\ PhaseInv' /\ MixingInv'
<1>1. backend' = backend /\ Blocks' = Blocks /\ MaxWait' = MaxWait /\ backend \in Backends
  BY SameBackend DEF TypeOK, Blocks, MaxWait
<1>2. Small' /\ PhaseInv' /\ MixingInv'
  <2>1. Small
    BY DEF TypeOK, Small
  <2> QED
    BY <1>1, <2>1, SmallStep
<1>3. (Numbered(sink_pipe.producer) \cup Numbered(sink_pipe.consumer) \cup Numbered(order) \subseteq Blocks)'
  <2>1. sink_pipe'.producer \in Seq(Blocks) /\ sink_pipe'.consumer \in Seq(Blocks) /\ order' \in Seq(Blocks)
    BY <1>1, ShapeStep DEF ShapeOK
  <2> QED
    BY <1>1, <2>1 DEF Numbered
<1>4. content' \in [Blocks -> {"silence", "sound"}]
  <2>1. content \in [Blocks -> {"silence", "sound"}]
    BY DEF TypeOK
  <2>2. CASE mixerThreadUnlocksBlocks
    BY <2>1, <2>2, UnlockEffect
  <2> QED
    BY <2>1, <2>2, ContentSteps
<1>5. buffer' \in {"silence", "sound"}
  <2>1. buffer \in {"silence", "sound"} /\ content \in [Blocks -> {"silence", "sound"}]
    BY DEF TypeOK
  <2>2. CASE audioTrackStreamCallback
    <3>1. buffer' = buffer \/ (CanLockRead(sink_pipe, 0) /\ buffer' = content[Head(sink_pipe.consumer)])
      BY <2>2 DEF audioTrackStreamCallback
    <3>2. CanLockRead(sink_pipe, 0) => Head(sink_pipe.consumer) \in Blocks
      <4>1. sink_pipe.consumer \in Seq(Blocks)
        BY Written
      <4> QED
        BY <4>1 DEF CanLockRead
    <3> QED
      BY <2>1, <3>1, <3>2
  <2>3. CASE ~audioTrackStreamCallback
    <3>1. buffer' = buffer \/ buffer' = "silence"
      BY <2>3 DEF Next, Poll, MixerThread, Writer, Attach, Detach, setAudioCaptureEnabled,
             pollControlMixerAndSinkSuspendResume, startSink, startPlayer, startStream, startSinkFails, joinMixer,
             stopSink, joinWriter, pollMixer, pollObtainCapturedAudioData,
             mixerThreadChecksRequests, mixerThreadUpdatesSource, mixerThreadLocksBlocks, mixerThreadFindsNoBlock,
             mixerThreadUnlocksBlocks, playbackBufferQueueCallback, writerStarts, writerExits, writerWrites,
             vars, device
    <3> QED
      BY <2>1, <3>1
  <2> QED
    BY <2>2, <2>3
<1>6. mixing' \in Blocks \cup {None}
  <2>1. mixing \in Blocks \cup {None}
    BY DEF TypeOK
  <2>2. CASE mixerThreadLocksBlocks
    <3>1. sink_pipe.producer \in Seq(Blocks)
      BY Written
    <3> QED
      BY <2>2, <3>1, LockEffect
  <2>3. CASE mixerThreadUnlocksBlocks
    BY <2>3, UnlockEffect
  <2>4. CASE playbackBufferQueueCallback
    BY <2>1, <2>4 DEF playbackBufferQueueCallback, thread
  <2> QED
    BY <2>1, <2>2, <2>3, <2>4, PipeSteps, StartEffect, StopEffect, ObtainEffect, StreamEffect
<1>7. waited' \in (0 .. MaxWait) \cup {None}
  <2>1. waited \in (0 .. MaxWait) \cup {None} /\ MaxWait \in Nat
    BY <1>1, Sizes DEF TypeOK
  <2>2. CASE Later
    BY <1>1, <2>1, <2>2, LaterType
  <2>3. EnteredCanSuspend \in (0 .. MaxWait) \cup {None}
    BY <2>1 DEF EnteredCanSuspend
  <2> QED
    BY <2>1, <2>2, <2>3, WaitedSteps
<1> QED
  BY <1>1, <1>2, <1>3, <1>4, <1>5, <1>6, <1>7 DEF TypeOK, Small

\* With the OpenSL back end only four steps are about the player.
LEMMA PlayerSteps ==
  ASSUME OpenSL, PhaseInv, [Next]_vars
  PROVE  \/ startSink \/ stopSink \/ playbackBufferQueueCallback \/ pollControlMixerAndSinkSuspendResume
         \/ UNCHANGED <<binder, sink_state, waited>> /\ (handler' = "stopping sink" => handler = "stopping sink")
<1>1. writer = "none"
  BY DEF PhaseInv
<1> QED
  BY <1>1 DEF Next, Poll, MixerThread, Writer, Attach, Detach, setAudioCaptureEnabled, 
       startSinkFails, joinMixer, joinWriter, pollMixer, pollObtainCapturedAudioData,
       mixerThreadChecksRequests, mixerThreadUpdatesSource, mixerThreadLocksBlocks, mixerThreadFindsNoBlock,
       mixerThreadUnlocksBlocks, writerStarts, writerExits, audioTrackStreamCallback,
       writerWrites, vars, pipes, device, thread, states, polling

\* The player holds half its queue while it runs, and what it gave back is played before the next stop.
LEMMA PlayerStep ==
  ASSUME TypeOK, ShapeOK, PlayerInv, PhaseInv, [Next]_vars
  PROVE  PlayerInv'
<1>0. OpenSL' = OpenSL
  BY SameBackend DEF OpenSL
<1> SUFFICES ASSUME OpenSL PROVE PlayerInv'
  BY <1>0 DEF PlayerInv
<1>1. /\ binder \in BinderType /\ binder.wait_completion \in Seq(Blocks) /\ binder.pooled \in Seq(Blocks)
      /\ Half \in Nat /\ Half > 0 /\ MaxWait \in Nat /\ MaxWait > Half
      /\ waited \in (0 .. MaxWait) \cup {None} /\ Len(binder.pooled) \in Nat
  <2>1. backend \in Backends /\ waited \in (0 .. MaxWait) \cup {None}
    BY DEF TypeOK
  <2>2. /\ binder \in BinderType /\ binder.wait_completion \in Seq(Blocks) /\ binder.pooled \in Seq(Blocks)
    BY DEF ShapeOK, BinderType
  <2>3. Half \in Nat /\ Half > 0 /\ MaxWait \in Nat /\ MaxWait > Half
    BY <2>1, Sizes
  <2> QED
    BY <2>1, <2>2, <2>3
<1>2. /\ Len(binder.wait_completion) = IF sink_state = "started" THEN Half ELSE 0
      /\ Len(binder.pooled) <= Half
      /\ \A i \in 1 .. Len(binder.pooled) : binder.pooled[i] # binder.silent
      /\ handler = "stopping sink" => binder.pooled = <<>>
      /\ sink_state = "started" /\ waited # None => binder.pooled = <<>> \/ Len(binder.pooled) + waited <= Half
  BY DEF PlayerInv
<1>3. CASE UNCHANGED <<binder, sink_state, waited>> /\ (handler' = "stopping sink" => handler = "stopping sink")
  BY <1>2, <1>3 DEF PlayerInv
<1>4. CASE startSink
  <2>1. /\ binder'.wait_completion = [i \in 1 .. Half |-> binder.silent] /\ binder'.pooled = binder.pooled
        /\ binder'.silent = binder.silent
    BY <1>4, StartEffect
  <2>2. sink_state' = "started" /\ handler' = "polling mixer" /\ waited' = None
    BY <1>4 DEF startSink, PhaseInv
  <2>3. Len(binder'.wait_completion) = Half
    BY <1>1, <2>1
  <2> QED
    BY <1>2, <2>1, <2>2, <2>3 DEF PlayerInv
<1>5. CASE stopSink
  <2> DEFINE kept == Without(binder.wait_completion, binder.silent)
  <2>1. binder'.wait_completion = <<>> /\ binder'.pooled = kept /\ binder'.silent = binder.silent
    BY <1>5, StopEffect
  <2>2. sink_state' = "stopped" /\ handler' = "polling mixer" /\ sink_state = "started"
    BY <1>5 DEF stopSink
  <2>3. kept \in Seq(Blocks \ {binder.silent}) /\ Len(kept) <= Half
    <3>1. Len(binder.wait_completion) = Half
      BY <1>2, <2>2
    <3>2. kept \in Seq(Blocks \ {binder.silent}) /\ Len(kept) <= Len(binder.wait_completion)
      BY <1>1, WithoutType
    <3> QED
      BY <3>1, <3>2
  <2>4. \A i \in 1 .. Len(kept) : kept[i] # binder.silent
    <3> HIDE DEF kept
    <3> QED
      BY <2>3
  <2> HIDE DEF kept
  <2> QED
    BY <2>1, <2>2, <2>3, <2>4 DEF PlayerInv
<1>6. CASE pollControlMixerAndSinkSuspendResume
  <2>1. /\ UNCHANGED <<binder, sink_state>> /\ handler = "idle" /\ waited' = EnteredCanSuspend
        /\ handler' = "stopping sink" => Suspends
    BY <1>6 DEF pollControlMixerAndSinkSuspendResume, device
  <2>2. waited' = waited \/ waited' = None \/ waited' = 0
    BY <2>1 DEF EnteredCanSuspend
  <2>3. ASSUME Suspends PROVE binder.pooled = <<>>
    <3>1. /\ mixer_state = "started" /\ sink_state = "started" /\ EnteredCanSuspend >= MaxWait /\ canSuspend
      BY <2>1, <2>3 DEF Suspends, PhaseInv
    <3>2. waited # None /\ waited >= MaxWait
      BY <1>1, <3>1 DEF EnteredCanSuspend
    <3>3. binder.pooled = <<>> \/ Len(binder.pooled) + waited <= Half
      BY <1>2, <3>1, <3>2
    <3>4. waited \in Nat /\ Len(binder.pooled) \in Nat /\ MaxWait \in Nat /\ Half \in Nat /\ MaxWait > Half
      BY <1>1, <3>2
    <3> DEFINE n == Len(binder.pooled)
    <3>5. ~(n + waited <= Half)
      <4> HIDE DEF n
      <4> QED
        BY <3>2, <3>4 DEF n
    <3> QED
      BY <3>3, <3>5
  <2>4. sink_state = "started" /\ waited' # None => binder.pooled = <<>> \/ Len(binder.pooled) + waited' <= Half
    <3>1. CASE waited' = waited
      BY <1>2, <3>1
    <3>2. CASE waited' = 0
      <4> DEFINE n == Len(binder.pooled)
      <4>1. n \in Nat /\ n <= Half /\ Half \in Nat
        BY <1>1, <1>2
      <4> HIDE DEF n
      <4>2. n + waited' <= Half
        BY <3>2, <4>1
      <4> QED
        BY <4>2 DEF n
    <3> QED
      BY <2>2, <3>1, <3>2
  <2> QED
    BY <1>2, <2>1, <2>3, <2>4 DEF PlayerInv
<1>7. CASE playbackBufferQueueCallback
  <2> DEFINE rest == Tail(binder.wait_completion)
  <2>1. sink_state = "started" /\ sink_state' = "started" /\ handler' = handler /\ binder.wait_completion # <<>>
    BY <1>7, CallbackCases DEF states
  <2>2. rest \in Seq(Blocks) /\ Len(rest) = Half - 1
    <3>1. Len(binder.wait_completion) = Half
      BY <1>2, <2>1
    <3> QED
      BY <1>1, <2>1, <3>1
  <2> HIDE DEF rest
  <2>3. \A b \in Blocks : Append(rest, b) \in Seq(Blocks) /\ Len(Append(rest, b)) = Half
    BY <1>1, <2>2
  <2>4. CASE binder.pooled # <<>> /\ Later
             /\ binder' = [wait_completion |-> Append(rest, Head(binder.pooled)), pooled |-> Tail(binder.pooled),
                           wait_buffering |-> 0, silent |-> binder.silent, num_blocks |-> PlayerBlocks]
    <3> DEFINE pool == binder.pooled
    <3>1. /\ Head(pool) \in Blocks /\ Tail(pool) \in Seq(Blocks) /\ Len(Tail(pool)) = Len(pool) - 1
          /\ \A i \in 1 .. Len(pool) - 1 : Tail(pool)[i] = pool[i + 1]
          /\ Len(pool) \in Nat
      BY <1>1, <2>4
    <3>2. binder'.pooled = Tail(pool) /\ binder'.silent = binder.silent /\ Len(binder'.wait_completion) = Half
      BY <2>3, <2>4, <3>1
    <3>3. \A i \in 1 .. Len(Tail(pool)) : Tail(pool)[i] # binder.silent
      <4> SUFFICES ASSUME NEW i \in 1 .. Len(pool) - 1 PROVE Tail(pool)[i] # binder.silent
        BY <3>1
      <4>1. i + 1 \in 1 .. Len(pool)
        BY <3>1
      <4> QED
        BY <1>2, <3>1, <4>1
    <3>4. handler # "stopping sink"
      BY <1>2, <2>4
    <3>5. waited' # None => Len(Tail(pool)) + waited' <= Half
      <4>1. waited' # None => waited # None /\ (waited' = waited + 1 \/ waited' = waited)
        BY <1>1, <2>4, LaterType DEF TypeOK
      <4>2. waited' # None => waited \in Nat
        BY <1>1, <4>1
      <4>3. waited' # None => Len(pool) + waited <= Half
        BY <1>2, <2>1, <2>4, <4>1
      <4> HIDE DEF pool
      <4> QED
        BY <1>1, <3>1, <4>1, <4>2, <4>3
    <3>6. Len(Tail(pool)) <= Half
      <4>1. Len(pool) <= Half
        BY <1>2
      <4> HIDE DEF pool
      <4> QED
        BY <1>1, <3>1, <4>1
    <3> HIDE DEF pool
    <3> QED
      BY <2>1, <3>2, <3>3, <3>4, <3>5, <3>6 DEF PlayerInv
  <2>5. CASE \E b \in Blocks, n \in {0, 1} :
               binder' = [wait_completion |-> Append(rest, b), pooled |-> <<>>,
                          wait_buffering |-> n, silent |-> binder.silent, num_blocks |-> PlayerBlocks]
    <3>1. binder'.pooled = <<>> /\ Len(binder'.wait_completion) = Half
      BY <2>3, <2>5
    <3>2. Len(<<>>) = 0 /\ 1 .. 0 = {}
      OBVIOUS
    <3>3. Len(binder'.pooled) <= Half /\ \A i \in 1 .. Len(binder'.pooled) : binder'.pooled[i] # binder'.silent
      BY <1>1, <3>1, <3>2
    <3> QED
      BY <2>1, <3>1, <3>3 DEF PlayerInv
  <2>6. sink_pipe.consumer # <<>> => Head(sink_pipe.consumer) \in Blocks
    <3>1. sink_pipe.consumer \in Seq(Blocks)
      BY Written
    <3> QED
      BY <3>1
  <2>7. binder.silent \in Blocks
    BY <1>1 DEF BinderType
  <2> QED
    BY <1>7, <2>4, <2>5, <2>6, <2>7, CallbackCases DEF rest
<1> QED
  BY <1>3, <1>4, <1>5, <1>6, <1>7, PlayerSteps

-----------------------------------------------------------------------------
(* Sequences of different blocks.                                          *)

\* The first of a sequence of different elements is not in the rest of it.
LEMMA TailOne ==
  ASSUME NEW S, NEW q \in Seq(S), q # <<>>, IsInjective(q)
  PROVE  /\ Tail(q) \in Seq(S) /\ IsInjective(Tail(q)) /\ Len(Tail(q)) = Len(q) - 1
         /\ Numbered(Tail(q)) = Numbered(q) \ {Head(q)}
         /\ Head(q) \in Numbered(q) /\ Head(q) \in S
<1>1. /\ Len(q) \in Nat /\ Len(q) > 0 /\ DOMAIN q = 1 .. Len(q)
      /\ Tail(q) \in Seq(S) /\ Len(Tail(q)) = Len(q) - 1 /\ DOMAIN Tail(q) = 1 .. Len(q) - 1
      /\ \A k \in 1 .. Len(q) - 1 : Tail(q)[k] = q[k + 1]
      /\ Head(q) = q[1] /\ q[1] \in S
  OBVIOUS
<1>2. IsInjective(Tail(q))
  BY <1>1 DEF IsInjective
<1>3. \A x \in Numbered(q) \ {Head(q)} : x \in Numbered(Tail(q))
  <2> TAKE x \in Numbered(q) \ {Head(q)}
  <2>1. PICK k \in 1 .. Len(q) : q[k] = x
    BY <1>1 DEF Numbered
  <2>2. k - 1 \in 1 .. Len(q) - 1 /\ Tail(q)[k - 1] = x
    BY <1>1, <2>1
  <2> QED
    BY <1>1, <2>2 DEF Numbered
<1>4. \A x \in Numbered(Tail(q)) : x \in Numbered(q) \ {Head(q)}
  <2> SUFFICES ASSUME NEW k \in 1 .. Len(q) - 1 PROVE Tail(q)[k] \in Numbered(q) /\ Tail(q)[k] # q[1]
    BY <1>1 DEF Numbered
  <2>1. k + 1 \in 1 .. Len(q) /\ Tail(q)[k] = q[k + 1] /\ 1 \in 1 .. Len(q) /\ k + 1 # 1
    BY <1>1
  <2> QED
    BY <1>1, <2>1 DEF Numbered, IsInjective
<1>5. Head(q) \in Numbered(q)
  BY <1>1 DEF Numbered
<1> QED
  BY <1>1, <1>2, <1>3, <1>4, <1>5

\* A new element makes a longer sequence of different ones.
LEMMA AppendOne ==
  ASSUME NEW S, NEW q \in Seq(S), NEW x \in S, x \notin Numbered(q), IsInjective(q)
  PROVE  /\ Append(q, x) \in Seq(S) /\ IsInjective(Append(q, x)) /\ Len(Append(q, x)) = Len(q) + 1
         /\ Numbered(Append(q, x)) = Numbered(q) \cup {x}
<1> DEFINE r == Append(q, x)
<1>1. /\ Len(q) \in Nat /\ DOMAIN q = 1 .. Len(q)
      /\ r \in Seq(S) /\ Len(r) = Len(q) + 1 /\ DOMAIN r = 1 .. Len(q) + 1
      /\ \A k \in 1 .. Len(q) : r[k] = q[k]
      /\ r[Len(q) + 1] = x
  OBVIOUS
<1> HIDE DEF r
<1>2. \A k \in 1 .. Len(q) : q[k] # x
  BY <1>1 DEF Numbered
<1>3. IsInjective(r)
  <2> SUFFICES ASSUME NEW a \in 1 .. Len(q) + 1, NEW b \in 1 .. Len(q) + 1, r[a] = r[b] PROVE a = b
    BY <1>1 DEF IsInjective
  <2>1. (a \in 1 .. Len(q) \/ a = Len(q) + 1) /\ (b \in 1 .. Len(q) \/ b = Len(q) + 1)
    BY <1>1
  <2> QED
    BY <1>1, <1>2, <2>1 DEF IsInjective
<1>4. Numbered(r) = Numbered(q) \cup {x}
  <2>1. Numbered(q) \subseteq Numbered(r)
    BY <1>1 DEF Numbered
  <2>2. x \in Numbered(r)
    BY <1>1 DEF Numbered
  <2>3. \A y \in Numbered(r) : y \in Numbered(q) \/ y = x
    <3> SUFFICES ASSUME NEW k \in 1 .. Len(q) + 1 PROVE r[k] \in Numbered(q) \/ r[k] = x
      BY <1>1 DEF Numbered
    <3>1. k \in 1 .. Len(q) \/ k = Len(q) + 1
      BY <1>1
    <3> QED
      BY <1>1, <3>1 DEF Numbered
  <2> QED
    BY <2>1, <2>2, <2>3
<1> QED
  BY <1>1, <1>3, <1>4 DEF r

\* The first of one sequence may as well be the last of the one before it.
LEMMA PassOn ==
  ASSUME NEW S, NEW p \in Seq(S), NEW q \in Seq(S), q # <<>>
  PROVE  Append(p, Head(q)) \o Tail(q) = p \o q
<1> DEFINE h == Head(q)
           t == Tail(q)
<1>1. h \in S /\ t \in Seq(S) /\ Len(t) = Len(q) - 1 /\ h = q[1] /\ \A i \in 1 .. Len(q) - 1 : t[i] = q[i + 1]
  OBVIOUS
<1> HIDE DEF h, t
<1> DEFINE l == Append(p, h) \o t
           r == p \o q
<1>2. /\ l \in Seq(S) /\ r \in Seq(S) /\ Len(l) = Len(p) + Len(q) /\ Len(r) = Len(p) + Len(q)
      /\ Len(p) \in Nat /\ Len(q) \in Nat
  <2>1. Append(p, h) \in Seq(S) /\ Len(Append(p, h)) = Len(p) + 1
    BY <1>1
  <2>2. l \in Seq(S) /\ Len(l) = Len(Append(p, h)) + Len(t)
    <3> DEFINE a == Append(p, h)
    <3>1. a \in Seq(S)
      BY <2>1
    <3> HIDE DEF a
    <3>2. a \o t \in Seq(S) /\ Len(a \o t) = Len(a) + Len(t)
      BY <1>1, <3>1, ConcatProperties
    <3> QED
      BY <3>2 DEF a
  <2>3. r \in Seq(S) /\ Len(r) = Len(p) + Len(q) /\ Len(p) \in Nat /\ Len(q) \in Nat
    OBVIOUS
  <2> QED
    BY <1>1, <2>1, <2>2, <2>3
<1>3. \A i \in 1 .. Len(p) + Len(q) : l[i] = r[i]
  <2> SUFFICES ASSUME NEW i \in 1 .. Len(p) + Len(q) PROVE l[i] = r[i]
    OBVIOUS
  <2>1. CASE i <= Len(p)
    BY <1>1, <1>2, <2>1
  <2>2. CASE i = Len(p) + 1
    BY <1>1, <1>2, <2>2
  <2>3. CASE i > Len(p) + 1
    <3>1. l[i] = t[i - (Len(p) + 1)] /\ r[i] = q[i - Len(p)]
      BY <1>1, <1>2, <2>3
    <3>2. i - (Len(p) + 1) \in 1 .. Len(q) - 1 /\ (i - (Len(p) + 1)) + 1 = i - Len(p)
      BY <1>2, <2>3
    <3> QED
      BY <1>1, <3>1, <3>2
  <2> QED
    BY <1>2, <2>1, <2>2, <2>3
<1>4. l = r
  <2> HIDE DEF l, r
  <2> QED
    BY <1>2, <1>3, SeqEqual
<1> QED
  BY <1>4 DEF h, t

\* What is in the later of two sequences is in both together.
LEMMA NumberedConcat ==
  ASSUME NEW S, NEW p \in Seq(S), NEW q \in Seq(S)
  PROVE  Numbered(p) \subseteq Numbered(p \o q) /\ Numbered(q) \subseteq Numbered(p \o q)
<1>1. /\ DOMAIN p = 1 .. Len(p) /\ DOMAIN q = 1 .. Len(q) /\ DOMAIN (p \o q) = 1 .. Len(p) + Len(q)
      /\ Len(p) \in Nat /\ Len(q) \in Nat
      /\ \A i \in 1 .. Len(p) : (p \o q)[i] = p[i]
      /\ \A i \in 1 .. Len(q) : (p \o q)[i + Len(p)] = q[i]
  BY ConcatProperties
<1>2. \A i \in 1 .. Len(p) : i \in 1 .. Len(p) + Len(q)
  BY <1>1
<1>3. \A i \in 1 .. Len(q) : i + Len(p) \in 1 .. Len(p) + Len(q)
  BY <1>1
<1> QED
  BY <1>1, <1>2, <1>3 DEF Numbered

-----------------------------------------------------------------------------
(* The order of the blocks.                                                *)

\* What is queued, of what the player has got, what it gave back and what is in the pipe.
AllQueued(wait, silent, pooled, consumer) == (Without(wait, silent) \o pooled) \o consumer

\* What is queued when the player gives the first of its blocks back and goes on to another one.
LEMMA QueueGoesOn ==
  ASSUME NEW wait \in Seq(Blocks), wait # <<>>, NEW pooled \in Seq(Blocks), NEW consumer \in Seq(Blocks),
         NEW silent \in Blocks, silent \notin Numbered(AllQueued(wait, silent, pooled, consumer)),
         IsInjective(AllQueued(wait, silent, pooled, consumer)),
         NEW before, before = AllQueued(wait, silent, pooled, consumer),
         NEW after, after = AllQueued(Tail(wait), silent, pooled, consumer)
  PROVE  /\ Head(wait) = silent => after = before
         /\ Head(wait) # silent => /\ before # <<>> /\ Head(before) = Head(wait)
                                   /\ after = Tail(before) /\ Without(before, Head(wait)) = Tail(before)
         /\ pooled # <<>> =>
              AllQueued(Append(Tail(wait), Head(pooled)), silent, Tail(pooled), consumer) = after
         /\ pooled = <<>> /\ consumer # <<>> =>
              AllQueued(Append(Tail(wait), Head(consumer)), silent, <<>>, Tail(consumer)) = after
         /\ AllQueued(Append(Tail(wait), silent), silent, pooled, consumer) = after
<1> USE DEF AllQueued
<1> DEFINE rest == Tail(wait)
           W == Without(rest, silent)
           queued == (Without(wait, silent) \o pooled) \o consumer
           left == (W \o pooled) \o consumer
<1>1. rest \in Seq(Blocks) /\ Head(wait) \in Blocks
  OBVIOUS
<1>2. W \in Seq(Blocks) /\ Without(wait, silent) \in Seq(Blocks)
  <2> HIDE DEF rest
  <2> QED
    BY <1>1, WithoutType
<1>3. Without(wait, silent) = IF Head(wait) = silent THEN W ELSE <<Head(wait)>> \o W
  BY WithoutTail
<1>4. \A b \in Blocks : Without(Append(rest, b), silent) = IF b = silent THEN W ELSE Append(W, b)
  <2> HIDE DEF rest
  <2> QED
    BY <1>1, WithoutAppend
<1>5. queued \in Seq(Blocks) /\ left \in Seq(Blocks)
  <2>1. Without(wait, silent) \o pooled \in Seq(Blocks) /\ W \o pooled \in Seq(Blocks)
    <3> HIDE DEF W
    <3> QED
      BY <1>2
  <2> HIDE DEF W
  <2> QED
    BY <2>1
<1>6. Head(wait) = silent => left = queued
  BY <1>3
<1>7. ASSUME Head(wait) # silent
      PROVE  queued # <<>> /\ Head(queued) = Head(wait) /\ left = Tail(queued) /\ Without(queued, Head(wait)) = Tail(queued)
  <2> DEFINE h == Head(wait)
  <2>1. queued = (((<<h>> \o W) \o pooled) \o consumer)
    BY <1>3, <1>7
  <2>2. ((<<h>> \o W) \o pooled) \o consumer = <<h>> \o left
    <3>1. <<h>> \in Seq(Blocks)
      BY <1>1
    <3> HIDE DEF h, W
    <3>2. (<<h>> \o W) \o pooled = <<h>> \o (W \o pooled) /\ W \o pooled \in Seq(Blocks)
      BY <3>1, <1>2, ConcatAssociative, ConcatProperties
    <3>3. (<<h>> \o (W \o pooled)) \o consumer = <<h>> \o ((W \o pooled) \o consumer)
      BY <3>1, <3>2, ConcatAssociative
    <3> QED
      BY <3>2, <3>3
  <2>3. queued = <<h>> \o left
    BY <2>1, <2>2
  <2>4. h \in Blocks
    BY <1>1
  <2> HIDE DEF h, left
  <2>5. <<h>> \o left # <<>> /\ Head(<<h>> \o left) = h /\ Tail(<<h>> \o left) = left
    <3>1. <<h>> \o left \in Seq(Blocks) /\ Len(<<h>> \o left) = Len(left) + 1 /\ Len(left) \in Nat
      BY <1>5, <2>4
    <3>2. (<<h>> \o left)[1] = h /\ \A i \in 1 .. Len(left) : (<<h>> \o left)[i + 1] = left[i]
      BY <1>5, <2>4
    <3> DEFINE q == <<h>> \o left
    <3>3. q \in Seq(Blocks) /\ Len(q) = Len(left) + 1 /\ q[1] = h /\ \A i \in 1 .. Len(left) : q[i + 1] = left[i]
      BY <3>1, <3>2
    <3> HIDE DEF q
    <3>4. q # <<>> /\ Head(q) = h /\ Tail(q) \in Seq(Blocks) /\ Len(Tail(q)) = Len(left)
          /\ \A i \in 1 .. Len(left) : Tail(q)[i] = left[i]
      BY <3>1, <3>3
    <3>5. Tail(q) = left
      BY <1>5, <3>4, SeqEqual
    <3> QED
      BY <3>4, <3>5 DEF q
  <2>6. queued # <<>> /\ Head(queued) = h /\ left = Tail(queued)
    <3> HIDE DEF queued
    <3> QED
      BY <2>3, <2>5
  <2>7. Without(queued, Head(queued)) = Tail(queued)
    <3>1. IsInjective(queued)
      OBVIOUS
    <3> HIDE DEF queued
    <3> QED
      BY <1>5, <2>6, <3>1, WithoutHead
  <2> QED
    BY <2>6, <2>7 DEF h
<1>8. \A i \in 1 .. Len(pooled) : pooled[i] # silent
  <2>1. Without(wait, silent) \o pooled \in Seq(Blocks)
    BY <1>2
  <2>2. Numbered(pooled) \subseteq Numbered(Without(wait, silent) \o pooled)
    BY <1>2, NumberedConcat
  <2>3. Numbered(Without(wait, silent) \o pooled) \subseteq Numbered(queued)
    BY <2>1, NumberedConcat
  <2>4. silent \notin Numbered(pooled)
    BY <2>2, <2>3
  <2> QED
    BY <2>4 DEF Numbered
<1>9. \A i \in 1 .. Len(consumer) : consumer[i] # silent
  <2>1. Without(wait, silent) \o pooled \in Seq(Blocks)
    BY <1>2
  <2>2. Numbered(consumer) \subseteq Numbered(queued)
    BY <2>1, NumberedConcat
  <2>3. silent \notin Numbered(consumer)
    BY <2>2
  <2> QED
    BY <2>3 DEF Numbered
<1>10. ASSUME pooled # <<>>
       PROVE  (Without(Append(rest, Head(pooled)), silent) \o Tail(pooled)) \o consumer = left
  <2>1. Head(pooled) \in Blocks /\ Head(pooled) # silent
    BY <1>8, <1>10
  <2>2. Without(Append(rest, Head(pooled)), silent) = Append(W, Head(pooled))
    BY <1>4, <2>1
  <2>3. Append(W, Head(pooled)) \o Tail(pooled) = W \o pooled
    <3> HIDE DEF W
    <3> QED
      BY <1>2, <1>10, PassOn
  <2> QED
    BY <2>2, <2>3
<1>11. ASSUME pooled = <<>>, consumer # <<>>
       PROVE  (Without(Append(rest, Head(consumer)), silent) \o <<>>) \o Tail(consumer) = left
  <2>1. Head(consumer) \in Blocks /\ Head(consumer) # silent
    BY <1>9, <1>11
  <2>2. Without(Append(rest, Head(consumer)), silent) = Append(W, Head(consumer))
    BY <1>4, <2>1
  <2>3. Append(W, Head(consumer)) \o Tail(consumer) = W \o consumer
    <3> HIDE DEF W
    <3> QED
      BY <1>2, <1>11, PassOn
  <2>4. Append(W, Head(consumer)) \o <<>> = Append(W, Head(consumer)) /\ W \o <<>> = W
    <3> HIDE DEF W
    <3>1. Append(W, Head(consumer)) \in Seq(Blocks)
      BY <1>2, <2>1
    <3> QED
      BY <1>2, <3>1, ConcatEmptySeq
  <2> QED
    BY <1>11, <2>2, <2>3, <2>4
<1>12. (Without(Append(rest, silent), silent) \o pooled) \o consumer = left
  BY <1>4
<1> QED
  BY <1>6, <1>7, <1>10, <1>11, <1>12

\* A block that has been played is free again, and no other one has changed its place.
LEMMA GivenBack ==
  ASSUME NEW S, NEW o \in Seq(S), o # <<>>, IsInjective(o), NEW p \in Seq(S), IsInjective(p),
         Numbered(o) \cap Numbered(p) = {}
  PROVE  /\ Head(o) \in S /\ Tail(o) \in Seq(S) /\ Append(p, Head(o)) \in Seq(S)
         /\ IsInjective(Tail(o)) /\ IsInjective(Append(p, Head(o)))
         /\ Numbered(Tail(o)) \cap Numbered(Append(p, Head(o))) = {}
         /\ Numbered(Tail(o)) \cup Numbered(Append(p, Head(o))) = Numbered(o) \cup Numbered(p)
         /\ Len(Append(p, Head(o))) + Len(Tail(o)) = Len(p) + Len(o)
<1>1. /\ Tail(o) \in Seq(S) /\ IsInjective(Tail(o)) /\ Len(Tail(o)) = Len(o) - 1
      /\ Numbered(Tail(o)) = Numbered(o) \ {Head(o)} /\ Head(o) \in Numbered(o) /\ Head(o) \in S
  BY TailOne
<1>2. /\ Append(p, Head(o)) \in Seq(S) /\ IsInjective(Append(p, Head(o)))
      /\ Len(Append(p, Head(o))) = Len(p) + 1 /\ Numbered(Append(p, Head(o))) = Numbered(p) \cup {Head(o)}
  <2> DEFINE h == Head(o)
  <2>1. h \in S /\ h \notin Numbered(p)
    BY <1>1
  <2> HIDE DEF h
  <2>2. /\ Append(p, h) \in Seq(S) /\ IsInjective(Append(p, h))
        /\ Len(Append(p, h)) = Len(p) + 1 /\ Numbered(Append(p, h)) = Numbered(p) \cup {h}
    BY <2>1, AppendOne
  <2> QED
    BY <2>2 DEF h
<1>3. Len(p) \in Nat /\ Len(o) \in Nat
  OBVIOUS
<1> DEFINE a == Append(p, Head(o))
           t == Tail(o)
<1>4. /\ Numbered(t) = Numbered(o) \ {Head(o)} /\ Numbered(a) = Numbered(p) \cup {Head(o)} /\ Head(o) \in Numbered(o)
      /\ Len(a) = Len(p) + 1 /\ Len(t) = Len(o) - 1
  BY <1>1, <1>2
<1>5. /\ Numbered(t) \cap Numbered(a) = {} /\ Numbered(t) \cup Numbered(a) = Numbered(o) \cup Numbered(p)
      /\ Len(a) + Len(t) = Len(p) + Len(o)
  <2> HIDE DEF a, t
  <2> QED
    BY <1>3, <1>4
<1> QED
  BY <1>1, <1>2, <1>5 DEF a, t

\* What is queued is in the order in which it was mixed, and no block is lost.
InOrder == Queued = order
Counted ==
  /\ Len(sink_pipe.producer) + Len(order) + (IF mixing = None THEN 0 ELSE 1)
       + (IF OpenSL THEN 1 ELSE 0) = NumPipeBlocks(backend)
  /\ capture_pipe.producer + capture_pipe.consumer + (IF capturing THEN 1 ELSE 0) = CaptureBlocks

\* Each block has one owner after the player's callback, and the queue is the one before or its tail.
LEMMA CallbackKeepsOrder ==
  ASSUME IInv, playbackBufferQueueCallback
  PROVE  OneOwner' /\ InOrder' /\ Counted'
<1> USE DEF IInv
<1> DEFINE wait == binder.wait_completion
           first == Head(wait)
           rest == Tail(wait)
           silent == binder.silent
           pooled == binder.pooled
           consumer == sink_pipe.consumer
           left == AllQueued(rest, silent, pooled, consumer)
           given == IF first = silent THEN sink_pipe.producer ELSE Append(sink_pipe.producer, first)
<1>1. /\ OpenSL /\ wait # <<>> /\ UNCHANGED <<backend, mixing, capturing, capture_pipe>>
      /\ IF first = silent THEN UNCHANGED <<order, content>> ELSE Play(first)
      /\ binder'.silent = silent /\ sink_pipe'.producer = given
      /\ \/ /\ pooled # <<>> /\ binder'.wait_completion = Append(rest, Head(pooled))
            /\ binder'.pooled = Tail(pooled) /\ sink_pipe'.consumer = consumer
         \/ /\ pooled = <<>> /\ consumer # <<>> /\ binder'.wait_completion = Append(rest, Head(consumer))
            /\ binder'.pooled = <<>> /\ sink_pipe'.consumer = Tail(consumer)
         \/ /\ pooled = <<>> /\ binder'.wait_completion = Append(rest, silent)
            /\ binder'.pooled = <<>> /\ sink_pipe'.consumer = consumer
  <2> DEFINE Next3(w, p, c) == /\ binder' = [wait_completion |-> w, pooled |-> p, wait_buffering |-> binder'.wait_buffering,
                                              silent |-> silent, num_blocks |-> PlayerBlocks]
                              /\ sink_pipe' = [producer |-> given, consumer |-> c]
  <2>1. /\ OpenSL /\ wait # <<>> /\ UNCHANGED <<backend, mixing, capturing, capture_pipe>>
        /\ IF first = silent THEN UNCHANGED <<order, content>> ELSE Play(first)
        /\ \/ pooled # <<>> /\ Next3(Append(rest, Head(pooled)), Tail(pooled), consumer)
           \/ pooled = <<>> /\ consumer # <<>> /\ Next3(Append(rest, Head(consumer)), <<>>, Tail(consumer))
           \/ pooled = <<>> /\ Next3(Append(rest, silent), <<>>, consumer)
    BY CallbackCases DEF thread, captured
  <2>2. \A w, p, c : Next3(w, p, c) => /\ binder'.silent = silent /\ sink_pipe'.producer = given
                                       /\ binder'.wait_completion = w /\ binder'.pooled = p /\ sink_pipe'.consumer = c
    <3> HIDE DEF given, silent
    <3> QED
      OBVIOUS
  <2> HIDE DEF Next3, first, rest, silent, wait, pooled, consumer, given
  <2>3. CASE pooled # <<>> /\ Next3(Append(rest, Head(pooled)), Tail(pooled), consumer)
    BY <2>1, <2>2, <2>3
  <2>4. CASE pooled = <<>> /\ consumer # <<>> /\ Next3(Append(rest, Head(consumer)), <<>>, Tail(consumer))
    BY <2>1, <2>2, <2>4
  <2>5. CASE pooled = <<>> /\ Next3(Append(rest, silent), <<>>, consumer)
    BY <2>1, <2>2, <2>5
  <2> QED
    BY <2>1, <2>3, <2>4, <2>5
<1>2. backend' = backend /\ OpenSL' = OpenSL /\ NumPipeBlocks(backend)' = NumPipeBlocks(backend)
  BY <1>1 DEF OpenSL
<1>3. /\ wait \in Seq(Blocks) /\ pooled \in Seq(Blocks) /\ consumer \in Seq(Blocks) /\ silent \in Blocks
      /\ order \in Seq(Blocks) /\ sink_pipe.producer \in Seq(Blocks)
  BY <1>1, Written DEF ShapeOK, BinderType
<1>4. Queued = order /\ AllQueued(wait, silent, pooled, consumer) = order
  BY <1>1 DEF PlaysInOrder, Queued, AllQueued
<1>5. /\ IsInjective(order) /\ IsInjective(sink_pipe.producer)
      /\ Numbered(order) \cap Numbered(sink_pipe.producer) = {}
      /\ mixing \notin Numbered(order) \cup Numbered(sink_pipe.producer)
      /\ silent \notin Numbered(order) \cup Numbered(sink_pipe.producer) /\ silent # mixing
  BY <1>1 DEF OneOwner
<1>6. /\ first = silent => left = order
      /\ first # silent => order # <<>> /\ Head(order) = first /\ left = Tail(order) /\ Without(order, first) = Tail(order)
      /\ pooled # <<>> => AllQueued(Append(rest, Head(pooled)), silent, Tail(pooled), consumer) = left
      /\ pooled = <<>> /\ consumer # <<>> =>
           AllQueued(Append(rest, Head(consumer)), silent, <<>>, Tail(consumer)) = left
      /\ AllQueued(Append(rest, silent), silent, pooled, consumer) = left
  <2>1. order = AllQueued(wait, silent, pooled, consumer) /\ left = AllQueued(Tail(wait), silent, pooled, consumer)
    BY <1>4
  <2>2. wait \in Seq(Blocks) /\ wait # <<>> /\ pooled \in Seq(Blocks) /\ consumer \in Seq(Blocks) /\ silent \in Blocks
    BY <1>1, <1>3
  <2>3. silent \notin Numbered(AllQueued(wait, silent, pooled, consumer))
        /\ IsInjective(AllQueued(wait, silent, pooled, consumer))
    BY <2>1, <1>5
  <2> HIDE DEF wait, pooled, consumer, silent, left
  <2> QED
    BY <2>1, <2>2, <2>3, QueueGoesOn
<1>7. Queued' = left
  <2>1. Queued' = AllQueued(binder'.wait_completion, binder'.silent, binder'.pooled, sink_pipe'.consumer)
    BY <1>1, <1>2 DEF Queued, AllQueued
  <2> HIDE DEF wait, pooled, consumer, silent, rest, left
  <2>2. CASE pooled # <<>>
    BY <1>1, <1>6, <2>1, <2>2
  <2>3. CASE pooled = <<>>
    BY <1>1, <1>6, <2>1, <2>3
  <2> QED
    BY <2>2, <2>3
<1>8. /\ order' = IF first = silent THEN order ELSE Tail(order)
      /\ sink_pipe'.producer = IF first = silent THEN sink_pipe.producer ELSE Append(sink_pipe.producer, Head(order))
      /\ first # silent => order # <<>>
      /\ Queued' = order'
  BY <1>1, <1>6, <1>7 DEF Play
<1>9. CASE first = silent
  <2>1. UNCHANGED <<order, sink_pipe.producer, backend, mixing, capturing, capture_pipe>> /\ binder'.silent = silent
    BY <1>1, <1>8, <1>9
  <2> QED
    BY <1>2, <1>8, <2>1 DEF OneOwner, InOrder, Counted, Numbered, PlaysInOrder
<1>10. CASE first # silent
  <2> DEFINE t == Tail(order)
             a == Append(sink_pipe.producer, Head(order))
  <2>1. /\ t \in Seq(Blocks) /\ a \in Seq(Blocks) /\ IsInjective(t) /\ IsInjective(a)
        /\ Numbered(t) \cap Numbered(a) = {}
        /\ Numbered(t) \cup Numbered(a) = Numbered(order) \cup Numbered(sink_pipe.producer)
        /\ Len(a) + Len(t) = Len(sink_pipe.producer) + Len(order)
        /\ Len(sink_pipe.producer) \in Nat /\ Len(order) \in Nat /\ Len(a) \in Nat /\ Len(t) \in Nat
    <3> DEFINE p == sink_pipe.producer
    <3>1. p \in Seq(Blocks) /\ IsInjective(p) /\ Numbered(order) \cap Numbered(p) = {}
      BY <1>3, <1>5
    <3>2. order \in Seq(Blocks) /\ order # <<>> /\ IsInjective(order)
      BY <1>3, <1>5, <1>8, <1>10
    <3>3. /\ t \in Seq(Blocks) /\ Append(p, Head(order)) \in Seq(Blocks) /\ IsInjective(t)
          /\ IsInjective(Append(p, Head(order)))
          /\ Numbered(t) \cap Numbered(Append(p, Head(order))) = {}
          /\ Numbered(t) \cup Numbered(Append(p, Head(order))) = Numbered(order) \cup Numbered(p)
          /\ Len(Append(p, Head(order))) + Len(t) = Len(p) + Len(order)
      <4> HIDE DEF p
      <4> QED
        BY <3>1, <3>2, GivenBack
    <3> QED
      BY <1>3, <3>3
  <2>2. order' = t /\ sink_pipe'.producer = a /\ Queued' = order'
    BY <1>8, <1>10
  <2> HIDE DEF t, a
  <2>3. OneOwner'
    <3>1. /\ (IsInjective(order))' = IsInjective(t) /\ (IsInjective(sink_pipe.producer))' = IsInjective(a)
          /\ Numbered(order)' = Numbered(t) /\ Numbered(sink_pipe.producer)' = Numbered(a)
      BY <2>2 DEF Numbered, IsInjective
    <3>2. mixing' = mixing /\ binder'.silent = silent
      BY <1>1
    <3> QED
      BY <1>2, <1>5, <2>1, <3>1, <3>2 DEF OneOwner
  <2>4. Counted'
    <3>1. /\ Len(sink_pipe.producer) + Len(order) + (IF mixing = None THEN 0 ELSE 1)
             + (IF OpenSL THEN 1 ELSE 0) = NumPipeBlocks(backend)
          /\ capture_pipe.producer + capture_pipe.consumer + (IF capturing THEN 1 ELSE 0) = CaptureBlocks
      BY DEF PlaysInOrder
    <3> QED
      BY <1>1, <1>2, <2>1, <2>2, <3>1 DEF Counted
  <2> QED
    BY <2>2, <2>3, <2>4 DEF InOrder
<1> QED
  BY <1>9, <1>10

\* The writer's block is the oldest one, and is free after it has been copied.
LEMMA StreamKeepsOrder ==
  ASSUME IInv, audioTrackStreamCallback
  PROVE  OneOwner' /\ InOrder' /\ Counted'
<1> USE DEF IInv
<1>1. /\ ~OpenSL /\ UNCHANGED <<backend, binder, capture_pipe, mixing, capturing>>
      /\ \/ UNCHANGED <<sink_pipe, content, order, waited>>
         \/ /\ sink_pipe.consumer # <<>> /\ order' = Without(order, Head(sink_pipe.consumer))
            /\ sink_pipe' = [producer |-> Append(sink_pipe.producer, Head(sink_pipe.consumer)),
                             consumer |-> Tail(sink_pipe.consumer)]
  <2>1. ~OpenSL /\ backend' = backend
    BY DEF PhaseInv, audioTrackStreamCallback
  <2> QED
    BY <2>1, StreamEffect DEF Play
<1>2. backend' = backend /\ OpenSL' = OpenSL /\ NumPipeBlocks(backend)' = NumPipeBlocks(backend)
  BY <1>1 DEF OpenSL
<1>3. CASE UNCHANGED <<sink_pipe, order>>
  <2>1. OneOwner'
    BY <1>1, <1>2, <1>3 DEF OneOwner, Numbered, IsInjective
  <2>2. InOrder'
    BY <1>1, <1>2, <1>3 DEF InOrder, PlaysInOrder, Queued
  <2>3. Counted'
    BY <1>1, <1>2, <1>3 DEF Counted, PlaysInOrder
  <2> QED
    BY <2>1, <2>2, <2>3
<1>4. CASE /\ sink_pipe.consumer # <<>> /\ order' = Without(order, Head(sink_pipe.consumer))
           /\ sink_pipe' = [producer |-> Append(sink_pipe.producer, Head(sink_pipe.consumer)),
                            consumer |-> Tail(sink_pipe.consumer)]
  <2> DEFINE p == sink_pipe.producer
             t == Tail(order)
             a == Append(p, Head(order))
  <2>1. /\ p \in Seq(Blocks) /\ order \in Seq(Blocks) /\ IsInjective(order) /\ IsInjective(p)
        /\ Numbered(order) \cap Numbered(p) = {} /\ mixing \notin Numbered(order) \cup Numbered(p)
    BY Written DEF ShapeOK, OneOwner
  <2>2. sink_pipe.consumer = order
    BY <1>1 DEF PlaysInOrder, Queued
  <2>3. Without(order, Head(order)) = t
    BY <1>4, <2>1, <2>2, WithoutHead
  <2>4. order # <<>> /\ order' = t /\ sink_pipe'.producer = a /\ sink_pipe'.consumer = t
    BY <1>4, <2>2, <2>3
  <2>5. /\ t \in Seq(Blocks) /\ a \in Seq(Blocks) /\ IsInjective(t) /\ IsInjective(a)
        /\ Numbered(t) \cap Numbered(a) = {} /\ Numbered(t) \cup Numbered(a) = Numbered(order) \cup Numbered(p)
        /\ Len(a) + Len(t) = Len(p) + Len(order)
    <3> HIDE DEF p
    <3> QED
      BY <2>1, <2>4, GivenBack
  <2>6. Len(a) \in Nat /\ Len(t) \in Nat /\ Len(p) \in Nat /\ Len(order) \in Nat
    BY <2>1, <2>5
  <2> HIDE DEF t, a
  <2>7. OneOwner'
    <3>1. /\ (IsInjective(order))' = IsInjective(t) /\ (IsInjective(sink_pipe.producer))' = IsInjective(a)
          /\ Numbered(order)' = Numbered(t) /\ Numbered(sink_pipe.producer)' = Numbered(a)
      BY <2>4 DEF Numbered, IsInjective
    <3> QED
      BY <1>1, <1>2, <2>1, <2>5, <3>1 DEF OneOwner
  <2>8. Counted'
    <3>1. /\ Len(p) + Len(order) + (IF mixing = None THEN 0 ELSE 1)
             + (IF OpenSL THEN 1 ELSE 0) = NumPipeBlocks(backend)
          /\ capture_pipe.producer + capture_pipe.consumer + (IF capturing THEN 1 ELSE 0) = CaptureBlocks
      BY DEF PlaysInOrder
    <3> QED
      BY <1>1, <1>2, <2>4, <2>5, <2>6, <3>1 DEF Counted
  <2> QED
    BY <1>1, <1>2, <2>4, <2>7, <2>8 DEF InOrder, Queued
<1> QED
  BY <1>1, <1>3, <1>4

\* The mixer thread takes the block that has been free for longest ...
LEMMA LockKeepsOrder ==
  ASSUME IInv, mixerThreadLocksBlocks, backend' = backend
  PROVE  OneOwner' /\ InOrder' /\ Counted'
<1> USE DEF IInv
<1> DEFINE p == sink_pipe.producer
<1>1. /\ UNCHANGED <<content, order, binder>> /\ mixing = None /\ p # <<>> /\ mixing' = Head(p)
      /\ sink_pipe' = [producer |-> Tail(p), consumer |-> sink_pipe.consumer] /\ capturing' \in BOOLEAN
      /\ IF capturing'
         THEN /\ capture_pipe.producer > 0
              /\ capture_pipe' = [producer |-> capture_pipe.producer - 1, consumer |-> capture_pipe.consumer]
         ELSE capture_pipe' = capture_pipe
  BY LockEffect
<1>2. OpenSL' = OpenSL /\ NumPipeBlocks(backend)' = NumPipeBlocks(backend)
  BY DEF OpenSL
<1>3. /\ p \in Seq(Blocks) /\ order \in Seq(Blocks) /\ IsInjective(order) /\ IsInjective(p)
      /\ Numbered(order) \cap Numbered(p) = {}
      /\ OpenSL => binder.silent \notin Numbered(order) \cup Numbered(p) /\ binder.silent # mixing
  BY Written DEF ShapeOK, OneOwner
<1>4. /\ Tail(p) \in Seq(Blocks) /\ IsInjective(Tail(p)) /\ Len(Tail(p)) = Len(p) - 1
      /\ Numbered(Tail(p)) = Numbered(p) \ {Head(p)} /\ Head(p) \in Numbered(p) /\ Head(p) \in Blocks
  <2> HIDE DEF p
  <2> QED
    BY <1>1, <1>3, TailOne
<1> DEFINE t == Tail(p)
           h == Head(p)
<1>5. sink_pipe'.producer = t /\ sink_pipe'.consumer = sink_pipe.consumer /\ mixing' = h
  BY <1>1
<1>6. OneOwner'
  <2> HIDE DEF t, h
  <2>1. (IsInjective(sink_pipe.producer))' = IsInjective(t) /\ Numbered(sink_pipe.producer)' = Numbered(t)
    BY <1>5 DEF Numbered, IsInjective
  <2>2. (IsInjective(order))' = IsInjective(order) /\ Numbered(order)' = Numbered(order)
    BY <1>1 DEF Numbered, IsInjective
  <2>3. IsInjective(t) /\ Numbered(t) = Numbered(p) \ {h} /\ h \in Numbered(p)
    BY <1>4 DEF t, h
  <2> QED
    BY <1>1, <1>2, <1>3, <1>5, <2>1, <2>2, <2>3 DEF OneOwner
<1>7. Counted'
  <2>0. Len(p) \in Nat /\ Len(order) \in Nat
    BY <1>3
  <2> DEFINE other == IF OpenSL THEN 1 ELSE 0
  <2>00. other \in Nat
    OBVIOUS
  <2>01. Counted
    BY DEF PlaysInOrder, Counted
  <2>1. /\ Len(p) + Len(order) + other = NumPipeBlocks(backend) /\ capturing = FALSE
        /\ capture_pipe.producer + capture_pipe.consumer = CaptureBlocks
    <3>1. capturing = FALSE
      BY <1>1 DEF MixingInv, TypeOK
    <3>2. capture_pipe.producer \in Nat /\ capture_pipe.consumer \in Nat
      BY Written
    <3>3. /\ Len(p) + Len(order) + 0 + other = NumPipeBlocks(backend)
          /\ capture_pipe.producer + capture_pipe.consumer + 0 = CaptureBlocks
      BY <2>01, <3>1, <1>1 DEF Counted
    <3> HIDE DEF other, p
    <3> QED
      BY <2>0, <2>00, <3>1, <3>2, <3>3
  <2>2. h # None
    <3>1. backend \in Backends
      BY DEF TypeOK
    <3> QED
      BY <1>4, <3>1, NumberedBlocks
  <2>3. Len(t) = Len(p) - 1 /\ Len(p) \in Nat /\ Len(order) \in Nat
    BY <1>3, <1>4
  <2>4. capture_pipe'.producer + capture_pipe'.consumer + (IF capturing' THEN 1 ELSE 0) = CaptureBlocks
    <3>1. capture_pipe.producer \in Nat /\ capture_pipe.consumer \in Nat
      BY Written
    <3>2. CASE capturing'
      <4> DEFINE n == capture_pipe.producer - 1
                 k == capture_pipe.consumer
      <4>1. capture_pipe' = [producer |-> n, consumer |-> k]
        BY <1>1, <3>2
      <4>2. capture_pipe'.producer = n /\ capture_pipe'.consumer = k
        <5> HIDE DEF n, k
        <5> QED
          BY <4>1
      <4> QED
        BY <2>1, <3>1, <3>2, <4>2
    <3>3. CASE ~capturing'
      BY <1>1, <2>1, <3>1, <3>3
    <3> QED
      BY <3>2, <3>3
  <2>5. Len(t) + Len(order) + 1 + other = NumPipeBlocks(backend)
    <3> HIDE DEF t, other, p
    <3> QED
      BY <2>00, <2>1, <2>3
  <2> HIDE DEF t, h
  <2> QED
    BY <1>1, <1>2, <1>5, <2>2, <2>4, <2>5 DEF Counted
<1> QED
  BY <1>1, <1>2, <1>5, <1>6, <1>7 DEF InOrder, Queued, PlaysInOrder

\* ... and when it is filled, it is the last of those that are queued.
LEMMA UnlockKeepsOrder ==
  ASSUME IInv, mixerThreadUnlocksBlocks, backend' = backend
  PROVE  OneOwner' /\ InOrder' /\ Counted'
<1> USE DEF IInv
<1> DEFINE c == sink_pipe.consumer
<1>1. /\ UNCHANGED binder /\ mixing \in Blocks /\ mixing' = None /\ capturing' = FALSE
      /\ order' = Append(order, mixing)
      /\ sink_pipe' = [producer |-> sink_pipe.producer, consumer |-> Append(c, mixing)]
      /\ IF capturing
         THEN capture_pipe' = [producer |-> capture_pipe.producer, consumer |-> capture_pipe.consumer + 1]
         ELSE capture_pipe' = capture_pipe
  BY UnlockEffect
<1>2. OpenSL' = OpenSL /\ NumPipeBlocks(backend)' = NumPipeBlocks(backend)
  BY DEF OpenSL
<1>3. /\ sink_pipe.producer \in Seq(Blocks) /\ c \in Seq(Blocks) /\ order \in Seq(Blocks)
      /\ IsInjective(order) /\ IsInjective(sink_pipe.producer)
      /\ Numbered(order) \cap Numbered(sink_pipe.producer) = {}
      /\ mixing \notin Numbered(order) \cup Numbered(sink_pipe.producer)
      /\ OpenSL => binder.silent \notin Numbered(order) \cup Numbered(sink_pipe.producer) /\ binder.silent # mixing
  BY Written DEF ShapeOK, OneOwner
<1> DEFINE a == Append(order, mixing)
<1>4. a \in Seq(Blocks) /\ IsInjective(a) /\ Len(a) = Len(order) + 1 /\ Numbered(a) = Numbered(order) \cup {mixing}
  BY <1>1, <1>3, AppendOne
<1>5. None \notin Blocks /\ mixing # None
  <2>1. backend \in Backends
    BY DEF TypeOK
  <2> QED
    BY <1>1, <2>1, NumberedBlocks
<1>6. order' = a /\ sink_pipe'.producer = sink_pipe.producer /\ sink_pipe'.consumer = Append(c, mixing)
  BY <1>1
<1>7. OneOwner'
  <2>1. (IsInjective(order))' = IsInjective(a) /\ Numbered(order)' = Numbered(a)
    BY <1>6 DEF Numbered, IsInjective
  <2>2. /\ (IsInjective(sink_pipe.producer))' = IsInjective(sink_pipe.producer)
        /\ Numbered(sink_pipe.producer)' = Numbered(sink_pipe.producer)
    BY <1>6 DEF Numbered, IsInjective
  <2>3. None \notin Numbered(a) \cup Numbered(sink_pipe.producer) /\ (OpenSL => binder.silent # None)
    <3>1. Numbered(a) \subseteq Blocks /\ Numbered(sink_pipe.producer) \subseteq Blocks
      BY <1>3, <1>4, NumberedSeq
    <3>2. OpenSL => binder.silent \in Blocks
      BY DEF ShapeOK, BinderType
    <3> QED
      BY <1>5, <3>1, <3>2
  <2> HIDE DEF a
  <2> QED
    BY <1>1, <1>2, <1>3, <1>4, <2>1, <2>2, <2>3 DEF OneOwner
<1>8. Counted'
  <2> DEFINE other == IF OpenSL THEN 1 ELSE 0
             p == sink_pipe.producer
  <2>0. other \in Nat /\ Len(p) \in Nat /\ Len(order) \in Nat
    BY <1>3
  <2>01. Counted
    BY DEF PlaysInOrder, Counted
  <2>1. Len(p) + Len(order) + 1 + other = NumPipeBlocks(backend)
    BY <2>01, <1>5 DEF Counted
  <2>2. capture_pipe'.producer + capture_pipe'.consumer = CaptureBlocks
    <3>1. capture_pipe.producer \in Nat /\ capture_pipe.consumer \in Nat
      BY Written
    <3>2. CASE capturing
      <4> DEFINE n == capture_pipe.producer
                 k == capture_pipe.consumer + 1
      <4>1. capture_pipe' = [producer |-> n, consumer |-> k]
        BY <1>1, <3>2
      <4>2. capture_pipe'.producer = n /\ capture_pipe'.consumer = k
        <5> HIDE DEF n, k
        <5> QED
          BY <4>1
      <4>3. n + capture_pipe.consumer + 1 = CaptureBlocks
        BY <2>01, <3>2 DEF Counted
      <4> QED
        BY <3>1, <4>2, <4>3
    <3>3. CASE ~capturing
      <4>1. capture_pipe' = capture_pipe /\ capture_pipe.producer + capture_pipe.consumer + 0 = CaptureBlocks
        BY <1>1, <2>01, <3>3 DEF Counted
      <4> QED
        BY <3>1, <4>1
    <3> QED
      BY <3>2, <3>3
  <2>3. capture_pipe'.producer + capture_pipe'.consumer + 0 = CaptureBlocks
    BY <2>2
  <2>4. Len(p) + Len(a) + 0 + other = NumPipeBlocks(backend)
    <3> HIDE DEF p, a, other
    <3> QED
      BY <1>4, <2>0, <2>1
  <2> HIDE DEF a
  <2> QED
    BY <1>1, <1>2, <1>6, <2>3, <2>4 DEF Counted
<1>9. InOrder'
  <2>1. Queued = order
    BY DEF PlaysInOrder
  <2>2. CASE OpenSL
    <3> DEFINE w == Without(binder.wait_completion, binder.silent) \o binder.pooled
    <3>1. w \in Seq(Blocks) /\ order = w \o c
      <4>1. binder \in BinderType
        BY <2>2 DEF ShapeOK
      <4> DEFINE v == Without(binder.wait_completion, binder.silent)
                 u == binder.pooled
      <4>2. v \in Seq(Blocks) /\ u \in Seq(Blocks)
        BY <4>1, WithoutType DEF BinderType
      <4>3. v \o u \in Seq(Blocks)
        <5> HIDE DEF v, u
        <5> QED
          BY <4>2
      <4> QED
        BY <2>1, <2>2, <4>3 DEF Queued
    <3>2. Queued' = w \o Append(c, mixing)
      BY <1>1, <1>2, <1>6, <2>2 DEF Queued
    <3> HIDE DEF w, c
    <3>3. w \o Append(c, mixing) = Append(w \o c, mixing)
      BY <1>1, <1>3, <3>1
    <3> QED
      BY <1>6, <3>1, <3>2, <3>3 DEF InOrder
  <2>3. CASE ~OpenSL
    BY <1>2, <1>6, <2>1, <2>3 DEF InOrder, Queued
  <2> QED
    BY <2>2, <2>3
<1> QED
  BY <1>7, <1>8, <1>9

\* The player is started with silence before what it gave back, and gives all it has back when it is stopped.
LEMMA SinkKeepsOrder ==
  ASSUME IInv, startSink \/ stopSink, backend' = backend
  PROVE  OneOwner' /\ InOrder' /\ Counted'
<1> USE DEF IInv
<1>1. UNCHANGED <<sink_pipe, capture_pipe, content, order, mixing, capturing>>
  BY StartEffect, StopEffect
<1>2. OpenSL' = OpenSL /\ NumPipeBlocks(backend)' = NumPipeBlocks(backend)
  BY DEF OpenSL
<1>3. ~OpenSL => binder' = binder
  BY StartEffect, StopEffect
<1>4. Counted'
  BY <1>1, <1>2 DEF Counted, PlaysInOrder
<1>5. OpenSL => binder'.silent = binder.silent
  <2>1. startSink /\ OpenSL => binder'.silent = binder.silent
    BY StartEffect
  <2>2. stopSink /\ OpenSL => binder'.silent = binder.silent
    BY StopEffect
  <2> QED
    BY <2>1, <2>2
<1>6. OneOwner'
  BY <1>1, <1>2, <1>5 DEF OneOwner, Numbered, IsInjective
<1>7. Queued' = Queued
  <2>1. CASE ~OpenSL
    BY <1>1, <1>2, <1>3, <2>1 DEF Queued
  <2>2. CASE OpenSL /\ startSink
    <3> DEFINE w == [i \in 1 .. Half |-> binder.silent]
    <3>0. backend \in Backends /\ sink_state = "stopped"
      BY <2>2 DEF TypeOK, startSink
    <3>1. Half \in Nat /\ binder.silent \in Blocks /\ binder.wait_completion = <<>> /\ binder.wait_completion \in Seq(Blocks)
      <4>1. Half \in Nat
        BY <3>0, Sizes
      <4>2. binder.silent \in Blocks /\ binder.wait_completion \in Seq(Blocks)
        BY <2>2 DEF ShapeOK, BinderType
      <4>3. Len(binder.wait_completion) = 0
        BY <2>2, <3>0 DEF PlayerInv
      <4> QED
        BY <4>1, <4>2, <4>3, EmptySeq
    <3>2. w \in Seq(Blocks) /\ \A i \in 1 .. Len(w) : w[i] = binder.silent
      BY <3>1
    <3>3. binder'.wait_completion = w /\ binder'.pooled = binder.pooled
      BY <2>2, StartEffect
    <3> HIDE DEF w
    <3>4. Without(w, binder.silent) = <<>>
      BY <3>2, WithoutConstant
    <3>5. Without(binder.wait_completion, binder.silent) = <<>>
      BY <3>1, WithoutEmpty
    <3> QED
      BY <1>1, <1>2, <1>5, <2>2, <3>3, <3>4, <3>5 DEF Queued
  <2>3. CASE OpenSL /\ stopSink
    <3> DEFINE w == Without(binder.wait_completion, binder.silent)
    <3>1. binder.pooled = <<>>
      BY <2>3 DEF PlayerInv, stopSink
    <3>2. binder'.wait_completion = <<>> /\ binder'.pooled = w
      BY <2>3, StopEffect
    <3>3. w \in Seq(Blocks)
      BY <2>3, WithoutType DEF ShapeOK, BinderType
    <3>4. Without(<<>>, binder.silent) = <<>>
      BY WithoutEmpty
    <3> HIDE DEF w
    <3>5. <<>> \o w = w /\ w \o <<>> = w
      BY <3>3, ConcatEmptySeq
    <3>6. Queued' = (<<>> \o w) \o sink_pipe.consumer
      BY <1>1, <1>2, <1>5, <2>3, <3>2, <3>4 DEF Queued
    <3>7. Queued = (w \o <<>>) \o sink_pipe.consumer
      BY <2>3, <3>1 DEF Queued, w
    <3> QED
      BY <3>5, <3>6, <3>7
  <2> QED
    BY <2>1, <2>2, <2>3
<1> QED
  BY <1>1, <1>4, <1>6, <1>7 DEF InOrder, PlaysInOrder

\* No step loses a block, plays it twice or lets it overtake another one.
LEMMA OrderStep ==
  ASSUME IInv, [Next]_vars
  PROVE  OneOwner' /\ PlaysInOrder'
<1> USE DEF IInv
<1>0. backend' = backend /\ OpenSL' = OpenSL /\ NumPipeBlocks(backend)' = NumPipeBlocks(backend)
  BY SameBackend DEF OpenSL
<1>1. CASE UNCHANGED <<sink_pipe, capture_pipe, content, order, binder, mixing, capturing>>
  <2>1. OneOwner'
    BY <1>0, <1>1 DEF OneOwner, Numbered, IsInjective
  <2>2. PlaysInOrder'
    BY <1>0, <1>1 DEF PlaysInOrder, Queued
  <2> QED
    BY <2>1, <2>2
<1>2. CASE startSink \/ stopSink
  BY <1>0, <1>2, SinkKeepsOrder DEF InOrder, Counted, PlaysInOrder
<1>3. CASE pollObtainCapturedAudioData
  <2>1. /\ UNCHANGED <<sink_pipe, content, order, binder, mixing, capturing>>
        /\ \/ capture_pipe' = capture_pipe
           \/ capture_pipe' = [producer |-> capture_pipe.producer + 1, consumer |-> capture_pipe.consumer - 1]
    BY <1>3, ObtainEffect
  <2>2. capture_pipe'.producer + capture_pipe'.consumer = capture_pipe.producer + capture_pipe.consumer
    <3>1. CASE capture_pipe' = capture_pipe
      BY <3>1
    <3>2. CASE capture_pipe' = [producer |-> capture_pipe.producer + 1, consumer |-> capture_pipe.consumer - 1]
      <4> DEFINE n == capture_pipe.producer + 1
                 k == capture_pipe.consumer - 1
      <4>1. capture_pipe' = [producer |-> n, consumer |-> k]
        BY <3>2
      <4>2. capture_pipe'.producer = n /\ capture_pipe'.consumer = k
        <5> HIDE DEF n, k
        <5> QED
          BY <4>1
      <4> QED
        BY <4>2, Written
    <3> QED
      BY <2>1, <3>1, <3>2
  <2>3. OneOwner'
    BY <1>0, <2>1 DEF OneOwner, Numbered, IsInjective
  <2>4. PlaysInOrder'
    BY <1>0, <2>1, <2>2 DEF PlaysInOrder, Queued
  <2> QED
    BY <2>3, <2>4
<1>4. CASE mixerThreadLocksBlocks
  BY <1>0, <1>4, LockKeepsOrder DEF InOrder, Counted, PlaysInOrder
<1>5. CASE mixerThreadUnlocksBlocks
  BY <1>0, <1>5, UnlockKeepsOrder DEF InOrder, Counted, PlaysInOrder
<1>6. CASE playbackBufferQueueCallback
  BY <1>6, CallbackKeepsOrder DEF InOrder, Counted, PlaysInOrder
<1>7. CASE audioTrackStreamCallback
  BY <1>7, StreamKeepsOrder DEF InOrder, Counted, PlaysInOrder
<1> QED
  BY <1>1, <1>2, <1>3, <1>4, <1>5, <1>6, <1>7, PipeSteps

-----------------------------------------------------------------------------
(* The invariant holds at first, and every step keeps it.                  *)

\* The blocks of a new pipe are all free, the first of them is the silent one of the player.
LEMMA NewPipe ==
  ASSUME Init
  PROVE  /\ Blocks \subseteq Nat /\ sink_pipe \in [producer : Seq(Blocks), consumer : Seq(Blocks)]
         /\ sink_pipe.consumer = <<>> /\ IsInjective(sink_pipe.producer)
         /\ Len(sink_pipe.producer) + (IF OpenSL THEN 1 ELSE 0) = NumPipeBlocks(backend)
         /\ IF OpenSL
            THEN /\ binder = [wait_completion |-> <<>>, pooled |-> <<>>, wait_buffering |-> 0, silent |-> 1,
                              num_blocks |-> PlayerBlocks]
                 /\ 1 \in Blocks /\ 1 \notin Numbered(sink_pipe.producer)
            ELSE binder = None
<1> DEFINE N == NumPipeBlocks(backend)
           all == [i \in 1 .. N |-> i]
           pipe == setupQueues(N)
<1>1. /\ backend \in Backends /\ sink_pipe = (IF OpenSL THEN bound(pipe) ELSE pipe)
      /\ binder = IF OpenSL THEN initializeBinder(pipe, PlayerBlocks) ELSE None
  BY DEF Init
<1>2. N \in Nat /\ N >= 2 /\ Blocks = 1 .. N
  BY <1>1, Sizes DEF Blocks
<1> HIDE DEF N
<1>3. /\ all \in Seq(Blocks) /\ Len(all) = N /\ DOMAIN all = 1 .. N /\ all # <<>> /\ Head(all) = 1
      /\ \A i \in 1 .. N : all[i] = i
  BY <1>2
<1>4. IsInjective(all) /\ Numbered(all) = Blocks
  BY <1>2, <1>3 DEF IsInjective, Numbered
<1>5. pipe = [producer |-> all, consumer |-> <<>>]
  BY DEF setupQueues
<1>6. Tail(all) \in Seq(Blocks) /\ IsInjective(Tail(all)) /\ Len(Tail(all)) = N - 1 /\ Numbered(Tail(all)) = Blocks \ {1}
  <2> HIDE DEF all
  <2> QED
    BY <1>3, <1>4, TailOne
<1>7. CASE OpenSL
  <2>1. getSilentReadBlock(pipe) = 1
    BY <1>3, <1>5 DEF getSilentReadBlock
  <2> DEFINE t == Tail(all)
             one == lockWrite(pipe)
             two == unlockWrite(one, 1)
  <2>2. one = [producer |-> t, consumer |-> <<>>]
    <3> HIDE DEF pipe, all
    <3> QED
      BY <1>5, WriteLocked
  <2>3. two = [producer |-> t, consumer |-> <<1>>]
    <3>1. Append(<<>>, 1) = <<1>>
      OBVIOUS
    <3> HIDE DEF one, t
    <3>2. unlockWrite(one, 1) = [producer |-> t, consumer |-> Append(<<>>, 1)]
      BY <2>2, WriteUnlocked
    <3> QED
      BY <3>1, <3>2
  <2>4. lockRead(two) = [producer |-> t, consumer |-> <<>>]
    <3>1. Tail(<<1>>) = <<>>
      OBVIOUS
    <3> DEFINE c == <<1>>
    <3>2. two = [producer |-> t, consumer |-> c] /\ Tail(c) = <<>>
      BY <2>3, <3>1
    <3> HIDE DEF two, t, c
    <3>3. lockRead(two) = [producer |-> t, consumer |-> Tail(c)]
      BY <3>2, ReadLocked
    <3> QED
      BY <3>2, <3>3
  <2>5. sink_pipe = [producer |-> t, consumer |-> <<>>]
    BY <1>1, <1>7, <2>1, <2>4 DEF bound
  <2> HIDE DEF t, one, two
  <2>6. sink_pipe.producer = t /\ sink_pipe.consumer = <<>>
    BY <2>5
  <2>7. t \in Seq(Blocks) /\ IsInjective(t) /\ Len(t) = N - 1 /\ Numbered(t) = Blocks \ {1}
    BY <1>6 DEF t
  <2>8. <<>> \in Seq(Blocks) /\ Blocks \subseteq Nat /\ 1 \in Blocks
    BY <1>2
  <2>9. sink_pipe \in [producer : Seq(Blocks), consumer : Seq(Blocks)]
    BY <2>5, <2>7, <2>8
  <2>10. Len(sink_pipe.producer) + (IF OpenSL THEN 1 ELSE 0) = NumPipeBlocks(backend)
    BY <1>2, <1>7, <2>6, <2>7 DEF N
  <2>11. binder = [wait_completion |-> <<>>, pooled |-> <<>>, wait_buffering |-> 0, silent |-> 1,
                   num_blocks |-> PlayerBlocks]
    BY <1>1, <1>7, <2>1 DEF initializeBinder
  <2> QED
    BY <1>7, <2>6, <2>7, <2>8, <2>9, <2>10, <2>11
<1>8. CASE ~OpenSL
  <2>1. sink_pipe = [producer |-> all, consumer |-> <<>>] /\ binder = None
    BY <1>1, <1>5, <1>8
  <2> HIDE DEF all
  <2>2. sink_pipe.producer = all /\ sink_pipe.consumer = <<>>
    BY <2>1
  <2>3. <<>> \in Seq(Blocks) /\ Blocks \subseteq Nat
    BY <1>2
  <2>4. sink_pipe \in [producer : Seq(Blocks), consumer : Seq(Blocks)]
    BY <1>3, <2>1, <2>3
  <2>5. Len(sink_pipe.producer) + (IF OpenSL THEN 1 ELSE 0) = NumPipeBlocks(backend)
    BY <1>2, <1>3, <1>8, <2>2 DEF N
  <2> QED
    BY <1>4, <1>8, <2>1, <2>2, <2>3, <2>4, <2>5
<1> QED
  BY <1>7, <1>8

\* What is queued at first is nothing.
LEMMA InitInvariant ==
  ASSUME Init
  PROVE  IInv
<1>1. /\ Blocks \subseteq Nat /\ sink_pipe \in [producer : Seq(Blocks), consumer : Seq(Blocks)]
      /\ sink_pipe.consumer = <<>> /\ IsInjective(sink_pipe.producer)
      /\ Len(sink_pipe.producer) + (IF OpenSL THEN 1 ELSE 0) = NumPipeBlocks(backend)
      /\ OpenSL => /\ binder = [wait_completion |-> <<>>, pooled |-> <<>>, wait_buffering |-> 0, silent |-> 1,
                                num_blocks |-> PlayerBlocks]
                   /\ 1 \in Blocks /\ 1 \notin Numbered(sink_pipe.producer)
      /\ ~OpenSL => binder = None
  BY NewPipe
<1>2. /\ backend \in Backends /\ content = [b \in Blocks |-> "silence"] /\ order = <<>>
      /\ capture_pipe = [producer |-> CaptureBlocks, consumer |-> 0]
      /\ writer = "none" /\ buffer = "silence" /\ stop_request_ = FALSE
      /\ sink_state = "stopped" /\ mixer_state = "suspended"
      /\ mixer_thread = "checking" /\ mixing = None /\ capturing = FALSE /\ capture_enabled = FALSE
      /\ source = "none" /\ handler = "idle" /\ waited = None /\ delivered = 0
  BY DEF Init, setupCaptureQueues
<1>3. Numbered(<<>>) = {} /\ IsInjective(<<>>) /\ Len(<<>>) = 0 /\ <<>> \in Seq(Blocks)
  BY DEF Numbered, IsInjective
<1>4. Half \in Nat
  BY <1>2, Sizes
<1>5. None \notin Blocks
  BY <1>1
<1>6. sink_pipe.producer \in Seq(Blocks) /\ Numbered(sink_pipe.producer) \subseteq Blocks
      /\ Len(sink_pipe.producer) \in Nat
  <2>1. sink_pipe.producer \in Seq(Blocks)
    BY <1>1
  <2> QED
    BY <2>1, NumberedSeq
<1>7. OpenSL => /\ binder \in BinderType /\ binder.wait_completion = <<>> /\ binder.pooled = <<>> /\ binder.silent = 1
  BY <1>1, <1>3 DEF BinderType
<1>8. TypeOK
  <2>1. waited \in (0 .. MaxWait) \cup {None} /\ delivered \in 0 .. MaxPerPoll /\ content \in [Blocks -> {"silence", "sound"}]
    BY <1>2
  <2> QED
    BY <1>1, <1>2, <1>3, <1>6, <2>1 DEF TypeOK
<1>9. ShapeOK
  BY <1>1, <1>2, <1>3, <1>7 DEF ShapeOK
<1>10. PhaseInv /\ MixingInv
  BY <1>2 DEF PhaseInv, MixingInv
<1>11. PlayerInv
  <2> SUFFICES ASSUME OpenSL PROVE PlayerInv
    BY DEF PlayerInv
  <2>1. Len(binder.wait_completion) = 0 /\ Len(binder.pooled) = 0 /\ 1 .. 0 = {}
    BY <1>3, <1>7
  <2> QED
    BY <1>2, <1>4, <1>7, <2>1 DEF PlayerInv
<1>12. OneOwner
  <2>1. None \notin Numbered(order) \cup Numbered(sink_pipe.producer)
    BY <1>2, <1>3, <1>5, <1>6
  <2> QED
    BY <1>1, <1>2, <1>3, <1>5, <1>7, <2>1 DEF OneOwner
<1>13. PlaysInOrder
  <2>1. Queued = order
    <3>1. CASE OpenSL
      <4>1. Without(<<>>, binder.silent) = <<>> /\ (<<>> \o <<>>) \o <<>> = <<>>
        BY <1>3, WithoutEmpty, ConcatEmptySeq
      <4> QED
        BY <1>1, <1>2, <1>7, <3>1, <4>1 DEF Queued
    <3>2. CASE ~OpenSL
      BY <1>1, <1>2, <3>2 DEF Queued
    <3> QED
      BY <3>1, <3>2
  <2>2. capture_pipe.producer = CaptureBlocks /\ capture_pipe.consumer = 0
    BY <1>2
  <2> DEFINE other == IF OpenSL THEN 1 ELSE 0
  <2>3. Len(sink_pipe.producer) + 0 + 0 + other = NumPipeBlocks(backend)
    <3>1. Len(sink_pipe.producer) + other = NumPipeBlocks(backend) /\ other \in Nat
      BY <1>1
    <3> HIDE DEF other
    <3> QED
      BY <1>6, <3>1
  <2>4. Len(order) = 0 /\ CaptureBlocks + 0 + 0 = CaptureBlocks
    BY <1>2, <1>3
  <2> QED
    BY <1>2, <2>1, <2>2, <2>3, <2>4 DEF PlaysInOrder
<1> QED
  BY <1>8, <1>9, <1>10, <1>11, <1>12, <1>13 DEF IInv

\* Every step keeps the invariant.
LEMMA InvariantStep ==
  ASSUME IInv, [Next]_vars
  PROVE  IInv'
BY ShapeStep, TypeStep, PlayerStep, OrderStep DEF IInv

\* The invariant holds of every state that is reached.
LEMMA Invariant == Spec => []IInv
<1>1. Init => IInv
  BY InitInvariant
<1>2. IInv /\ [Next]_vars => IInv'
  BY InvariantStep
<1> QED
  BY <1>1, <1>2, PTL DEF Spec

\* Every variable of the output keeps its type, whatever the back end and the sizes of its queues.
THEOREM TypeCorrect == Spec => []TypeOK
<1>1. IInv => TypeOK
  BY DEF IInv
<1> QED
  BY <1>1, Invariant, PTL

\* No block of the sink pipe is lost, played twice or overtaken, through every start and stop of the
\* player and every block it gives back, plays again or replaces with silence.
THEOREM PlaysInOrderHolds == Spec => []PlaysInOrder
<1>1. IInv => PlaysInOrder
  BY DEF IInv
<1> QED
  BY <1>1, Invariant, PTL

\* Between the steps in which the handler thread changes them the sink runs when the mixer does, and
\* a player that runs always has a block to play, without which it would never call back.
THEOREM SinkFollowsMixerHolds == Spec => []SinkFollowsMixer
<1>1. IInv => SinkFollowsMixer
  <2> SUFFICES ASSUME IInv PROVE SinkFollowsMixer
    OBVIOUS
  <2>1. backend \in Backends /\ PhaseInv /\ PlayerInv
    BY DEF IInv, TypeOK
  <2>2. Half > 0
    BY <2>1, Sizes
  <2>3. OpenSL /\ sink_state = "started" => binder.wait_completion # <<>>
    <3> SUFFICES ASSUME OpenSL, sink_state = "started", binder.wait_completion = <<>> PROVE FALSE
      OBVIOUS
    <3>1. Len(binder.wait_completion) = Half /\ Len(<<>>) = 0
      BY <2>1 DEF PlayerInv
    <3> QED
      BY <2>2, <3>1
  <2> QED
    BY <2>1, <2>3 DEF SinkFollowsMixer, PhaseInv
<1> QED
  BY <1>1, Invariant, PTL

-----------------------------------------------------------------------------
(* Nothing audible is left when the sink is stopped.                       *)

\* Where an element of two sequences in a row is found.
LEMMA ConcatAt ==
  ASSUME NEW S, NEW p \in Seq(S), NEW q \in Seq(S)
  PROVE  /\ p \o q \in Seq(S) /\ Len(p \o q) = Len(p) + Len(q) /\ Len(p) \in Nat /\ Len(q) \in Nat
         /\ \A i \in 1 .. Len(p) : (p \o q)[i] = p[i]
         /\ \A i \in 1 .. Len(q) : (p \o q)[i + Len(p)] = q[i]
         /\ \A i \in 1 .. Len(p) + Len(q) : i > Len(p) => i - Len(p) \in 1 .. Len(q) /\ (p \o q)[i] = q[i - Len(p)]
<1>1. /\ p \o q \in Seq(S) /\ Len(p \o q) = Len(p) + Len(q) /\ Len(p) \in Nat /\ Len(q) \in Nat
      /\ \A i \in 1 .. Len(p) + Len(q) : (p \o q)[i] = IF i <= Len(p) THEN p[i] ELSE q[i - Len(p)]
  BY ConcatProperties
<1>2. ASSUME NEW i \in 1 .. Len(p) PROVE (p \o q)[i] = p[i]
  <2>1. i \in 1 .. Len(p) + Len(q) /\ i <= Len(p)
    BY <1>1
  <2> QED
    BY <1>1, <2>1
<1>3. ASSUME NEW i \in 1 .. Len(q) PROVE (p \o q)[i + Len(p)] = q[i]
  <2>1. i + Len(p) \in 1 .. Len(p) + Len(q) /\ ~(i + Len(p) <= Len(p)) /\ (i + Len(p)) - Len(p) = i
    BY <1>1
  <2> QED
    BY <1>1, <2>1
<1>4. ASSUME NEW i \in 1 .. Len(p) + Len(q), i > Len(p)
      PROVE  i - Len(p) \in 1 .. Len(q) /\ (p \o q)[i] = q[i - Len(p)]
  <2>1. i - Len(p) \in 1 .. Len(q) /\ ~(i <= Len(p))
    BY <1>1, <1>4
  <2> QED
    BY <1>1, <2>1
<1> QED
  BY <1>1, <1>2, <1>3, <1>4

\* The elements of two sequences in a row.
LEMMA ConcatElements ==
  ASSUME NEW S, NEW p \in Seq(S), NEW q \in Seq(S)
  PROVE  Numbered(p \o q) = Numbered(p) \cup Numbered(q)
<1>1. Numbered(p) \subseteq Numbered(p \o q) /\ Numbered(q) \subseteq Numbered(p \o q)
  BY NumberedConcat
<1>2. /\ DOMAIN p = 1 .. Len(p) /\ DOMAIN q = 1 .. Len(q) /\ DOMAIN (p \o q) = 1 .. Len(p) + Len(q)
      /\ Len(p) \in Nat /\ Len(q) \in Nat
  OBVIOUS
<1>3. ASSUME NEW i \in 1 .. Len(p) + Len(q) PROVE (p \o q)[i] \in Numbered(p) \cup Numbered(q)
  <2>1. CASE i <= Len(p)
    <3>1. i \in 1 .. Len(p) /\ (p \o q)[i] = p[i]
      BY <1>2, <2>1, ConcatAt
    <3> QED
      BY <1>2, <3>1 DEF Numbered
  <2>2. CASE i > Len(p)
    <3>1. i - Len(p) \in 1 .. Len(q) /\ (p \o q)[i] = q[i - Len(p)]
      BY <2>2, ConcatAt
    <3> QED
      BY <1>2, <3>1 DEF Numbered
  <2> QED
    BY <1>2, <2>1, <2>2
<1>4. Numbered(p \o q) \subseteq Numbered(p) \cup Numbered(q)
  BY <1>2, <1>3 DEF Numbered
<1> QED
  BY <1>1, <1>4

\* The queue that goes on: each block is one place nearer to the device, or stays behind a silent one.
LEMMA PendingGoesOn ==
  ASSUME NEW wait \in Seq(Blocks), wait # <<>>, NEW rest \in Seq(Blocks), NEW b \in Blocks
  PROVE  /\ Append(Tail(wait), b) \o rest \in Seq(Blocks) /\ wait \o rest \in Seq(Blocks)
         /\ Len(Append(Tail(wait), b) \o rest) = Len(wait \o rest)
         /\ \A i \in 1 .. Len(wait \o rest) :
              \/ (Append(Tail(wait), b) \o rest)[i] = b
              \/ (Append(Tail(wait), b) \o rest)[i] = (wait \o rest)[i]
              \/ i + 1 \in 1 .. Len(wait \o rest) /\ (Append(Tail(wait), b) \o rest)[i] = (wait \o rest)[i + 1]
<1> DEFINE w == Append(Tail(wait), b)
           n == Len(wait)
<1>1. /\ w \in Seq(Blocks) /\ Len(w) = n /\ n \in Nat /\ n > 0 /\ w[n] = b
      /\ \A i \in 1 .. n - 1 : w[i] = wait[i + 1]
  OBVIOUS
<1> HIDE DEF w
<1>2. /\ w \o rest \in Seq(Blocks) /\ Len(w \o rest) = n + Len(rest) /\ Len(rest) \in Nat
      /\ \A i \in 1 .. n : (w \o rest)[i] = w[i]
      /\ \A i \in 1 .. n + Len(rest) : i > n => (w \o rest)[i] = rest[i - n]
  <2>0. w \in Seq(Blocks)
    BY <1>1
  <2>1. /\ w \o rest \in Seq(Blocks) /\ Len(w \o rest) = Len(w) + Len(rest) /\ Len(rest) \in Nat
        /\ \A i \in 1 .. Len(w) : (w \o rest)[i] = w[i]
        /\ \A i \in 1 .. Len(w) + Len(rest) : i > Len(w) => (w \o rest)[i] = rest[i - Len(w)]
    BY <2>0, ConcatAt
  <2>2. Len(w) = n
    BY <1>1
  <2> HIDE DEF n
  <2> QED
    BY <2>1, <2>2
<1>3. /\ wait \o rest \in Seq(Blocks) /\ Len(wait \o rest) = n + Len(rest)
      /\ \A i \in 1 .. n : (wait \o rest)[i] = wait[i]
      /\ \A i \in 1 .. n + Len(rest) : i > n => (wait \o rest)[i] = rest[i - n]
  BY ConcatAt
<1> HIDE DEF n
<1>4. ASSUME NEW i \in 1 .. n + Len(rest)
      PROVE  \/ (w \o rest)[i] = b \/ (w \o rest)[i] = (wait \o rest)[i]
             \/ i + 1 \in 1 .. n + Len(rest) /\ (w \o rest)[i] = (wait \o rest)[i + 1]
  <2>1. CASE i < n
    <3>1. i \in 1 .. n - 1 /\ i \in 1 .. n /\ i + 1 \in 1 .. n /\ i + 1 \in 1 .. n + Len(rest)
      BY <1>1, <1>2, <2>1
    <3> QED
      BY <1>1, <1>2, <1>3, <3>1
  <2>2. CASE i = n
    <3>1. n \in 1 .. n
      BY <1>1
    <3> QED
      BY <1>1, <1>2, <2>2, <3>1
  <2>3. CASE i > n
    BY <1>2, <1>3, <2>3
  <2>4. i < n \/ i = n \/ i > n
    BY <1>1, <1>2
  <2> QED
    BY <2>1, <2>2, <2>3, <2>4, Zenon
<1> QED
  BY <1>2, <1>3, <1>4 DEF w

\* When the first is taken, each of the others is one place nearer.
LEMMA TailNearer ==
  ASSUME NEW S, NEW w \in Seq(S), w # <<>>, NEW q \in Seq(S)
  PROVE  /\ Tail(w) \o q \in Seq(S) /\ Len(Tail(w) \o q) = Len(w \o q) - 1 /\ Len(w \o q) \in Nat
         /\ \A i \in 1 .. Len(w \o q) - 1 : (Tail(w) \o q)[i] = (w \o q)[i + 1]
<1> DEFINE t == Tail(w)
           n == Len(w)
<1>1. t \in Seq(S) /\ Len(t) = n - 1 /\ n \in Nat /\ n > 0 /\ \A i \in 1 .. n - 1 : t[i] = w[i + 1]
  OBVIOUS
<1> HIDE DEF t
<1>2. /\ t \o q \in Seq(S) /\ Len(t \o q) = Len(t) + Len(q) /\ Len(q) \in Nat
      /\ \A i \in 1 .. Len(t) : (t \o q)[i] = t[i]
      /\ \A i \in 1 .. Len(t) + Len(q) : i > Len(t) => (t \o q)[i] = q[i - Len(t)]
  <2>1. t \in Seq(S)
    BY <1>1
  <2> QED
    BY <2>1, ConcatAt
<1>3. /\ w \o q \in Seq(S) /\ Len(w \o q) = n + Len(q)
      /\ \A i \in 1 .. n : (w \o q)[i] = w[i]
      /\ \A i \in 1 .. n + Len(q) : i > n => (w \o q)[i] = q[i - n]
  BY ConcatAt
<1> HIDE DEF n
<1>4. ASSUME NEW i \in 1 .. n + Len(q) - 1 PROVE (t \o q)[i] = (w \o q)[i + 1]
  <2>1. CASE i < n
    <3>1. i \in 1 .. n - 1 /\ i + 1 \in 1 .. n /\ i \in 1 .. Len(t)
      BY <1>1, <2>1
    <3> QED
      BY <1>1, <1>2, <1>3, <3>1
  <2>2. CASE i >= n
    <3>1. i > Len(t) /\ i \in 1 .. Len(t) + Len(q) /\ i + 1 > n /\ i + 1 \in 1 .. n + Len(q) /\ (i + 1) - n = i - Len(t)
      BY <1>1, <1>2, <2>2
    <3> QED
      BY <1>2, <1>3, <3>1
  <2>3. i < n \/ i >= n
    BY <1>1, <1>2
  <2> QED
    BY <2>1, <2>2, <2>3
<1>5. n + Len(q) \in Nat /\ Len(t) + Len(q) = n + Len(q) - 1
  BY <1>1, <1>2
<1> QED
  BY <1>2, <1>3, <1>4, <1>5 DEF t

\* The queue when the player goes on to a block it gave back before, or to the next one of the pipe.
LEMMA PendingTaken ==
  ASSUME NEW wait \in Seq(Blocks), wait # <<>>, NEW pooled \in Seq(Blocks), NEW consumer \in Seq(Blocks)
  PROVE  /\ pooled # <<>> => PendingOf(Append(Tail(wait), Head(pooled)), Tail(pooled), consumer)
                               = Tail(wait) \o (pooled \o consumer)
         /\ pooled = <<>> /\ consumer # <<>> =>
              PendingOf(Append(Tail(wait), Head(consumer)), <<>>, Tail(consumer)) = Tail(wait) \o (pooled \o consumer)
<1> DEFINE t == Tail(wait)
<1>1. t \in Seq(Blocks)
  OBVIOUS
<1> HIDE DEF t
<1>2. ASSUME pooled # <<>>
      PROVE  Append(t, Head(pooled)) \o (Tail(pooled) \o consumer) = t \o (pooled \o consumer)
  <2> DEFINE a == Append(t, Head(pooled))
             u == Tail(pooled)
  <2>1. a \in Seq(Blocks) /\ u \in Seq(Blocks)
    BY <1>1, <1>2
  <2>2. a \o u = t \o pooled
    BY <1>1, <1>2, PassOn
  <2> HIDE DEF a, u
  <2>3. (a \o u) \o consumer = a \o (u \o consumer)
    BY <2>1, ConcatAssociative
  <2>4. (t \o pooled) \o consumer = t \o (pooled \o consumer)
    BY <1>1, ConcatAssociative
  <2>5. a \o (u \o consumer) = t \o (pooled \o consumer)
    BY <2>2, <2>3, <2>4
  <2> QED
    BY <2>5 DEF a, u
<1>3. ASSUME pooled = <<>>, consumer # <<>>
      PROVE  Append(t, Head(consumer)) \o (<<>> \o Tail(consumer)) = t \o (pooled \o consumer)
  <2>1. Tail(consumer) \in Seq(Blocks)
    BY <1>3
  <2>2. <<>> \o Tail(consumer) = Tail(consumer) /\ <<>> \o consumer = consumer
    <3> DEFINE u == Tail(consumer)
    <3> HIDE DEF u
    <3>1. u \in Seq(Blocks)
      BY <2>1 DEF u
    <3>2. <<>> \o u = u /\ <<>> \o consumer = consumer
      BY <3>1, ConcatEmptySeq
    <3> QED
      BY <3>2 DEF u
  <2>3. Append(t, Head(consumer)) \o Tail(consumer) = t \o consumer
    BY <1>1, <1>3, PassOn
  <2>4. <<>> \o Tail(consumer) = Tail(consumer) /\ pooled \o consumer = consumer
    BY <1>3, <2>2
  <2> QED
    BY <2>3, <2>4
<1> QED
  BY <1>2, <1>3 DEF t, PendingOf

\* What a step of the device makes of what it has still to take: a place nearer for a block period,
\* the same place when silence was played instead, and nothing in it gets audible.
LEMMA DeviceStep ==
  ASSUME IInv, playbackBufferQueueCallback \/ audioTrackStreamCallback
  PROVE  /\ \A i \in 1 .. Len(Pending') :
              \/ OpenSL /\ Pending'[i] = binder.silent
              \/ i \in 1 .. Len(Pending) /\ Pending'[i] = Pending[i] /\ waited' = waited
              \/ /\ i + 1 \in 1 .. Len(Pending) /\ Pending'[i] = Pending[i + 1]
                 /\ waited # None => waited' \in {waited, waited + 1}
         /\ waited' # None => waited # None
         /\ Len(Pending') \in Nat
<1> USE DEF IInv
<1>0. backend \in Backends /\ waited \in (0 .. MaxWait) \cup {None}
  BY DEF TypeOK
<1>1. CASE playbackBufferQueueCallback
  <2> DEFINE wait == binder.wait_completion
             silent == binder.silent
             pooled == binder.pooled
             consumer == sink_pipe.consumer
             rest == Tail(wait)
  <2>1. /\ OpenSL /\ backend' = backend /\ wait # <<>>
        /\ \/ /\ pooled # <<>> /\ Later
              /\ binder'.wait_completion = Append(rest, Head(pooled))
              /\ binder'.pooled = Tail(pooled) /\ sink_pipe'.consumer = consumer
           \/ /\ pooled = <<>> /\ consumer # <<>> /\ Later
              /\ binder'.wait_completion = Append(rest, Head(consumer))
              /\ binder'.pooled = <<>> /\ sink_pipe'.consumer = Tail(consumer)
           \/ /\ pooled = <<>> /\ waited' = waited
              /\ binder'.wait_completion = Append(rest, silent)
              /\ binder'.pooled = <<>> /\ sink_pipe'.consumer = consumer
    <3> DEFINE first == Head(wait)
               given == IF first = silent THEN sink_pipe.producer ELSE Append(sink_pipe.producer, first)
               Goes(w, p, c) == /\ binder' = [wait_completion |-> w, pooled |-> p, wait_buffering |-> binder'.wait_buffering,
                                              silent |-> silent, num_blocks |-> PlayerBlocks]
                                /\ sink_pipe' = [producer |-> given, consumer |-> c]
    <3>1. /\ OpenSL /\ wait # <<>> /\ UNCHANGED backend
          /\ \/ pooled # <<>> /\ Goes(Append(rest, Head(pooled)), Tail(pooled), consumer) /\ Later
             \/ pooled = <<>> /\ consumer # <<>> /\ Goes(Append(rest, Head(consumer)), <<>>, Tail(consumer)) /\ Later
             \/ pooled = <<>> /\ Goes(Append(rest, silent), <<>>, consumer) /\ UNCHANGED waited
      BY <1>1, CallbackCases
    <3>2. \A w, p, c : Goes(w, p, c) => /\ binder'.wait_completion = w /\ binder'.pooled = p /\ sink_pipe'.consumer = c
      <4> HIDE DEF given, silent
      <4> QED
        OBVIOUS
    <3> HIDE DEF Goes, first, rest, silent, wait, pooled, consumer, given
    <3>3. CASE pooled # <<>> /\ Goes(Append(rest, Head(pooled)), Tail(pooled), consumer) /\ Later
      BY <3>1, <3>2, <3>3
    <3>4. CASE pooled = <<>> /\ consumer # <<>> /\ Goes(Append(rest, Head(consumer)), <<>>, Tail(consumer)) /\ Later
      BY <3>1, <3>2, <3>4
    <3>5. CASE pooled = <<>> /\ Goes(Append(rest, silent), <<>>, consumer) /\ UNCHANGED waited
      BY <3>1, <3>2, <3>5
    <3> QED
      BY <3>1, <3>3, <3>4, <3>5
  <2>2. wait \in Seq(Blocks) /\ pooled \in Seq(Blocks) /\ consumer \in Seq(Blocks) /\ silent \in Blocks
    BY <2>1, Written DEF ShapeOK, BinderType
  <2>3. /\ Pending = PendingOf(wait, pooled, consumer)
        /\ Pending' = PendingOf(binder'.wait_completion, binder'.pooled, sink_pipe'.consumer)
    BY <2>1 DEF Pending, OpenSL, PendingOf
  <2> DEFINE q == pooled \o consumer
  <2>4. q \in Seq(Blocks) /\ Pending = wait \o q
    <3> HIDE DEF wait, pooled, consumer
    <3> QED
      BY <2>2, <2>3 DEF PendingOf
  <2> HIDE DEF q
  <2>5. ASSUME Later, Pending' = rest \o q
        PROVE  /\ \A i \in 1 .. Len(Pending') : /\ i + 1 \in 1 .. Len(Pending) /\ Pending'[i] = Pending[i + 1]
                                                /\ waited # None => waited' \in {waited, waited + 1}
               /\ waited' # None => waited # None
               /\ Len(Pending') \in Nat
    <3>1. /\ waited' # None => waited # None
          /\ waited # None => waited' \in {waited, waited + 1}
      BY <1>0, <2>5, LaterType
    <3>2. /\ Len(rest \o q) = Len(wait \o q) - 1 /\ Len(wait \o q) \in Nat
          /\ \A i \in 1 .. Len(wait \o q) - 1 : (rest \o q)[i] = (wait \o q)[i + 1]
          /\ rest \o q \in Seq(Blocks)
      <4> HIDE DEF wait
      <4> QED
        BY <2>1, <2>2, <2>4, TailNearer
    <3>3. Len(Pending') \in Nat /\ Len(Pending') = Len(Pending) - 1 /\ Len(Pending) \in Nat
      BY <2>4, <2>5, <3>2
    <3>4. \A i \in 1 .. Len(Pending) - 1 : Pending'[i] = Pending[i + 1] /\ i + 1 \in 1 .. Len(Pending)
      <4>1. \A i \in 1 .. Len(Pending) - 1 : i + 1 \in 1 .. Len(Pending)
        BY <3>3
      <4> HIDE DEF wait, rest
      <4> QED
        BY <2>4, <2>5, <3>2, <4>1
    <3> QED
      BY <3>1, <3>3, <3>4
  <2>6. ASSUME waited' = waited, pooled = <<>>, binder'.wait_completion = Append(rest, silent),
               binder'.pooled = <<>>, sink_pipe'.consumer = consumer
        PROVE  /\ \A i \in 1 .. Len(Pending') : \/ Pending'[i] = silent
                                                \/ i \in 1 .. Len(Pending) /\ Pending'[i] = Pending[i]
                                                \/ i + 1 \in 1 .. Len(Pending) /\ Pending'[i] = Pending[i + 1]
               /\ Len(Pending') \in Nat
    <3>1. Pending' = Append(rest, silent) \o q
      BY <2>3, <2>6 DEF PendingOf, q
    <3> HIDE DEF wait, silent
    <3>2. /\ Append(rest, silent) \o q \in Seq(Blocks)
          /\ Len(Append(rest, silent) \o q) = Len(wait \o q)
          /\ \A i \in 1 .. Len(wait \o q) :
               \/ (Append(rest, silent) \o q)[i] = silent
               \/ (Append(rest, silent) \o q)[i] = (wait \o q)[i]
               \/ i + 1 \in 1 .. Len(wait \o q) /\ (Append(rest, silent) \o q)[i] = (wait \o q)[i + 1]
      BY <2>1, <2>2, <2>4, PendingGoesOn
    <3> DEFINE after == Append(rest, silent) \o q
    <3>3. Pending' = after /\ after \in Seq(Blocks) /\ Len(after) = Len(Pending)
          /\ \A i \in 1 .. Len(Pending) : \/ after[i] = silent \/ after[i] = Pending[i]
                                          \/ i + 1 \in 1 .. Len(Pending) /\ after[i] = Pending[i + 1]
      <4> HIDE DEF rest
      <4> QED
        BY <2>4, <3>1, <3>2
    <3> HIDE DEF after
    <3>4. Len(after) \in Nat
      BY <3>3
    <3> QED
      BY <3>3, <3>4
  <2>7. CASE /\ pooled # <<>> /\ Later
             /\ binder'.wait_completion = Append(rest, Head(pooled))
             /\ binder'.pooled = Tail(pooled) /\ sink_pipe'.consumer = consumer
    <3>1. Pending' = PendingOf(Append(rest, Head(pooled)), Tail(pooled), consumer)
      BY <2>3, <2>7
    <3>2. Pending' = rest \o q
      <4> HIDE DEF wait, pooled, consumer, silent
      <4> QED
        BY <2>1, <2>2, <2>7, <3>1, PendingTaken DEF q
    <3> QED
      BY <2>5, <2>7, <3>2
  <2>8. CASE /\ pooled = <<>> /\ consumer # <<>> /\ Later
             /\ binder'.wait_completion = Append(rest, Head(consumer))
             /\ binder'.pooled = <<>> /\ sink_pipe'.consumer = Tail(consumer)
    <3>1. Pending' = PendingOf(Append(rest, Head(consumer)), <<>>, Tail(consumer))
      BY <2>3, <2>8
    <3>2. Pending' = rest \o q
      <4> HIDE DEF wait, pooled, consumer, silent
      <4> QED
        BY <2>1, <2>2, <2>8, <3>1, PendingTaken DEF q
    <3> QED
      BY <2>5, <2>8, <3>2
  <2>9. CASE /\ pooled = <<>> /\ waited' = waited
             /\ binder'.wait_completion = Append(rest, silent)
             /\ binder'.pooled = <<>> /\ sink_pipe'.consumer = consumer
    <3>1. /\ \A i \in 1 .. Len(Pending') : \/ Pending'[i] = silent
                                           \/ i \in 1 .. Len(Pending) /\ Pending'[i] = Pending[i]
                                           \/ i + 1 \in 1 .. Len(Pending) /\ Pending'[i] = Pending[i + 1]
          /\ Len(Pending') \in Nat
      BY <2>6, <2>9
    <3> QED
      BY <2>1, <2>9, <3>1
  <2> HIDE DEF wait, silent, pooled, consumer, rest
  <2> QED
    BY <2>1, <2>7, <2>8, <2>9
<1>2. CASE audioTrackStreamCallback
  <2>1. /\ ~OpenSL /\ backend' = backend
        /\ \/ sink_pipe' = sink_pipe /\ waited' = waited
           \/ /\ sink_pipe.consumer # <<>> /\ Later
              /\ sink_pipe' = [producer |-> Append(sink_pipe.producer, Head(sink_pipe.consumer)),
                               consumer |-> Tail(sink_pipe.consumer)]
    BY <1>2, StreamEffect DEF PhaseInv, audioTrackStreamCallback
  <2>2. Pending = sink_pipe.consumer /\ Pending' = sink_pipe'.consumer /\ sink_pipe.consumer \in Seq(Blocks)
    BY <2>1, Written DEF Pending, OpenSL
  <2>3. CASE sink_pipe' = sink_pipe /\ waited' = waited
    BY <2>2, <2>3
  <2>4. CASE /\ sink_pipe.consumer # <<>> /\ Later
             /\ sink_pipe' = [producer |-> Append(sink_pipe.producer, Head(sink_pipe.consumer)),
                              consumer |-> Tail(sink_pipe.consumer)]
    <3>1. /\ waited' # None => waited # None
          /\ waited # None => waited' \in {waited, waited + 1}
      BY <1>0, <2>4, LaterType
    <3>2. Pending' = Tail(Pending) /\ Pending \in Seq(Blocks) /\ Pending # <<>>
      <4> DEFINE t == Tail(sink_pipe.consumer)
                 a == Append(sink_pipe.producer, Head(sink_pipe.consumer))
      <4>1. sink_pipe' = [producer |-> a, consumer |-> t]
        BY <2>4
      <4>2. sink_pipe'.consumer = t
        <5> HIDE DEF a, t
        <5> QED
          BY <4>1
      <4> QED
        BY <2>2, <2>4, <4>2
    <3> DEFINE before == Pending
    <3>3. /\ Len(Tail(before)) \in Nat /\ Len(Tail(before)) = Len(before) - 1 /\ Len(before) \in Nat
          /\ \A i \in 1 .. Len(before) - 1 : Tail(before)[i] = before[i + 1] /\ i + 1 \in 1 .. Len(before)
      <4>1. before \in Seq(Blocks) /\ before # <<>>
        BY <3>2
      <4> HIDE DEF before
      <4> QED
        BY <4>1
    <3> QED
      BY <3>1, <3>2, <3>3
  <2> QED
    BY <2>1, <2>3, <2>4
<1> QED
  BY <1>1, <1>2

\* While it is waited for the mixer to fall silent no source is there, until a player starts one.
LEMMA PauseStep ==
  ASSUME TypeOK, PauseInv, [Next]_vars
  PROVE  /\ PauseInv'
         /\ ~pollControlMixerAndSinkSuspendResume =>
              /\ mixer_state' = "suspended" => mixer_state = "suspended"
              /\ (waited # None \/ mixer_state = "suspended") /\ source' = "none" => source = "none"
<1> USE DEF PauseInv
<1>0. waited \in (0 .. MaxWait) \cup {None} /\ MaxWait \in Nat /\ None \notin Nat /\ backend \in Backends
  BY Sizes DEF TypeOK
<1>00. Later => (waited' # None => waited # None)
  BY <1>0, LaterType
<1> HIDE DEF TypeOK
<1>1. CASE Attach
  BY <1>1 DEF Attach, pipes, device, thread, states, polling, captured
<1>2. CASE Detach
  BY <1>2 DEF Detach, pipes, device, thread, states, polling, captured
<1>3. CASE setAudioCaptureEnabled
  BY <1>3 DEF setAudioCaptureEnabled, pipes, device, thread, states, polling
<1>4. CASE pollControlMixerAndSinkSuspendResume
  BY <1>4 DEF pollControlMixerAndSinkSuspendResume, pipes, device, thread, captured, Suspends, Resumes, EnteredCanSuspend, canSuspend
<1>5. CASE startSink
  BY <1>5 DEF startSink, pipes, thread, captured
<1>6. CASE startSinkFails
  BY <1>6 DEF startSinkFails, pipes, device, thread, captured
<1>7. CASE joinMixer
  BY <1>7 DEF joinMixer, pipes, device, thread, states, captured
<1>8. CASE stopSink
  BY <1>8 DEF stopSink, pipes, thread, captured
<1>9. CASE joinWriter
  BY <1>9 DEF joinWriter, pipes, thread, captured
<1>10. CASE pollMixer
  BY <1>10 DEF pollMixer, pipes, device, thread, states, captured
<1>11. CASE pollObtainCapturedAudioData
  BY <1>11 DEF pollObtainCapturedAudioData, pipes, device, thread, states
<1>12. CASE mixerThreadChecksRequests
  BY <1>12 DEF mixerThreadChecksRequests, pipes, device, states, polling, captured
<1>13. CASE mixerThreadUpdatesSource
  BY <1>13 DEF mixerThreadUpdatesSource, pipes, device, states, polling, captured
<1>14. CASE mixerThreadLocksBlocks
  BY <1>14 DEF mixerThreadLocksBlocks, device, states, polling
<1>15. CASE mixerThreadFindsNoBlock
  BY <1>15 DEF mixerThreadFindsNoBlock, pipes, device, states, polling, captured
<1>16. CASE mixerThreadUnlocksBlocks
  BY <1>16 DEF mixerThreadUnlocksBlocks, device, states, polling
<1>17. CASE playbackBufferQueueCallback
  BY <1>00, <1>17 DEF playbackBufferQueueCallback, thread, states, captured
<1>18. CASE writerStarts
  BY <1>18 DEF writerStarts, pipes, thread, states, polling, captured
<1>19. CASE writerExits
  BY <1>19 DEF writerExits, pipes, thread, states, polling, captured
<1>20. CASE audioTrackStreamCallback
  BY <1>00, <1>20 DEF audioTrackStreamCallback, thread, states, captured
<1>21. CASE writerWrites
  BY <1>21 DEF writerWrites, pipes, thread, states, polling, captured
<1>22. CASE UNCHANGED vars
  BY <1>22 DEF vars, pipes, device, thread, states, polling, captured
<1> QED
  BY <1>1, <1>2, <1>3, <1>4, <1>5, <1>6, <1>7, <1>8, <1>9, <1>10, <1>11, <1>12, <1>13, <1>14, <1>15, <1>16, <1>17, <1>18, <1>19, <1>20, <1>21, <1>22
     DEF Next, Poll, MixerThread, Writer

\* What the sink has still to take is not more than its blocks and the silence it starts with, and holds
\* all that is queued.
LEMMA PendingBound ==
  ASSUME IInv
  PROVE  Pending \in Seq(Blocks) /\ Len(Pending) \in Nat /\ Len(Pending) <= Limit /\ Numbered(order) \subseteq Numbered(Pending)
<1> USE DEF IInv
<1>0. backend \in Backends /\ NumPipeBlocks(backend) \in Nat /\ Half \in Nat
  <2>1. backend \in Backends
    BY DEF TypeOK
  <2> QED
    BY <2>1, Sizes
<1>1. Len(sink_pipe.producer) \in Nat /\ Len(order) \in Nat /\ order \in Seq(Blocks) /\ sink_pipe.consumer \in Seq(Blocks)
  BY Written DEF ShapeOK
<1>2. Len(order) <= NumPipeBlocks(backend) /\ (OpenSL => Len(order) <= NumPipeBlocks(backend) - 1)
  <2> DEFINE other == IF OpenSL THEN 1 ELSE 0
             busy == IF mixing = None THEN 0 ELSE 1
  <2>1. Len(sink_pipe.producer) + Len(order) + busy + other = NumPipeBlocks(backend) /\ other \in Nat /\ busy \in Nat
    BY DEF PlaysInOrder
  <2>2. OpenSL => other = 1
    OBVIOUS
  <2> HIDE DEF other, busy
  <2> QED
    BY <1>0, <1>1, <2>1, <2>2
<1>3. CASE ~OpenSL
  <2>1. Pending = order
    BY <1>3 DEF Pending, PlaysInOrder, Queued
  <2> QED
    BY <1>0, <1>1, <1>2, <1>3, <2>1 DEF Limit
<1>4. CASE OpenSL
  <2> DEFINE w == binder.wait_completion
             k == Without(w, binder.silent)
             p == binder.pooled
             c == sink_pipe.consumer
  <2>1. w \in Seq(Blocks) /\ p \in Seq(Blocks) /\ c \in Seq(Blocks) /\ Len(w) <= Half
    <3>1. w \in Seq(Blocks) /\ p \in Seq(Blocks) /\ c \in Seq(Blocks)
      BY <1>4, Written DEF ShapeOK, BinderType
    <3>2. Len(w) = Half \/ Len(w) = 0
      BY <1>4 DEF PlayerInv
    <3> QED
      BY <1>0, <3>1, <3>2
  <2>2. k \in Seq(Blocks) /\ Numbered(k) \subseteq Numbered(w)
    BY <2>1, WithoutType
  <2>3. order = (k \o p) \o c /\ Pending = w \o (p \o c)
    BY <1>4 DEF Pending, PendingOf, PlaysInOrder, Queued
  <2> HIDE DEF w, k, p, c
  <2>4. k \o p \in Seq(Blocks) /\ p \o c \in Seq(Blocks) /\ w \o (p \o c) \in Seq(Blocks)
        /\ Len(k \o p) = Len(k) + Len(p) /\ Len(p \o c) = Len(p) + Len(c)
        /\ Len(w) \in Nat /\ Len(k) \in Nat /\ Len(p) \in Nat /\ Len(c) \in Nat
    BY <2>1, <2>2, ConcatProperties
  <2>5. Len(order) = Len(k) + Len(p) + Len(c) /\ Len(Pending) = Len(w) + (Len(p) + Len(c))
    <3>1. Len((k \o p) \o c) = Len(k \o p) + Len(c)
      BY <2>1, <2>4, ConcatProperties
    <3>2. Len(w \o (p \o c)) = Len(w) + Len(p \o c)
      BY <2>1, <2>4, ConcatProperties
    <3> QED
      BY <2>3, <2>4, <3>1, <3>2
  <2>6. Numbered(order) \subseteq Numbered(Pending)
    <3>2. Numbered((k \o p) \o c) = Numbered(k \o p) \cup Numbered(c) /\ Numbered(k \o p) = Numbered(k) \cup Numbered(p)
      <4>1. Numbered(k \o p) = Numbered(k) \cup Numbered(p)
        BY <2>1, <2>2, ConcatElements
      <4> DEFINE q == k \o p
      <4>2. q \in Seq(Blocks)
        BY <2>4
      <4> HIDE DEF q
      <4>3. Numbered(q \o c) = Numbered(q) \cup Numbered(c)
        BY <2>1, <4>2, ConcatElements
      <4> QED
        BY <4>1, <4>3 DEF q
    <3>3. Numbered(w \o (p \o c)) = Numbered(w) \cup Numbered(p \o c) /\ Numbered(p \o c) = Numbered(p) \cup Numbered(c)
      <4>1. Numbered(p \o c) = Numbered(p) \cup Numbered(c)
        BY <2>1, ConcatElements
      <4> DEFINE q == p \o c
      <4>2. q \in Seq(Blocks)
        BY <2>4
      <4> HIDE DEF q
      <4>3. Numbered(w \o q) = Numbered(w) \cup Numbered(q)
        BY <2>1, <4>2, ConcatElements
      <4> QED
        BY <4>1, <4>3 DEF q
    <3> QED
      BY <2>2, <2>3, <3>2, <3>3
  <2>7. Len(Pending) <= Limit
    <3>1. Limit = NumPipeBlocks(backend) - 1 + Half
      BY <1>4 DEF Limit
    <3>2. Len(order) <= NumPipeBlocks(backend) - 1
      BY <1>2, <1>4
    <3> QED
      BY <1>0, <2>1, <2>4, <2>5, <3>1, <3>2
  <2> QED
    BY <2>3, <2>4, <2>5, <2>6, <2>7
<1> QED
  BY <1>3, <1>4

\* What is mixed joins the end of what is to be taken.
LEMMA PendingMixed ==
  ASSUME NEW S, NEW w \in Seq(S), NEW p \in Seq(S), NEW c \in Seq(S), NEW b \in S
  PROVE  PendingOf(w, p, Append(c, b)) = Append(PendingOf(w, p, c), b)
<1> DEFINE q == p \o c
<1>1. p \o Append(c, b) = Append(q, b) /\ q \in Seq(S)
  OBVIOUS
<1> HIDE DEF q
<1>2. w \o Append(q, b) = Append(w \o q, b)
  BY <1>1
<1> QED
  BY <1>1, <1>2 DEF PendingOf, q

\* What a block holds gets audible only when a source is mixed.
LEMMA GetsAudible ==
  ASSUME TypeOK, ShapeOK, PlayerInv, [Next]_vars, ~(source \in Audible /\ mixerThreadUnlocksBlocks)
  PROVE  \A b \in Blocks : content'[b] = "sound" => content[b] = "sound"
<1>1. content \in [Blocks -> {"silence", "sound"}]
  BY DEF TypeOK
<1>2. CASE content' = content
  BY <1>2
<1>3. CASE mixerThreadUnlocksBlocks
  <2>1. content' = [content EXCEPT ![mixing] = "silence"]
    BY <1>3, UnlockEffect
  <2> QED
    BY <1>1, <2>1
<1>4. CASE \E b \in Blocks : content' = [content EXCEPT ![b] = "silence"]
  BY <1>1, <1>4
<1> QED
  BY <1>2, <1>3, <1>4, ContentSteps

\* The silent block stays silent: it is not one of those that are mixed.
LEMMA SilentStep ==
  ASSUME IInv, SilentInv, [Next]_vars
  PROVE  SilentInv'
<1> USE DEF IInv
<1>0. OpenSL' = OpenSL /\ Blocks' = Blocks
  BY SameBackend DEF OpenSL, Blocks
<1> SUFFICES ASSUME OpenSL PROVE content'[binder'.silent] = "silence"
  BY <1>0 DEF SilentInv
<1>1. binder.silent \in Blocks /\ content \in [Blocks -> {"silence", "sound"}] /\ content[binder.silent] = "silence"
      /\ binder.silent # mixing
  BY DEF ShapeOK, BinderType, TypeOK, SilentInv, OneOwner
<1>2. binder'.silent = binder.silent
  <2>1. CASE binder' = binder
    BY <2>1
  <2>2. CASE startSink
    BY <2>2, StartEffect
  <2>3. CASE stopSink
    BY <2>3, StopEffect
  <2>4. CASE playbackBufferQueueCallback
    <3> DEFINE silent == binder.silent
               Goes(w, p, n) == binder' = [wait_completion |-> w, pooled |-> p, wait_buffering |-> n,
                                           silent |-> silent, num_blocks |-> PlayerBlocks]
    <3>1. \E w, p, n : Goes(w, p, n)
      BY <2>4, CallbackCases
    <3>2. ASSUME NEW w, NEW p, NEW n, Goes(w, p, n) PROVE binder'.silent = silent
      <4> HIDE DEF silent
      <4> QED
        BY <3>2
    <3> QED
      BY <3>1, <3>2
  <2> QED
    BY <2>1, <2>2, <2>3, <2>4, PipeSteps, ObtainEffect, LockEffect, UnlockEffect, StreamEffect
<1>3. content'[binder.silent] = "silence"
  <2>1. CASE content' = content
    BY <1>1, <2>1
  <2>2. CASE mixerThreadUnlocksBlocks
    <3>1. content' = [content EXCEPT ![mixing] = IF source \in Audible THEN "sound" ELSE "silence"]
      BY <2>2, UnlockEffect
    <3> QED
      BY <1>1, <3>1
  <2>3. CASE \E b \in Blocks : content' = [content EXCEPT ![b] = "silence"]
    BY <1>1, <2>3
  <2> QED
    BY <2>1, <2>2, <2>3, ContentSteps
<1> QED
  BY <1>2, <1>3

\* When the mixer is suspended, what was mixed last has been waited for until it was played.
LEMMA SuspendedStep ==
  ASSUME ExtraDelay >= Half, IInv, SilenceInv, [Next]_vars
  PROVE  SuspendedInv'
<1> USE DEF IInv, SilenceInv
<1> SUFFICES ASSUME mixer_state' = "suspended", source' = "none"
             PROVE  \A b \in Numbered(order') : content'[b] = "silence"
  BY DEF SuspendedInv, Numbered
<1>0. /\ content \in [Blocks -> {"silence", "sound"}] /\ order \in Seq(Blocks) /\ Numbered(order) \subseteq Blocks
      /\ backend \in Backends
  <2>1. order \in Seq(Blocks) /\ content \in [Blocks -> {"silence", "sound"}] /\ backend \in Backends
    BY DEF TypeOK, ShapeOK
  <2> QED
    BY <2>1, NumberedSeq
<1>1. CASE pollControlMixerAndSinkSuspendResume
  <2>1. content' = content /\ order' = order /\ source = "none"
    BY <1>1 DEF pollControlMixerAndSinkSuspendResume, pipes
  <2>2. CASE mixer_state = "suspended"
    BY <2>1, <2>2 DEF SuspendedInv
  <2>3. CASE mixer_state # "suspended"
    <3>1. EnteredCanSuspend >= MaxWait /\ canSuspend
      BY <1>1, <2>3 DEF pollControlMixerAndSinkSuspendResume, Suspends
    <3>2. /\ MaxWait \in Nat /\ MaxWait = NumPipeBlocks(backend) - 1 + ExtraDelay /\ MaxWait >= 1
          /\ Half \in Nat /\ Half > 0 /\ NumPipeBlocks(backend) \in Nat
      BY <1>0, Sizes
    <3>3. waited \in 0 .. MaxWait /\ waited >= MaxWait /\ waited # None
      <4>1. (IF waited = None THEN 0 ELSE waited) >= MaxWait
        BY <3>1 DEF EnteredCanSuspend
      <4>2. waited # None
        BY <3>2, <4>1
      <4>3. waited \in (0 .. MaxWait) \cup {None}
        BY DEF TypeOK
      <4> QED
        BY <4>1, <4>2, <4>3
    <3>4. waited >= Limit
      <4>1. Limit <= MaxWait
        BY <3>2 DEF Limit
      <4>2. Limit \in Int
        BY <3>2 DEF Limit
      <4> QED
        BY <3>2, <3>3, <4>1, <4>2
    <3>5. \A i \in 1 .. Len(Pending) : content[Pending[i]] # "sound"
      <4> SUFFICES ASSUME NEW i \in 1 .. Len(Pending), content[Pending[i]] = "sound" PROVE FALSE
        OBVIOUS
      <4>1. i + waited <= Limit
        BY <2>1, <3>3 DEF NearerInv
      <4>2. Limit \in Int
        BY <3>2 DEF Limit
      <4>3. Len(Pending) \in Nat
        BY PendingBound
      <4> QED
        BY <3>2, <3>3, <3>4, <4>1, <4>2, <4>3
    <3>6. Numbered(order) \subseteq Numbered(Pending) /\ Pending \in Seq(Blocks)
      BY PendingBound
    <3>7. \A b \in Numbered(order) : content[b] # "sound"
      <4> TAKE b \in Numbered(order)
      <4>1. PICK i \in 1 .. Len(Pending) : Pending[i] = b
        BY <3>6, NumberedSeq
      <4> QED
        BY <3>5, <4>1
    <3> QED
      BY <1>0, <2>1, <3>7
  <2> QED
    BY <2>2, <2>3
<1>2. CASE ~pollControlMixerAndSinkSuspendResume
  <2>1. mixer_state = "suspended" /\ source = "none"
    BY <1>2, PauseStep
  <2>2. \A b \in Numbered(order) : content[b] = "silence"
    BY <2>1 DEF SuspendedInv
  <2>3. \A b \in Blocks : content'[b] = "sound" => content[b] = "sound"
    BY <2>1, GetsAudible DEF Audible
  <2>4. \A b \in Blocks : content'[b] \in {"silence", "sound"}
    <3>1. TypeOK' /\ Blocks' = Blocks
      BY TypeStep, SameBackend DEF Blocks
    <3> QED
      BY <3>1 DEF TypeOK
  <2>5. \A b \in Numbered(order) : content'[b] = "silence"
    BY <1>0, <2>2, <2>3, <2>4
  <2>6. CASE order' = order
    BY <2>5, <2>6
  <2>7. CASE mixerThreadUnlocksBlocks
    <3>1. mixing \in Blocks /\ order' = Append(order, mixing) /\ content' = [content EXCEPT ![mixing] = "silence"]
      BY <2>1, <2>7, UnlockEffect DEF Audible
    <3>2. mixing \notin Numbered(order) /\ IsInjective(order)
      BY DEF OneOwner
    <3>3. Numbered(Append(order, mixing)) = Numbered(order) \cup {mixing}
      BY <1>0, <3>1, <3>2, AppendOne
    <3> QED
      BY <1>0, <2>5, <3>1, <3>3
  <2>8. CASE \E b : order' = Without(order, b)
    <3>1. PICK b : order' = Without(order, b)
      BY <2>8
    <3>2. Numbered(Without(order, b)) \subseteq Numbered(order)
      BY <1>0, WithoutType
    <3> QED
      BY <2>5, <3>1, <3>2
  <2>9. order' = order \/ mixerThreadUnlocksBlocks \/ \E b : order' = Without(order, b)
    <3>1. CASE playbackBufferQueueCallback
      BY <3>1 DEF playbackBufferQueueCallback, Play
    <3>2. CASE audioTrackStreamCallback
      BY <3>2, StreamEffect DEF Play
    <3> QED
      BY <3>1, <3>2, PipeSteps, StartEffect, StopEffect, ObtainEffect, LockEffect
  <2> QED
    BY <2>6, <2>7, <2>8, <2>9
<1> QED
  BY <1>1, <1>2

\* Time is counted by the device.
LEMMA CountingSteps ==
  ASSUME [Next]_vars, ~pollControlMixerAndSinkSuspendResume
  PROVE  waited' = waited \/ playbackBufferQueueCallback \/ audioTrackStreamCallback
BY DEF Next, Poll, MixerThread, Writer, Attach, Detach, setAudioCaptureEnabled,
       startSink, startSinkFails, joinMixer, stopSink, joinWriter, pollMixer, pollObtainCapturedAudioData,
       mixerThreadChecksRequests, mixerThreadUpdatesSource, mixerThreadLocksBlocks, mixerThreadFindsNoBlock,
       mixerThreadUnlocksBlocks, writerStarts, writerExits, writerWrites, vars, polling

\* What is audible keeps its place, or is a place nearer for each block that is waited for.
LEMMA NearerStep ==
  ASSUME IInv, SilenceInv, [Next]_vars
  PROVE  NearerInv'
<1> USE DEF IInv, SilenceInv
<1>0. /\ backend' = backend /\ OpenSL' = OpenSL /\ Blocks' = Blocks /\ Limit' = Limit
      /\ content \in [Blocks -> {"silence", "sound"}] /\ backend \in Backends
      /\ waited \in (0 .. MaxWait) \cup {None}
  BY SameBackend DEF OpenSL, Blocks, Limit, TypeOK
<1>00. NumPipeBlocks(backend) \in Nat /\ Half \in Nat /\ MaxWait \in Nat
  BY <1>0, Sizes
<1>000. Limit \in Int /\ Pending \in Seq(Blocks) /\ Len(Pending) \in Nat /\ Len(Pending) <= Limit
  <2>1. Limit \in Int
    BY <1>00 DEF Limit
  <2> QED
    BY <2>1, PendingBound
<1> SUFFICES ASSUME waited' # None, source' = "none", NEW i \in 1 .. Len(Pending'), content'[Pending'[i]] = "sound"
             PROVE  i + waited' <= Limit
  BY <1>0 DEF NearerInv
<1>1. CASE pollControlMixerAndSinkSuspendResume
  <2>1. UNCHANGED <<content, sink_pipe, binder, backend, source>> /\ waited' = EnteredCanSuspend
    BY <1>1 DEF pollControlMixerAndSinkSuspendResume, pipes, device
  <2>2. Pending' = Pending
    BY <1>0, <2>1 DEF Pending, PendingOf
  <2>3. CASE waited = None
    <3>1. waited' = 0
      BY <2>1, <2>3 DEF EnteredCanSuspend
    <3> QED
      BY <1>000, <2>2, <3>1
  <2>4. CASE waited # None
    <3>1. waited' = waited /\ source = "none"
      BY <2>1, <2>4 DEF EnteredCanSuspend, canSuspend
    <3> QED
      BY <2>1, <2>2, <2>4, <3>1 DEF NearerInv
  <2> QED
    BY <2>3, <2>4
<1>2. CASE ~pollControlMixerAndSinkSuspendResume
  <2>1. waited # None
    <3>1. waited' = waited \/ Later
      BY <1>2, WaitedSteps
    <3> QED
      BY <1>0, <3>1, LaterType
  <2>2. source = "none"
    BY <1>2, <2>1, PauseStep
  <2>3. \A k \in 1 .. Len(Pending) : content[Pending[k]] = "sound" => k + waited <= Limit
    BY <2>1, <2>2 DEF NearerInv
  <2>4. \A b \in Blocks : content'[b] = "sound" => content[b] = "sound"
    BY <2>2, GetsAudible DEF Audible
  <2>5. \A k \in 1 .. Len(Pending) : Pending[k] \in Blocks
    BY <1>000
  <2>6. waited \in Nat
    BY <1>0, <1>00, <2>1
  <2>7. CASE Pending' = Pending /\ waited' = waited
    BY <2>3, <2>4, <2>5, <2>7
  <2>8. CASE playbackBufferQueueCallback \/ audioTrackStreamCallback
    <3>1. /\ \/ OpenSL /\ Pending'[i] = binder.silent
             \/ i \in 1 .. Len(Pending) /\ Pending'[i] = Pending[i] /\ waited' = waited
             \/ /\ i + 1 \in 1 .. Len(Pending) /\ Pending'[i] = Pending[i + 1]
                /\ waited' \in {waited, waited + 1}
          /\ Len(Pending') \in Nat
      BY <2>1, <2>8, DeviceStep
    <3>2. CASE OpenSL /\ Pending'[i] = binder.silent
      <4>1. binder.silent \in Blocks /\ content[binder.silent] = "silence"
        BY <3>2 DEF SilentInv, ShapeOK, BinderType
      <4> QED
        BY <2>4, <3>2, <4>1
    <3>3. CASE i \in 1 .. Len(Pending) /\ Pending'[i] = Pending[i] /\ waited' = waited
      BY <2>3, <2>4, <2>5, <3>3
    <3>4. CASE i + 1 \in 1 .. Len(Pending) /\ Pending'[i] = Pending[i + 1] /\ waited' \in {waited, waited + 1}
      <4>1. (i + 1) + waited <= Limit
        BY <2>3, <2>4, <2>5, <3>4
      <4>2. i \in Nat /\ Limit \in Int
        BY <1>000, <3>1
      <4>3. waited' = waited \/ waited' = waited + 1
        BY <3>4
      <4> QED
        BY <2>6, <4>1, <4>2, <4>3
    <3> QED
      BY <3>1, <3>2, <3>3, <3>4
  <2>9. CASE mixerThreadUnlocksBlocks
    <3>1. /\ content' = [content EXCEPT ![mixing] = "silence"] /\ mixing \in Blocks /\ binder' = binder
          /\ sink_pipe' = [producer |-> sink_pipe.producer, consumer |-> Append(sink_pipe.consumer, mixing)]
      BY <2>2, <2>9, UnlockEffect DEF Audible
    <3>2. sink_pipe'.consumer = Append(sink_pipe.consumer, mixing) /\ sink_pipe.consumer \in Seq(Blocks)
      <4>1. sink_pipe.consumer \in Seq(Blocks)
        BY Written
      <4> DEFINE c == Append(sink_pipe.consumer, mixing)
                 p == sink_pipe.producer
      <4>2. sink_pipe' = [producer |-> p, consumer |-> c]
        BY <3>1
      <4>3. sink_pipe'.consumer = c
        <5> HIDE DEF p, c
        <5> QED
          BY <4>2
      <4> QED
        BY <4>1, <4>3
    <3>3. Pending' = Append(Pending, mixing)
      <4>1. CASE OpenSL
        <5> DEFINE w == binder.wait_completion
                   p == binder.pooled
                   c == sink_pipe.consumer
        <5>1. w \in Seq(Blocks) /\ p \in Seq(Blocks) /\ c \in Seq(Blocks)
          BY <3>2, <4>1 DEF ShapeOK, BinderType
        <5>2. Pending = PendingOf(w, p, c) /\ Pending' = PendingOf(w, p, Append(c, mixing))
          BY <1>0, <3>1, <3>2, <4>1 DEF Pending, PendingOf
        <5>3. mixing \in Blocks
          BY <3>1
        <5> HIDE DEF w, p, c
        <5>4. PendingOf(w, p, Append(c, mixing)) = Append(PendingOf(w, p, c), mixing)
          BY <5>1, <5>3, PendingMixed
        <5> QED
          BY <5>2, <5>4
      <4>2. CASE ~OpenSL
        BY <1>0, <3>2, <4>2 DEF Pending
      <4> QED
        BY <4>1, <4>2
    <3>4. waited' = waited
      BY <2>9 DEF mixerThreadUnlocksBlocks, polling
    <3> DEFINE before == Pending
    <3>5. before \in Seq(Blocks) /\ Pending' = Append(before, mixing)
      BY <1>000, <3>3
    <3>6. (i \in 1 .. Len(before) /\ Pending'[i] = before[i]) \/ Pending'[i] = mixing
      <4> HIDE DEF before
      <4>1. Len(Append(before, mixing)) = Len(before) + 1 /\ Len(before) \in Nat
        BY <3>5
      <4>2. i \in 1 .. Len(before) + 1
        BY <3>5, <4>1
      <4>3. i \in 1 .. Len(before) \/ i = Len(before) + 1
        BY <4>1, <4>2
      <4>4. i \in 1 .. Len(before) => Append(before, mixing)[i] = before[i]
        BY <3>1, <3>5
      <4>5. Append(before, mixing)[Len(before) + 1] = mixing
        BY <3>1, <3>5
      <4> QED
        BY <3>5, <4>3, <4>4, <4>5
    <3>7. content'[mixing] = "silence"
      BY <1>0, <3>1
    <3> QED
      BY <2>3, <2>4, <2>5, <3>4, <3>6, <3>7
  <2>10. CASE startSink
    BY <2>1, <2>10 DEF PhaseInv, startSink
  <2>11. CASE stopSink
    <3>1. mixer_state = "suspended" /\ source = "none" /\ sink_state = "started"
      BY <2>2, <2>11 DEF PhaseInv, stopSink
    <3>2. \A b \in Numbered(order) : content'[b] # "sound"
      <4>1. Numbered(order) \subseteq Blocks
        BY NumberedSeq DEF ShapeOK
      <4> QED
        BY <2>4, <3>1, <4>1 DEF SuspendedInv
    <3>3. Pending' = order
      <4>1. Queued' = order
        BY <1>0, <2>11, SinkKeepsOrder, StopEffect DEF InOrder
      <4>2. CASE OpenSL
        <5>1. binder'.wait_completion = <<>> /\ sink_pipe' = sink_pipe
              /\ binder'.pooled = Without(binder.wait_completion, binder.silent)
          BY <2>11, <4>2, StopEffect
        <5> DEFINE p == binder'.pooled
                   c == sink_pipe.consumer
        <5>2. p \in Seq(Blocks) /\ c \in Seq(Blocks)
          <6>1. binder.wait_completion \in Seq(Blocks) /\ c \in Seq(Blocks)
            BY <4>2, Written DEF ShapeOK, BinderType
          <6>2. Without(binder.wait_completion, binder.silent) \in Seq(Blocks)
            BY <6>1, WithoutType
          <6> QED
            BY <5>1, <6>1, <6>2
        <5>3. Pending' = PendingOf(<<>>, p, c) /\ Queued' = (Without(<<>>, binder'.silent) \o p) \o c
          BY <1>0, <4>2, <5>1 DEF Pending, Queued, PendingOf
        <5> HIDE DEF p, c
        <5>4. Without(<<>>, binder'.silent) = <<>>
          BY WithoutEmpty
        <5>5. <<>> \o p = p /\ p \o c \in Seq(Blocks)
          BY <5>2, ConcatEmptySeq, ConcatProperties
        <5> DEFINE q == p \o c
        <5>6. q \in Seq(Blocks)
          BY <5>5
        <5> HIDE DEF q
        <5>7. <<>> \o q = q
          BY <5>6, ConcatEmptySeq
        <5> QED
          BY <4>1, <5>3, <5>4, <5>5, <5>7 DEF PendingOf, q
      <4>3. CASE ~OpenSL
        BY <1>0, <4>1, <4>3 DEF Pending, Queued
      <4> QED
        BY <4>2, <4>3
    <3>4. Pending'[i] \in Numbered(order)
      BY <3>3, NumberedSeq DEF ShapeOK
    <3> QED
      BY <3>2, <3>4
  <2>12. CASE /\ UNCHANGED <<sink_pipe, binder>>
              /\ waited' = waited
    BY <1>0, <2>7, <2>12 DEF Pending, PendingOf
  <2>13. CASE mixerThreadLocksBlocks
    <3>1. sink_pipe' = [producer |-> Tail(sink_pipe.producer), consumer |-> sink_pipe.consumer] /\ binder' = binder
      BY <2>13, LockEffect
    <3>2. sink_pipe'.consumer = sink_pipe.consumer
      <4> DEFINE c == sink_pipe.consumer
                 p == Tail(sink_pipe.producer)
      <4>1. sink_pipe' = [producer |-> p, consumer |-> c]
        BY <3>1
      <4> HIDE DEF c, p
      <4>2. sink_pipe'.consumer = c
        BY <4>1
      <4> QED
        BY <4>2 DEF c
    <3>3. Pending' = Pending
      BY <1>0, <3>1, <3>2 DEF Pending, PendingOf
    <3>4. waited' = waited
      BY <2>13 DEF mixerThreadLocksBlocks, polling
    <3> QED
      BY <2>7, <3>3, <3>4
  <2>14. CASE pollObtainCapturedAudioData
    BY <2>12, <2>14, ObtainEffect DEF pollObtainCapturedAudioData
  <2>15. waited' = waited \/ playbackBufferQueueCallback \/ audioTrackStreamCallback
    BY <1>2, CountingSteps
  <2> QED
    BY <2>8, <2>9, <2>10, <2>11, <2>12, <2>13, <2>14, <2>15, PipeSteps
<1> QED
  BY <1>1, <1>2

\* When the mixer is suspended and the sink stopped for the lack of a source, what was audible has been
\* played: it is not heard at the next start.  The time that is waited must cover, beyond the blocks of
\* the pipe, the silence the player was started with, half of its queue.
THEOREM NothingLeftToReplayHolds ==
  ASSUME ExtraDelay >= PlayerBlocks \div 2
  PROVE  Spec => []NothingLeftToReplay
<1>0. ExtraDelay >= Half
  BY DEF Half
<1>1. Init => IInv /\ SilenceInv
  <2> SUFFICES ASSUME Init PROVE IInv /\ SilenceInv
    OBVIOUS
  <2>1. IInv
    BY InitInvariant
  <2>2. waited = None /\ handler = "idle" /\ order = <<>> /\ content = [b \in Blocks |-> "silence"]
    BY DEF Init
  <2>3. Numbered(order) = {}
    BY <2>2 DEF Numbered
  <2>4. OpenSL => binder.silent \in Blocks
    BY <2>1 DEF IInv, ShapeOK, BinderType
  <2> QED
    BY <2>1, <2>2, <2>3, <2>4 DEF SilenceInv, PauseInv, NearerInv, SilentInv, SuspendedInv
<1>2. (IInv /\ SilenceInv) /\ [Next]_vars => (IInv /\ SilenceInv)'
  <2> SUFFICES ASSUME IInv, SilenceInv, [Next]_vars PROVE IInv' /\ SilenceInv'
    OBVIOUS
  <2>1. IInv'
    BY InvariantStep
  <2>2. PauseInv'
    BY PauseStep DEF IInv, SilenceInv
  <2>3. SuspendedInv'
    BY <1>0, SuspendedStep
  <2>4. SilentInv' /\ NearerInv'
    BY SilentStep, NearerStep DEF SilenceInv
  <2> QED
    BY <2>1, <2>2, <2>3, <2>4 DEF SilenceInv
<1>3. IInv /\ SilenceInv => NothingLeftToReplay
  BY DEF SilenceInv, SuspendedInv, NothingLeftToReplay
<1> QED
  BY <1>1, <1>2, <1>3, PTL DEF Spec
=============================================================================
