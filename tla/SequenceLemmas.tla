--------------------------- MODULE SequenceLemmas ---------------------------
(***************************************************************************)
(* Facts about sequences and numbers that the proofs about the components  *)
(* share: induction stated for a set of numbers, and what FlattenSeq of    *)
(* the community modules computes.                                         *)
(***************************************************************************)
EXTENDS Integers, Sequences, SequencesExt, SequenceTheorems, WellFoundedInduction, TLAPS

(* A set of numbers has a least element.                                   *)
LEMMA LeastNumber ==
  ASSUME NEW T, T \subseteq Nat, T # {}
  PROVE  \E m \in T : \A k \in T : m <= k
<1> DEFINE R == OpToRel(<, Nat)
<1>1. IsWellFoundedOn(R, Nat)
  BY NatLessThanWellFounded
<1>2. \A x, y \in Nat : <<x, y>> \in R <=> x < y
  BY DEF OpToRel
<1> HIDE DEF R
<1>3. PICK m \in T : \A k \in T : ~(<<k, m>> \in R)
  BY <1>1, WFMin
<1>4. \A k \in T : ~(k < m)
  BY <1>2, <1>3
<1> QED
  BY <1>4

(* Induction, for a given set of numbers.                                  *)
LEMMA Induction ==
  ASSUME NEW T, 0 \in T, \A n \in Nat : n \in T => n + 1 \in T
  PROVE  Nat \subseteq T
<1> SUFFICES ASSUME Nat \ T # {} PROVE FALSE
  OBVIOUS
<1>1. PICK m \in Nat \ T : \A k \in Nat \ T : m <= k
  <2>1. Nat \ T \subseteq Nat
    OBVIOUS
  <2> QED
    BY <2>1, LeastNumber
<1>2. m # 0
  BY <1>1
<1>3. m - 1 \in Nat /\ m - 1 \in T
  BY <1>1, <1>2
<1> QED
  BY <1>1, <1>3

(* Concatenation is associative and keeps the elements.                    *)
LEMMA Associative ==
  ASSUME NEW S
  PROVE  \A a, b, c \in Seq(S) : (a \o b) \o c = a \o (b \o c) /\ a \o b \in Seq(S)
<1> SUFFICES ASSUME NEW a \in Seq(S), NEW b \in Seq(S), NEW c \in Seq(S)
             PROVE  (a \o b) \o c = a \o (b \o c) /\ a \o b \in Seq(S)
  OBVIOUS
<1>1. (a \o b) \o c = a \o (b \o c)
  BY ConcatAssociative
<1>2. a \o b \in Seq(S)
  BY ConcatProperties
<1> QED
  BY <1>1, <1>2

(* The partial results of FlattenSeq: the sequences up to each position,   *)
(* one after the other.                                                    *)
Join(a, b) == a \o b
Joins(g, s) == g = [i \in 1 .. Len(s) |-> IF i = 1 THEN s[i] ELSE Join(g[i - 1], s[i])]

(* Partial results exist for every sequence of sequences.                  *)
LEMMA JoinsExist ==
  ASSUME NEW S, NEW s \in Seq(S)
  PROVE  \E g : Joins(g, s)
<1> DEFINE P(g, n) == g = [i \in 1 .. n |-> IF i = 1 THEN s[i] ELSE Join(g[i - 1], s[i])]
           T == {n \in Nat : \E g : P(g, n)}
<1>1. 0 \in T
  <2>1. P([i \in 1 .. 0 |-> IF i = 1 THEN s[i] ELSE <<>>], 0)
    OBVIOUS
  <2> QED
    BY <2>1
<1>2. ASSUME NEW n \in Nat, n \in T PROVE n + 1 \in T
  <2>1. PICK g : P(g, n)
    BY <1>2
  <2>a. \A i \in 1 .. n : g[i] = IF i = 1 THEN s[i] ELSE Join(g[i - 1], s[i])
    BY <2>1
  <2> HIDE DEF P, T
  <2> DEFINE h == [i \in 1 .. n + 1 |-> IF i \in 1 .. n THEN g[i]
                                        ELSE IF i = 1 THEN s[i] ELSE Join(g[i - 1], s[i])]
  <2>2. ASSUME NEW i \in 1 .. n + 1 PROVE h[i] = IF i = 1 THEN s[i] ELSE Join(h[i - 1], s[i])
    <3>1. CASE i = 1
      BY <3>1, <2>a
    <3>2. CASE i # 1 /\ i \in 1 .. n
      <4>1. h[i] = g[i] /\ h[i - 1] = g[i - 1]
        BY <3>2
      <4> QED
        BY <3>2, <4>1, <2>a
    <3>3. CASE i # 1 /\ i = n + 1
      <4>1. h[i] = Join(g[i - 1], s[i]) /\ h[i - 1] = g[i - 1]
        BY <3>3
      <4> QED
        BY <3>3, <4>1
    <3> QED
      BY <3>1, <3>2, <3>3
  <2>b. h = [i \in 1 .. n + 1 |-> h[i]]
    OBVIOUS
  <2> HIDE DEF h
  <2>3. h = [i \in 1 .. n + 1 |-> IF i = 1 THEN s[i] ELSE Join(h[i - 1], s[i])]
    BY <2>b, <2>2
  <2> QED
    BY <2>3 DEF P, T
<1>3. Nat \subseteq T
  <2> HIDE DEF T
  <2> QED
    BY <1>1, <1>2, Induction
<1>4. Len(s) \in T
  <2> HIDE DEF T
  <2> QED
    BY <1>3
<1> QED
  BY <1>4 DEF Joins

(* What FlattenSeq computes: its last partial result.                      *)
LEMMA FlattenJoins ==
  ASSUME NEW S, NEW s \in Seq(Seq(S)), s # <<>>
  PROVE  \E g \in [1 .. Len(s) -> Seq(S)] :
            /\ g[1] = s[1]
            /\ \A i \in 2 .. Len(s) : g[i] = g[i - 1] \o s[i]
            /\ FlattenSeq(s) = g[Len(s)]
<1>0. Len(s) \in Nat \ {0}
  OBVIOUS
<1> DEFINE g == CHOOSE f : Joins(f, s)
<1>1. Joins(g, s)
  BY JoinsExist
<1>2. FlattenSeq(s) = g[Len(s)]
  BY <1>0 DEF FlattenSeq, Joins, Join
<1> HIDE DEF g
<1>a. \A i \in 1 .. Len(s) : g[i] = IF i = 1 THEN s[i] ELSE Join(g[i - 1], s[i])
  BY <1>1 DEF Joins
<1>3. /\ g[1] = s[1]
      /\ \A i \in 2 .. Len(s) : g[i] = Join(g[i - 1], s[i])
  BY <1>0, <1>a
<1>b. \A i \in 1 .. Len(s) : s[i] \in Seq(S)
  OBVIOUS
<1> DEFINE T == {n \in Nat : n \in 1 .. Len(s) => g[n] \in Seq(S)}
<1>4. Nat \subseteq T
  <2>1. 0 \in T
    OBVIOUS
  <2>2. ASSUME NEW n \in Nat, n \in T PROVE n + 1 \in T
    <3>1. CASE n = 0
      BY <3>1, <1>0, <1>3, <1>b
    <3>2. CASE n > 0 /\ n + 1 \in 1 .. Len(s)
      <4>1. g[n] \in Seq(S)
        BY <3>2, <2>2, <1>0
      <4>2. g[n + 1] = Join(g[n], s[n + 1])
        BY <3>2, <1>3, <1>0
      <4>3. s[n + 1] \in Seq(S)
        BY <3>2, <1>b
      <4>4. g[n] \o s[n + 1] \in Seq(S)
        BY <4>1, <4>3, ConcatProperties
      <4>5. g[n + 1] \in Seq(S)
        BY <4>2, <4>4 DEF Join
      <4> QED
        BY <4>5
    <3> QED
      BY <3>1, <3>2
  <2> HIDE DEF T
  <2> QED
    BY <2>1, <2>2, Induction
<1>5. \A n \in 1 .. Len(s) : g[n] \in Seq(S)
  BY <1>4
<1>6. g = [i \in 1 .. Len(s) |-> g[i]]
  BY <1>1 DEF Joins
<1>7. g \in [1 .. Len(s) -> Seq(S)]
  BY <1>5, <1>6
<1>8. \A i \in 2 .. Len(s) : g[i] = g[i - 1] \o s[i]
  <2>1. ASSUME NEW i \in 2 .. Len(s) PROVE g[i] = g[i - 1] \o s[i]
    <3>1. g[i] = Join(g[i - 1], s[i])
      BY <1>3
    <3> QED
      BY <3>1, Zenon DEF Join
  <2> QED
    BY <2>1, Zenon
<1> QED
  BY <1>2, <1>3, <1>7, <1>8, Zenon

(* FlattenSeq of nothing is nothing, and of one sequence that sequence.    *)
LEMMA FlattenShort ==
  ASSUME NEW S, NEW x \in Seq(S)
  PROVE  FlattenSeq(<<>>) = <<>> /\ FlattenSeq(<<x>>) = x
<1>1. FlattenSeq(<<>>) = <<>>
  BY DEF FlattenSeq
<1>2. <<x>> \in Seq(Seq(S)) /\ <<x>> # <<>> /\ Len(<<x>>) = 1
  OBVIOUS
<1>3. FlattenSeq(<<x>>) = <<x>>[1]
  BY <1>2, FlattenJoins
<1> QED
  BY <1>1, <1>3

(* FlattenSeq of sequences over a set is a sequence over that set.         *)
LEMMA FlattenType ==
  ASSUME NEW S, NEW s \in Seq(Seq(S))
  PROVE  FlattenSeq(s) \in Seq(S)
<1>1. CASE s = <<>>
  BY <1>1 DEF FlattenSeq
<1>2. CASE s # <<>>
  <2>1. PICK g \in [1 .. Len(s) -> Seq(S)] : FlattenSeq(s) = g[Len(s)]
    BY <1>2, FlattenJoins
  <2>2. Len(s) \in 1 .. Len(s)
    BY <1>2, EmptySeq
  <2> QED
    BY <2>1, <2>2
<1> QED
  BY <1>1, <1>2

(* A sequence at the end comes after all the others.                       *)
LEMMA FlattenAppend ==
  ASSUME NEW S, NEW s \in Seq(Seq(S)), NEW x \in Seq(S)
  PROVE  FlattenSeq(Append(s, x)) = FlattenSeq(s) \o x
<1>1. CASE s = <<>>
  <2>1. Append(s, x) = <<x>>
    BY <1>1
  <2>2. FlattenSeq(s) = <<>> /\ FlattenSeq(Append(s, x)) = x
    BY <1>1, <2>1, FlattenShort
  <2> QED
    BY <2>2, ConcatEmptySeq
<1>2. CASE s # <<>>
  <2> DEFINE t == Append(s, x)
             n == Len(s)
  <2>1. /\ t \in Seq(Seq(S)) /\ t # <<>> /\ Len(t) = n + 1
        /\ \A i \in 1 .. n : t[i] = s[i]
        /\ t[n + 1] = x
    BY AppendProperties
  <2>2. n \in Nat \ {0}
    BY <1>2, EmptySeq
  <2>3. PICK h \in [1 .. n -> Seq(S)] :
            /\ h[1] = s[1]
            /\ \A i \in 2 .. n : h[i] = h[i - 1] \o s[i]
            /\ FlattenSeq(s) = h[n]
    BY <1>2, FlattenJoins
  <2> HIDE DEF t
  <2>4. PICK g \in [1 .. Len(t) -> Seq(S)] :
            /\ g[1] = t[1]
            /\ \A i \in 2 .. Len(t) : g[i] = g[i - 1] \o t[i]
            /\ FlattenSeq(t) = g[Len(t)]
    BY <2>1, FlattenJoins
  <2> HIDE DEF n
  <2> DEFINE T == {i \in Nat : i \in 1 .. n => g[i] = h[i]}
  <2>5. ASSUME NEW i \in Nat, i \in T PROVE i + 1 \in T
    <3>1. CASE i = 0
      <4>1. g[1] = h[1]
        BY <2>1, <2>2, <2>3, <2>4
      <4> QED
        BY <3>1, <4>1
    <3>2. CASE i > 0 /\ i + 1 \in 1 .. n
      <4>1. g[i] = h[i] /\ t[i + 1] = s[i + 1]
        BY <2>1, <2>2, <2>5, <3>2
      <4>2. i + 1 \in 2 .. n /\ i + 1 \in 2 .. Len(t) /\ (i + 1) - 1 = i
        BY <3>2, <2>1, <2>2
      <4>3. h[i + 1] = h[i] \o s[i + 1]
        BY <4>2, <2>3, Zenon
      <4>4. g[i + 1] = g[i] \o t[i + 1]
        BY <4>2, <2>4, Zenon
      <4>5. g[i + 1] = h[i + 1]
        BY <4>1, <4>3, <4>4, Zenon
      <4> QED
        BY <4>5
    <3> QED
      BY <3>1, <3>2
  <2>6. 0 \in T
    OBVIOUS
  <2>7. n \in T
    <3> HIDE DEF T
    <3> QED
      BY <2>2, <2>5, <2>6, Induction
  <2>8. g[n] = h[n]
    BY <2>7, <2>2
  <2>9. n + 1 \in 2 .. Len(t) /\ (n + 1) - 1 = n
    BY <2>1, <2>2
  <2>10. g[n + 1] = g[n] \o t[n + 1]
    BY <2>4, <2>9, Zenon
  <2> QED
    BY <2>1, <2>3, <2>4, <2>8, <2>10, Zenon DEF t
<1> QED
  BY <1>1, <1>2

(* The first sequence comes before all the others.                         *)
LEMMA FlattenFirst ==
  ASSUME NEW S
  PROVE  \A s \in Seq(Seq(S)) : s # <<>> => FlattenSeq(s) = s[1] \o FlattenSeq(Tail(s))
<1>0. \A a, b, c \in Seq(S) : (a \o b) \o c = a \o (b \o c)
  BY Associative
<1> SUFFICES ASSUME NEW s \in Seq(Seq(S)), s # <<>>
             PROVE  FlattenSeq(s) = s[1] \o FlattenSeq(Tail(s))
  OBVIOUS
<1> DEFINE t == Tail(s)
           n == Len(t)
<1>1. /\ t \in Seq(Seq(S)) /\ Len(s) = n + 1 /\ n \in Nat
      /\ \A i \in 1 .. n : t[i] = s[i + 1]
  BY HeadTailProperties, LenProperties
<1>2. s[1] \in Seq(S)
  BY <1>1
<1>3. PICK g \in [1 .. Len(s) -> Seq(S)] :
          /\ g[1] = s[1]
          /\ \A i \in 2 .. Len(s) : g[i] = g[i - 1] \o s[i]
          /\ FlattenSeq(s) = g[Len(s)]
  BY FlattenJoins
<1> HIDE DEF t
<1>4. CASE t = <<>>
  <2>1. Len(s) = 1 /\ FlattenSeq(t) = <<>>
    BY <1>1, <1>4, FlattenShort
  <2> QED
    BY <2>1, <1>2, <1>3, ConcatEmptySeq DEF t
<1>5. CASE t # <<>>
  <2>1. PICK h \in [1 .. Len(t) -> Seq(S)] :
            /\ h[1] = t[1]
            /\ \A i \in 2 .. Len(t) : h[i] = h[i - 1] \o t[i]
            /\ FlattenSeq(t) = h[Len(t)]
    BY <1>1, <1>5, FlattenJoins
  <2>2. n \in Nat \ {0}
    BY <1>1, <1>5, EmptySeq
  <2>3. \A i \in 2 .. n : h[i] = h[i - 1] \o t[i]
    BY <2>1
  <2>4. \A i \in 1 .. n : h[i] \in Seq(S) /\ t[i] \in Seq(S)
    <3>1. \A i \in 1 .. n : t[i] \in Seq(S)
      BY <1>1, ElementOfSeq
    <3> QED
      BY <3>1, <2>1
  <2>h. h[1] = t[1]
    BY <2>1
  <2> HIDE DEF n
  <2> DEFINE T == {i \in Nat : i \in 1 .. n => g[i + 1] = Join(s[1], h[i])}
  <2>5. ASSUME NEW i \in Nat, i \in T PROVE i + 1 \in T
    <3>1. CASE i = 0
      <4>1. 2 \in 2 .. Len(s) /\ 1 \in 1 .. n
        BY <1>1, <2>2
      <4>2. g[2] = g[2 - 1] \o s[2]
        BY <4>1, <1>3, Zenon
      <4>3. g[2 - 1] = s[1] /\ s[2] = h[1]
        BY <4>1, <1>1, <1>3, <2>h
      <4>4. g[2] = s[1] \o h[1]
        BY <4>2, <4>3, Zenon
      <4>5. g[2] = Join(s[1], h[1])
        BY <4>4, Zenon DEF Join
      <4>6. g[(i + 1) + 1] = Join(s[1], h[i + 1])
        BY <3>1, <4>5
      <4> QED
        BY <4>6
    <3>2. CASE i > 0 /\ i + 1 \in 1 .. n
      <4>1. /\ i + 2 \in 2 .. Len(s) /\ i + 1 \in 2 .. n /\ i \in 1 .. n
            /\ (i + 2) - 1 = i + 1 /\ (i + 1) - 1 = i /\ i + 1 + 1 = i + 2
        BY <3>2, <1>1, <2>2
      <4>2. g[i + 2] = g[i + 1] \o s[i + 2]
        BY <4>1, <1>3, Zenon
      <4>3. h[i + 1] = h[i] \o t[i + 1]
        BY <4>1, <2>3, Zenon
      <4>4. t[i + 1] = s[i + 2]
        BY <4>1, <1>1
      <4>a. g[i + 1] = Join(s[1], h[i])
        BY <4>1, <2>5
      <4>5. g[i + 1] = s[1] \o h[i]
        BY <4>a, Zenon DEF Join
      <4>6. g[i + 2] = (s[1] \o h[i]) \o t[i + 1]
        BY <4>2, <4>4, <4>5, Zenon
      <4>7. h[i] \in Seq(S) /\ t[i + 1] \in Seq(S)
        BY <2>4, <4>1, <3>2
      <4>8. (s[1] \o h[i]) \o t[i + 1] = s[1] \o (h[i] \o t[i + 1])
        BY <1>0, <4>7, <1>2, Zenon
      <4>9. g[i + 2] = s[1] \o h[i + 1]
        BY <4>3, <4>6, <4>8, Zenon
      <4>10. g[i + 2] = Join(s[1], h[i + 1])
        BY <4>9, Zenon DEF Join
      <4> QED
        BY <4>1, <4>10
    <3> QED
      BY <3>1, <3>2
  <2>6. 0 \in T
    OBVIOUS
  <2>7. n \in T
    <3> HIDE DEF T
    <3> QED
      BY <2>2, <2>5, <2>6, Induction
  <2>8. g[n + 1] = s[1] \o h[n]
    <3>1. g[n + 1] = Join(s[1], h[n])
      BY <2>7, <2>2
    <3> QED
      BY <3>1, Zenon DEF Join
  <2> QED
    BY <1>1, <1>3, <2>1, <2>8, Zenon DEF t, n
<1> QED
  BY <1>4, <1>5

-----------------------------------------------------------------------------
(* Folds from left to right: the community modules define them by a        *)
(* recursive function over the subsets of the positions, of which those    *)
(* from the first position on matter.                                      *)

(* A set of positions has a greatest one, which is its Max.                *)
LEMMA GreatestNumber ==
  ASSUME NEW n \in Nat, NEW T, T \subseteq 1 .. n, T # {}
  PROVE  Max(T) \in T /\ \A k \in T : Max(T) >= k
<1> DEFINE U == {n - k : k \in T}
<1>1. PICK m \in U : \A k \in U : m <= k
  <2>1. U # {}
    <3>1. PICK k \in T : TRUE
      OBVIOUS
    <3> QED
      BY <3>1
  <2>2. U \subseteq Nat
    <3>1. ASSUME NEW k \in T PROVE n - k \in Nat
      <4>1. k \in 1 .. n
        OBVIOUS
      <4> QED
        BY <4>1
    <3> QED
      BY <3>1
  <2> QED
    BY <2>1, <2>2, LeastNumber
<1>2. PICK x \in T : m = n - x
  BY <1>1
<1>3. \A k \in T : x >= k
  <2> SUFFICES ASSUME NEW k \in T PROVE x >= k
    OBVIOUS
  <2>1. n - x <= n - k
    BY <1>1, <1>2
  <2>2. x \in Nat /\ k \in Nat
    OBVIOUS
  <2> QED
    BY <2>1, <2>2
<1> QED
  BY <1>3 DEF Max

(* Function g is the fold of the positions from 1 to n, h the step.        *)
IsFold(g, n, base, h) ==
    \A s \in SUBSET (1 .. n) :
        g[s] = IF s = {} THEN base ELSE h[Max(s)][g[s \ {Max(s)}]]

HasFold(n, V, base, h) == \E g \in [SUBSET (1 .. n) -> V] : IsFold(g, n, base, h)

(* The function exists.                                                    *)
LEMMA FoldExists ==
  ASSUME NEW n \in Nat, NEW V, NEW base \in V, NEW h \in [1 .. n -> [V -> V]]
  PROVE  HasFold(n, V, base, h)
<1> DEFINE T == {k \in Nat : k <= n => HasFold(k, V, base, h)}
<1>1. 0 \in T
  <2> DEFINE g == [s \in SUBSET (1 .. 0) |-> base]
  <2>1. g \in [SUBSET (1 .. 0) -> V]
    OBVIOUS
  <2>2. \A s \in SUBSET (1 .. 0) : s = {}
    OBVIOUS
  <2>3. IsFold(g, 0, base, h)
    BY <2>2 DEF IsFold
  <2> QED
    BY <2>1, <2>3 DEF HasFold
<1>2. ASSUME NEW k \in Nat, k \in T PROVE k + 1 \in T
  <2> SUFFICES ASSUME k + 1 <= n
               PROVE  HasFold(k + 1, V, base, h)
    OBVIOUS
  <2>1. PICK g \in [SUBSET (1 .. k) -> V] : IsFold(g, k, base, h)
    <3>1. k <= n
      OBVIOUS
    <3> QED
      BY <1>2, <3>1 DEF HasFold
  <2> DEFINE q == [s \in SUBSET (1 .. k + 1) |->
                      IF k + 1 \in s THEN h[k + 1][g[s \ {k + 1}]] ELSE g[s]]
  <2>2. \A s \in SUBSET (1 .. k + 1) : k + 1 \notin s => s \in SUBSET (1 .. k)
    OBVIOUS
  <2>3. \A s \in SUBSET (1 .. k + 1) : s \ {k + 1} \in SUBSET (1 .. k)
    OBVIOUS
  <2>4. k + 1 \in 1 .. n
    OBVIOUS
  <2>5. q \in [SUBSET (1 .. k + 1) -> V]
    <3> SUFFICES ASSUME NEW s \in SUBSET (1 .. k + 1)
                 PROVE  (IF k + 1 \in s THEN h[k + 1][g[s \ {k + 1}]] ELSE g[s]) \in V
      OBVIOUS
    <3>1. CASE k + 1 \in s
      <4>1. g[s \ {k + 1}] \in V /\ h[k + 1] \in [V -> V]
        BY <2>1, <2>3, <2>4
      <4> QED
        BY <3>1, <4>1
    <3>2. CASE k + 1 \notin s
      BY <3>2, <2>1, <2>2
    <3> QED
      BY <3>1, <3>2
  <2>6. \A s \in SUBSET (1 .. k) : s \in SUBSET (1 .. k + 1) /\ k + 1 \notin s /\ q[s] = g[s]
    <3>1. \A s \in SUBSET (1 .. k) : s \in SUBSET (1 .. k + 1) /\ k + 1 \notin s
      OBVIOUS
    <3> QED
      BY <3>1
  <2>7. ASSUME NEW s \in SUBSET (1 .. k + 1)
        PROVE  q[s] = IF s = {} THEN base ELSE h[Max(s)][q[s \ {Max(s)}]]
    <3>1. CASE k + 1 \in s
      <4>1. Max(s) = k + 1
        <5>1. k + 1 \in Nat /\ s \subseteq 1 .. k + 1 /\ s # {}
          BY <3>1
        <5>2. Max(s) \in s /\ \A i \in s : Max(s) >= i
          BY <5>1, GreatestNumber
        <5>3. Max(s) \in 1 .. k + 1 /\ Max(s) >= k + 1
          BY <3>1, <5>2
        <5> QED
          BY <5>3
      <4>2. q[s] = h[k + 1][g[s \ {k + 1}]]
        BY <3>1
      <4>3. g[s \ {k + 1}] = q[s \ {k + 1}]
        BY <2>3, <2>6
      <4> HIDE DEF q
      <4> QED
        BY <3>1, <4>1, <4>2, <4>3
    <3>2. CASE k + 1 \notin s
      <4>1. s \in SUBSET (1 .. k) /\ q[s] = g[s]
        BY <3>2, <2>2, <2>6
      <4>2. s \ {Max(s)} \in SUBSET (1 .. k)
        BY <4>1
      <4>3. q[s \ {Max(s)}] = g[s \ {Max(s)}]
        BY <2>6, <4>2
      <4>4. g[s] = IF s = {} THEN base ELSE h[Max(s)][g[s \ {Max(s)}]]
        BY <2>1, <4>1 DEF IsFold
      <4> HIDE DEF q
      <4> QED
        BY <4>1, <4>3, <4>4
    <3> QED
      BY <3>1, <3>2
  <2> HIDE DEF q
  <2> QED
    BY <2>5, <2>7 DEF IsFold, HasFold
<1>3. n \in T
  <2> HIDE DEF T
  <2> QED
    BY <1>1, <1>2, Induction
<1> QED
  BY <1>3

(* The positions up to the k-th, of which that is the greatest.            *)
LEMMA FirstPositions ==
  ASSUME NEW n \in Nat, NEW k \in 1 .. n
  PROVE  /\ 1 .. k \in SUBSET (1 .. n) /\ 1 .. k # {} /\ Max(1 .. k) = k
         /\ (1 .. k) \ {k} = 1 .. k - 1
<1>1. 1 .. k \in SUBSET (1 .. n) /\ k \in 1 .. k
  OBVIOUS
<1>2. (1 .. k) \ {k} = 1 .. k - 1
  OBVIOUS
<1>3. 1 .. k # {}
  BY <1>1
<1>4. Max(1 .. k) \in 1 .. k /\ Max(1 .. k) >= k
  BY <1>1, <1>3, GreatestNumber
<1> QED
  BY <1>1, <1>2, <1>3, <1>4

-----------------------------------------------------------------------------
(* Sequence s has every element of S once, and nothing else.               *)
Lists(s, S) ==
    /\ s \in Seq(S)
    /\ \A x \in S : \E i \in DOMAIN s : s[i] = x
    /\ \A i, j \in DOMAIN s : s[i] = s[j] => i = j

(* One more element at the end.                                            *)
LEMMA ListsAppend ==
  ASSUME NEW S, NEW s, Lists(s, S), NEW x, x \notin S
  PROVE  Lists(Append(s, x), S \cup {x})
<1>1. s \in Seq(S) /\ s \in Seq(S \cup {x})
  BY DEF Lists
<1>2. PICK n \in Nat : n = Len(s) /\ DOMAIN s = 1 .. n
  BY <1>1
<1> DEFINE t == Append(s, x)
<1>3. /\ t \in Seq(S \cup {x}) /\ DOMAIN t = 1 .. n + 1 /\ t[n + 1] = x
      /\ \A i \in 1 .. n : t[i] = s[i]
  BY <1>1, <1>2, AppendProperties
<1>4. \A i \in 1 .. n : s[i] \in S
  BY <1>1, <1>2
<1> HIDE DEF t
<1>5. \A y \in S \cup {x} : \E i \in 1 .. n + 1 : t[i] = y
  <2>1. ASSUME NEW y \in S PROVE \E i \in 1 .. n + 1 : t[i] = y
    <3>1. PICK i \in 1 .. n : s[i] = y
      BY <1>2 DEF Lists
    <3>2. i \in 1 .. n + 1 /\ t[i] = y
      BY <1>3, <3>1
    <3> QED
      BY <3>2
  <2>2. n + 1 \in 1 .. n + 1
    OBVIOUS
  <2> QED
    BY <1>3, <2>1, <2>2
<1>6. \A i, j \in 1 .. n + 1 : t[i] = t[j] => i = j
  <2> SUFFICES ASSUME NEW i \in 1 .. n + 1, NEW j \in 1 .. n + 1, t[i] = t[j] PROVE i = j
    OBVIOUS
  <2>1. \A k, l \in 1 .. n : s[k] = s[l] => k = l
    BY <1>2 DEF Lists
  <2>2. \A k \in 1 .. n + 1 : k \in 1 .. n \/ k = n + 1
    OBVIOUS
  <2> QED
    BY <1>3, <1>4, <2>1, <2>2
<1> QED
  BY <1>3, <1>5, <1>6 DEF Lists, t

(* The sequence t is s, of length n, with x put in at k.                   *)
Inserted(t, s, n, x, k, S) ==
    /\ t \in Seq(S \cup {x}) /\ Len(t) = n + 1 /\ DOMAIN t = 1 .. n + 1 /\ t[k] = x
    /\ \A i \in 1 .. k - 1 : t[i] = s[i]
    /\ \A i \in k + 1 .. n + 1 : t[i] = s[i - 1]

(* The elements of a sequence with one more in it.                         *)
LEMMA InsertElements ==
  ASSUME NEW S, NEW s \in Seq(S), NEW x, NEW n \in Nat, n = Len(s), NEW k \in 1 .. n,
         NEW t, t = InsertAt(s, k, x)
  PROVE  Inserted(t, s, n, x, k, S)
<1>1. s \in Seq(S \cup {x}) /\ DOMAIN s = 1 .. n
  OBVIOUS
<1>2. n \in Nat /\ k \in 1 .. n
  OBVIOUS
<1> DEFINE a == SubSeq(s, 1, k - 1)
           b == SubSeq(s, k, n)
<1>3. /\ a \in Seq(S \cup {x}) /\ Len(a) = k - 1
      /\ \A i \in 1 .. k - 1 : a[i] = s[i]
  BY <1>1, <1>2, SubSeqProperties
<1>4. /\ b \in Seq(S \cup {x}) /\ Len(b) = n - k + 1
      /\ \A i \in 1 .. n - k + 1 : b[i] = s[k + i - 1]
  BY <1>1, <1>2, SubSeqProperties
<1>5. <<x>> \in Seq(S \cup {x}) /\ Len(<<x>>) = 1 /\ <<x>>[1] = x
  OBVIOUS
<1>6. t = a \o <<x>> \o b
  BY DEF InsertAt
<1> HIDE DEF a, b
<1> DEFINE u == a \o <<x>>
<1>7. /\ u \in Seq(S \cup {x}) /\ Len(u) = k /\ u[k] = x
      /\ \A i \in 1 .. k - 1 : u[i] = s[i]
  <2>1. /\ u \in Seq(S \cup {x}) /\ Len(u) = Len(a) + Len(<<x>>)
        /\ \A i \in 1 .. Len(a) + Len(<<x>>) :
              u[i] = IF i <= Len(a) THEN a[i] ELSE <<x>>[i - Len(a)]
    BY <1>3, <1>5, ConcatProperties
  <2>2. Len(u) = k /\ \A i \in 1 .. k : u[i] = IF i <= k - 1 THEN a[i] ELSE <<x>>[i - (k - 1)]
    BY <1>2, <1>3, <1>5, <2>1
  <2> HIDE DEF u
  <2>3. u[k] = x
    <3>1. k \in 1 .. k /\ ~(k <= k - 1) /\ k - (k - 1) = 1
      BY <1>2
    <3> QED
      BY <1>5, <2>2, <3>1
  <2>4. ASSUME NEW i \in 1 .. k - 1 PROVE u[i] = s[i]
    <3>1. i \in 1 .. k /\ i <= k - 1
      BY <1>2
    <3> QED
      BY <1>3, <2>2, <3>1
  <2> QED
    BY <2>1, <2>2, <2>3, <2>4
<1>8. t = u \o b
  BY <1>6
<1> HIDE DEF u
<1>9. /\ t \in Seq(S \cup {x}) /\ Len(t) = n + 1
      /\ \A i \in 1 .. n + 1 : t[i] = IF i <= k THEN u[i] ELSE b[i - k]
  <2>1. /\ u \o b \in Seq(S \cup {x}) /\ Len(u \o b) = Len(u) + Len(b)
        /\ \A i \in 1 .. Len(u) + Len(b) :
              (u \o b)[i] = IF i <= Len(u) THEN u[i] ELSE b[i - Len(u)]
    <3>1. u \in Seq(S \cup {x}) /\ b \in Seq(S \cup {x})
      BY <1>4, <1>7
    <3> QED
      BY <3>1, ConcatProperties
  <2>2. Len(u) = k /\ Len(b) = n - k + 1
    BY <1>4, <1>7
  <2>3. k \in Int /\ n \in Int
    BY <1>2
  <2>4. Len(u) + Len(b) = n + 1
    BY <2>2, <2>3
  <2> QED
    BY <1>8, <2>1, <2>2, <2>4
<1>10. \A i \in k + 1 .. n + 1 : b[i - k] = s[i - 1]
  <2> SUFFICES ASSUME NEW i \in k + 1 .. n + 1 PROVE b[i - k] = s[i - 1]
    OBVIOUS
  <2>1. i - k \in 1 .. n - k + 1 /\ k + (i - k) - 1 = i - 1
    BY <1>2
  <2> QED
    BY <1>4, <2>1
<1>11. DOMAIN t = 1 .. n + 1
  BY <1>9
<1>12. t[k] = x
  BY <1>2, <1>7, <1>9
<1>13. \A i \in 1 .. k - 1 : t[i] = s[i]
  BY <1>2, <1>7, <1>9
<1>14. \A i \in k + 1 .. n + 1 : t[i] = s[i - 1]
  BY <1>2, <1>9, <1>10
<1> QED
  BY <1>9, <1>11, <1>12, <1>13, <1>14 DEF Inserted

(* One more element at the place of the k-th.                              *)
LEMMA ListsInsert ==
  ASSUME NEW S, NEW s, Lists(s, S), NEW x, x \notin S, NEW k \in DOMAIN s
  PROVE  Lists(InsertAt(s, k, x), S \cup {x})
<1>1. s \in Seq(S) /\ s \in Seq(S \cup {x})
  BY DEF Lists
<1>2. PICK n \in Nat : n = Len(s) /\ DOMAIN s = 1 .. n /\ k \in 1 .. n
  BY <1>1
<1> DEFINE t == InsertAt(s, k, x)
<1>3. /\ t \in Seq(S \cup {x}) /\ DOMAIN t = 1 .. n + 1 /\ t[k] = x
      /\ \A i \in 1 .. k - 1 : t[i] = s[i]
      /\ \A i \in k + 1 .. n + 1 : t[i] = s[i - 1]
  <2>1. Inserted(t, s, n, x, k, S)
    BY <1>1, <1>2, InsertElements
  <2> HIDE DEF t
  <2> QED
    BY <2>1 DEF Inserted
<1>4. \A i \in 1 .. n : s[i] \in S
  BY <1>1, <1>2
<1> HIDE DEF t
<1>5. \A y \in S \cup {x} : \E i \in 1 .. n + 1 : t[i] = y
  <2>1. ASSUME NEW y \in S PROVE \E i \in 1 .. n + 1 : t[i] = y
    <3>1. PICK i \in 1 .. n : s[i] = y
      BY <1>2 DEF Lists
    <3>2. CASE i < k
      <4>1. i \in 1 .. k - 1 /\ i \in 1 .. n + 1
        BY <1>2, <3>2
      <4> QED
        BY <1>3, <3>1, <4>1
    <3>3. CASE i >= k
      <4>1. i + 1 \in k + 1 .. n + 1 /\ i + 1 \in 1 .. n + 1 /\ (i + 1) - 1 = i
        BY <1>2, <3>3
      <4> QED
        BY <1>3, <3>1, <4>1
    <3> QED
      BY <1>2, <3>2, <3>3
  <2>2. k \in 1 .. n + 1
    BY <1>2
  <2> QED
    BY <1>3, <2>1, <2>2
<1>6. \A i, j \in 1 .. n + 1 : t[i] = t[j] => i = j
  <2> SUFFICES ASSUME NEW i \in 1 .. n + 1, NEW j \in 1 .. n + 1, t[i] = t[j] PROVE i = j
    OBVIOUS
  <2>1. \A u, v \in 1 .. n : s[u] = s[v] => u = v
    BY <1>2 DEF Lists
  <2>2. \A u \in 1 .. n + 1 :
           \/ u = k /\ t[u] \notin S
           \/ u < k /\ u \in 1 .. n /\ t[u] \in S /\ t[u] = s[u]
           \/ u > k /\ u - 1 \in 1 .. n /\ t[u] \in S /\ t[u] = s[u - 1]
    <3> SUFFICES ASSUME NEW u \in 1 .. n + 1
                 PROVE  \/ u = k /\ t[u] \notin S
                        \/ u < k /\ u \in 1 .. n /\ t[u] \in S /\ t[u] = s[u]
                        \/ u > k /\ u - 1 \in 1 .. n /\ t[u] \in S /\ t[u] = s[u - 1]
      OBVIOUS
    <3>1. u = k \/ u \in 1 .. k - 1 \/ u \in k + 1 .. n + 1
      BY <1>2
    <3>2. u \in 1 .. k - 1 => u \in 1 .. n
      BY <1>2
    <3>3. u \in k + 1 .. n + 1 => u - 1 \in 1 .. n
      BY <1>2
    <3> QED
      BY <1>2, <1>3, <1>4, <3>1, <3>2, <3>3
  <2>3. k \in Int /\ i \in Int /\ j \in Int
    BY <1>2
  <2> QED
    BY <2>1, <2>2, <2>3
<1> QED
  BY <1>3, <1>5, <1>6 DEF Lists, t

(* Two sequences one after the other.                                      *)
LEMMA ListsConcat ==
  ASSUME NEW A, NEW B, NEW a, NEW b, Lists(a, A), Lists(b, B), A \cap B = {}
  PROVE  Lists(a \o b, A \cup B)
<1>1. a \in Seq(A \cup B) /\ b \in Seq(A \cup B) /\ a \in Seq(A) /\ b \in Seq(B)
  BY DEF Lists
<1>2. PICK n \in Nat : n = Len(a) /\ DOMAIN a = 1 .. n
  BY <1>1
<1>3. PICK k \in Nat : k = Len(b) /\ DOMAIN b = 1 .. k
  BY <1>1
<1> DEFINE t == a \o b
<1>4. /\ t \in Seq(A \cup B) /\ DOMAIN t = 1 .. n + k
      /\ \A i \in 1 .. n + k : t[i] = IF i <= n THEN a[i] ELSE b[i - n]
  <2>1. /\ t \in Seq(A \cup B) /\ Len(t) = Len(a) + Len(b)
        /\ \A i \in 1 .. Len(a) + Len(b) : t[i] = IF i <= Len(a) THEN a[i] ELSE b[i - Len(a)]
    BY <1>1, ConcatProperties
  <2> HIDE DEF t
  <2> QED
    BY <1>2, <1>3, <2>1
<1>5. (\A i \in 1 .. n : a[i] \in A) /\ (\A i \in 1 .. k : b[i] \in B)
  BY <1>1, <1>2, <1>3
<1> HIDE DEF t
<1>6. /\ \A i \in 1 .. n : i \in 1 .. n + k /\ t[i] = a[i]
      /\ \A i \in 1 .. k : i + n \in 1 .. n + k /\ t[i + n] = b[i]
  <2>1. ASSUME NEW i \in 1 .. n PROVE i \in 1 .. n + k /\ t[i] = a[i]
    BY <1>4
  <2>2. ASSUME NEW i \in 1 .. k PROVE i + n \in 1 .. n + k /\ t[i + n] = b[i]
    <3>1. i + n \in 1 .. n + k /\ ~(i + n <= n) /\ (i + n) - n = i
      OBVIOUS
    <3> QED
      BY <1>4, <3>1
  <2> QED
    BY <2>1, <2>2
<1>7. \A y \in A \cup B : \E i \in 1 .. n + k : t[i] = y
  <2>1. ASSUME NEW y \in A PROVE \E i \in 1 .. n + k : t[i] = y
    <3>1. PICK i \in 1 .. n : a[i] = y
      BY <1>2 DEF Lists
    <3> QED
      BY <1>6, <3>1
  <2>2. ASSUME NEW y \in B PROVE \E i \in 1 .. n + k : t[i] = y
    <3>1. PICK i \in 1 .. k : b[i] = y
      BY <1>3 DEF Lists
    <3> QED
      BY <1>6, <3>1
  <2> QED
    BY <2>1, <2>2
<1>8. \A i, j \in 1 .. n + k : t[i] = t[j] => i = j
  <2> SUFFICES ASSUME NEW i \in 1 .. n + k, NEW j \in 1 .. n + k, t[i] = t[j] PROVE i = j
    OBVIOUS
  <2>a. \A u, v \in 1 .. n : a[u] = a[v] => u = v
    BY <1>2 DEF Lists
  <2>b. \A u, v \in 1 .. k : b[u] = b[v] => u = v
    BY <1>3 DEF Lists
  <2>2. \A u \in 1 .. n + k :
           \/ u \in 1 .. n /\ t[u] \in A /\ t[u] = a[u]
           \/ u - n \in 1 .. k /\ t[u] \in B /\ t[u] = b[u - n]
    <3> SUFFICES ASSUME NEW u \in 1 .. n + k
                 PROVE  \/ u \in 1 .. n /\ t[u] \in A /\ t[u] = a[u]
                        \/ u - n \in 1 .. k /\ t[u] \in B /\ t[u] = b[u - n]
      OBVIOUS
    <3>1. CASE u <= n
      <4>1. u \in 1 .. n
        BY <3>1
      <4> QED
        BY <1>4, <1>5, <3>1, <4>1
    <3>2. CASE ~(u <= n)
      <4>1. u - n \in 1 .. k
        BY <3>2
      <4> QED
        BY <1>4, <1>5, <3>2, <4>1
    <3> QED
      BY <3>1, <3>2
  <2>3. CASE i \in 1 .. n /\ j \in 1 .. n /\ t[i] = a[i] /\ t[j] = a[j]
    BY <2>a, <2>3
  <2>4. CASE i - n \in 1 .. k /\ j - n \in 1 .. k /\ t[i] = b[i - n] /\ t[j] = b[j - n]
    <3>1. i - n = j - n
      BY <2>b, <2>4
    <3> QED
      BY <3>1
  <2> QED
    BY <2>2, <2>3, <2>4
<1> QED
  BY <1>4, <1>7, <1>8 DEF Lists, t

(* FlattenSeq lists what its parts list, if they have nothing in common.   *)
LEMMA ListsFlatten ==
  ASSUME NEW S, NEW s \in Seq(Seq(S)), NEW R, NEW U,
         \A i \in DOMAIN s : Lists(s[i], R[i]),
         \A i, j \in DOMAIN s : i # j => R[i] \cap R[j] = {},
         \A i \in DOMAIN s : R[i] \subseteq U,
         \A x \in U : \E i \in DOMAIN s : x \in R[i]
  PROVE  Lists(FlattenSeq(s), U)
<1>u. U = UNION {R[i] : i \in DOMAIN s}
  OBVIOUS
<1>1. PICK n \in Nat : n = Len(s) /\ DOMAIN s = 1 .. n
  OBVIOUS
<1>2. CASE n = 0
  <2>1. s = <<>> /\ U = {}
    BY <1>1, <1>2, <1>u
  <2>2. FlattenSeq(s) = <<>>
    BY <2>1, FlattenShort
  <2>3. Lists(<<>>, {})
    BY DEF Lists
  <2> QED
    BY <2>1, <2>2, <2>3
<1>3. CASE n > 0
  <2>1. s # <<>>
    BY <1>1, <1>3
  <2>2. PICK g \in [1 .. Len(s) -> Seq(S)] :
            /\ g[1] = s[1]
            /\ \A i \in 2 .. Len(s) : g[i] = g[i - 1] \o s[i]
            /\ FlattenSeq(s) = g[Len(s)]
    BY <2>1, FlattenJoins
  <2>3. /\ g[1] = s[1] /\ FlattenSeq(s) = g[n]
        /\ \A i \in 2 .. n : g[i] = g[i - 1] \o s[i]
    BY <1>1, <2>2
  <2> DEFINE Up(k) == UNION {R[i] : i \in 1 .. k}
             T == {k \in Nat : k \in 1 .. n => Lists(g[k], Up(k))}
  <2>4. 0 \in T
    OBVIOUS
  <2>5. ASSUME NEW k \in Nat, k \in T PROVE k + 1 \in T
    <3> SUFFICES ASSUME k + 1 \in 1 .. n PROVE Lists(g[k + 1], Up(k + 1))
      OBVIOUS
    <3>1. CASE k = 0
      <4>1. Up(1) = R[1]
        <5>1. 1 .. 1 = {1}
          OBVIOUS
        <5> QED
          BY <5>1
      <4>2. Lists(g[1], R[1])
        <5>1. 1 \in DOMAIN s
          BY <1>1, <1>3
        <5> QED
          BY <2>3, <5>1
      <4> HIDE DEF Up
      <4> QED
        BY <3>1, <4>1, <4>2
    <3>2. CASE k > 0
      <4>1. k \in 1 .. n /\ k + 1 \in 2 .. n /\ (k + 1) - 1 = k /\ k + 1 \in DOMAIN s
        BY <1>1, <3>2
      <4>2. Lists(g[k], Up(k)) /\ Lists(s[k + 1], R[k + 1])
        BY <2>5, <4>1
      <4>3. Up(k) \cap R[k + 1] = {}
        <5>1. ASSUME NEW i \in 1 .. k PROVE R[i] \cap R[k + 1] = {}
          <6>1. i \in DOMAIN s /\ i # k + 1
            BY <1>1, <4>1
          <6> QED
            BY <4>1, <6>1
        <5> QED
          BY <5>1
      <4>4. Up(k + 1) = Up(k) \cup R[k + 1]
        <5>1. 1 .. k + 1 = (1 .. k) \cup {k + 1}
          OBVIOUS
        <5> QED
          BY <5>1
      <4>5. g[k + 1] = g[k] \o s[k + 1]
        BY <2>3, <4>1, Zenon
      <4> HIDE DEF Up
      <4>6. Lists(g[k] \o s[k + 1], Up(k) \cup R[k + 1])
        BY <4>2, <4>3, ListsConcat
      <4> QED
        BY <4>4, <4>5, <4>6, Zenon
    <3> QED
      BY <3>1, <3>2
  <2>6. n \in T
    <3> HIDE DEF T
    <3> QED
      BY <2>4, <2>5, Induction
  <2>7. n \in 1 .. n
    BY <1>3
  <2> QED
    BY <1>1, <1>u, <2>3, <2>6, <2>7
<1> QED
  BY <1>2, <1>3

(* Induction up to a bound.                                                *)
LEMMA BoundedInduction ==
  ASSUME NEW n \in Nat, NEW T, 0 \in T, \A k \in 1 .. n : k - 1 \in T => k \in T
  PROVE  \A k \in 0 .. n : k \in T
<1> DEFINE U == {k \in Nat : k <= n => k \in T}
<1>1. 0 \in U
  OBVIOUS
<1>2. ASSUME NEW k \in Nat, k \in U PROVE k + 1 \in U
  <2> SUFFICES ASSUME k + 1 <= n PROVE k + 1 \in T
    OBVIOUS
  <2>1. k + 1 \in 1 .. n /\ (k + 1) - 1 = k /\ k \in T
    BY <1>2
  <2> QED
    BY <2>1
<1>3. Nat \subseteq U
  <2> HIDE DEF U
  <2> QED
    BY <1>1, <1>2, Induction
<1> QED
  BY <1>3

(* A function on the first numbers whose values stay in V.                 *)
LEMMA StepsType ==
  ASSUME NEW n \in Nat, NEW V, NEW r, r = [k \in 0 .. n |-> r[k]], r[0] \in V,
         \A k \in 1 .. n : r[k - 1] \in V => r[k] \in V
  PROVE  r \in [0 .. n -> V]
<1> DEFINE T == {k \in Nat : r[k] \in V}
<1>1. 0 \in T /\ \A k \in 1 .. n : k - 1 \in T => k \in T
  OBVIOUS
<1>2. \A k \in 0 .. n : k \in T
  <2> HIDE DEF T
  <2> QED
    BY <1>1, BoundedInduction
<1> QED
  BY <1>2
=============================================================================
