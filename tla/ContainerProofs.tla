-------------------------- MODULE ContainerProofs --------------------------
(***************************************************************************)
(* Proofs about the two hash tables and the growing array, for any keys,   *)
(* values, hash function and sizes.                                        *)
(***************************************************************************)
EXTENDS MCComponents, SequenceLemmas, FiniteSetTheorems, FunctionTheorems

-----------------------------------------------------------------------------
(* A table t of buckets holds the elements of U: each is in the bucket of  *)
(* its key, once, and no two have the same key.                            *)
Home(n, k) == (Hash[k] % n) + 1
At(U, n, b) == {e \in U : Home(n, e.key) = b}
Keyed(U) == (\A e \in U : e.key \in Keys) /\ \A d, e \in U : d.key = e.key => d = e
Holds(t, U) ==
    /\ t \in Seq(Seq(U)) /\ Len(t) > 0
    /\ Keyed(U)
    /\ \A b \in DOMAIN t : Lists(t[b], At(U, Len(t), b))

(* Every key has a bucket. *)
LEMMA HomeType ==
  ASSUME NEW n \in Nat \ {0}, NEW k \in Keys
  PROVE  Home(n, k) \in 1 .. n
<1>1. Hash[k] \in Nat
  BY ComponentsAssumption DEF Table!TableAssumption
<1> QED
  BY <1>1 DEF Home

(* A listing is as long as the set has elements.                           *)
LEMMA ListsCount ==
  ASSUME NEW S, NEW s, Lists(s, S)
  PROVE  IsFiniteSet(S) /\ Cardinality(S) = Len(s)
<1>1. s \in Seq(S)
  BY DEF Lists
<1>2. PICK n \in Nat : n = Len(s) /\ DOMAIN s = 1 .. n /\ s \in [1 .. n -> S]
  BY <1>1
<1>3. s \in Bijection(1 .. n, S)
  BY <1>2, Fun_IsBij DEF Lists
<1>4. ExistsBijection(1 .. n, S)
  BY <1>3 DEF ExistsBijection
<1> QED
  BY <1>2, <1>4, FS_NatBijection, FS_CountingElements

(* A set that is contained in another one has no longer listing.           *)
LEMMA ListsShorter ==
  ASSUME NEW S, NEW T, S \subseteq T, NEW s, NEW t, Lists(s, S), Lists(t, T)
  PROVE  Len(s) <= Len(t)
<1>1. S \in SUBSET T
  OBVIOUS
<1> QED
  BY <1>1, ListsCount, FS_Subset

(* There is one bucket for each key, and it holds the keys that it should. *)
LEMMA HoldsBucket ==
  ASSUME NEW t, NEW U, Holds(t, U), NEW k \in Keys
  PROVE  /\ Len(t) \in Nat \ {0} /\ DOMAIN t = 1 .. Len(t)
         /\ Home(Len(t), k) \in DOMAIN t
         /\ t[Home(Len(t), k)] \in Seq(U)
         /\ Lists(t[Home(Len(t), k)], At(U, Len(t), Home(Len(t), k)))
<1>1. Len(t) \in Nat \ {0} /\ DOMAIN t = 1 .. Len(t)
  BY DEF Holds
<1>2. Home(Len(t), k) \in DOMAIN t
  BY <1>1, HomeType
<1> QED
  BY <1>1, <1>2 DEF Holds

(* FlattenSeq lists the elements of a table.                               *)
LEMMA HoldsFlat ==
  ASSUME NEW t, NEW U, Holds(t, U)
  PROVE  Lists(FlattenSeq(t), U)
<1> DEFINE R == [b \in DOMAIN t |-> At(U, Len(t), b)]
<1>1. t \in Seq(Seq(U)) /\ Len(t) \in Nat \ {0} /\ DOMAIN t = 1 .. Len(t)
  BY DEF Holds
<1>2. \A b \in DOMAIN t : R[b] = At(U, Len(t), b)
  OBVIOUS
<1>3. \A b \in DOMAIN t : Lists(t[b], R[b]) /\ R[b] \subseteq U
  BY <1>2 DEF Holds, At
<1>4. \A b, c \in DOMAIN t : b # c => R[b] \cap R[c] = {}
  BY <1>2 DEF At
<1>5. ASSUME NEW e \in U PROVE \E b \in DOMAIN t : e \in R[b]
  <2>1. e.key \in Keys
    BY DEF Holds, Keyed
  <2>2. Home(Len(t), e.key) \in DOMAIN t
    BY <2>1, HoldsBucket
  <2> QED
    BY <1>2, <2>2 DEF At
<1> HIDE DEF R
<1> QED
  BY <1>1, <1>3, <1>4, <1>5, ListsFlatten

(* A new table holds nothing. *)
LEMMA HoldsNothing ==
  ASSUME NEW n \in Nat \ {0}
  PROVE  Holds([b \in 1 .. n |-> <<>>], {}) /\ Len([b \in 1 .. n |-> <<>>]) = n
<1>0. PICK t : t = [b \in 1 .. n |-> <<>>]
  OBVIOUS
<1>1. t \in Seq(Seq({})) /\ Len(t) = n /\ DOMAIN t = 1 .. n
  BY <1>0
<1>2. \A b \in DOMAIN t : t[b] = <<>>
  BY <1>0
<1>3. Lists(<<>>, {})
  BY DEF Lists
<1>4. \A b \in DOMAIN t : At({}, Len(t), b) = {}
  BY DEF At
<1>5. \A b \in DOMAIN t : Lists(t[b], At({}, Len(t), b))
  BY <1>2, <1>3, <1>4
<1>6. Holds(t, {})
  BY <1>1, <1>5 DEF Holds, Keyed
<1> QED
  BY <1>0, <1>1, <1>6

SameBut(U, V, k) == \A e \in U \cup V : e.key # k => e \in U /\ e \in V

Updates(s, t, k, bucket) == s = [t EXCEPT ![Home(Len(t), k)] = bucket]

(* A bucket is changed, with the elements of one key. *)
LEMMA HoldsUpdate ==
  ASSUME NEW t, NEW U, Holds(t, U), NEW V, Keyed(V), NEW k \in Keys, NEW bucket,
         SameBut(U, V, k), NEW s, Updates(s, t, k, bucket),
         Lists(bucket, At(V, Len(t), Home(Len(t), k)))
  PROVE  Holds(s, V) /\ Len(s) = Len(t)
<1>1. PICK n \in Nat \ {0} : n = Len(t) /\ DOMAIN t = 1 .. n
  BY HoldsBucket
<1>2. PICK h \in 1 .. n : h = Home(Len(t), k)
  BY <1>1, HoldsBucket
<1>3. s = [t EXCEPT ![h] = bucket]
  BY <1>2 DEF Updates
<1>4. \A c \in 1 .. n : c # h => At(V, n, c) = At(U, n, c)
  BY <1>1, <1>2 DEF At, SameBut
<1>5. t \in Seq(Seq(U)) /\ \A c \in 1 .. n : Lists(t[c], At(U, n, c))
  BY <1>1 DEF Holds
<1>6. DOMAIN s = 1 .. n /\ s[h] = bucket /\ \A c \in 1 .. n : c # h => s[c] = t[c]
  BY <1>1, <1>2, <1>3
<1>7. \A c \in 1 .. n : Lists(s[c], At(V, n, c))
  BY <1>1, <1>2, <1>4, <1>5, <1>6
<1>8. \A c \in 1 .. n : s[c] \in Seq(V)
  <2> SUFFICES ASSUME NEW c \in 1 .. n PROVE s[c] \in Seq(V)
    OBVIOUS
  <2>1. s[c] \in Seq(At(V, n, c)) /\ At(V, n, c) \subseteq V
    BY <1>7 DEF Lists, At
  <2> QED
    BY <2>1
<1>9. s = [c \in 1 .. n |-> s[c]]
  BY <1>1, <1>3, <1>6
<1>10. s \in Seq(Seq(V)) /\ Len(s) = n
  BY <1>8, <1>9
<1> QED
  BY <1>1, <1>3, <1>6, <1>7, <1>10 DEF Holds

(* An element with a new key becomes the last one of its bucket. *)
LEMMA HoldsAdd ==
  ASSUME NEW t, NEW U, Holds(t, U), NEW e, e.key \in Keys, \A d \in U : d.key # e.key
  PROVE  LET s == [t EXCEPT ![Home(Len(t), e.key)] = Append(@, e)]
         IN  Holds(s, U \cup {e}) /\ Len(s) = Len(t)
<1>1. PICK h, n : h = Home(Len(t), e.key) /\ n = Len(t)
  OBVIOUS
<1>2. PICK S : S = At(U, n, h)
  OBVIOUS
<1>3. Lists(t[h], S)
  BY <1>1, <1>2, HoldsBucket
<1>4. e \notin S
  BY <1>2 DEF At
<1>5. PICK bucket : bucket = Append(t[h], e)
  OBVIOUS
<1>6. PICK V : V = U \cup {e}
  OBVIOUS
<1>7. At(V, n, h) = S \cup {e}
  BY <1>1, <1>2, <1>6 DEF At
<1>8. Lists(bucket, At(V, n, h))
  BY <1>3, <1>4, <1>5, <1>7, ListsAppend
<1>9. Keyed(V)
  BY <1>6 DEF Holds, Keyed
<1>10. PICK k \in Keys : k = e.key
  OBVIOUS
<1>11. SameBut(U, V, k)
  BY <1>6, <1>10 DEF SameBut
<1>13. PICK s : s = [t EXCEPT ![h] = bucket]
  OBVIOUS
<1>14. Holds(s, V) /\ Len(s) = n
  <2>1. Lists(bucket, At(V, Len(t), Home(Len(t), k)))
    BY <1>1, <1>8, <1>10
  <2>2. Updates(s, t, k, bucket)
    BY <1>1, <1>10, <1>13 DEF Updates
  <2>3. Holds(s, V) /\ Len(s) = Len(t)
    BY <1>9, <1>11, <2>1, <2>2, HoldsUpdate
  <2> QED
    BY <1>1, <2>3
<1>15. s = [t EXCEPT ![Home(Len(t), e.key)] = Append(@, e)]
  BY <1>1, <1>5, <1>13
<1> QED
  BY <1>1, <1>6, <1>14, <1>15

-----------------------------------------------------------------------------
(* A listing in which one element takes the place of another.              *)
LEMMA ListsReplace ==
  ASSUME NEW S, NEW s, Lists(s, S), NEW i \in DOMAIN s, NEW x, x \notin S \ {s[i]}
  PROVE  Lists([s EXCEPT ![i] = x], (S \ {s[i]}) \cup {x})
<1>1. PICK n \in Nat : n = Len(s) /\ DOMAIN s = 1 .. n /\ s \in [1 .. n -> S]
  BY DEF Lists
<1>2. PICK r : r = [s EXCEPT ![i] = x]
  OBVIOUS
<1>3. PICK T : T = (S \ {s[i]}) \cup {x}
  OBVIOUS
<1>4. DOMAIN r = 1 .. n /\ r[i] = x /\ \A j \in 1 .. n : j # i => r[j] = s[j]
  BY <1>1, <1>2
<1>5. \A j, k \in 1 .. n : s[j] = s[k] => j = k
  BY <1>1 DEF Lists
<1>6. \A j \in 1 .. n : r[j] \in T
  BY <1>1, <1>3, <1>4, <1>5
<1>7. r = [j \in 1 .. n |-> r[j]]
  BY <1>1, <1>2, <1>4
<1>8. r \in Seq(T)
  BY <1>6, <1>7
<1>9. \A y \in T : \E j \in 1 .. n : r[j] = y
  <2> SUFFICES ASSUME NEW y \in T PROVE \E j \in 1 .. n : r[j] = y
    OBVIOUS
  <2>1. CASE y = x
    BY <1>1, <1>4, <2>1
  <2>2. CASE y # x
    <3>1. PICK j \in 1 .. n : s[j] = y
      BY <1>1, <1>3, <2>2 DEF Lists
    <3> QED
      BY <1>3, <1>4, <2>2, <3>1
  <2> QED
    BY <2>1, <2>2
<1>10. \A j, k \in 1 .. n : r[j] = r[k] => j = k
  BY <1>1, <1>4, <1>5
<1> QED
  BY <1>2, <1>3, <1>4, <1>8, <1>9, <1>10 DEF Lists

(* A listing without its last element. *)
LEMMA ListsFront ==
  ASSUME NEW S, NEW s, Lists(s, S), s # <<>>
  PROVE  Lists(SubSeq(s, 1, Len(s) - 1), S \ {s[Len(s)]})
<1>1. PICK n \in Nat \ {0} : n = Len(s) /\ DOMAIN s = 1 .. n /\ s \in [1 .. n -> S]
  BY DEF Lists
<1>2. PICK r : r = SubSeq(s, 1, n - 1)
  OBVIOUS
<1>3. PICK T : T = S \ {s[n]}
  OBVIOUS
<1>4. \A j, k \in 1 .. n : s[j] = s[k] => j = k
  BY <1>1 DEF Lists
<1>5. r = [j \in 1 .. n - 1 |-> s[j]]
  BY <1>1, <1>2 DEF Lists
<1>6. \A j \in 1 .. n - 1 : r[j] = s[j] /\ s[j] \in T
  BY <1>1, <1>3, <1>4, <1>5
<1>7. r \in Seq(T) /\ DOMAIN r = 1 .. n - 1
  BY <1>1, <1>5, <1>6
<1>8. \A y \in T : \E j \in 1 .. n - 1 : r[j] = y
  <2> SUFFICES ASSUME NEW y \in T PROVE \E j \in 1 .. n - 1 : r[j] = y
    OBVIOUS
  <2>1. PICK j \in 1 .. n : s[j] = y
    BY <1>1, <1>3 DEF Lists
  <2>2. j \in 1 .. n - 1
    BY <1>1, <1>3, <2>1
  <2> QED
    BY <1>6, <2>1, <2>2
<1>9. \A j, k \in 1 .. n - 1 : r[j] = r[k] => j = k
  BY <1>1, <1>4, <1>6
<1> QED
  BY <1>1, <1>2, <1>3, <1>7, <1>8, <1>9 DEF Lists

(* A listing without its i-th element, when the gap is closed. *)
LEMMA ListsRemove ==
  ASSUME NEW S, NEW s, Lists(s, S), NEW i \in DOMAIN s
  PROVE  Lists(SubSeq(s, 1, i - 1) \o SubSeq(s, i + 1, Len(s)), S \ {s[i]})
<1>1. PICK n \in Nat : n = Len(s) /\ DOMAIN s = 1 .. n /\ s \in [1 .. n -> S] /\ i \in 1 .. n
  BY DEF Lists
<1>2. PICK r : r = SubSeq(s, 1, i - 1) \o SubSeq(s, i + 1, n)
  OBVIOUS
<1>3. PICK T : T = S \ {s[i]}
  OBVIOUS
<1>4. \A j, k \in 1 .. n : s[j] = s[k] => j = k
  BY <1>1 DEF Lists
<1>5. r = [j \in 1 .. n - 1 |-> IF j < i THEN s[j] ELSE s[j + 1]]
  <2>1. PICK a, b : a = SubSeq(s, 1, i - 1) /\ b = SubSeq(s, i + 1, n)
    OBVIOUS
  <2>0. s \in Seq(S)
    BY DEF Lists
  <2>2. a \in Seq(S) /\ Len(a) = i - 1 /\ \A j \in 1 .. i - 1 : a[j] = s[j]
    BY <1>1, <2>0, <2>1
  <2>3. b \in Seq(S) /\ Len(b) = n - i /\ \A j \in 1 .. n - i : b[j] = s[j + i]
    <3>1. i + 1 \in Int /\ n \in Int /\ \A j \in i + 1 .. n : s[j] \in S
      BY <1>1
    <3>2. b \in Seq(S) /\ Len(b) = n - i
      BY <1>1, <2>0, <2>1, <3>1, SubSeqProperties
    <3>3. \A j \in 1 .. n - i : b[j] = s[(i + 1) + j - 1]
      BY <1>1, <2>0, <2>1, <3>1, <3>2, SubSeqProperties
    <3>4. ASSUME NEW j \in 1 .. n - i PROVE b[j] = s[j + i]
      <4>1. (i + 1) + j - 1 = j + i
        BY <1>1
      <4> QED
        BY <3>3, <4>1
    <3> QED
      BY <3>2, <3>4
  <2>4. r = a \o b
    BY <1>2, <2>1
  <2>c. /\ r \in Seq(S) /\ Len(r) = Len(a) + Len(b)
        /\ \A j \in 1 .. Len(a) + Len(b) : r[j] = IF j <= Len(a) THEN a[j] ELSE b[j - Len(a)]
    BY <2>2, <2>3, <2>4, ConcatProperties
  <2>d. Len(a) + Len(b) = n - 1
    BY <1>1, <2>2, <2>3
  <2>5. Len(r) = n - 1 /\ r \in Seq(S)
    BY <2>c, <2>d
  <2>6. ASSUME NEW j \in 1 .. n - 1 PROVE r[j] = IF j < i THEN s[j] ELSE s[j + 1]
    <3>1. CASE j < i
      BY <1>1, <2>2, <2>c, <2>d, <3>1
    <3>2. CASE j >= i
      <4>a. Len(a) = i - 1 /\ i \in 1 .. n /\ n \in Nat
        BY <1>1, <2>2
      <4>b. j \in 1 .. Len(a) + Len(b) /\ ~(j <= Len(a)) /\ j - (i - 1) \in 1 .. n - i
        BY <2>d, <3>2, <4>a
      <4>1. r[j] = b[j - (i - 1)] /\ j - (i - 1) \in 1 .. n - i
        BY <2>c, <4>a, <4>b
      <4> QED
        BY <1>1, <2>3, <3>2, <4>1
    <3> QED
      BY <1>1, <3>1, <3>2
  <2>7. r = [j \in 1 .. n - 1 |-> r[j]]
    BY <1>1, <2>5
  <2> QED
    BY <2>6, <2>7
<1>6. \A j \in 1 .. n - 1 : r[j] \in T
  BY <1>1, <1>3, <1>4, <1>5
<1>7. r \in Seq(T) /\ DOMAIN r = 1 .. n - 1
  BY <1>1, <1>5, <1>6
<1>8. \A y \in T : \E j \in 1 .. n - 1 : r[j] = y
  <2> SUFFICES ASSUME NEW y \in T PROVE \E j \in 1 .. n - 1 : r[j] = y
    OBVIOUS
  <2>1. PICK j \in 1 .. n : s[j] = y
    BY <1>1, <1>3 DEF Lists
  <2>2. j # i
    BY <1>3, <2>1
  <2>3. CASE j < i
    <3>1. j \in 1 .. n - 1 /\ r[j] = y
      BY <1>1, <1>5, <2>1, <2>3
    <3> QED
      BY <3>1
  <2>4. CASE j > i
    <3>1. j - 1 \in 1 .. n - 1 /\ r[j - 1] = y
      BY <1>1, <1>5, <2>1, <2>4
    <3> QED
      BY <3>1
  <2> QED
    BY <1>1, <2>2, <2>3, <2>4
<1>9. \A j, k \in 1 .. n - 1 : r[j] = r[k] => j = k
  <2> SUFFICES ASSUME NEW j \in 1 .. n - 1, NEW k \in 1 .. n - 1, r[j] = r[k] PROVE j = k
    OBVIOUS
  <2> DEFINE place(c) == IF c < i THEN c ELSE c + 1
  <2>1. place(j) \in 1 .. n /\ place(k) \in 1 .. n /\ s[place(j)] = s[place(k)]
    BY <1>1, <1>5
  <2>2. place(j) = place(k)
    BY <1>4, <2>1
  <2> QED
    BY <1>1, <2>2
<1> QED
  BY <1>1, <1>2, <1>3, <1>7, <1>8, <1>9 DEF Lists

(* A listing without its i-th element, when the last one fills the gap.    *)
LEMMA ListsShuffle ==
  ASSUME NEW S, NEW s, Lists(s, S), NEW i \in DOMAIN s, NEW r,
         r \in Seq(S), Len(r) = Len(s), r[i] = s[Len(s)],
         \A j \in DOMAIN s : j # i => r[j] = s[j]
  PROVE  Lists(SubSeq(r, 1, Len(r) - 1), S \ {s[i]})
<1>1. PICK n \in Nat \ {0} : n = Len(s) /\ DOMAIN s = 1 .. n /\ s \in [1 .. n -> S] /\ i \in 1 .. n
  BY DEF Lists
<1>2. \A j, k \in 1 .. n : s[j] = s[k] => j = k
  BY <1>1 DEF Lists
<1>3. PICK u : u = SubSeq(r, 1, n - 1)
  OBVIOUS
<1>4. PICK T : T = S \ {s[i]}
  OBVIOUS
<1>5. r \in Seq(S) /\ Len(r) = n
  BY <1>1 DEF Lists
<1>6. u = [j \in 1 .. n - 1 |-> IF j = i THEN s[n] ELSE s[j]]
  <2>1. u = [j \in 1 .. n - 1 |-> r[j]]
    BY <1>1, <1>3, <1>5
  <2>2. \A j \in 1 .. n - 1 : r[j] = IF j = i THEN s[n] ELSE s[j]
    BY <1>1
  <2> QED
    BY <2>1, <2>2
<1>7. \A j \in 1 .. n - 1 : u[j] \in T
  <2>1. ASSUME NEW j \in 1 .. n - 1 PROVE u[j] \in T
    <3>1. CASE j = i
      <4>1. u[j] = s[n] /\ n \in 1 .. n /\ n # i
        BY <1>1, <1>6, <3>1
      <4> QED
        BY <1>1, <1>2, <1>4, <4>1
    <3>2. CASE j # i
      <4>1. u[j] = s[j] /\ j \in 1 .. n
        BY <1>1, <1>6, <3>2
      <4> QED
        BY <1>1, <1>2, <1>4, <3>2, <4>1
    <3> QED
      BY <3>1, <3>2
  <2> QED
    BY <2>1
<1>8. u \in Seq(T) /\ DOMAIN u = 1 .. n - 1
  BY <1>1, <1>6, <1>7
<1>9. \A y \in T : \E j \in 1 .. n - 1 : u[j] = y
  <2> SUFFICES ASSUME NEW y \in T PROVE \E j \in 1 .. n - 1 : u[j] = y
    OBVIOUS
  <2>1. PICK j \in 1 .. n : s[j] = y
    BY <1>1, <1>4 DEF Lists
  <2>2. j # i
    BY <1>4, <2>1
  <2>3. CASE j < n
    <3>1. j \in 1 .. n - 1 /\ u[j] = y
      BY <1>1, <1>6, <2>1, <2>2, <2>3
    <3> QED
      BY <3>1
  <2>4. CASE j = n
    <3>1. i \in 1 .. n - 1
      BY <1>1, <2>2, <2>4
    <3>2. u[i] = s[n]
      BY <1>6, <3>1
    <3> QED
      BY <2>1, <2>4, <3>1, <3>2
  <2> QED
    BY <1>1, <2>1, <2>3, <2>4
<1>10. \A j, k \in 1 .. n - 1 : u[j] = u[k] => j = k
  BY <1>1, <1>2, <1>6
<1>11. Lists(u, T)
  BY <1>8, <1>9, <1>10 DEF Lists
<1> QED
  BY <1>1, <1>3, <1>4, <1>5, <1>11

-----------------------------------------------------------------------------
(* Where the key of an element is found in its bucket.                     *)
Places(bucket, k) == {i \in 1 .. Len(bucket) : bucket[i].key = k}

(* The first place that has a key, which is the only one.                  *)
LEMMA FirstPlace ==
  ASSUME NEW T, T \subseteq Nat \ {0}, T # {}
  PROVE  /\ Table!Min(T) \in T /\ Zhash!Min(T) \in T
         /\ \A i \in T : Table!Min(T) <= i /\ Zhash!Min(T) <= i
<1>1. PICK m \in T : \A i \in T : m <= i
  BY LeastNumber
<1> QED
  BY <1>1 DEF Table!Min, Zhash!Min

(* The place that is found in a bucket of keyed elements.                  *)
LEMMA FoundPlace ==
  ASSUME NEW t, NEW U, Holds(t, U), NEW k \in Keys, NEW bucket, bucket = t[Home(Len(t), k)]
  PROVE  /\ (\A e \in U : e.key # k) => Table!Index(bucket, k) = 0 /\ Zhash!Index(bucket, k) = 0
         /\ \A e \in U : e.key = k =>
               \E i \in 1 .. Len(bucket) :
                  /\ i = Table!Index(bucket, k) /\ i = Zhash!Index(bucket, k)
                  /\ bucket[i] = e
<1>1. PICK h, n : h = Home(Len(t), k) /\ n = Len(t)
  OBVIOUS
<1>2. PICK S : S = At(U, n, h)
  OBVIOUS
<1>3. Lists(bucket, S)
  BY <1>1, <1>2, HoldsBucket
<1>4. DOMAIN bucket = 1 .. Len(bucket) /\ Len(bucket) \in Nat /\ \A i \in 1 .. Len(bucket) : bucket[i] \in S
  BY <1>3 DEF Lists
<1>5. PICK T : T = Places(bucket, k)
  OBVIOUS
<1>6. /\ Table!Index(bucket, k) = IF T # {} THEN Table!Min(T) ELSE 0
      /\ Zhash!Index(bucket, k) = IF T # {} THEN Zhash!Min(T) ELSE 0
  BY <1>5 DEF Table!Index, Zhash!Index, Table!SelectInSeq, Zhash!SelectInSeq, Places
<1>7. S \subseteq U /\ \A d, e \in S : d.key = e.key => d = e
  BY <1>2 DEF At, Holds, Keyed
<1>8. ASSUME \A e \in U : e.key # k
      PROVE  Table!Index(bucket, k) = 0 /\ Zhash!Index(bucket, k) = 0
  <2>1. T = {}
    BY <1>4, <1>5, <1>7, <1>8 DEF Places
  <2> QED
    BY <1>6, <2>1
<1>9. ASSUME NEW e \in U, e.key = k
      PROVE  \E i \in 1 .. Len(bucket) :
                /\ i = Table!Index(bucket, k) /\ i = Zhash!Index(bucket, k)
                /\ bucket[i] = e
  <2>1. e \in S
    BY <1>1, <1>2, <1>9 DEF At
  <2>2. PICK i \in 1 .. Len(bucket) : bucket[i] = e
    BY <1>3, <1>4, <2>1 DEF Lists
  <2>3. i \in T /\ T \subseteq 1 .. Len(bucket)
    BY <1>5, <1>9, <2>2 DEF Places
  <2>4. ASSUME NEW j \in T PROVE j = i
    <3>1. j \in 1 .. Len(bucket) /\ bucket[j].key = k
      BY <1>5, <2>4 DEF Places
    <3>2. bucket[j] = e
      BY <1>4, <1>7, <1>9, <2>1, <3>1
    <3>3. \A a, b \in 1 .. Len(bucket) : bucket[a] = bucket[b] => a = b
      BY <1>3, <1>4 DEF Lists
    <3> QED
      BY <2>2, <3>1, <3>2, <3>3
  <2>5. T \subseteq Nat \ {0} /\ T # {}
    BY <1>4, <2>3
  <2>6. Table!Min(T) = i /\ Zhash!Min(T) = i
    BY <2>4, <2>5, FirstPlace
  <2> QED
    BY <1>6, <2>2, <2>5, <2>6
<1> QED
  BY <1>8, <1>9

-----------------------------------------------------------------------------
(* The map that a set of elements stands for; g is the value of each.      *)
KeysOf(U) == {e.key : e \in U}
MapOf(U, g) == [k \in KeysOf(U) |-> g[CHOOSE e \in U : e.key = k]]

(* What Put, Insert and Remove of MapContract make of a map. *)
IsPut(n, m, k, v) == n = [j \in DOMAIN m \cup {k} |-> IF j = k THEN v ELSE m[j]]
IsInsert(n, m, k, v) == n = [j \in DOMAIN m \cup {k} |-> IF j \in DOMAIN m THEN m[j] ELSE v]
IsRemoval(n, m, k) == n = [j \in DOMAIN m \ {k} |-> m[j]]

(* The map has the keys and values of the elements.                        *)
LEMMA MapIs ==
  ASSUME NEW U, NEW g, Keyed(U)
  PROVE  /\ DOMAIN MapOf(U, g) = KeysOf(U)
         /\ \A e \in U : e.key \in KeysOf(U) /\ MapOf(U, g)[e.key] = g[e]
         /\ \A k \in KeysOf(U) : \E e \in U : e.key = k /\ MapOf(U, g)[k] = g[e]
<1>1. DOMAIN MapOf(U, g) = KeysOf(U)
  BY DEF MapOf
<1>2. ASSUME NEW e \in U PROVE e.key \in KeysOf(U) /\ MapOf(U, g)[e.key] = g[e]
  <2>1. e.key \in KeysOf(U)
    BY DEF KeysOf
  <2>2. (CHOOSE d \in U : d.key = e.key) = e
    BY DEF Keyed
  <2> QED
    BY <2>1, <2>2 DEF MapOf
<1>3. \A k \in KeysOf(U) : \E e \in U : e.key = k
  BY DEF KeysOf
<1> QED
  BY <1>1, <1>2, <1>3

(* A map that has the keys and values of the elements.                     *)
StandsFor(m, U, g) ==
    /\ DOMAIN m = KeysOf(U) /\ m = [k \in DOMAIN m |-> m[k]]
    /\ \A e \in U : m[e.key] = g[e]

(* The map is determined by the values of its keys.                        *)
LEMMA MapIsAll ==
  ASSUME NEW U, NEW g, Keyed(U), NEW m, StandsFor(m, U, g)
  PROVE  MapOf(U, g) = m
<1>0. DOMAIN m = KeysOf(U) /\ m = [k \in DOMAIN m |-> m[k]] /\ \A e \in U : m[e.key] = g[e]
  BY DEF StandsFor
<1>1. \A k \in KeysOf(U) : MapOf(U, g)[k] = m[k]
  BY <1>0, MapIs
<1>2. MapOf(U, g) = [k \in KeysOf(U) |-> MapOf(U, g)[k]]
  BY DEF MapOf
<1>3. MapOf(U, g) = [k \in KeysOf(U) |-> m[k]]
  BY <1>1, <1>2
<1> QED
  BY <1>0, <1>3

(* A new element is a new key of the map.                                  *)
LEMMA MapAdd ==
  ASSUME NEW U, NEW g, Keyed(U), NEW e, Keyed(U \cup {e}), \A d \in U : d.key # e.key,
         NEW m, m = MapOf(U, g)
  PROVE  /\ IsInsert(MapOf(U \cup {e}, g), m, e.key, g[e])
         /\ IsPut(MapOf(U \cup {e}, g), m, e.key, g[e])
<1>1. PICK V : V = U \cup {e}
  OBVIOUS
<1>2. DOMAIN m = KeysOf(U) /\ KeysOf(V) = KeysOf(U) \cup {e.key} /\ e.key \notin KeysOf(U)
  <2>1. DOMAIN m = KeysOf(U)
    BY MapIs
  <2>2. \A k : k \in KeysOf(V) <=> k \in KeysOf(U) \/ k = e.key
    BY <1>1 DEF KeysOf
  <2>3. e.key \notin KeysOf(U)
    BY DEF KeysOf
  <2> QED
    BY <2>1, <2>2, <2>3
<1>3. PICK n : n = [j \in DOMAIN m \cup {e.key} |-> IF j \in DOMAIN m THEN m[j] ELSE g[e]]
  OBVIOUS
<1>4. n = [j \in DOMAIN m \cup {e.key} |-> IF j = e.key THEN g[e] ELSE m[j]]
  BY <1>2, <1>3
<1>5. ASSUME NEW d \in V PROVE n[d.key] = g[d]
  <2>1. CASE d \in U
    BY <1>2, <1>3, <2>1, MapIs
  <2>2. CASE d = e
    BY <1>2, <1>3, <2>2
  <2> QED
    BY <1>1, <2>1, <2>2
<1>6. DOMAIN n = KeysOf(V) /\ n = [k \in DOMAIN n |-> n[k]]
  BY <1>2, <1>3
<1>7. MapOf(V, g) = n
  <2>1. StandsFor(n, V, g)
    BY <1>5, <1>6 DEF StandsFor
  <2>2. Keyed(V)
    BY <1>1
  <2> QED
    BY <2>1, <2>2, MapIsAll
<1> QED
  BY <1>1, <1>3, <1>4, <1>7 DEF IsInsert, IsPut

(* Without an element the map loses its key. *)
LEMMA MapRemove ==
  ASSUME NEW U, NEW g, Keyed(U), NEW d \in U, NEW V, V = U \ {d}, NEW m, m = MapOf(U, g)
  PROVE  Keyed(V) /\ IsRemoval(MapOf(V, g), m, d.key)
<1>1. Keyed(V)
  BY DEF Keyed
<1>2. DOMAIN m = KeysOf(U) /\ KeysOf(V) = KeysOf(U) \ {d.key}
  <2>1. DOMAIN m = KeysOf(U)
    BY MapIs
  <2>2. ASSUME NEW k \in KeysOf(V) PROVE k \in KeysOf(U) \ {d.key}
    <3>1. PICK c \in V : c.key = k
      BY DEF KeysOf
    <3>2. c.key # d.key
      BY <3>1 DEF Keyed
    <3> QED
      BY <3>1, <3>2 DEF KeysOf
  <2>3. \A k \in KeysOf(U) \ {d.key} : k \in KeysOf(V)
    BY DEF KeysOf
  <2> QED
    BY <2>1, <2>2, <2>3
<1>3. PICK n : n = [k \in DOMAIN m \ {d.key} |-> m[k]]
  OBVIOUS
<1>4. ASSUME NEW c \in V PROVE n[c.key] = g[c]
  <2>1. c \in U /\ c.key # d.key
    BY DEF Keyed
  <2>2. c.key \in DOMAIN m /\ m[c.key] = g[c]
    BY <1>2, <2>1, MapIs
  <2> QED
    BY <1>3, <2>1, <2>2
<1>5. DOMAIN n = KeysOf(V) /\ n = [k \in DOMAIN n |-> n[k]]
  BY <1>2, <1>3
<1>6. MapOf(V, g) = n
  <2>1. StandsFor(n, V, g)
    BY <1>4, <1>5 DEF StandsFor
  <2> QED
    BY <1>1, <2>1, MapIsAll
<1> QED
  BY <1>1, <1>3, <1>6 DEF IsRemoval

(* An element that takes the place of another changes the value of a key.  *)
LEMMA MapReplace ==
  ASSUME NEW U, NEW g, Keyed(U), NEW d \in U, NEW e, e.key = d.key, NEW m, m = MapOf(U, g)
  PROVE  /\ Keyed((U \ {d}) \cup {e})
         /\ IsPut(MapOf((U \ {d}) \cup {e}, g), m, e.key, g[e])
<1>1. PICK V : V = (U \ {d}) \cup {e}
  OBVIOUS
<1>2. PICK n : n = [j \in DOMAIN m \cup {e.key} |-> IF j = e.key THEN g[e] ELSE m[j]]
  OBVIOUS
<1>3. Keyed(V) /\ \A c \in U \ {d} : c.key # e.key
  BY <1>1 DEF Keyed
<1>4. DOMAIN m = KeysOf(U) /\ \A c \in U : m[c.key] = g[c]
  BY MapIs
<1>5. KeysOf(V) = KeysOf(U) /\ e.key \in KeysOf(U)
  BY <1>1 DEF KeysOf
<1>6. DOMAIN n = KeysOf(V) /\ n = [k \in DOMAIN n |-> n[k]]
  BY <1>2, <1>4, <1>5
<1>7. ASSUME NEW c \in V PROVE n[c.key] = g[c]
  <2>1. c.key \in KeysOf(V)
    BY DEF KeysOf
  <2>2. CASE c = e
    BY <1>2, <1>6, <2>1, <2>2
  <2>3. CASE c \in U \ {d}
    BY <1>2, <1>3, <1>4, <1>6, <2>1, <2>3
  <2> QED
    BY <1>1, <2>2, <2>3
<1>8. MapOf(V, g) = n
  <2>1. StandsFor(n, V, g)
    BY <1>6, <1>7 DEF StandsFor
  <2> QED
    BY <1>3, <2>1, MapIsAll
<1> QED
  BY <1>1, <1>2, <1>3, <1>8 DEF IsPut

-----------------------------------------------------------------------------
(* HashMap.hpp: the elements are pairs of a key and a value. *)
Pairs == [key : Keys, val : Values]
ValueOf == [e \in Pairs |-> e.val]

(* An element becomes the last one of its bucket, as above. *)
LEMMA PlacedIs ==
  ASSUME NEW t, NEW e
  PROVE  Table!Placed(t, e) = [t EXCEPT ![Home(Len(t), e.key)] = Append(@, e)]
BY DEF Table!Placed, Table!Place, Home

HasKeys(Q) == \A e \in Q : e.key \in Keys

(* Placing keeps a table one of as many buckets.                           *)
LEMMA PlacedType ==
  ASSUME NEW Q, HasKeys(Q), NEW m \in Nat \ {0},
         NEW t \in [1 .. m -> Seq(Q)], NEW e \in Q
  PROVE  Table!Placed(t, e) \in [1 .. m -> Seq(Q)]
<1>1. Len(t) = m
  OBVIOUS
<1>2. PICK h \in 1 .. m : h = Home(Len(t), e.key)
  BY <1>1, HomeType DEF HasKeys
<1>3. PICK b \in Seq(Q) : b = Append(t[h], e)
  <2>1. t[h] \in Seq(Q)
    BY <1>2
  <2> QED
    BY <2>1, AppendProperties
<1>4. [t EXCEPT ![h] = b] \in [1 .. m -> Seq(Q)]
  OBVIOUS
<1>5. Table!Placed(t, e) = [t EXCEPT ![h] = b]
  BY <1>2, <1>3, PlacedIs
<1> QED
  BY <1>4, <1>5

(* What the fold of rehash computes, and its steps. *)
SpreadInto(base, s) == Table!FoldLeft(Table!Placed, base, s)
Spreads(r, base, s) ==
    /\ r[0] = base /\ SpreadInto(base, s) = r[Len(s)]
    /\ \A k \in 1 .. Len(s) : r[k] = Table!Placed(r[k - 1], s[k])

(* It does so one element after the other. *)
LEMMA SpreadFold ==
  ASSUME NEW Q, HasKeys(Q), NEW s \in Seq(Q), NEW m \in Nat \ {0},
         NEW base \in [1 .. m -> Seq(Q)]
  PROVE  \E r \in [0 .. Len(s) -> [1 .. m -> Seq(Q)]] : Spreads(r, base, s)
<1> DEFINE n == Len(s)
           V == [1 .. m -> Seq(Q)]
           h == [i \in 1 .. n |-> [v \in V |-> Table!Placed(v, s[i])]]
<1>1. n \in Nat /\ DOMAIN s = 1 .. n /\ \A i \in 1 .. n : s[i] \in Q
  BY LenProperties, ElementOfSeq
<1>2. \A v \in V, e \in Q : Table!Placed(v, e) \in V
  BY PlacedType
<1>3. base \in V
  OBVIOUS
<1>p. PICK P : P = V
  OBVIOUS
<1> HIDE DEF V
<1>4. h \in [1 .. n -> [V -> V]]
  BY <1>1, <1>2
<1>5. \A i \in 1 .. n, v \in V : h[i][v] = Table!Placed(v, s[i])
  OBVIOUS
<1> HIDE DEF h, n
<1>6. PICK g \in [SUBSET (1 .. n) -> V] : IsFold(g, n, base, h)
  BY <1>1, <1>3, <1>4, FoldExists DEF HasFold
<1> DEFINE iter == CHOOSE f : f = [t \in SUBSET (1 .. n) |->
               IF t = {} THEN base
               ELSE Table!Placed(f[t \ {Table!Max(t)}], s[Table!Max(t)])]
<1>7. g = [t \in SUBSET (1 .. n) |->
               IF t = {} THEN base
               ELSE Table!Placed(g[t \ {Table!Max(t)}], s[Table!Max(t)])]
  <2>0. \A t : Table!Max(t) = Max(t)
    BY DEF Table!Max, Max
  <2>1. ASSUME NEW t \in SUBSET (1 .. n)
        PROVE  g[t] = IF t = {} THEN base ELSE Table!Placed(g[t \ {Table!Max(t)}], s[Table!Max(t)])
    <3>1. CASE t = {}
      BY <1>6, <3>1 DEF IsFold
    <3>2. CASE t # {}
      <4>1. Max(t) \in 1 .. n
        BY <1>1, <3>2, GreatestNumber
      <4>2. g[t \ {Max(t)}] \in V
        BY <1>6
      <4>3. g[t] = h[Max(t)][g[t \ {Max(t)}]]
        BY <1>6, <3>2 DEF IsFold
      <4>4. g[t] = Table!Placed(g[t \ {Max(t)}], s[Max(t)])
        BY <1>5, <4>1, <4>2, <4>3
      <4> QED
        BY <2>0, <3>2, <4>4
    <3> QED
      BY <3>1, <3>2
  <2> QED
    BY <2>1
<1>8. iter = [t \in SUBSET (1 .. n) |->
               IF t = {} THEN base
               ELSE Table!Placed(iter[t \ {Table!Max(t)}], s[Table!Max(t)])]
  BY <1>7, Zenon
<1>9. SpreadInto(base, s) = iter[1 .. n]
  BY <1>1, Zenon DEF SpreadInto, Table!FoldLeft, Table!MapThenFoldSet
<1> HIDE DEF iter
<1> DEFINE r == [k \in 0 .. n |-> iter[1 .. k]]
<1>10. r[0] = base /\ SpreadInto(base, s) = r[n]
  <2>1. iter[{}] = base
    BY <1>8
  <2>2. 1 .. 0 = {} /\ 0 \in 0 .. n /\ n \in 0 .. n
    BY <1>1
  <2> QED
    BY <1>9, <2>1, <2>2
<1>11. ASSUME NEW k \in 1 .. n PROVE r[k] = Table!Placed(r[k - 1], s[k])
  <2>1. /\ 1 .. k \in SUBSET (1 .. n) /\ 1 .. k # {} /\ Table!Max(1 .. k) = k
        /\ (1 .. k) \ {k} = 1 .. k - 1
    BY <1>1, FirstPositions DEF Table!Max, Max
  <2>2. iter[1 .. k] = Table!Placed(iter[1 .. k - 1], s[k])
    BY <1>8, <2>1
  <2>3. k \in 0 .. n /\ k - 1 \in 0 .. n
    BY <1>1
  <2> QED
    BY <2>2, <2>3
<1>12. r = [k \in 0 .. n |-> r[k]]
  OBVIOUS
<1> HIDE DEF r
<1>13. \A k \in 1 .. n : r[k - 1] \in V => r[k] \in V
  BY <1>1, <1>2, <1>11
<1>14. r \in [0 .. n -> V]
  BY <1>1, <1>3, <1>10, <1>12, <1>13, StepsType
<1> QED
  BY <1>10, <1>11, <1>14 DEF n, V, Spreads

-----------------------------------------------------------------------------
(* A number has a quotient and a rest.                                     *)
LEMMA Division ==
  ASSUME NEW x \in Nat, NEW n \in Nat \ {0}
  PROVE  x % n \in 0 .. n - 1 /\ x \div n \in Nat /\ x = n * (x \div n) + (x % n)
OBVIOUS

(* And no other. *)
LEMMA Rest ==
  ASSUME NEW x \in Nat, NEW n \in Nat \ {0}, NEW a \in Nat, NEW b \in 0 .. n - 1, x = n * a + b
  PROVE  x % n = b
OBVIOUS

(* Keys that share a bucket of the doubled table shared one before.        *)
LEMMA HomeOfDouble ==
  ASSUME NEW n \in Nat \ {0}, NEW j \in Keys, NEW k \in Keys, Home(2 * n, j) = Home(2 * n, k)
  PROVE  Home(n, j) = Home(n, k)
<1>0. ASSUME NEW y \in Nat, NEW p \in Nat \ {0}
      PROVE  \E a \in Nat, c \in 0 .. p - 1 : y = p * a + c /\ c = y % p
  <2> DEFINE e == y \div p
             f == y % p
  <2>1. e \in Nat /\ f \in 0 .. p - 1 /\ y = p * e + f
    BY Division
  <2> QED
    BY <2>1
<1>m. PICK m \in Nat \ {0} : m = 2 * n
  OBVIOUS
<1>1. ASSUME NEW x \in Nat PROVE x % n = (x % m) % n
  <2>2. PICK a \in Nat, c \in 0 .. m - 1 : x = m * a + c /\ c = x % m
    BY <1>0
  <2>a. c \in Nat
    OBVIOUS
  <2>3. PICK b \in Nat, d \in 0 .. n - 1 : c = n * b + d /\ d = c % n
    BY <1>0, <2>a
  <2>4. x = n * (2 * a + b) + d
    <3>1. PICK u, v, w : u = m * a /\ v = n * b /\ w = n * (2 * a + b)
      OBVIOUS
    <3>2. u \in Nat /\ v \in Nat /\ w = u + v
      BY <1>m, <3>1
    <3>3. x = u + (v + d)
      BY <2>2, <2>3, <3>1
    <3> QED
      BY <3>1, <3>2, <3>3
  <2>5. 2 * a + b \in Nat
    OBVIOUS
  <2>6. x % n = d
    BY <2>4, <2>5, Rest
  <2> QED
    BY <2>2, <2>3, <2>6
<1>2. Hash[j] \in Nat /\ Hash[k] \in Nat
  BY ComponentsAssumption DEF Table!TableAssumption
<1>3. Hash[j] % m = Hash[k] % m
  <2>1. PICK x \in Nat, y \in Nat : x = Hash[j] /\ y = Hash[k]
    BY <1>2
  <2>2. x % m \in Nat /\ y % m \in Nat
    BY Division
  <2>3. (x % m) + 1 = (y % m) + 1
    BY <1>m, <2>1 DEF Home
  <2> QED
    BY <2>1, <2>2, <2>3
<1>4. Hash[j] % n = (Hash[j] % m) % n /\ Hash[k] % n = (Hash[k] % m) % n
  BY <1>1, <1>2
<1> QED
  BY <1>3, <1>4 DEF Home

(* FlattenSeq is the same in each module.                                  *)
LEMMA SameFlatten ==
  ASSUME NEW t
  PROVE  Table!FlattenSeq(t) = FlattenSeq(t) /\ Zhash!FlattenSeq(t) = FlattenSeq(t)
BY DEF Table!FlattenSeq, Zhash!FlattenSeq, FlattenSeq

(* rehash takes every element to a new table. *)
LEMMA SpreadHolds ==
  ASSUME NEW t, NEW U, Holds(t, U), NEW m \in Nat \ {0}, NEW new,
         new = SpreadInto([b \in 1 .. m |-> <<>>], FlattenSeq(t))
  PROVE  Holds(new, U) /\ Len(new) = m
<1>1. PICK s : s = FlattenSeq(t)
  OBVIOUS
<1>2. Lists(s, U)
  BY <1>1, HoldsFlat
<1>3. PICK n \in Nat : n = Len(s) /\ DOMAIN s = 1 .. n /\ s \in Seq(U)
  BY <1>2 DEF Lists
<1>4. PICK base \in [1 .. m -> Seq(U)] : base = [b \in 1 .. m |-> <<>>]
  <2>1. <<>> \in Seq(U)
    OBVIOUS
  <2> QED
    BY <2>1
<1>5. \A e \in U : e.key \in Keys
  BY DEF Holds, Keyed
<1>c. HasKeys(U)
  BY <1>5 DEF HasKeys
<1>a. new = SpreadInto(base, s) /\ Len(s) = n
  BY <1>1, <1>3, <1>4
<1>b. PICK f \in [0 .. Len(s) -> [1 .. m -> Seq(U)]] : Spreads(f, base, s)
  <2>1. s \in Seq(U) /\ base \in [1 .. m -> Seq(U)]
    BY <1>3
  <2> QED
    BY <1>c, <2>1, SpreadFold
<1>6. PICK r \in [0 .. n -> [1 .. m -> Seq(U)]] :
         /\ r[0] = base /\ new = r[n]
         /\ \A k \in 1 .. n : r[k] = Table!Placed(r[k - 1], s[k])
  BY <1>a, <1>b DEF Spreads
<1> DEFINE W(k) == {s[i] : i \in 1 .. k}
           T == {k \in 0 .. n : Holds(r[k], W(k)) /\ Len(r[k]) = m}
<1>7. 0 \in T
  <2>1. Holds(base, {}) /\ Len(base) = m
    BY <1>4, HoldsNothing
  <2>2. W(0) = {} /\ 0 \in 0 .. n
    BY <1>3
  <2> HIDE DEF W
  <2> QED
    BY <1>6, <2>1, <2>2
<1>8. ASSUME NEW k \in 1 .. n, k - 1 \in T PROVE k \in T
  <2>1. PICK p, X : p = r[k - 1] /\ X = W(k - 1)
    OBVIOUS
  <2>2. Holds(p, X) /\ Len(p) = m
    BY <1>8, <2>1
  <2>3. PICK e \in U : e = s[k]
    BY <1>3
  <2>4. e.key \in Keys
    BY <1>5
  <2>5. \A d \in X : d.key # e.key
    <3>1. ASSUME NEW i \in 1 .. k - 1 PROVE s[i].key # e.key
      <4>1. i \in 1 .. n /\ i # k
        BY <1>3
      <4>2. s[i] \in U
        BY <1>3, <4>1
      <4>3. s[i] # e
        BY <1>2, <1>3, <2>3, <4>1 DEF Lists
      <4> QED
        BY <4>2, <4>3 DEF Holds, Keyed
    <3> QED
      BY <2>1, <3>1
  <2>6. PICK next : next = [p EXCEPT ![Home(Len(p), e.key)] = Append(@, e)]
    OBVIOUS
  <2>7. Holds(next, X \cup {e}) /\ Len(next) = m
    BY <2>2, <2>4, <2>5, <2>6, HoldsAdd
  <2>8. r[k] = next
    BY <1>6, <2>1, <2>3, <2>6, PlacedIs
  <2>9. W(k) = X \cup {e}
    <3>1. 1 .. k = (1 .. k - 1) \cup {k}
      BY <1>3
    <3> QED
      BY <2>1, <2>3, <3>1
  <2> HIDE DEF W
  <2>10. Holds(r[k], W(k)) /\ Len(r[k]) = m
    BY <2>7, <2>8, <2>9
  <2>11. k \in 0 .. n
    OBVIOUS
  <2> QED
    BY <2>10, <2>11
<1> HIDE DEF T
<1>9. n \in T
  <2>1. \A k \in 0 .. n : k \in T
    BY <1>7, <1>8, BoundedInduction
  <2> QED
    BY <2>1
<1>10. W(n) = U
  BY <1>2, <1>3 DEF Lists
<1> QED
  BY <1>6, <1>9, <1>10 DEF T

(* And none of its buckets is longer than one was before, if the table is  *)
(* doubled.                                                                *)
LEMMA DoubleFits ==
  ASSUME NEW t, NEW U, Holds(t, U), NEW new, Holds(new, U), Len(new) = 2 * Len(t), NEW b \in DOMAIN new
  PROVE  Len(new[b]) = 0 \/ \E c \in DOMAIN t : Len(new[b]) <= Len(t[c])
<1>1. PICK n \in Nat \ {0} : n = Len(t) /\ DOMAIN t = 1 .. n
  BY DEF Holds
<1>2. PICK S : S = At(U, 2 * n, b)
  OBVIOUS
<1>3. Lists(new[b], S)
  BY <1>1, <1>2 DEF Holds
<1>4. CASE S = {}
  BY <1>3, <1>4 DEF Lists
<1>5. CASE S # {}
  <2>1. PICK d \in S : TRUE
    BY <1>5
  <2>2. PICK c : c = Home(n, d.key)
    OBVIOUS
  <2>3. \A e \in S : e \in U /\ e.key \in Keys /\ Home(2 * n, e.key) = b
    BY <1>2 DEF At, Holds, Keyed
  <2>4. c \in DOMAIN t
    BY <1>1, <2>2, <2>3, HomeType
  <2>5. \A e \in S : Home(n, e.key) = c
    BY <1>1, <2>2, <2>3, HomeOfDouble
  <2>6. S \subseteq At(U, n, c)
    BY <2>3, <2>5 DEF At
  <2>7. Lists(t[c], At(U, n, c))
    BY <1>1, <2>4 DEF Holds
  <2> QED
    BY <1>3, <2>4, <2>6, <2>7, ListsShorter
<1> QED
  BY <1>4, <1>5

(* The map of a table, for a table that need not be the one of this state. *)
Found(t, k) == Table!Index(t[Home(Len(t), k)], k)
Mapped(t) == [k \in {j \in Keys : Found(t, j) # 0} |-> t[Home(Len(t), k)][Found(t, k)].val]

(* It is that of its elements. *)
LEMMA MappedIs ==
  ASSUME NEW U \in SUBSET Pairs, NEW t, Holds(t, U)
  PROVE  /\ Mapped(t) = MapOf(U, ValueOf)
         /\ \A k \in Keys : Found(t, k) # 0 <=> k \in KeysOf(U)
         /\ {k \in Keys : Found(t, k) # 0} = KeysOf(U)
<1>1. Keyed(U)
  BY DEF Holds
<1>2. ASSUME NEW e \in U
      PROVE  e.key \in Keys /\ Found(t, e.key) # 0 /\ t[Home(Len(t), e.key)][Found(t, e.key)] = e
  <2>1. PICK k \in Keys : k = e.key
    BY <1>1 DEF Keyed
  <2>2. PICK bucket : bucket = t[Home(Len(t), k)]
    OBVIOUS
  <2>3. PICK i \in 1 .. Len(bucket) : i = Table!Index(bucket, k) /\ bucket[i] = e
    BY <2>1, <2>2, FoundPlace
  <2>4. Len(bucket) \in Nat
    BY <2>2, HoldsBucket
  <2>5. Table!Index(bucket, k) # 0
    BY <2>3, <2>4
  <2> QED
    BY <2>1, <2>2, <2>3, <2>5 DEF Found
<1>3. ASSUME NEW k \in Keys, k \notin KeysOf(U) PROVE Found(t, k) = 0
  <2>1. \A e \in U : e.key # k
    BY <1>3 DEF KeysOf
  <2> QED
    BY <2>1, FoundPlace DEF Found
<1>4. \A k \in KeysOf(U) : k \in Keys /\ Found(t, k) # 0
  BY <1>2 DEF KeysOf
<1>5. {k \in Keys : Found(t, k) # 0} = KeysOf(U)
  BY <1>3, <1>4
<1>6. PICK m : m = Mapped(t)
  OBVIOUS
<1>7. DOMAIN m = KeysOf(U) /\ m = [k \in DOMAIN m |-> m[k]]
  BY <1>5, <1>6 DEF Mapped
<1>8. ASSUME NEW e \in U PROVE m[e.key] = ValueOf[e]
  <2>1. e.key \in KeysOf(U)
    BY DEF KeysOf
  <2>2. m[e.key] = t[Home(Len(t), e.key)][Found(t, e.key)].val
    BY <1>5, <1>6, <2>1 DEF Mapped
  <2>3. ValueOf[e] = e.val
    BY DEF ValueOf
  <2> QED
    BY <1>2, <2>2, <2>3
<1>9. MapOf(U, ValueOf) = m
  <2>1. StandsFor(m, U, ValueOf)
    BY <1>7, <1>8 DEF StandsFor
  <2> QED
    BY <1>1, <2>1, MapIsAll
<1> QED
  BY <1>3, <1>4, <1>5, <1>6, <1>7, <1>9

(* HashMap's map and keys are those of its table, before a step and after. *)
LEMMA TableMap ==
  /\ Table!Map = Mapped(data) /\ Table!Map' = Mapped(data')
  /\ Table!Present = {k \in Keys : Found(data, k) # 0}
  /\ \A k : Table!IsIn(k) <=> Found(data, k) # 0
BY DEF Table!Map, Table!Present, Table!IsIn, Table!BucketOf, Table!Place, Mapped, Found, Home

(* There are as many keys as elements. *)
LEMMA KeysCount ==
  ASSUME NEW U, Keyed(U), IsFiniteSet(U)
  PROVE  IsFiniteSet(KeysOf(U)) /\ Cardinality(KeysOf(U)) = Cardinality(U)
<1> DEFINE f == [e \in U |-> e.key]
<1>1. f \in Bijection(U, KeysOf(U))
  <2>1. f \in [U -> KeysOf(U)]
    BY DEF KeysOf
  <2>2. \A d, e \in U : f[d] = f[e] => d = e
    BY DEF Keyed
  <2>3. \A k \in KeysOf(U) : \E e \in U : f[e] = k
    BY DEF KeysOf
  <2> HIDE DEF f
  <2> QED
    BY <2>1, <2>2, <2>3, Fun_IsBij
<1>2. ExistsBijection(U, KeysOf(U))
  BY <1>1 DEF ExistsBijection
<1> QED
  BY <1>2, FS_Bijection

-----------------------------------------------------------------------------
(* The invariant of HashMap: its buckets hold some pairs, of which no more *)
(* are counted than were put in, and no bucket is too full.                *)
Fits(t) == \A b \in DOMAIN t : Len(t[b]) <= BucketSize
TableHolds(t, n) == Fits(t) /\ \E U \in SUBSET Pairs : Holds(t, U) /\ n >= Cardinality(U)
TableInv ==
    /\ n_elements \in Nat /\ found \in BOOLEAN /\ overfull = FALSE
    /\ op = Table!Idle \/ (op.key \in Keys /\ op.val \in Values)
    /\ TableHolds(data, n_elements)

(* What a step says of the map. *)
LEMMA TableStays ==
  ASSUME Table!Map' = Table!Map, found' = found
  PROVE  Table!IsAMap
BY DEF Table!IsAMap

(* A lookup is one. *)
LEMMA TableGet ==
  ASSUME NEW k \in Keys, Table!Map' = Table!Map, found' = (k \in DOMAIN Table!Map)
  PROVE  Table!IsAMap
BY DEF Table!IsAMap, Table!Contract!Next, Table!Contract!Get

(* A value is written, whether the key had one or not. *)
LEMMA TablePut ==
  ASSUME NEW k \in Keys, NEW v \in Values, NEW m, m = Table!Map,
         IsPut(Table!Map', m, k, v),
         found' = (k \in DOMAIN m)
  PROVE  Table!IsAMap
BY DEF Table!IsAMap, Table!Contract!Next, Table!Contract!Put, IsPut

(* A value is written if the key had none. *)
LEMMA TableInsert ==
  ASSUME NEW k \in Keys, NEW v \in Values, NEW m, m = Table!Map,
         IsInsert(Table!Map', m, k, v),
         found' = (k \in DOMAIN m)
  PROVE  Table!IsAMap
BY DEF Table!IsAMap, Table!Contract!Next, Table!Contract!Insert, IsInsert

(* A key is taken out. *)
LEMMA TableRemove ==
  ASSUME NEW k \in Keys, NEW m, m = Table!Map,
         IsRemoval(Table!Map', m, k), found' = (k \in DOMAIN m)
  PROVE  Table!IsAMap
BY DEF Table!IsAMap, Table!Contract!Next, Table!Contract!Remove, Table!Contract!Restrict, IsRemoval

-----------------------------------------------------------------------------
IsAt(t, k, i, e) ==
    /\ e.key = k /\ i \in 1 .. Len(t[Home(Len(t), k)])
    /\ t[Home(Len(t), k)][i] = e
Replaces(s, t, k, i, d) == s = [t EXCEPT ![Home(Len(t), k)] = [@ EXCEPT ![i] = d]]

(* The element of a key takes the place of the one it had, which changes   *)
(* neither the number of elements nor the length of a bucket.              *)
LEMMA HoldsReplace ==
  ASSUME NEW t, NEW U, Holds(t, U), NEW e \in U, NEW d, NEW k \in Keys, NEW i,
         IsAt(t, k, i, e), d.key = k, NEW s, Replaces(s, t, k, i, d)
  PROVE  /\ Holds(s, (U \ {e}) \cup {d}) /\ Len(s) = Len(t)
         /\ \A b \in DOMAIN s : Len(s[b]) = Len(t[b])
         /\ IsFiniteSet(U) /\ Cardinality((U \ {e}) \cup {d}) = Cardinality(U)
<1>i. /\ e.key = k /\ d.key = k /\ i \in 1 .. Len(t[Home(Len(t), k)])
      /\ t[Home(Len(t), k)][i] = e
  BY DEF IsAt
<1>1. PICK n, h : n = Len(t) /\ h = Home(Len(t), k)
  OBVIOUS
<1>2. PICK S, V : S = At(U, n, h) /\ V = (U \ {e}) \cup {d}
  OBVIOUS
<1>b. PICK bucket : bucket = [t[h] EXCEPT ![i] = d]
  OBVIOUS
<1>3. Lists(t[h], S) /\ h \in DOMAIN t /\ i \in DOMAIN t[h]
  BY <1>i, <1>1, <1>2, HoldsBucket DEF Lists
<1>4. Keyed(U)
  BY DEF Holds
<1>5. d \notin U \ {e}
  BY <1>i, <1>4 DEF Keyed
<1>6. Keyed(V)
  BY <1>i, <1>2, <1>4 DEF Keyed
<1>7. At(V, n, h) = (S \ {e}) \cup {d}
  BY <1>i, <1>1, <1>2 DEF At
<1>8. Lists(bucket, At(V, n, h))
  <2>1. d \notin S \ {t[h][i]}
    BY <1>i, <1>1, <1>2, <1>5 DEF At
  <2>2. Lists([t[h] EXCEPT ![i] = d], (S \ {t[h][i]}) \cup {d})
    BY <1>i, <1>3, <2>1, ListsReplace
  <2> QED
    BY <1>i, <1>1, <1>b, <1>7, <2>2
<1>9. SameBut(U, V, k)
  BY <1>i, <1>2 DEF SameBut
<1>11. Holds(s, V) /\ Len(s) = Len(t)
  <2>1. Lists(bucket, At(V, Len(t), Home(Len(t), k)))
    BY <1>i, <1>1, <1>8
  <2>2. Updates(s, t, k, bucket)
    BY <1>i, <1>1, <1>3, <1>b DEF Updates, Replaces
  <2> QED
    BY <1>i, <1>6, <1>9, <2>1, <2>2, HoldsUpdate
<1>12. \A b \in DOMAIN s : Len(s[b]) = Len(t[b])
  <2>1. DOMAIN s = DOMAIN t /\ s[h] = bucket /\ \A b \in DOMAIN t : b # h => s[b] = t[b]
    BY <1>i, <1>1, <1>3, <1>b DEF Replaces
  <2>2. Len(bucket) = Len(t[h])
    BY <1>i, <1>1, <1>3, <1>b DEF Lists
  <2> QED
    BY <2>1, <2>2
<1>13. IsFiniteSet(U) /\ IsFiniteSet(V) /\ Cardinality(V) = Cardinality(U)
  <2>1. IsFiniteSet(U) /\ IsFiniteSet(V)
    BY <1>i, <1>11, HoldsFlat, ListsCount
  <2>2. KeysOf(U) = KeysOf(V)
    BY <1>i, <1>2 DEF KeysOf
  <2> QED
    BY <1>i, <1>4, <1>6, <2>1, <2>2, KeysCount
<1> QED
  BY <1>i, <1>2, <1>11, <1>12, <1>13

(* The element of a key leaves its bucket. *)
LEMMA HoldsWithout ==
  ASSUME NEW t, NEW U, Holds(t, U), NEW e \in U, NEW k \in Keys, e.key = k,
         NEW bucket, Lists(bucket, At(U, Len(t), Home(Len(t), k)) \ {e}),
         NEW s, Updates(s, t, k, bucket)
  PROVE  /\ Holds(s, U \ {e}) /\ Len(s) = Len(t)
         /\ \A b \in DOMAIN s : Len(s[b]) <= Len(t[b])
         /\ IsFiniteSet(U) /\ Cardinality(U \ {e}) = Cardinality(U) - 1 /\ Cardinality(U) \in Nat
<1>1. PICK n, h : n = Len(t) /\ h = Home(Len(t), k)
  OBVIOUS
<1>2. PICK S, V : S = At(U, n, h) /\ V = U \ {e}
  OBVIOUS
<1>3. Lists(t[h], S) /\ h \in DOMAIN t
  BY <1>1, <1>2, HoldsBucket
<1>4. At(V, n, h) = S \ {e}
  BY <1>2 DEF At
<1>5. Keyed(V)
  BY <1>2 DEF Holds, Keyed
<1>6. SameBut(U, V, k)
  BY <1>2 DEF SameBut
<1>8. Lists(bucket, At(V, Len(t), Home(Len(t), k)))
  BY <1>1, <1>2, <1>4
<1>9. Holds(s, V) /\ Len(s) = Len(t)
  BY <1>5, <1>6, <1>8, HoldsUpdate
<1>10. \A b \in DOMAIN s : Len(s[b]) <= Len(t[b])
  <2>1. DOMAIN s = DOMAIN t /\ s[h] = bucket /\ \A b \in DOMAIN t : b # h => s[b] = t[b]
    BY <1>1, <1>3 DEF Updates
  <2>2. Lists(bucket, S \ {e})
    BY <1>1, <1>2
  <2>3. Len(bucket) <= Len(t[h])
    BY <1>3, <2>2, ListsShorter
  <2>4. \A b \in DOMAIN t : Len(t[b]) \in Nat
    BY DEF Holds, Lists
  <2> QED
    BY <2>1, <2>3, <2>4
<1>11. IsFiniteSet(U)
  BY HoldsFlat, ListsCount
<1> QED
  BY <1>2, <1>9, <1>10, <1>11, FS_RemoveElement, FS_CardinalityType

Appends(s, t, e) == s = [t EXCEPT ![Home(Len(t), e.key)] = Append(@, e)]

(* An element with a new key joins its bucket.                             *)
LEMMA HoldsPlaced ==
  ASSUME NEW t, NEW U, Holds(t, U), NEW e, e.key \in Keys, \A d \in U : d.key # e.key,
         NEW s, Appends(s, t, e)
  PROVE  /\ Holds(s, U \cup {e}) /\ Len(s) = Len(t)
         /\ DOMAIN s = DOMAIN t
         /\ Len(s[Home(Len(t), e.key)]) = Len(t[Home(Len(t), e.key)]) + 1
         /\ \A b \in DOMAIN t : b # Home(Len(t), e.key) => s[b] = t[b]
         /\ Cardinality(U \cup {e}) = Cardinality(U) + 1 /\ Cardinality(U) \in Nat
<1>1. Holds(s, U \cup {e}) /\ Len(s) = Len(t)
  BY HoldsAdd DEF Appends
<1>2. PICK h : h = Home(Len(t), e.key)
  OBVIOUS
<1>3. Lists(t[h], At(U, Len(t), h)) /\ h \in DOMAIN t
  BY <1>2, HoldsBucket
<1>4. s = [t EXCEPT ![h] = Append(@, e)]
  BY <1>2 DEF Appends
<1>5. DOMAIN s = DOMAIN t /\ s[h] = Append(t[h], e) /\ \A b \in DOMAIN t : b # h => s[b] = t[b]
  BY <1>3, <1>4
<1>6. Len(Append(t[h], e)) = Len(t[h]) + 1
  BY <1>3 DEF Lists
<1>7. IsFiniteSet(U) /\ e \notin U
  BY HoldsFlat, ListsCount
<1> QED
  BY <1>1, <1>2, <1>5, <1>6, <1>7, FS_AddElement, FS_CardinalityType

-----------------------------------------------------------------------------
(* A rehash keeps the elements, and overfills no bucket. *)
LEMMA RehashKeeps ==
  ASSUME TableInv, Table!Rehash
  PROVE  /\ overfull' = FALSE /\ TableHolds(data', n_elements) /\ Mapped(data') = Mapped(data)
<1>1. PICK U \in SUBSET Pairs : Holds(data, U) /\ n_elements >= Cardinality(U)
  BY DEF TableInv, TableHolds
<1>2. PICK m \in Nat \ {0} : m = 2 * Len(data)
  <2>1. Len(data) \in Nat \ {0}
    BY <1>1 DEF Holds
  <2> QED
    BY <2>1
<1>3. PICK new : new = SpreadInto([b \in 1 .. m |-> <<>>], FlattenSeq(data))
  OBVIOUS
<1>4. Holds(new, U) /\ Len(new) = m
  BY <1>1, <1>3, SpreadHolds
<1>5. Fits(new)
  <2>1. Fits(data) /\ BucketSize \in Nat
    BY ComponentsAssumption DEF TableInv, TableHolds, Table!TableAssumption
  <2>2. \A c \in DOMAIN data : Len(data[c]) \in Nat
    BY <1>1 DEF Holds, Lists
  <2>3. \A b \in DOMAIN new : Len(new[b]) \in Nat
    BY <1>4 DEF Holds, Lists
  <2>4. \A b \in DOMAIN new : Len(new[b]) = 0 \/ \E c \in DOMAIN data : Len(new[b]) <= Len(data[c])
    BY <1>1, <1>2, <1>4, DoubleFits
  <2> QED
    BY <2>1, <2>2, <2>3, <2>4 DEF Fits
<1>6. new = Table!Spread(2 * Len(data))
  <2>1. Table!Spread(m) = Table!FoldLeft(Table!Placed, [b \in 1 .. m |-> <<>>], Table!FlattenSeq(data))
    BY Zenon DEF Table!Spread
  <2>2. Table!FlattenSeq(data) = FlattenSeq(data)
    BY SameFlatten
  <2>3. SpreadInto([b \in 1 .. m |-> <<>>], FlattenSeq(data))
          = Table!FoldLeft(Table!Placed, [b \in 1 .. m |-> <<>>], FlattenSeq(data))
    BY Zenon DEF SpreadInto
  <2> QED
    BY <1>2, <1>3, <2>1, <2>2, <2>3, Zenon
<1>7. ~ \E b \in DOMAIN new : Len(new[b]) > BucketSize
  <2>1. BucketSize \in Nat
    BY ComponentsAssumption DEF Table!TableAssumption
  <2>2. \A b \in DOMAIN new : Len(new[b]) \in Nat
    BY <1>4 DEF Holds, Lists
  <2> QED
    BY <1>5, <2>1, <2>2 DEF Fits
<1>8. data' = new /\ overfull' = overfull
  BY <1>6, <1>7 DEF Table!Rehash
<1>9. Mapped(new) = Mapped(data)
  BY <1>1, <1>4, MappedIs
<1>10. TableHolds(new, n_elements)
  BY <1>1, <1>4, <1>5 DEF TableHolds
<1> QED
  BY <1>8, <1>9, <1>10 DEF TableInv

(* Buckets with nothing in them hold nothing, whatever is counted. *)
LEMMA TableEmpty ==
  ASSUME NEW m \in Nat \ {0}, NEW n \in Nat
  PROVE  /\ Holds([b \in 1 .. m |-> <<>>], {})
         /\ TableHolds([b \in 1 .. m |-> <<>>], n)
<1>1. PICK t : t = [b \in 1 .. m |-> <<>>]
  OBVIOUS
<1>2. Holds(t, {})
  BY <1>1, HoldsNothing
<1>3. Fits(t)
  <2>1. BucketSize \in Nat
    BY ComponentsAssumption DEF Table!TableAssumption
  <2> QED
    BY <1>1, <2>1 DEF Fits
<1>4. {} \in SUBSET Pairs /\ n >= Cardinality({})
  BY FS_EmptySet
<1> QED
  BY <1>1, <1>2, <1>3, <1>4 DEF TableHolds

(* Initially the table holds nothing. *)
LEMMA TableInit ==
  ASSUME Table!Init
  PROVE  TableInv
<1>1. PICK m \in Nat \ {0} : m = InitialBuckets
  BY ComponentsAssumption DEF Table!TableAssumption
<1>2. TableHolds(data, n_elements)
  BY <1>1, TableEmpty DEF Table!Init
<1>3. found \in BOOLEAN /\ overfull = FALSE
  BY DEF Table!Init
<1>4. n_elements \in Nat /\ op = Table!Idle
  BY DEF Table!Init
<1> QED
  BY <1>2, <1>3, <1>4 DEF TableInv

(* Cardinality is the same in each module. *)
LEMMA SameCardinality ==
  ASSUME NEW S
  PROVE  Table!Cardinality(S) = Cardinality(S) /\ Zhash!Cardinality(S) = Cardinality(S)
BY DEF Table!Cardinality, Zhash!Cardinality, Cardinality

(* The invariant is what HashMap promises of its buckets.                  *)
LEMMA TableExact ==
  ASSUME TableInv
  PROVE  Table!RehashSucceeds /\ Table!BucketsHold
<1>1. PICK U \in SUBSET Pairs : Holds(data, U) /\ n_elements >= Cardinality(U)
  BY DEF TableInv, TableHolds
<1>2. Table!Present = KeysOf(U)
  BY <1>1, MappedIs, TableMap
<1>3. Lists(FlattenSeq(data), U)
  BY <1>1, HoldsFlat
<1>4. IsFiniteSet(U) /\ Cardinality(U) = Len(FlattenSeq(data))
  BY <1>3, ListsCount
<1>5. Cardinality(KeysOf(U)) = Cardinality(U)
  BY <1>1, <1>4, KeysCount DEF Holds
<1>6. Table!FlattenSeq(data) = FlattenSeq(data)
  BY SameFlatten
<1>7. Table!RehashSucceeds
  BY DEF TableInv, Table!RehashSucceeds
<1>8. /\ n_elements >= Table!Cardinality(Table!Present)
      /\ Len(Table!FlattenSeq(data)) = Table!Cardinality(Table!Present)
  BY <1>1, <1>2, <1>4, <1>5, <1>6, SameCardinality
<1>9. Fits(data)
  BY DEF TableInv, TableHolds
<1> QED
  BY <1>7, <1>8, <1>9 DEF Fits, Table!BucketsHold

(* A key that is found is that of an element of its bucket.                *)
LEMMA TableFound ==
  ASSUME NEW U \in SUBSET Pairs, Holds(data, U), NEW k \in Keys, Found(data, k) # 0
  PROVE  \E e \in U :
            /\ e.key = k /\ Found(data, k) \in 1 .. Len(data[Home(Len(data), k)])
            /\ data[Home(Len(data), k)][Found(data, k)] = e
<1>1. k \in KeysOf(U)
  BY MappedIs
<1>2. PICK e \in U : e.key = k
  BY <1>1 DEF KeysOf
<1> QED
  BY <1>2, FoundPlace DEF Found

(* An insertion begins or goes on by a rehash, or without one.             *)
LEMMA BeginKeeps ==
  ASSUME TableInv, NEW k \in Keys, NEW v \in Values, Table!BeginInsert(k, v) \/ Table!BeginAssign(k, v)
  PROVE  TableInv' /\ Table!IsAMap
<1>1. n_elements' = n_elements /\ found' = found
  BY DEF Table!BeginInsert, Table!BeginAssign
<1>2. op'.key \in Keys /\ op'.val \in Values
  BY DEF Table!BeginInsert, Table!BeginAssign, Table!Begin
<1>3. Table!Rehash \/ (data' = data /\ overfull' = overfull)
  BY DEF Table!BeginInsert, Table!BeginAssign
<1>4. overfull' = FALSE /\ TableHolds(data', n_elements) /\ Mapped(data') = Mapped(data)
  <2>1. CASE Table!Rehash
    BY <2>1, RehashKeeps
  <2>2. CASE data' = data /\ overfull' = overfull
    BY <2>2 DEF TableInv
  <2> QED
    BY <1>3, <2>1, <2>2
<1>5. Table!Map' = Table!Map
  BY <1>4, TableMap
<1>6. TableInv'
  BY <1>1, <1>2, <1>4 DEF TableInv
<1> QED
  BY <1>1, <1>5, <1>6, TableStays

(* Which it does until the bucket of the key has room. *)
LEMMA RehashAgainKeeps ==
  ASSUME TableInv, Table!RehashAgain
  PROVE  TableInv' /\ Table!IsAMap
<1>1. n_elements' = n_elements /\ found' = found /\ op' = op
  BY DEF Table!RehashAgain
<1>2. Table!Rehash
  BY DEF Table!RehashAgain
<1>3. overfull' = FALSE /\ TableHolds(data', n_elements) /\ Mapped(data') = Mapped(data)
  BY <1>2, RehashKeeps
<1>4. Table!Map' = Table!Map
  BY <1>3, TableMap
<1>5. TableInv'
  BY <1>1, <1>3 DEF TableInv
<1> QED
  BY <1>1, <1>4, <1>5, TableStays

(* The value of a key that is there is overwritten. *)
LEMMA AssignKeeps ==
  ASSUME TableInv, NEW k \in Keys, NEW v \in Values, Table!AssignPresent(k, v)
  PROVE  TableInv' /\ Table!IsAMap
<1>1. PICK U \in SUBSET Pairs : Holds(data, U) /\ n_elements >= Cardinality(U)
  BY DEF TableInv, TableHolds
<1>2. Found(data, k) # 0
  BY TableMap DEF Table!AssignPresent
<1>3. PICK e \in U :
         /\ e.key = k /\ Found(data, k) \in 1 .. Len(data[Home(Len(data), k)])
         /\ data[Home(Len(data), k)][Found(data, k)] = e
  BY <1>1, <1>2, TableFound
<1>4. PICK d : d = [key |-> k, val |-> v]
  OBVIOUS
<1>5. PICK h, i : h = Home(Len(data), k) /\ i = Found(data, k)
  OBVIOUS
<1>6. PICK bucket : bucket = [data[h] EXCEPT ![i] = d]
  OBVIOUS
<1>7. PICK s : s = [data EXCEPT ![h] = bucket]
  OBVIOUS
<1>8. data' = s
  <2>1. data' = [data EXCEPT ![h][i].val = v]
    BY <1>5 DEF Table!AssignPresent, Table!BucketOf, Table!Place, Found, Home
  <2>2. [e EXCEPT !.val = v] = d
    <3>1. e \in Pairs
      OBVIOUS
    <3> QED
      BY <1>3, <1>4, <3>1 DEF Pairs
  <2>3. [data[h] EXCEPT ![i].val = v] = bucket
    BY <1>3, <1>5, <1>6, <2>2
  <2>4. [data EXCEPT ![h][i].val = v] = [data EXCEPT ![h] = [data[h] EXCEPT ![i].val = v]]
    OBVIOUS
  <2> QED
    BY <1>7, <2>1, <2>3, <2>4
<1>9. PICK V : V = (U \ {e}) \cup {d}
  OBVIOUS
<1>10. d \in Pairs /\ d.key = k /\ ValueOf[d] = v
  BY <1>4 DEF Pairs, ValueOf
<1>11. V \in SUBSET Pairs
  BY <1>9, <1>10
<1>12. /\ Holds(s, V) /\ Len(s) = Len(data)
       /\ \A b \in DOMAIN s : Len(s[b]) = Len(data[b])
       /\ Cardinality(V) = Cardinality(U)
  <2>1. Replaces(s, data, k, i, d)
    BY <1>5, <1>6, <1>7 DEF Replaces
  <2>2. d.key = k /\ IsAt(data, k, i, e)
    BY <1>3, <1>5, <1>10 DEF IsAt
  <2> QED
    BY <1>1, <1>9, <2>1, <2>2, HoldsReplace
<1>13. TableHolds(s, n_elements)
  <2>1. DOMAIN s = DOMAIN data
    BY <1>7
  <2>2. Fits(s)
    BY <1>12, <2>1 DEF TableInv, TableHolds, Fits
  <2> QED
    BY <1>1, <1>11, <1>12, <2>2 DEF TableHolds
<1>14. PICK m : m = Table!Map
  OBVIOUS
<1>15. m = MapOf(U, ValueOf) /\ k \in DOMAIN m
  <2>1. m = MapOf(U, ValueOf) /\ k \in KeysOf(U)
    BY <1>1, <1>2, <1>14, MappedIs, TableMap
  <2> QED
    BY <1>1, <2>1, MapIs DEF Holds
<1>16. IsPut(Table!Map', m, k, v)
  <2>1. Table!Map' = MapOf(V, ValueOf)
    BY <1>8, <1>11, <1>12, MappedIs, TableMap
  <2>a. Keyed(U) /\ d.key = e.key
    BY <1>1, <1>3, <1>10 DEF Holds
  <2>2. IsPut(MapOf(V, ValueOf), m, d.key, ValueOf[d])
    BY <1>9, <1>15, <2>a, MapReplace
  <2> QED
    BY <1>10, <2>1, <2>2
<1>17. found' = TRUE /\ n_elements' = n_elements /\ op' = op /\ overfull' = overfull
  BY DEF Table!AssignPresent
<1>18. TableInv'
  BY <1>8, <1>13, <1>17 DEF TableInv
<1>19. Table!IsAMap
  BY <1>14, <1>15, <1>16, <1>17, TablePut
<1> QED
  BY <1>18, <1>19

(* A key that is not there gets a place, and one that is keeps its value.  *)
LEMMA FinishKeeps ==
  ASSUME TableInv, Table!Finish
  PROVE  TableInv' /\ Table!IsAMap
<1>1. PICK U \in SUBSET Pairs : Holds(data, U) /\ n_elements >= Cardinality(U)
  BY DEF TableInv, TableHolds
<1>2. PICK k \in Keys, v \in Values : k = op.key /\ v = op.val
  BY DEF TableInv, Table!Finish
<1>3. PICK m : m = Table!Map
  OBVIOUS
<1>4. m = MapOf(U, ValueOf) /\ DOMAIN m = KeysOf(U) /\ m = [j \in DOMAIN m |-> m[j]]
  <2>1. m = MapOf(U, ValueOf)
    BY <1>1, <1>3, MappedIs, TableMap
  <2> QED
    BY <2>1 DEF MapOf
<1>5. k \in DOMAIN m <=> Found(data, k) # 0
  BY <1>1, <1>4, MappedIs
<1>6. found' = (k \in DOMAIN m) /\ (found' <=> Table!IsIn(k)) /\ found' \in BOOLEAN
  <2>1. found' = Table!IsIn(k)
    BY <1>2 DEF Table!Finish
  <2>2. Table!IsIn(k) \in BOOLEAN
    BY DEF Table!IsIn
  <2>3. Table!IsIn(k) <=> k \in DOMAIN m
    BY <1>5, TableMap
  <2> QED
    BY <2>1, <2>2, <2>3
<1>7. overfull' = overfull /\ op' = Table!Idle
  BY DEF Table!Finish
<1>8. CASE Table!IsIn(k)
  <2>1. data' = data /\ n_elements' = n_elements
    BY <1>6, <1>8 DEF Table!Finish
  <2>2. TableInv'
    BY <1>6, <1>7, <2>1 DEF TableInv
  <2>3. Table!Map' = m
    BY <1>3, <2>1, TableMap
  <2>4. IsInsert(m, m, k, v)
    BY <1>4, <1>6, <1>8 DEF IsInsert
  <2>5. Table!IsAMap
    BY <1>3, <1>6, <2>3, <2>4, TableInsert
  <2> QED
    BY <2>2, <2>5
<1>9. CASE ~Table!IsIn(k)
  <2>1. PICK e : e = [key |-> k, val |-> v]
    OBVIOUS
  <2>2. e \in Pairs /\ e.key = k /\ ValueOf[e] = v
    BY <2>1 DEF Pairs, ValueOf
  <2>3. data' = Table!Placed(data, e) /\ n_elements' = n_elements + 1
    BY <1>2, <1>6, <1>9, <2>1 DEF Table!Finish
  <2>4. PICK s : s = data'
    OBVIOUS
  <2>5. Appends(s, data, e)
    BY <2>3, <2>4, PlacedIs DEF Appends
  <2>6. \A d \in U : d.key # e.key
    BY <1>4, <1>6, <1>9, <2>2 DEF KeysOf
  <2>7. PICK h : h = Home(Len(data), e.key)
    OBVIOUS
  <2>8. /\ Holds(s, U \cup {e}) /\ Len(s) = Len(data) /\ DOMAIN s = DOMAIN data
        /\ Len(s[h]) = Len(data[h]) + 1
        /\ \A b \in DOMAIN data : b # h => s[b] = data[b]
        /\ Cardinality(U \cup {e}) = Cardinality(U) + 1 /\ Cardinality(U) \in Nat
    <3>1. /\ Holds(s, U \cup {e}) /\ Len(s) = Len(data)
          /\ DOMAIN s = DOMAIN data
          /\ Len(s[Home(Len(data), e.key)]) = Len(data[Home(Len(data), e.key)]) + 1
          /\ \A b \in DOMAIN data : b # Home(Len(data), e.key) => s[b] = data[b]
          /\ Cardinality(U \cup {e}) = Cardinality(U) + 1 /\ Cardinality(U) \in Nat
      <4>1. e.key \in Keys
        BY <2>2
      <4> QED
        BY <1>1, <2>5, <2>6, <4>1, HoldsPlaced
    <3> QED
      BY <2>7, <3>1
  <2>9. Fits(s)
    <3>1. BucketSize \in Nat /\ Fits(data)
      BY ComponentsAssumption DEF Table!TableAssumption, TableInv, TableHolds
    <3>2. \A b \in DOMAIN data : Len(data[b]) \in Nat
      BY <1>1 DEF Holds, Lists
    <3>3. h \in DOMAIN data
      BY <1>1, <2>2, <2>7, HoldsBucket
    <3>4. Len(data[h]) # BucketSize
      BY <1>2, <2>2, <2>7 DEF Table!Finish, Table!MustRehash, Table!Full, Table!BucketOf, Table!Place, Home
    <3>5. Len(s[h]) <= BucketSize
      BY <2>8, <3>1, <3>2, <3>3, <3>4 DEF Fits
    <3> QED
      BY <2>8, <3>1, <3>5 DEF Fits
  <2>10. U \cup {e} \in SUBSET Pairs /\ n_elements + 1 >= Cardinality(U \cup {e}) /\ n_elements + 1 \in Nat
    BY <1>1, <2>2, <2>8 DEF TableInv
  <2>11. TableHolds(s, n_elements + 1)
    BY <2>8, <2>9, <2>10 DEF TableHolds
  <2>12. TableInv'
    BY <1>6, <1>7, <2>3, <2>4, <2>10, <2>11 DEF TableInv
  <2>13. IsInsert(MapOf(U \cup {e}, ValueOf), m, e.key, ValueOf[e])
    <3>1. Keyed(U) /\ Keyed(U \cup {e})
      BY <1>1, <2>8 DEF Holds
    <3> QED
      BY <1>4, <2>6, <3>1, MapAdd
  <2>14. Table!Map' = MapOf(U \cup {e}, ValueOf)
    BY <2>4, <2>8, <2>10, MappedIs, TableMap
  <2>15. IsInsert(Table!Map', m, k, v)
    BY <2>2, <2>13, <2>14
  <2> QED
    BY <1>3, <1>6, <2>12, <2>15, TableInsert
<1> QED
  BY <1>8, <1>9

(* A key that is removed is not there any more, and no other goes.         *)
LEMMA RemoveKeeps ==
  ASSUME TableInv, NEW k \in Keys, Table!RemoveKey(k)
  PROVE  TableInv' /\ Table!IsAMap
<1>1. PICK U \in SUBSET Pairs : Holds(data, U) /\ n_elements >= Cardinality(U)
  BY DEF TableInv, TableHolds
<1>2. PICK m : m = Table!Map
  OBVIOUS
<1>3. m = MapOf(U, ValueOf) /\ DOMAIN m = KeysOf(U) /\ m = [j \in DOMAIN m |-> m[j]]
  <2>1. m = MapOf(U, ValueOf)
    BY <1>1, <1>2, MappedIs, TableMap
  <2> QED
    BY <2>1 DEF MapOf
<1>4. k \in DOMAIN m <=> Found(data, k) # 0
  BY <1>1, <1>3, MappedIs
<1>5. found' = (k \in DOMAIN m) /\ (found' <=> Table!IsIn(k)) /\ found' \in BOOLEAN
  <2>1. found' = Table!IsIn(k)
    BY DEF Table!RemoveKey
  <2>2. Table!IsIn(k) \in BOOLEAN
    BY DEF Table!IsIn
  <2>3. Table!IsIn(k) <=> k \in DOMAIN m
    BY <1>4, TableMap
  <2> QED
    BY <2>1, <2>2, <2>3
<1>6. overfull' = overfull /\ op' = op /\ n_elements' = n_elements
  BY DEF Table!RemoveKey
<1>7. PICK h : h = Home(Len(data), k)
  OBVIOUS
<1>8. data' = [data EXCEPT ![h] = IF found' THEN Table!RemoveAt(@, Table!Index(@, k)) ELSE @]
  BY <1>7 DEF Table!RemoveKey, Table!Place, Home
<1>9. CASE ~Table!IsIn(k)
  <2>1. data' = data
    <3>1. data' = [data EXCEPT ![h] = @]
      BY <1>5, <1>8, <1>9
    <3>2. data \in Seq(Seq(U))
      BY <1>1 DEF Holds
    <3> QED
      BY <3>1, <3>2
  <2>2. TableInv'
    BY <1>5, <1>6, <2>1 DEF TableInv
  <2>3. Table!Map' = m
    BY <1>2, <2>1, TableMap
  <2>4. IsRemoval(m, m, k)
    BY <1>3, <1>5, <1>9 DEF IsRemoval
  <2> QED
    BY <1>2, <1>5, <2>2, <2>3, <2>4, TableRemove
<1>10. CASE Table!IsIn(k)
  <2>1. PICK i : i = Found(data, k)
    OBVIOUS
  <2>2. PICK e \in U : e.key = k /\ i \in 1 .. Len(data[h]) /\ data[h][i] = e
    BY <1>1, <1>7, <1>10, <2>1, TableFound, TableMap
  <2>3. Lists(data[h], At(U, Len(data), h)) /\ i \in DOMAIN data[h]
    BY <1>1, <1>7, <2>2, HoldsBucket DEF Lists
  <2>4. PICK bucket : bucket = SubSeq(data[h], 1, i - 1) \o SubSeq(data[h], i + 1, Len(data[h]))
    OBVIOUS
  <2>5. Lists(bucket, At(U, Len(data), h) \ {e})
    BY <2>2, <2>3, <2>4, ListsRemove
  <2>6. PICK s : s = data'
    OBVIOUS
  <2>7. Updates(s, data, k, bucket)
    <3>1. Table!RemoveAt(data[h], Table!Index(data[h], k)) = bucket
      BY <1>7, <2>1, <2>4 DEF Table!RemoveAt, Found
    <3>2. data' = [data EXCEPT ![h] = Table!RemoveAt(data[h], Table!Index(data[h], k))]
      BY <1>5, <1>8, <1>10
    <3> QED
      BY <1>7, <2>6, <3>1, <3>2 DEF Updates
  <2>8. PICK V : V = U \ {e}
    OBVIOUS
  <2>9. /\ Holds(s, V) /\ Len(s) = Len(data)
        /\ \A b \in DOMAIN s : Len(s[b]) <= Len(data[b])
        /\ Cardinality(V) = Cardinality(U) - 1 /\ Cardinality(U) \in Nat
    <3>1. Lists(bucket, At(U, Len(data), Home(Len(data), k)) \ {e})
      BY <1>7, <2>5
    <3>2. /\ Holds(s, U \ {e}) /\ Len(s) = Len(data)
          /\ \A b \in DOMAIN s : Len(s[b]) <= Len(data[b])
          /\ IsFiniteSet(U) /\ Cardinality(U \ {e}) = Cardinality(U) - 1 /\ Cardinality(U) \in Nat
      <4>1. e.key = k
        BY <2>2
      <4> QED
        BY <1>1, <2>7, <3>1, <4>1, HoldsWithout
    <3> QED
      BY <2>8, <3>2
  <2>10. Fits(s)
    <3>1. BucketSize \in Nat /\ Fits(data)
      BY ComponentsAssumption DEF Table!TableAssumption, TableInv, TableHolds
    <3>2. \A b \in DOMAIN data : Len(data[b]) \in Nat
      BY <1>1 DEF Holds, Lists
    <3>3. \A b \in DOMAIN s : Len(s[b]) \in Nat
      BY <2>9 DEF Holds, Lists
    <3>4. DOMAIN s = DOMAIN data
      BY <2>7 DEF Updates
    <3> QED
      BY <2>9, <3>1, <3>2, <3>3, <3>4 DEF Fits
  <2>11. V \in SUBSET Pairs /\ n_elements >= Cardinality(V)
    BY <1>1, <2>8, <2>9 DEF TableInv
  <2>12. TableHolds(s, n_elements)
    BY <2>9, <2>10, <2>11 DEF TableHolds
  <2>13. TableInv'
    BY <1>5, <1>6, <2>6, <2>12 DEF TableInv
  <2>14. Table!Map' = MapOf(V, ValueOf)
    BY <2>6, <2>9, <2>11, MappedIs, TableMap
  <2>15. IsRemoval(MapOf(V, ValueOf), m, e.key)
    <3>1. Keyed(U)
      BY <1>1 DEF Holds
    <3> QED
      BY <1>3, <2>8, <3>1, MapRemove
  <2>16. IsRemoval(Table!Map', m, k)
    BY <2>2, <2>14, <2>15
  <2> QED
    BY <1>2, <1>5, <2>13, <2>16, TableRemove
<1> QED
  BY <1>9, <1>10

(* Looking for a key changes nothing. *)
LEMMA ContainsKeeps ==
  ASSUME TableInv, NEW k \in Keys, Table!ContainsKey(k)
  PROVE  TableInv' /\ Table!IsAMap
<1>1. PICK U \in SUBSET Pairs : Holds(data, U)
  BY DEF TableInv, TableHolds
<1>2. DOMAIN Table!Map = KeysOf(U)
  <2>1. Table!Map = MapOf(U, ValueOf)
    BY <1>1, MappedIs, TableMap
  <2> QED
    BY <2>1 DEF MapOf
<1>3. found' = (k \in DOMAIN Table!Map) /\ found' \in BOOLEAN
  <2>1. found' = Table!IsIn(k) /\ Table!IsIn(k) \in BOOLEAN
    BY DEF Table!ContainsKey, Table!IsIn
  <2>2. Table!IsIn(k) <=> k \in DOMAIN Table!Map
    BY <1>1, <1>2, MappedIs, TableMap
  <2> QED
    BY <2>1, <2>2
<1>4. data' = data /\ UNCHANGED <<n_elements, op, overfull>>
  BY DEF Table!ContainsKey
<1>5. Table!Map' = Table!Map
  BY <1>4, TableMap
<1>6. TableInv'
  BY <1>3, <1>4 DEF TableInv
<1> QED
  BY <1>3, <1>5, <1>6, TableGet

(* A copy holds nothing, whatever is counted. *)
LEMMA EmptyCopyKeeps ==
  ASSUME TableInv, NEW n \in Table!OtherBuckets, Table!Copy(n)
  PROVE  TableInv' /\ Table!IsAMap
<1>1. {InitialBuckets, MaxLoad} \subseteq Nat \ {0}
  BY ComponentsAssumption DEF Table!TableAssumption
<1>2. n \in Nat \ {0}
  BY <1>1 DEF Table!OtherBuckets
<1>3. n_elements' \in Nat
  <2>1. Table!Uninitialized \subseteq Nat
    BY <1>1 DEF Table!Uninitialized
  <2> QED
    BY <2>1 DEF Table!Copy, TableInv
<1>4. data' = [b \in 1 .. n |-> <<>>] /\ UNCHANGED <<op, overfull, found>>
  BY DEF Table!Copy
<1>5. Holds(data', {}) /\ TableHolds(data', n_elements')
  BY <1>2, <1>3, <1>4, TableEmpty
<1>6. TableInv'
  BY <1>3, <1>4, <1>5 DEF TableInv
<1>7. DOMAIN Table!Map' = {}
  <2>1. {} \in SUBSET Pairs
    OBVIOUS
  <2>2. Table!Map' = MapOf({}, ValueOf)
    BY <1>5, <2>1, MappedIs, TableMap
  <2> QED
    BY <2>2 DEF MapOf, KeysOf
<1> QED
  BY <1>6, <1>7 DEF Table!IsAMap, Table!CopyIsEmpty

(* Every step of the table keeps the invariant, and is one of a map.       *)
LEMMA TableStepKeeps ==
  ASSUME TableInv, Table!Next
  PROVE  TableInv' /\ Table!IsAMap
BY EmptyCopyKeeps, BeginKeeps, AssignKeeps, RehashAgainKeeps, FinishKeeps, RemoveKeeps, ContainsKeeps DEF Table!Next

(* And so does one of another component. *)
LEMMA TableRests ==
  ASSUME TableInv, UNCHANGED tableVars
  PROVE  TableInv' /\ Table!IsAMap
<1>1. TableInv'
  BY DEF TableInv, tableVars
<1>2. data' = data /\ found' = found
  BY DEF tableVars
<1> QED
  BY <1>1, <1>2, TableMap, TableStays

-----------------------------------------------------------------------------
(* zhash.c: the entries are pairs of a key and a value. *)
Items == [key : Keys, value : Values]
ValueIn == [e \in Items |-> e.value]
Item(k, v) == [key |-> k, value |-> v]
With(U, e) == {d \in U : d.key # e.key} \cup {e}

(* A place in a bucket, or none. *)
LEMMA IndexType ==
  ASSUME NEW Q, NEW bucket \in Seq(Q), NEW k
  PROVE  Zhash!Index(bucket, k) \in 0 .. Len(bucket)
<1>1. PICK T : T = Places(bucket, k)
  OBVIOUS
<1>2. Zhash!Index(bucket, k) = IF T # {} THEN Zhash!Min(T) ELSE 0
  BY <1>1 DEF Zhash!Index, Zhash!SelectInSeq, Places
<1>3. PICK n \in Nat : n = Len(bucket)
  BY LenProperties
<1>4. T \subseteq 1 .. n
  BY <1>1, <1>3 DEF Places
<1>5. CASE T = {}
  BY <1>2, <1>3, <1>5
<1>6. CASE T # {}
  <2>1. T \subseteq Nat \ {0}
    BY <1>4
  <2>2. Zhash!Min(T) \in T
    BY <1>6, <2>1, FirstPlace
  <2>3. Zhash!Index(bucket, k) = Zhash!Min(T)
    BY <1>2, <1>6
  <2>4. Zhash!Min(T) \in 1 .. n
    BY <1>4, <2>2
  <2> QED
    BY <1>3, <2>3, <2>4
<1> QED
  BY <1>5, <1>6

(* zhash_put_real changes one bucket, which grows or has an entry replaced. *)
LEMMA PutRealIs ==
  ASSUME NEW t, NEW k, NEW v, NEW h, h = Home(Len(t), k), NEW i, i = Zhash!Index(t[h], k),
         NEW bucket, bucket = IF i = 0 THEN Append(t[h], Item(k, v)) ELSE [t[h] EXCEPT ![i] = Item(k, v)]
  PROVE  Zhash!PutReal(t, k, v) = [t EXCEPT ![h] = bucket]
<1>1. h = Zhash!Place(t, k)
  BY DEF Zhash!Place, Home
<1>2. Zhash!PutReal(t, k, v)
        = [t EXCEPT ![h] = IF i = 0 THEN Append(@, Item(k, v)) ELSE [@ EXCEPT ![i] = Item(k, v)]]
  BY <1>1 DEF Zhash!PutReal, Item
<1> QED
  BY <1>2

(* It keeps a table one of as many buckets. *)
LEMMA PutRealType ==
  ASSUME NEW m \in Nat \ {0}, NEW t \in [1 .. m -> Seq(Items)], NEW e \in Items
  PROVE  Zhash!PutReal(t, e.key, e.value) \in [1 .. m -> Seq(Items)]
<1>1. Len(t) = m
  OBVIOUS
<1>2. PICK k \in Keys, v \in Values : e.key = k /\ e.value = v
  BY DEF Items
<1>3. PICK h \in 1 .. m : h = Home(Len(t), k)
  BY <1>1, HomeType
<1>4. t[h] \in Seq(Items)
  BY <1>3
<1>5. PICK i : i = Zhash!Index(t[h], k)
  OBVIOUS
<1>6. i \in 0 .. Len(t[h])
  BY <1>4, <1>5, IndexType
<1>7. PICK d \in Items : d = Item(k, v)
  BY DEF Items, Item
<1>8. PICK bucket : bucket = IF i = 0 THEN Append(t[h], d) ELSE [t[h] EXCEPT ![i] = d]
  OBVIOUS
<1>9. bucket \in Seq(Items)
  <2>1. CASE i = 0
    BY <1>4, <1>8, <2>1, AppendProperties
  <2>2. CASE i # 0
    <3>1. i \in 1 .. Len(t[h]) /\ Len(t[h]) \in Nat
      BY <1>4, <1>6, <2>2, LenProperties
    <3> QED
      BY <1>4, <1>8, <2>2, <3>1, ExceptSeq
  <2> QED
    BY <2>1, <2>2
<1>10. [t EXCEPT ![h] = bucket] \in [1 .. m -> Seq(Items)]
  BY <1>9
<1>11. Zhash!PutReal(t, k, v) = [t EXCEPT ![h] = bucket]
  <2>1. bucket = IF i = 0 THEN Append(t[h], Item(k, v)) ELSE [t[h] EXCEPT ![i] = Item(k, v)]
    BY <1>7, <1>8
  <2>2. h = Zhash!Place(t, k)
    BY <1>3 DEF Zhash!Place, Home
  <2>3. Zhash!PutReal(t, k, v)
          = [t EXCEPT ![h] = IF i = 0 THEN Append(@, d) ELSE [@ EXCEPT ![i] = d]]
    BY <1>5, <1>7, <2>2 DEF Zhash!PutReal, Item
  <2> QED
    BY <1>8, <2>3
<1> QED
  BY <1>2, <1>10, <1>11

(* What is put is there afterwards, and everything else that was.          *)
LEMMA PutRealHolds ==
  ASSUME NEW U \in SUBSET Items, NEW t, Holds(t, U), NEW e \in Items
  PROVE  /\ Holds(Zhash!PutReal(t, e.key, e.value), With(U, e))
         /\ Len(Zhash!PutReal(t, e.key, e.value)) = Len(t)
         /\ IsFiniteSet(U) /\ IsFiniteSet(With(U, e)) /\ Cardinality(U) \in Nat
         /\ e.key \in KeysOf(U) => Cardinality(With(U, e)) = Cardinality(U)
         /\ e.key \notin KeysOf(U) => Cardinality(With(U, e)) = Cardinality(U) + 1
<1>1. PICK k \in Keys, v \in Values : e.key = k /\ e.value = v
  BY DEF Items
<1>2. Item(k, v) = e
  BY <1>1 DEF Items, Item
<1>3. PICK h, i : h = Home(Len(t), k) /\ i = Zhash!Index(t[h], k)
  OBVIOUS
<1>4. PICK V : V = With(U, e)
  OBVIOUS
<1>5. PICK s : s = Zhash!PutReal(t, k, v)
  OBVIOUS
<1>6. PICK bucket : bucket = IF i = 0 THEN Append(t[h], e) ELSE [t[h] EXCEPT ![i] = e]
  OBVIOUS
<1>7. s = [t EXCEPT ![h] = bucket]
  BY <1>2, <1>3, <1>5, <1>6, PutRealIs
<1>8. IsFiniteSet(U) /\ Cardinality(U) \in Nat /\ Keyed(U)
  BY HoldsFlat, ListsCount, FS_CardinalityType DEF Holds
<1>9. CASE k \in KeysOf(U)
  <2>1. PICK d \in U : d.key = k
    BY <1>9 DEF KeysOf
  <2>2. i \in 1 .. Len(t[h]) /\ t[h][i] = d
    BY <1>3, <2>1, FoundPlace
  <2>3. i # 0
    BY <1>3, <2>2, HoldsBucket
  <2>4. IsAt(t, k, i, d)
    BY <1>3, <2>1, <2>2 DEF IsAt
  <2>5. Replaces(s, t, k, i, e)
    BY <1>3, <1>6, <1>7, <2>3 DEF Replaces
  <2>6. e.key = k
    BY <1>1
  <2>7. Holds(s, (U \ {d}) \cup {e})
    BY <2>4, <2>5, <2>6, HoldsReplace
  <2>11. Len(s) = Len(t)
    BY <1>7 DEF Holds
  <2>10. Cardinality((U \ {d}) \cup {e}) = Cardinality(U)
    BY <2>4, <2>5, <2>6, HoldsReplace
  <2>8. V = (U \ {d}) \cup {e}
    BY <1>4, <1>8, <2>1, <2>6 DEF With, Keyed
  <2>9. IsFiniteSet(V)
    BY <2>7, <2>8, HoldsFlat, ListsCount
  <2> QED
    BY <1>1, <1>4, <1>5, <1>8, <1>9, <2>7, <2>8, <2>9, <2>10, <2>11
<1>10. CASE k \notin KeysOf(U)
  <2>1. \A d \in U : d.key # e.key
    BY <1>1, <1>10 DEF KeysOf
  <2>2. e.key \in Keys
    BY <1>1
  <2>3. i = 0
    BY <1>1, <1>3, <2>1, FoundPlace
  <2>4. Appends(s, t, e)
    BY <1>1, <1>3, <1>6, <1>7, <2>3 DEF Appends
  <2>5. /\ Holds(s, U \cup {e}) /\ Len(s) = Len(t)
        /\ DOMAIN s = DOMAIN t
        /\ Len(s[Home(Len(t), e.key)]) = Len(t[Home(Len(t), e.key)]) + 1
        /\ \A b \in DOMAIN t : b # Home(Len(t), e.key) => s[b] = t[b]
        /\ Cardinality(U \cup {e}) = Cardinality(U) + 1 /\ Cardinality(U) \in Nat
    BY <2>1, <2>2, <2>4, HoldsPlaced
  <2>6. V = U \cup {e}
    BY <1>4, <2>1 DEF With
  <2>7. IsFiniteSet(V)
    BY <2>5, <2>6, HoldsFlat, ListsCount
  <2> QED
    BY <1>1, <1>4, <1>5, <1>8, <1>10, <2>5, <2>6, <2>7
<1> QED
  BY <1>9, <1>10

(* What zhash_put_real makes of a table, entry after entry. *)
PutsInto(base, s) == Zhash!PutAll(base, s)
Puts(r, base, s) ==
    /\ r[0] = base /\ PutsInto(base, s) = r[Len(s)]
    /\ \A k \in 1 .. Len(s) : r[k] = Zhash!PutReal(r[k - 1], s[k].key, s[k].value)

(* The fold that puts entries does so one after the other. *)
LEMMA PutsFold ==
  ASSUME NEW s \in Seq(Items), NEW m \in Nat \ {0}, NEW base \in [1 .. m -> Seq(Items)]
  PROVE  \E r \in [0 .. Len(s) -> [1 .. m -> Seq(Items)]] : Puts(r, base, s)
<1> DEFINE n == Len(s)
           V == [1 .. m -> Seq(Items)]
           h == [i \in 1 .. n |-> [v \in V |-> Zhash!PutReal(v, s[i].key, s[i].value)]]
<1>1. n \in Nat /\ DOMAIN s = 1 .. n /\ \A i \in 1 .. n : s[i] \in Items
  BY LenProperties, ElementOfSeq
<1>2. \A v \in V, e \in Items : Zhash!PutReal(v, e.key, e.value) \in V
  BY PutRealType
<1>3. base \in V
  OBVIOUS
<1>p. PICK P : P = V
  OBVIOUS
<1> HIDE DEF V
<1>4. h \in [1 .. n -> [V -> V]]
  BY <1>1, <1>2
<1>5. \A i \in 1 .. n, v \in V : h[i][v] = Zhash!PutReal(v, s[i].key, s[i].value)
  OBVIOUS
<1> HIDE DEF h, n
<1>6. PICK g \in [SUBSET (1 .. n) -> V] : IsFold(g, n, base, h)
  BY <1>1, <1>3, <1>4, FoldExists DEF HasFold
<1> DEFINE iter == CHOOSE f : f = [t \in SUBSET (1 .. n) |->
               IF t = {} THEN base
               ELSE Zhash!PutReal(f[t \ {Zhash!Max(t)}], s[Zhash!Max(t)].key, s[Zhash!Max(t)].value)]
<1>7. g = [t \in SUBSET (1 .. n) |->
               IF t = {} THEN base
               ELSE Zhash!PutReal(g[t \ {Zhash!Max(t)}], s[Zhash!Max(t)].key, s[Zhash!Max(t)].value)]
  <2>0. \A t : Zhash!Max(t) = Max(t)
    BY DEF Zhash!Max, Max
  <2>1. ASSUME NEW t \in SUBSET (1 .. n)
        PROVE  g[t] = IF t = {} THEN base
                      ELSE Zhash!PutReal(g[t \ {Zhash!Max(t)}], s[Zhash!Max(t)].key, s[Zhash!Max(t)].value)
    <3>1. CASE t = {}
      BY <1>6, <3>1 DEF IsFold
    <3>2. CASE t # {}
      <4>1. Max(t) \in 1 .. n
        BY <1>1, <3>2, GreatestNumber
      <4>2. g[t \ {Max(t)}] \in V
        BY <1>6
      <4>3. g[t] = h[Max(t)][g[t \ {Max(t)}]]
        BY <1>6, <3>2 DEF IsFold
      <4>4. g[t] = Zhash!PutReal(g[t \ {Max(t)}], s[Max(t)].key, s[Max(t)].value)
        BY <1>5, <4>1, <4>2, <4>3
      <4> QED
        BY <2>0, <3>2, <4>4
    <3> QED
      BY <3>1, <3>2
  <2> QED
    BY <2>1
<1>8. iter = [t \in SUBSET (1 .. n) |->
               IF t = {} THEN base
               ELSE Zhash!PutReal(iter[t \ {Zhash!Max(t)}], s[Zhash!Max(t)].key, s[Zhash!Max(t)].value)]
  BY <1>7, Zenon
<1>9. PutsInto(base, s) = iter[1 .. n]
  BY <1>1, Zenon DEF PutsInto, Zhash!PutAll, Zhash!FoldLeft, Zhash!MapThenFoldSet
<1> HIDE DEF iter
<1> DEFINE r == [k \in 0 .. n |-> iter[1 .. k]]
<1>10. r[0] = base /\ PutsInto(base, s) = r[n]
  <2>1. iter[{}] = base
    BY <1>8
  <2>2. 1 .. 0 = {} /\ 0 \in 0 .. n /\ n \in 0 .. n
    BY <1>1
  <2> QED
    BY <1>9, <2>1, <2>2
<1>11. ASSUME NEW k \in 1 .. n PROVE r[k] = Zhash!PutReal(r[k - 1], s[k].key, s[k].value)
  <2>1. /\ 1 .. k \in SUBSET (1 .. n) /\ 1 .. k # {} /\ Zhash!Max(1 .. k) = k
        /\ (1 .. k) \ {k} = 1 .. k - 1
    BY <1>1, FirstPositions DEF Zhash!Max, Max
  <2>2. iter[1 .. k] = Zhash!PutReal(iter[1 .. k - 1], s[k].key, s[k].value)
    BY <1>8, <2>1
  <2>3. k \in 0 .. n /\ k - 1 \in 0 .. n
    BY <1>1
  <2> QED
    BY <2>2, <2>3
<1>12. r = [k \in 0 .. n |-> r[k]]
  OBVIOUS
<1> HIDE DEF r
<1>13. \A k \in 1 .. n : r[k - 1] \in V => r[k] \in V
  BY <1>1, <1>2, <1>11
<1>14. r \in [0 .. n -> V]
  BY <1>1, <1>3, <1>10, <1>12, <1>13, StepsType
<1> QED
  BY <1>10, <1>11, <1>14 DEF n, V, Puts

(* Entries that are put one by one, each with a key of its own, are all    *)
(* there in the end.  (Between two of them the table may change to one     *)
(* that holds the same.)                                                   *)
LEMMA PutsHold ==
  ASSUME NEW U \in SUBSET Items, Keyed(U), NEW s, Lists(s, U), NEW r, Holds(r[0], {}),
         \A k \in 1 .. Len(s), V \in SUBSET Items :
            Holds(r[k - 1], V) => \E t : Holds(t, V) /\ r[k] = Zhash!PutReal(t, s[k].key, s[k].value)
  PROVE  Holds(r[Len(s)], U)
<1>1. PICK n \in Nat : n = Len(s) /\ DOMAIN s = 1 .. n /\ \A k \in 1 .. n : s[k] \in U
  BY DEF Lists
<1> DEFINE W(k) == {s[i] : i \in 1 .. k}
           T == {k \in 0 .. n : Holds(r[k], W(k))}
<1>2. 0 \in T
  <2>1. W(0) = {} /\ 0 \in 0 .. n
    BY <1>1
  <2> HIDE DEF W
  <2> QED
    BY <2>1
<1>3. ASSUME NEW k \in 1 .. n, k - 1 \in T PROVE k \in T
  <2>1. PICK X : X = W(k - 1)
    OBVIOUS
  <2>2. Holds(r[k - 1], X) /\ X \in SUBSET Items
    BY <1>1, <1>3, <2>1
  <2>3. PICK e \in U : e = s[k]
    BY <1>1
  <2>4. PICK t : Holds(t, X) /\ r[k] = Zhash!PutReal(t, e.key, e.value)
    BY <1>1, <2>2, <2>3
  <2>5. Holds(r[k], With(X, e))
    <3>1. e \in Items
      OBVIOUS
    <3> QED
      BY <2>2, <2>4, <3>1, PutRealHolds
  <2>6. \A d \in X : d.key # e.key
    <3>1. ASSUME NEW i \in 1 .. k - 1 PROVE s[i].key # e.key
      <4>1. i \in 1 .. n /\ i # k
        BY <1>1
      <4>2. s[i] \in U
        BY <1>1, <4>1
      <4>3. s[i] # e
        BY <1>1, <2>3, <4>1 DEF Lists
      <4> QED
        BY <4>2, <4>3 DEF Keyed
    <3> QED
      BY <2>1, <3>1
  <2>7. With(X, e) = X \cup {e}
    BY <2>6 DEF With
  <2>8. W(k) = X \cup {e}
    <3>1. 1 .. k = (1 .. k - 1) \cup {k}
      BY <1>1
    <3> QED
      BY <2>1, <2>3, <3>1
  <2>9. k \in 0 .. n
    OBVIOUS
  <2> HIDE DEF W
  <2> QED
    BY <2>5, <2>7, <2>8, <2>9
<1> HIDE DEF T
<1>4. \A k \in 0 .. n : k \in T
  BY <1>1, <1>2, <1>3, BoundedInduction
<1>5. n \in T
  BY <1>4
<1>6. W(n) = U
  BY <1>1 DEF Lists
<1> QED
  BY <1>1, <1>5, <1>6 DEF T

Tables == {t \in Seq(Seq(Items)) : Len(t) > 0}

(* A doubled table is one of twice as many buckets, with the same entries. *)
LEMMA DoubledIs ==
  ASSUME NEW t \in Tables
  PROVE  /\ Zhash!Doubled(t) \in Tables
         /\ \A U \in SUBSET Items : Holds(t, U) => Holds(Zhash!Doubled(t), U)
<1>1. PICK m \in Nat \ {0} : m = 2 * Len(t)
  <2>1. Len(t) \in Nat \ {0}
    BY DEF Tables
  <2> QED
    BY <2>1
<1>2. PICK s \in Seq(Items) : s = FlattenSeq(t)
  BY FlattenType DEF Tables
<1>3. PICK base \in [1 .. m -> Seq(Items)] : base = [b \in 1 .. m |-> <<>>]
  <2>1. <<>> \in Seq(Items)
    OBVIOUS
  <2> QED
    BY <2>1
<1>4. Zhash!Doubled(t) = PutsInto(base, s)
  <2>1. Zhash!Empty(m) = base /\ Zhash!Entries(t) = s
    BY <1>2, <1>3, SameFlatten DEF Zhash!Empty, Zhash!Entries
  <2> QED
    BY <1>1, <2>1 DEF Zhash!Doubled, PutsInto
<1>5. PICK r \in [0 .. Len(s) -> [1 .. m -> Seq(Items)]] : Puts(r, base, s)
  BY PutsFold
<1>6. r[0] = base /\ Zhash!Doubled(t) = r[Len(s)] /\ Len(s) \in Nat
  BY <1>4, <1>5 DEF Puts
<1>7. Zhash!Doubled(t) \in Tables
  <2>1. PICK x \in [1 .. m -> Seq(Items)] : x = r[Len(s)]
    <3>1. Len(s) \in 0 .. Len(s)
      BY <1>6
    <3> QED
      BY <3>1
  <2>2. x \in Tables
    BY DEF Tables
  <2> QED
    BY <1>6, <2>1, <2>2
<1>8. ASSUME NEW U \in SUBSET Items, Holds(t, U) PROVE Holds(Zhash!Doubled(t), U)
  <2>1. Lists(s, U) /\ Keyed(U)
    BY <1>2, <1>8, HoldsFlat DEF Holds
  <2>2. Holds(r[0], {})
    BY <1>3, <1>6, HoldsNothing
  <2>3. \A k \in 1 .. Len(s), V \in SUBSET Items :
           Holds(r[k - 1], V) => \E x : Holds(x, V) /\ r[k] = Zhash!PutReal(x, s[k].key, s[k].value)
    BY <1>5 DEF Puts
  <2> QED
    BY <1>6, <2>1, <2>2, <2>3, PutsHold
<1> QED
  BY <1>7, <1>8

(* So the entries stay the same when the table grows. *)
LEMMA GrownIs ==
  ASSUME NEW t \in Tables, NEW n
  PROVE  /\ Zhash!Grown(t, n) \in Tables
         /\ \A U \in SUBSET Items : Holds(t, U) => Holds(Zhash!Grown(t, n), U)
BY DoubledIs DEF Zhash!Grown

(* A table that holds entries is a table. *)
LEMMA HoldsTable ==
  ASSUME NEW U \in SUBSET Items, NEW t, Holds(t, U)
  PROVE  t \in Tables
<1>1. t \in Seq(Seq(U)) /\ Len(t) > 0
  BY DEF Holds
<1>2. Seq(U) \subseteq Seq(Items)
  OBVIOUS
<1>3. t \in Seq(Seq(Items))
  BY <1>1, <1>2
<1> QED
  BY <1>1, <1>3 DEF Tables

-----------------------------------------------------------------------------
(* zhash_copy puts the entries into a table that grows as they come: the   *)
(* table after each of them.                                               *)
Copied(c, s) ==
    /\ c[0] = Zhash!Empty(InitialBuckets) /\ Zhash!CopyOf(s) = c[Len(s)]
    /\ \A n \in 1 .. Len(s) :
          c[n - 1] \in Tables /\ c[n] = Zhash!PutReal(Zhash!Grown(c[n - 1], n - 1), s[n].key, s[n].value)

(* Its recursion is one that ends. *)
LEMMA CopySteps ==
  ASSUME NEW s \in Seq(Items)
  PROVE  \E c : Copied(c, s)
<1> DEFINE n == Len(s)
           base == Zhash!Empty(InitialBuckets)
           Step(v, i) == Zhash!PutReal(Zhash!Grown(v, i - 1), s[i].key, s[i].value)
           h == [i \in 1 .. n |-> [v \in Tables |-> Step(v, i)]]
<1>1. n \in Nat /\ DOMAIN s = 1 .. n /\ \A i \in 1 .. n : s[i] \in Items
  BY LenProperties, ElementOfSeq
<1>2. ASSUME NEW v \in Tables, NEW i \in 1 .. n PROVE Step(v, i) \in Tables
  <2>1. PICK t \in Tables : t = Zhash!Grown(v, i - 1)
    BY GrownIs
  <2>2. PICK m \in Nat \ {0} : m = Len(t) /\ t \in [1 .. m -> Seq(Items)]
    BY DEF Tables
  <2>3. Zhash!PutReal(t, s[i].key, s[i].value) \in [1 .. m -> Seq(Items)]
    BY <1>1, <2>2, PutRealType
  <2>4. PICK x \in [1 .. m -> Seq(Items)] : x = Zhash!PutReal(t, s[i].key, s[i].value)
    BY <2>3
  <2>5. x \in Tables
    BY DEF Tables
  <2> QED
    BY <2>1, <2>4, <2>5
<1>3. base \in Tables
  <2>1. PICK m \in Nat \ {0} : m = InitialBuckets
    BY ComponentsAssumption DEF Table!TableAssumption
  <2>2. [b \in 1 .. m |-> <<>>] \in [1 .. m -> Seq(Items)]
    OBVIOUS
  <2> QED
    BY <2>1, <2>2 DEF Zhash!Empty, Tables
<1> HIDE DEF base, Step
<1>4. h \in [1 .. n -> [Tables -> Tables]]
  BY <1>2
<1>5. \A i \in 1 .. n, v \in Tables : h[i][v] = Step(v, i)
  OBVIOUS
<1> HIDE DEF h, n
<1>6. PICK g \in [SUBSET (1 .. n) -> Tables] : IsFold(g, n, base, h)
  BY <1>1, <1>3, <1>4, FoldExists DEF HasFold
<1> DEFINE f == [k \in 0 .. n |-> g[1 .. k]]
<1>7. \A k \in 0 .. n : f[k] \in Tables
  <2>1. ASSUME NEW k \in 0 .. n PROVE 1 .. k \in SUBSET (1 .. n)
    BY <1>1
  <2> QED
    BY <2>1
<1>8. f[0] = base
  <2>1. 1 .. 0 = {} /\ {} \in SUBSET (1 .. n) /\ 0 \in 0 .. n
    BY <1>1
  <2>2. g[{}] = base
    BY <1>6, <2>1 DEF IsFold
  <2> QED
    BY <2>1, <2>2
<1>9. ASSUME NEW k \in 1 .. n PROVE f[k] = Step(f[k - 1], k)
  <2>1. /\ 1 .. k \in SUBSET (1 .. n) /\ 1 .. k # {} /\ Max(1 .. k) = k
        /\ (1 .. k) \ {k} = 1 .. k - 1
    BY <1>1, FirstPositions
  <2>2. g[1 .. k] = h[k][g[1 .. k - 1]]
    BY <1>6, <2>1 DEF IsFold
  <2>3. k \in 0 .. n /\ k - 1 \in 0 .. n
    BY <1>1
  <2>4. g[1 .. k - 1] \in Tables
    BY <1>7, <2>3
  <2> QED
    BY <1>5, <2>2, <2>3, <2>4
<1>10. f = [k \in 0 .. n |-> f[k]]
  OBVIOUS
<1> HIDE DEF f
<1> DEFINE copied == CHOOSE c : c = [k \in 0 .. n |->
               IF k = 0 THEN base
               ELSE Zhash!PutReal(Zhash!Grown(c[k - 1], k - 1), s[k].key, s[k].value)]
<1>11. f = [k \in 0 .. n |->
               IF k = 0 THEN base
               ELSE Zhash!PutReal(Zhash!Grown(f[k - 1], k - 1), s[k].key, s[k].value)]
  <2>1. ASSUME NEW k \in 0 .. n
        PROVE  f[k] = IF k = 0 THEN base
                      ELSE Zhash!PutReal(Zhash!Grown(f[k - 1], k - 1), s[k].key, s[k].value)
    <3>1. CASE k = 0
      BY <1>8, <3>1
    <3>2. CASE k # 0
      <4>1. k \in 1 .. n
        BY <1>1, <3>2
      <4>2. f[k] = Step(f[k - 1], k)
        BY <1>9, <4>1
      <4> QED
        BY <3>2, <4>2 DEF Step
    <3> QED
      BY <3>1, <3>2
  <2> QED
    BY <1>10, <2>1
<1>12. copied = [k \in 0 .. n |->
               IF k = 0 THEN base
               ELSE Zhash!PutReal(Zhash!Grown(copied[k - 1], k - 1), s[k].key, s[k].value)]
  BY <1>11, Zenon
<1>13. Zhash!CopyOf(s) = copied[n]
  BY Zenon DEF Zhash!CopyOf, n, base
<1> HIDE DEF copied
<1>14. copied[0] = base
  <2>1. 0 \in 0 .. n
    BY <1>1
  <2> QED
    BY <1>12, <2>1
<1>15. ASSUME NEW k \in 1 .. n
       PROVE  copied[k] = Step(copied[k - 1], k)
  <2>1. k \in 0 .. n /\ k # 0
    BY <1>1
  <2>2. copied[k] = Zhash!PutReal(Zhash!Grown(copied[k - 1], k - 1), s[k].key, s[k].value)
    BY <1>12, <2>1
  <2> QED
    BY <2>2 DEF Step
<1>16. \A k \in 0 .. n : copied[k] \in Tables
  <2> DEFINE T == {k \in 0 .. n : copied[k] \in Tables}
  <2>1. 0 \in T
    BY <1>1, <1>3, <1>14
  <2>2. ASSUME NEW k \in 1 .. n, k - 1 \in T PROVE k \in T
    <3>1. k \in 0 .. n /\ copied[k - 1] \in Tables
      BY <2>2
    <3>2. copied[k] \in Tables
      BY <1>2, <1>15, <3>1
    <3> QED
      BY <3>1, <3>2
  <2> HIDE DEF T
  <2>3. \A k \in 0 .. n : k \in T
    BY <1>1, <2>1, <2>2, BoundedInduction
  <2> QED
    BY <2>3 DEF T
<1>17. \A k \in 1 .. n : k - 1 \in 0 .. n
  BY <1>1
<1>18. ASSUME NEW k \in 1 .. n
       PROVE  /\ copied[k - 1] \in Tables
              /\ copied[k] = Zhash!PutReal(Zhash!Grown(copied[k - 1], k - 1), s[k].key, s[k].value)
  BY <1>15, <1>16, <1>17 DEF Step
<1>19. Copied(copied, s)
  BY <1>13, <1>14, <1>18 DEF Copied, n, base
<1> QED
  BY <1>19

(* A copy has the entries of the original. *)
LEMMA CopyHolds ==
  ASSUME NEW U \in SUBSET Items, NEW t, Holds(t, U)
  PROVE  Holds(Zhash!CopyOf(Zhash!Entries(t)), U)
<1>1. PICK s : s = FlattenSeq(t)
  OBVIOUS
<1>2. Lists(s, U) /\ Keyed(U)
  BY <1>1, HoldsFlat DEF Holds
<1>3. s \in Seq(Items)
  BY <1>2 DEF Lists
<1>4. PICK c : Copied(c, s)
  BY <1>3, CopySteps
<1>5. Holds(c[0], {})
  <2>1. PICK m \in Nat \ {0} : m = InitialBuckets
    BY ComponentsAssumption DEF Table!TableAssumption
  <2>2. c[0] = [b \in 1 .. m |-> <<>>]
    BY <1>4, <2>1 DEF Copied, Zhash!Empty
  <2> QED
    BY <2>1, <2>2, HoldsNothing
<1>6. ASSUME NEW k \in 1 .. Len(s), NEW V \in SUBSET Items, Holds(c[k - 1], V)
      PROVE  \E x : Holds(x, V) /\ c[k] = Zhash!PutReal(x, s[k].key, s[k].value)
  <2>1. PICK x : x = Zhash!Grown(c[k - 1], k - 1)
    OBVIOUS
  <2>2. c[k - 1] \in Tables /\ c[k] = Zhash!PutReal(x, s[k].key, s[k].value)
    BY <1>4, <2>1 DEF Copied
  <2>3. Holds(x, V)
    BY <1>6, <2>1, <2>2, GrownIs
  <2> QED
    BY <2>2, <2>3
<1>7. Holds(c[Len(s)], U)
  BY <1>2, <1>5, <1>6, PutsHold
<1>8. Zhash!Entries(t) = s /\ Zhash!CopyOf(s) = c[Len(s)]
  BY <1>1, <1>4, SameFlatten DEF Zhash!Entries, Copied
<1> QED
  BY <1>7, <1>8

-----------------------------------------------------------------------------
(* The map of a table, again for any table.                                *)
Spot(t, k) == Zhash!Index(t[Home(Len(t), k)], k)
Valued(t) == [k \in {j \in Keys : Spot(t, j) # 0} |-> t[Home(Len(t), k)][Spot(t, k)].value]

(* It is that of its entries. *)
LEMMA ValuedIs ==
  ASSUME NEW U \in SUBSET Items, NEW t, Holds(t, U)
  PROVE  /\ Valued(t) = MapOf(U, ValueIn)
         /\ \A k \in Keys : Spot(t, k) # 0 <=> k \in KeysOf(U)
         /\ {k \in Keys : Spot(t, k) # 0} = KeysOf(U)
<1>1. Keyed(U)
  BY DEF Holds
<1>2. ASSUME NEW e \in U
      PROVE  e.key \in Keys /\ Spot(t, e.key) # 0 /\ t[Home(Len(t), e.key)][Spot(t, e.key)] = e
  <2>1. PICK k \in Keys : k = e.key
    BY <1>1 DEF Keyed
  <2>2. PICK bucket : bucket = t[Home(Len(t), k)]
    OBVIOUS
  <2>3. PICK i \in 1 .. Len(bucket) : i = Zhash!Index(bucket, k) /\ bucket[i] = e
    BY <2>1, <2>2, FoundPlace
  <2>4. Len(bucket) \in Nat
    BY <2>2, HoldsBucket
  <2>5. Zhash!Index(bucket, k) # 0
    BY <2>3, <2>4
  <2> QED
    BY <2>1, <2>2, <2>3, <2>5 DEF Spot
<1>3. ASSUME NEW k \in Keys, k \notin KeysOf(U) PROVE Spot(t, k) = 0
  <2>1. \A e \in U : e.key # k
    BY <1>3 DEF KeysOf
  <2> QED
    BY <2>1, FoundPlace DEF Spot
<1>4. \A k \in KeysOf(U) : k \in Keys /\ Spot(t, k) # 0
  BY <1>2 DEF KeysOf
<1>5. {k \in Keys : Spot(t, k) # 0} = KeysOf(U)
  BY <1>3, <1>4
<1>6. PICK m : m = Valued(t)
  OBVIOUS
<1>7. DOMAIN m = KeysOf(U) /\ m = [k \in DOMAIN m |-> m[k]]
  BY <1>5, <1>6 DEF Valued
<1>8. ASSUME NEW e \in U PROVE m[e.key] = ValueIn[e]
  <2>1. e.key \in KeysOf(U)
    BY DEF KeysOf
  <2>2. m[e.key] = t[Home(Len(t), e.key)][Spot(t, e.key)].value
    BY <1>5, <1>6, <2>1 DEF Valued
  <2>3. ValueIn[e] = e.value
    BY DEF ValueIn
  <2> QED
    BY <1>2, <2>2, <2>3
<1>9. MapOf(U, ValueIn) = m
  <2>1. StandsFor(m, U, ValueIn)
    BY <1>7, <1>8 DEF StandsFor
  <2> QED
    BY <1>1, <2>1, MapIsAll
<1> QED
  BY <1>3, <1>4, <1>5, <1>6, <1>7, <1>9

(* ZHash's map and keys are those of its table, before a step and after.   *)
LEMMA ZhashMap ==
  /\ Zhash!Map = Valued(buckets) /\ Zhash!Map' = Valued(buckets')
  /\ Zhash!Present = {k \in Keys : Spot(buckets, k) # 0}
  /\ \A k : Zhash!IsIn(buckets, k) <=> Spot(buckets, k) # 0
BY DEF Zhash!Map, Zhash!Present, Zhash!IsIn, Zhash!Place, Valued, Spot, Home

(* What a step says of the map. *)
LEMMA ZhashStays ==
  ASSUME Zhash!Map' = Zhash!Map, had' = had
  PROVE  Zhash!IsAMap
BY DEF Zhash!IsAMap

(* A key is looked for. *)
LEMMA ZhashGet ==
  ASSUME NEW k \in Keys, Zhash!Map' = Zhash!Map, had' = (k \in DOMAIN Zhash!Map)
  PROVE  Zhash!IsAMap
BY DEF Zhash!IsAMap, Zhash!Contract!Next, Zhash!Contract!Get

(* A value is written. *)
LEMMA ZhashPut ==
  ASSUME NEW k \in Keys, NEW v \in Values, NEW m, m = Zhash!Map,
         IsPut(Zhash!Map', m, k, v), had' = (k \in DOMAIN m)
  PROVE  Zhash!IsAMap
BY DEF Zhash!IsAMap, Zhash!Contract!Next, Zhash!Contract!Put, IsPut

(* A key is removed. *)
LEMMA ZhashRemove ==
  ASSUME NEW k \in Keys, NEW m, m = Zhash!Map,
         IsRemoval(Zhash!Map', m, k), had' = (k \in DOMAIN m)
  PROVE  Zhash!IsAMap
BY DEF Zhash!IsAMap, Zhash!Contract!Next, Zhash!Contract!Remove, Zhash!Contract!Restrict, IsRemoval

-----------------------------------------------------------------------------
(* The invariant of ZHash: its buckets hold as many entries as it counts,  *)
(* and the keys that an iterator has not returned yet are ahead of it.     *)
IsPast(z, c, j) == c > z.bucket + 1 \/ (c = z.bucket + 1 /\ j > z.idx)
Ahead(t, z) == {k \in Keys : \E c \in DOMAIN t : \E j \in DOMAIN t[c] : IsPast(z, c, j) /\ t[c][j].key = k}

Iterators == [valid : BOOLEAN, bucket : Nat, idx : Nat, given : Seq(Keys), start : SUBSET Keys]
Given(z) == {z.given[i] : i \in DOMAIN z.given}
OnceEach(z) == \A i, j \in DOMAIN z.given : z.given[i] = z.given[j] => i = j

(* An iterator that is not past the end is at the entry it returned last,  *)
(* if that is still there: it may be removed.                              *)
IsThere(t, z) ==
    z.given # <<>> /\ z.bucket < Len(t) =>
        \A c \in DOMAIN t : \A j \in DOMAIN t[c] :
            t[c][j].key = z.given[Len(z.given)] => c = z.bucket + 1 /\ j = z.idx

IteratorInv(t, z) ==
    /\ z \in Iterators
    /\ z.valid => /\ z.bucket <= Len(t) /\ OnceEach(z) /\ IsThere(t, z)
                  /\ z.start = Given(z) \cup Ahead(t, z) /\ Given(z) \cap Ahead(t, z) = {}

ZhashInv ==
    /\ \E U \in SUBSET Items : Holds(buckets, U) /\ count = Cardinality(U)
    /\ IteratorInv(buckets, zit)

(* Two places have no key in common. *)
LEMMA OnePlace ==
  ASSUME NEW t, NEW U, Holds(t, U), NEW c \in DOMAIN t, NEW d \in DOMAIN t,
         NEW i \in DOMAIN t[c], NEW j \in DOMAIN t[d]
  PROVE  /\ t[c][i] \in U /\ t[c][i].key \in Keys /\ c = Home(Len(t), t[c][i].key)
         /\ t[c][i].key = t[d][j].key => c = d /\ i = j
<1>1. Lists(t[c], At(U, Len(t), c)) /\ Lists(t[d], At(U, Len(t), d)) /\ Keyed(U)
  BY DEF Holds
<1>2. t[c][i] \in At(U, Len(t), c) /\ t[d][j] \in At(U, Len(t), d)
  BY <1>1 DEF Lists
<1>3. t[c][i] \in U /\ t[c][i].key \in Keys /\ Home(Len(t), t[c][i].key) = c
  BY <1>1, <1>2 DEF At, Keyed
<1>4. t[d][j] \in U /\ Home(Len(t), t[d][j].key) = d
  BY <1>1, <1>2 DEF At, Keyed
<1>5. ASSUME t[c][i].key = t[d][j].key PROVE c = d /\ i = j
  <2>1. c = d /\ t[c][i] = t[d][j]
    BY <1>1, <1>3, <1>4, <1>5 DEF Keyed
  <2> QED
    BY <1>1, <2>1 DEF Lists
<1> QED
  BY <1>3, <1>5

(* The invariant is what ZHash promises of its size and its iterators.     *)
LEMMA ZhashExact ==
  ASSUME ZhashInv
  PROVE  Zhash!SizeIsExact /\ Zhash!EachKeyOnce
<1>1. PICK U \in SUBSET Items : Holds(buckets, U) /\ count = Cardinality(U)
  BY DEF ZhashInv
<1>2. Zhash!Present = KeysOf(U)
  BY <1>1, ValuedIs, ZhashMap
<1>3. Lists(FlattenSeq(buckets), U)
  BY <1>1, HoldsFlat
<1>4. IsFiniteSet(U) /\ Cardinality(U) = Len(FlattenSeq(buckets))
  BY <1>3, ListsCount
<1>5. Cardinality(KeysOf(U)) = Cardinality(U)
  BY <1>1, <1>4, KeysCount DEF Holds
<1>6. Zhash!Entries(buckets) = FlattenSeq(buckets)
  BY SameFlatten DEF Zhash!Entries
<1>7. Zhash!SizeIsExact
  BY <1>1, <1>2, <1>4, <1>5, <1>6, SameCardinality DEF Zhash!SizeIsExact
<1>8. ASSUME zit.valid
      PROVE  /\ Zhash!IsInjective(zit.given) /\ Zhash!ToSet(zit.given) \subseteq zit.start
             /\ zit.bucket = Len(buckets) => Zhash!ToSet(zit.given) = zit.start
  <2>1. OnceEach(zit) /\ zit.start = Given(zit) \cup Ahead(buckets, zit) /\ zit \in Iterators
    BY <1>8 DEF ZhashInv, IteratorInv
  <2>2. Zhash!ToSet(zit.given) = Given(zit)
    BY DEF Zhash!ToSet, Given
  <2>3. Zhash!IsInjective(zit.given)
    BY <2>1 DEF Zhash!IsInjective, OnceEach
  <2>4. ASSUME zit.bucket = Len(buckets) PROVE Ahead(buckets, zit) = {}
    <3>1. \A c \in DOMAIN buckets : c \in Nat /\ c <= Len(buckets) /\ Len(buckets) \in Nat
      BY <1>1 DEF Holds
    <3>2. \A c \in DOMAIN buckets : \A j : ~IsPast(zit, c, j)
      BY <2>4, <3>1 DEF IsPast
    <3> QED
      BY <3>2 DEF Ahead
  <2> QED
    BY <2>1, <2>2, <2>3, <2>4
<1> QED
  BY <1>7, <1>8 DEF Zhash!EachKeyOnce

(* A table without an iterator. *)
LEMMA NoIteratorIs ==
  ASSUME NEW t
  PROVE  IteratorInv(t, Zhash!NoIterator)
<1>1. <<>> \in Seq(Keys) /\ {} \in SUBSET Keys
  OBVIOUS
<1> QED
  BY <1>1 DEF IteratorInv, Iterators, Zhash!NoIterator

(* Initially the table holds nothing. *)
LEMMA ZhashInit ==
  ASSUME Zhash!Init
  PROVE  ZhashInv
<1>1. PICK m \in Nat \ {0} : m = InitialBuckets
  BY ComponentsAssumption DEF Table!TableAssumption
<1>2. Holds(buckets, {})
  BY <1>1, HoldsNothing DEF Zhash!Init, Zhash!Empty
<1>3. count = Cardinality({})
  BY FS_EmptySet DEF Zhash!Init
<1>4. IteratorInv(buckets, zit)
  BY NoIteratorIs DEF Zhash!Init
<1>5. {} \in SUBSET Items
  OBVIOUS
<1> QED
  BY <1>2, <1>3, <1>4, <1>5 DEF ZhashInv

-----------------------------------------------------------------------------
(* What is looked for in the table is found if it is a key of the map.     *)
LEMMA ZhashFound ==
  ASSUME NEW U \in SUBSET Items, Holds(buckets, U), NEW k \in Keys
  PROVE  /\ Zhash!Map = MapOf(U, ValueIn) /\ DOMAIN Zhash!Map = KeysOf(U)
         /\ Zhash!IsIn(buckets, k) = (k \in KeysOf(U))
         /\ Zhash!Map = [j \in DOMAIN Zhash!Map |-> Zhash!Map[j]]
<1>1. Zhash!Map = MapOf(U, ValueIn)
  BY ValuedIs, ZhashMap
<1>2. DOMAIN Zhash!Map = KeysOf(U) /\ Zhash!Map = [j \in DOMAIN Zhash!Map |-> Zhash!Map[j]]
  BY <1>1 DEF MapOf
<1>3. Zhash!IsIn(buckets, k) <=> k \in KeysOf(U)
  BY ValuedIs, ZhashMap
<1>4. Zhash!IsIn(buckets, k) \in BOOLEAN
  BY DEF Zhash!IsIn
<1> QED
  BY <1>1, <1>2, <1>3, <1>4

(* zhash_put *)
LEMMA PutKeeps ==
  ASSUME ZhashInv, NEW k \in Keys, NEW v \in Values, Zhash!Put(k, v)
  PROVE  ZhashInv' /\ Zhash!IsAMap
<1>1. PICK U \in SUBSET Items : Holds(buckets, U) /\ count = Cardinality(U)
  BY DEF ZhashInv
<1>2. PICK t : t = Zhash!Grown(buckets, count)
  OBVIOUS
<1>3. Holds(t, U)
  <2>1. buckets \in Tables
    BY <1>1, HoldsTable
  <2> QED
    BY <1>1, <1>2, <2>1, GrownIs
<1>4. PICK e \in Items : e = Item(k, v) /\ e.key = k /\ e.value = v /\ ValueIn[e] = v
  <2>1. PICK d : d = Item(k, v)
    OBVIOUS
  <2>2. d \in Items /\ d.key = k /\ d.value = v
    BY <2>1 DEF Item, Items
  <2>3. ValueIn[d] = d.value
    BY <2>2 DEF ValueIn
  <2> QED
    BY <2>1, <2>2, <2>3
<1>5. PICK V : V = With(U, e)
  OBVIOUS
<1>6. V \in SUBSET Items
  BY <1>5 DEF With
<1>7. buckets' = Zhash!PutReal(t, e.key, e.value)
  BY <1>2, <1>4 DEF Zhash!Put
<1>8. /\ Holds(buckets', V)
      /\ IsFiniteSet(U) /\ IsFiniteSet(V) /\ Cardinality(U) \in Nat
      /\ e.key \in KeysOf(U) => Cardinality(V) = Cardinality(U)
      /\ e.key \notin KeysOf(U) => Cardinality(V) = Cardinality(U) + 1
  BY <1>3, <1>5, <1>7, PutRealHolds
<1>9. had' = (k \in KeysOf(U)) /\ count' = IF k \in KeysOf(U) THEN count ELSE count + 1
  <2>1. had' = Zhash!IsIn(buckets, k) /\ count' = IF had' THEN count ELSE count + 1
    BY DEF Zhash!Put
  <2>2. Zhash!IsIn(buckets, k) = (k \in KeysOf(U))
    BY <1>1, ZhashFound
  <2> QED
    BY <2>1, <2>2
<1>10. count' = Cardinality(V)
  BY <1>1, <1>4, <1>8, <1>9
<1>11. IteratorInv(buckets', zit')
  BY NoIteratorIs DEF Zhash!Put
<1>12. ZhashInv'
  BY <1>6, <1>8, <1>10, <1>11 DEF ZhashInv
<1>13. PICK m : m = Zhash!Map
  OBVIOUS
<1>14. m = MapOf(U, ValueIn) /\ DOMAIN m = KeysOf(U)
  BY <1>1, <1>13, ZhashFound
<1>15. Zhash!Map' = MapOf(V, ValueIn)
  BY <1>6, <1>8, ValuedIs, ZhashMap
<1>16. Keyed(U) /\ Keyed(V)
  BY <1>1, <1>8 DEF Holds
<1>17. IsPut(MapOf(V, ValueIn), m, e.key, ValueIn[e])
  <2>1. CASE k \in KeysOf(U)
    <3>1. PICK d \in U : d.key = k
      BY <2>1 DEF KeysOf
    <3>2. V = (U \ {d}) \cup {e}
      BY <1>4, <1>5, <1>16, <3>1 DEF With, Keyed
    <3>3. e.key = d.key
      BY <1>4, <3>1
    <3>4. IsPut(MapOf((U \ {d}) \cup {e}, ValueIn), m, e.key, ValueIn[e])
      BY <1>14, <1>16, <3>3, MapReplace
    <3> QED
      BY <3>2, <3>4
  <2>2. CASE k \notin KeysOf(U)
    <3>1. \A d \in U : d.key # e.key
      BY <1>4, <2>2 DEF KeysOf
    <3>2. V = U \cup {e}
      BY <1>5, <3>1 DEF With
    <3>3. Keyed(U \cup {e})
      BY <1>16, <3>2
    <3>4. IsPut(MapOf(U \cup {e}, ValueIn), m, e.key, ValueIn[e])
      BY <1>14, <1>16, <3>1, <3>3, MapAdd
    <3> QED
      BY <3>2, <3>4
  <2> QED
    BY <2>1, <2>2
<1>18. IsPut(Zhash!Map', m, k, v)
  BY <1>4, <1>15, <1>17
<1>19. had' = (k \in DOMAIN m)
  BY <1>9, <1>14
<1> QED
  BY <1>12, <1>13, <1>18, <1>19, ZhashPut

(* zhash_get and the others that only look *)
LEMMA GetKeeps ==
  ASSUME ZhashInv, NEW k \in Keys, Zhash!Get(k)
  PROVE  ZhashInv' /\ Zhash!IsAMap
<1>1. PICK U \in SUBSET Items : Holds(buckets, U)
  BY DEF ZhashInv
<1>2. had' = Zhash!IsIn(buckets, k) /\ buckets' = buckets /\ count' = count /\ zit' = zit
  BY DEF Zhash!Get
<1>3. had' = (k \in DOMAIN Zhash!Map)
  BY <1>1, <1>2, ZhashFound
<1>4. Zhash!Map' = Zhash!Map
  BY <1>2, ZhashMap
<1>5. ZhashInv'
  BY <1>2 DEF ZhashInv
<1> QED
  BY <1>3, <1>4, <1>5, ZhashGet

(* zhash_copy *)
LEMMA CopyKeeps ==
  ASSUME ZhashInv, Zhash!Copy
  PROVE  ZhashInv' /\ Zhash!IsAMap
<1>1. PICK U \in SUBSET Items : Holds(buckets, U) /\ count = Cardinality(U)
  BY DEF ZhashInv
<1>2. Holds(buckets', U)
  BY <1>1, CopyHolds DEF Zhash!Copy
<1>3. count' = count /\ IteratorInv(buckets', zit')
  BY NoIteratorIs DEF Zhash!Copy
<1>4. ZhashInv'
  BY <1>1, <1>2, <1>3 DEF ZhashInv
<1>5. Zhash!Map' = Zhash!Map
  BY <1>1, <1>2, ValuedIs, ZhashMap
<1> QED
  BY <1>4, <1>5 DEF Zhash!IsAMap

(* zhash_remove: the last entry of the bucket fills the gap; the places    *)
(* before and after it.                                                    *)
LEMMA RemoveRealIs ==
  ASSUME NEW U \in SUBSET Items, Holds(buckets, U), count = Cardinality(U),
         NEW k \in Keys, Zhash!RemoveReal(k)
  PROVE  /\ Zhash!IsAMap /\ had' = (k \in KeysOf(U))
         /\ \E V \in SUBSET Items : Holds(buckets', V) /\ count' = Cardinality(V)
         /\ k \notin KeysOf(U) => buckets' = buckets
         /\ k \in KeysOf(U) =>
              \E h \in DOMAIN buckets, i \in DOMAIN buckets[Home(Len(buckets), k)] :
                 /\ h = Home(Len(buckets), k) /\ buckets[h][i].key = k
                 /\ Len(buckets') = Len(buckets)
                 /\ \A c \in DOMAIN buckets : c # h => buckets'[c] = buckets[c]
                 /\ Len(buckets'[h]) = Len(buckets[h]) - 1
                 /\ \A j \in 1 .. Len(buckets[h]) - 1 :
                       buckets'[h][j] = IF j = i THEN buckets[h][Len(buckets[h])] ELSE buckets[h][j]
<1>1. PICK m : m = Zhash!Map
  OBVIOUS
<1>2. m = MapOf(U, ValueIn) /\ DOMAIN m = KeysOf(U) /\ m = [j \in DOMAIN m |-> m[j]]
  BY <1>1, ZhashFound
<1>3. had' = (k \in KeysOf(U)) /\ had' = Zhash!IsIn(buckets, k)
  BY ZhashFound DEF Zhash!RemoveReal
<1>4. CASE k \notin KeysOf(U)
  <2>1. buckets' = buckets /\ count' = count
    BY <1>3, <1>4 DEF Zhash!RemoveReal
  <2>2. Zhash!Map' = m
    BY <1>1, <2>1, ZhashMap
  <2>3. IsRemoval(m, m, k)
    BY <1>2, <1>4 DEF IsRemoval
  <2>4. Zhash!IsAMap
    BY <1>1, <1>2, <1>3, <2>2, <2>3, ZhashRemove
  <2> QED
    BY <1>3, <1>4, <2>1, <2>4
<1>5. CASE k \in KeysOf(U)
  <2>1. PICK e \in U : e.key = k
    BY <1>5 DEF KeysOf
  <2>2. PICK h : h = Home(Len(buckets), k)
    OBVIOUS
  <2>3. PICK i \in 1 .. Len(buckets[h]) : i = Zhash!Index(buckets[h], k) /\ buckets[h][i] = e
    BY <2>1, <2>2, FoundPlace
  <2>4. /\ Lists(buckets[h], At(U, Len(buckets), h)) /\ h \in DOMAIN buckets
        /\ buckets[h] \in Seq(U) /\ DOMAIN buckets[h] = 1 .. Len(buckets[h]) /\ Len(buckets[h]) \in Nat
    BY <2>2, HoldsBucket DEF Lists
  <2>5. PICK n \in Nat \ {0} : n = Len(buckets[h]) /\ i \in 1 .. n
    <3>1. Len(buckets[h]) \in Nat /\ Len(buckets[h]) # 0
      BY <2>3, <2>4
    <3> QED
      BY <2>3, <3>1
  <2>6. PICK r : r = [buckets[h] EXCEPT ![i] = buckets[h][n]]
    OBVIOUS
  <2>7. /\ r \in Seq(At(U, Len(buckets), h)) /\ Len(r) = n /\ r[i] = buckets[h][n]
        /\ \A j \in 1 .. n : j # i => r[j] = buckets[h][j]
    <3>1. buckets[h] \in Seq(At(U, Len(buckets), h)) /\ buckets[h][n] \in At(U, Len(buckets), h)
      BY <2>4, <2>5 DEF Lists
    <3> QED
      BY <2>5, <2>6, <3>1, ExceptSeq
  <2>8. PICK bucket : bucket = SubSeq(r, 1, n - 1)
    OBVIOUS
  <2>9. Lists(bucket, At(U, Len(buckets), h) \ {e})
    <3>1. PICK w : w = buckets[h]
      OBVIOUS
    <3>2. PICK S : S = At(U, Len(buckets), h)
      OBVIOUS
    <3>3. Lists(w, S) /\ i \in DOMAIN w /\ w[i] = e /\ n = Len(w) /\ DOMAIN w = 1 .. n
      BY <2>3, <2>4, <2>5, <3>1, <3>2
    <3>4. r \in Seq(S) /\ Len(r) = Len(w) /\ r[i] = w[Len(w)] /\ \A j \in DOMAIN w : j # i => r[j] = w[j]
      BY <2>7, <3>1, <3>2, <3>3
    <3>5. Lists(SubSeq(r, 1, Len(r) - 1), S \ {w[i]})
      BY <3>3, <3>4, ListsShuffle
    <3> QED
      BY <2>7, <2>8, <3>2, <3>3, <3>5
  <2>10. Len(bucket) = n - 1 /\ \A j \in 1 .. n - 1 : bucket[j] = r[j]
    BY <2>5, <2>7, <2>8
  <2>11. Updates(buckets', buckets, k, bucket)
    <3>1. Zhash!Shuffled(buckets[h], i) = bucket
      BY <2>5, <2>6, <2>7, <2>8 DEF Zhash!Shuffled, Zhash!Front, Zhash!Last
    <3>2. Zhash!Place(buckets, k) = h
      BY <2>2 DEF Zhash!Place, Home
    <3>3. buckets' = [buckets EXCEPT ![h] = Zhash!Shuffled(@, Zhash!Index(@, k))]
      BY <1>3, <1>5, <3>2 DEF Zhash!RemoveReal
    <3> QED
      BY <2>2, <2>3, <3>1, <3>3 DEF Updates
  <2>12. count' = count - 1
    BY <1>3, <1>5 DEF Zhash!RemoveReal
  <2>13. PICK s : s = buckets'
    OBVIOUS
  <2>14. PICK V : V = U \ {e}
    OBVIOUS
  <2>15. /\ Holds(s, V) /\ Len(s) = Len(buckets)
         /\ Cardinality(V) = Cardinality(U) - 1 /\ Cardinality(U) \in Nat
    <3>1. Lists(bucket, At(U, Len(buckets), Home(Len(buckets), k)) \ {e})
      BY <2>2, <2>9
    <3>2. Updates(s, buckets, k, bucket)
      BY <2>11, <2>13
    <3>3. /\ Holds(s, U \ {e}) /\ Len(s) = Len(buckets)
          /\ \A b \in DOMAIN s : Len(s[b]) <= Len(buckets[b])
          /\ IsFiniteSet(U) /\ Cardinality(U \ {e}) = Cardinality(U) - 1 /\ Cardinality(U) \in Nat
      BY <2>1, <3>1, <3>2, HoldsWithout
    <3> QED
      BY <2>14, <3>3
  <2>16. V \in SUBSET Items /\ count' = Cardinality(V)
    BY <2>12, <2>14, <2>15
  <2>17. IsRemoval(Zhash!Map', m, k)
    <3>1. Zhash!Map' = MapOf(V, ValueIn)
      BY <2>13, <2>15, <2>16, ValuedIs, ZhashMap
    <3>2. Keyed(U)
      BY DEF Holds
    <3>3. IsRemoval(MapOf(V, ValueIn), m, e.key)
      BY <1>2, <2>14, <3>2, MapRemove
    <3> QED
      BY <2>1, <3>1, <3>3
  <2>18. Zhash!IsAMap
    BY <1>1, <1>2, <1>3, <2>17, ZhashRemove
  <2>19. s[h] = bucket /\ \A c \in DOMAIN buckets : c # h => s[c] = buckets[c]
    BY <2>2, <2>4, <2>11, <2>13 DEF Updates
  <2>20. Len(s[h]) = n - 1 /\ \A j \in 1 .. n - 1 : s[h][j] = IF j = i THEN buckets[h][n] ELSE buckets[h][j]
    BY <2>5, <2>7, <2>10, <2>19
  <2>21. buckets[h][i].key = k /\ i \in DOMAIN buckets[Home(Len(buckets), k)]
    BY <2>1, <2>2, <2>3, <2>4
  <2>22. \E W \in SUBSET Items : Holds(buckets', W) /\ count' = Cardinality(W)
    BY <2>13, <2>15, <2>16
  <2>23. \E b \in DOMAIN buckets, j \in DOMAIN buckets[Home(Len(buckets), k)] :
            /\ b = Home(Len(buckets), k) /\ buckets[b][j].key = k
            /\ Len(buckets') = Len(buckets)
            /\ \A c \in DOMAIN buckets : c # b => buckets'[c] = buckets[c]
            /\ Len(buckets'[b]) = Len(buckets[b]) - 1
            /\ \A a \in 1 .. Len(buckets[b]) - 1 :
                  buckets'[b][a] = IF a = j THEN buckets[b][Len(buckets[b])] ELSE buckets[b][a]
    <3>1. /\ h \in DOMAIN buckets /\ i \in DOMAIN buckets[Home(Len(buckets), k)]
          /\ h = Home(Len(buckets), k) /\ buckets[h][i].key = k
      BY <2>2, <2>4, <2>21
    <3>2. /\ Len(buckets') = Len(buckets)
          /\ \A c \in DOMAIN buckets : c # h => buckets'[c] = buckets[c]
      BY <2>13, <2>15, <2>19
    <3>3. /\ Len(buckets'[h]) = Len(buckets[h]) - 1
          /\ \A a \in 1 .. Len(buckets[h]) - 1 :
                buckets'[h][a] = IF a = i THEN buckets[h][Len(buckets[h])] ELSE buckets[h][a]
      <4>1. buckets'[h] = s[h] /\ n = Len(buckets[h])
        BY <2>5, <2>13
      <4> QED
        BY <2>20, <4>1
    <3> QED
      BY <3>1, <3>2, <3>3
  <2> QED
    BY <1>3, <1>5, <2>18, <2>22, <2>23
<1> QED
  BY <1>4, <1>5

(* zhash_remove, by which an iterator becomes invalid. *)
LEMMA RemoveKeyKeeps ==
  ASSUME ZhashInv, NEW k \in Keys, Zhash!RemoveKey(k)
  PROVE  ZhashInv' /\ Zhash!IsAMap
<1>1. PICK U \in SUBSET Items : Holds(buckets, U) /\ count = Cardinality(U)
  BY DEF ZhashInv
<1>2. Zhash!RemoveReal(k) /\ zit' = Zhash!NoIterator
  BY DEF Zhash!RemoveKey
<1>3. Zhash!IsAMap /\ \E V \in SUBSET Items : Holds(buckets', V) /\ count' = Cardinality(V)
  BY <1>1, <1>2, RemoveRealIs
<1>4. IteratorInv(buckets', zit')
  BY <1>2, NoIteratorIs
<1> QED
  BY <1>3, <1>4 DEF ZhashInv

-----------------------------------------------------------------------------
(* zhash_iterator_init: every key is ahead. *)
LEMMA IteratorInitKeeps ==
  ASSUME ZhashInv, Zhash!IteratorInit
  PROVE  ZhashInv' /\ Zhash!IsAMap
<1>1. PICK U \in SUBSET Items : Holds(buckets, U) /\ count = Cardinality(U)
  BY DEF ZhashInv
<1>2. buckets' = buckets /\ count' = count /\ had' = had
  BY DEF Zhash!IteratorInit
<1>3. PICK z : z = zit'
  OBVIOUS
<1>4. PICK K : K = {e.key : e \in Zhash!ToSet(Zhash!Entries(buckets))}
  OBVIOUS
<1>5. /\ z = [valid |-> TRUE, bucket |-> 0, idx |-> 0, given |-> <<>>, start |-> K]
      /\ z.valid = TRUE /\ z.bucket = 0 /\ z.idx = 0 /\ z.given = <<>> /\ z.start = K
  BY <1>3, <1>4 DEF Zhash!IteratorInit, Zhash!NoIterator
<1>6. K = KeysOf(U)
  <2>1. Zhash!Entries(buckets) = FlattenSeq(buckets) /\ Lists(FlattenSeq(buckets), U)
    BY <1>1, HoldsFlat, SameFlatten DEF Zhash!Entries
  <2>2. Zhash!ToSet(Zhash!Entries(buckets)) = U
    BY <2>1 DEF Zhash!ToSet, Lists
  <2> QED
    BY <1>4, <2>2 DEF KeysOf
<1>7. K \subseteq Keys
  BY <1>1, <1>6 DEF KeysOf, Holds, Keyed
<1>8. z \in Iterators
  <2>1. <<>> \in Seq(Keys)
    OBVIOUS
  <2> QED
    BY <1>5, <1>7, <2>1 DEF Iterators
<1>9. Given(z) = {}
  BY <1>5 DEF Given
<1>10. Ahead(buckets, z) = K
  <2>1. ASSUME NEW k \in K PROVE k \in Ahead(buckets, z)
    <3>1. PICK e \in U : e.key = k
      BY <1>6, <2>1 DEF KeysOf
    <3>2. k \in Keys
      BY <1>7
    <3>3. PICK c : c = Home(Len(buckets), k)
      OBVIOUS
    <3>4. c \in DOMAIN buckets /\ Lists(buckets[c], At(U, Len(buckets), c)) /\ c \in 1 .. Len(buckets)
      BY <1>1, <3>2, <3>3, HoldsBucket
    <3>5. e \in At(U, Len(buckets), c)
      BY <3>1, <3>3 DEF At
    <3>6. PICK j \in DOMAIN buckets[c] : buckets[c][j] = e
      BY <3>4, <3>5 DEF Lists
    <3>7. j \in Nat /\ j > 0
      BY <3>4, <3>6 DEF Lists
    <3>8. Len(buckets) \in Nat
      BY <1>1 DEF Holds
    <3>9. IsPast(z, c, j)
      BY <1>5, <3>4, <3>7, <3>8 DEF IsPast
    <3> QED
      BY <3>1, <3>2, <3>4, <3>6, <3>9 DEF Ahead
  <2>2. ASSUME NEW k \in Ahead(buckets, z) PROVE k \in K
    <3>1. PICK c \in DOMAIN buckets : \E j \in DOMAIN buckets[c] : buckets[c][j].key = k
      BY <2>2 DEF Ahead
    <3>2. PICK j \in DOMAIN buckets[c] : buckets[c][j].key = k
      BY <3>1
    <3>3. buckets[c][j] \in U
      BY <1>1, <3>2, OnePlace
    <3> QED
      BY <1>6, <3>2, <3>3 DEF KeysOf
  <2> QED
    BY <2>1, <2>2
<1>11. OnceEach(z) /\ IsThere(buckets, z)
  BY <1>5 DEF OnceEach, IsThere
<1>12. z.bucket <= Len(buckets)
  BY <1>1, <1>5 DEF Holds
<1>13. IteratorInv(buckets, z)
  BY <1>5, <1>8, <1>9, <1>10, <1>11, <1>12 DEF IteratorInv
<1>14. ZhashInv'
  BY <1>1, <1>2, <1>3, <1>13 DEF ZhashInv
<1>15. Zhash!Map' = Zhash!Map
  BY <1>2, ZhashMap
<1> QED
  BY <1>2, <1>14, <1>15, ZhashStays

(* Where the iterator goes: to the first entry past it, or to the end.     *)
LEMMA NextPlaceIs ==
  ASSUME NEW U \in SUBSET Items, Holds(buckets, U), zit \in Iterators, zit.bucket <= Len(buckets),
         NEW b, b = Zhash!NextPlace, NEW i, i = (IF b = zit.bucket THEN zit.idx ELSE 0) + 1
  PROVE  \/ b = Len(buckets) /\ Ahead(buckets, zit) = {}
         \/ /\ b \in Nat /\ b < Len(buckets) /\ b + 1 \in DOMAIN buckets
            /\ i \in DOMAIN buckets[b + 1] /\ i \in Nat /\ IsPast(zit, b + 1, i)
            /\ \A c \in DOMAIN buckets : \A j \in DOMAIN buckets[c] :
                  IsPast(zit, c, j) => c > b + 1 \/ (c = b + 1 /\ j >= i)
<1>1. PICK n \in Nat \ {0} : n = Len(buckets) /\ DOMAIN buckets = 1 .. n
  BY DEF Holds
<1>2. \A c \in 1 .. n : Len(buckets[c]) \in Nat /\ DOMAIN buckets[c] = 1 .. Len(buckets[c])
  BY <1>1 DEF Holds, Lists
<1>3. PICK y \in Nat, x \in Nat : y = zit.bucket /\ x = zit.idx
  BY DEF Iterators
<1> DEFINE From(c) == IF c = y THEN x ELSE 0
<1>4. PICK S : S = {c \in y .. n - 1 : Len(buckets[c + 1]) > From(c)}
  OBVIOUS
<1>5. b = IF S = {} THEN n ELSE CHOOSE c \in S : \A d \in S : c <= d
  BY <1>1, <1>3, <1>4 DEF Zhash!NextPlace
<1>6. y <= n /\ i = From(b) + 1
  BY <1>1, <1>3
<1>7. ASSUME NEW c \in 1 .. n, NEW j \in DOMAIN buckets[c], IsPast(zit, c, j)
      PROVE  c - 1 \in S /\ j \in Nat /\ j > From(c - 1)
  <2>1. j \in Nat /\ j >= 1 /\ j <= Len(buckets[c])
    BY <1>2
  <2>2. c > y + 1 \/ (c = y + 1 /\ j > x)
    BY <1>3, <1>7 DEF IsPast
  <2>3. j > From(c - 1) /\ c - 1 \in y .. n - 1 /\ (c - 1) + 1 = c
    BY <1>3, <2>1, <2>2
  <2>4. From(c - 1) \in Nat
    BY <1>3
  <2>5. Len(buckets[(c - 1) + 1]) > From(c - 1)
    BY <1>2, <2>1, <2>3, <2>4
  <2> HIDE DEF From
  <2> QED
    BY <1>4, <2>1, <2>3, <2>5
<1>8. CASE S = {}
  <2>1. Ahead(buckets, zit) = {}
    BY <1>1, <1>7, <1>8 DEF Ahead
  <2> QED
    BY <1>1, <1>5, <1>8, <2>1
<1>9. CASE S # {}
  <2>1. S \subseteq Nat
    BY <1>1, <1>3, <1>4
  <2>2. b \in S /\ \A d \in S : b <= d
    <3>1. PICK c \in S : \A d \in S : c <= d
      BY <1>9, <2>1, LeastNumber
    <3> QED
      BY <1>5, <1>9, <3>1
  <2>3. b \in Nat /\ b < n /\ y <= b /\ Len(buckets[b + 1]) > From(b) /\ b + 1 \in 1 .. n
    BY <1>1, <1>3, <1>4, <2>2
  <2>4. From(b) \in Nat
    BY <1>3
  <2>5. i \in Nat /\ i \in DOMAIN buckets[b + 1]
    BY <1>2, <1>6, <2>3, <2>4
  <2>6. IsPast(zit, b + 1, i)
    BY <1>3, <1>6, <2>3 DEF IsPast
  <2>7. ASSUME NEW c \in 1 .. n, NEW j \in DOMAIN buckets[c], IsPast(zit, c, j)
        PROVE  c > b + 1 \/ (c = b + 1 /\ j >= i)
    <3>1. c - 1 \in S /\ j \in Nat /\ j > From(c - 1)
      BY <1>7, <2>7
    <3>2. b <= c - 1
      BY <2>2, <3>1
    <3>3. CASE b = c - 1
      BY <1>6, <2>3, <2>4, <3>1, <3>3
    <3>4. CASE b < c - 1
      BY <2>3, <3>4
    <3> QED
      BY <2>3, <3>2, <3>3, <3>4
  <2> QED
    BY <1>1, <2>3, <2>5, <2>6, <2>7
<1> QED
  BY <1>8, <1>9

(* zhash_iterator_next: the key that is returned is no longer ahead.       *)
LEMMA IteratorNextKeeps ==
  ASSUME ZhashInv, Zhash!IteratorNext
  PROVE  ZhashInv' /\ Zhash!IsAMap
<1>1. PICK U \in SUBSET Items : Holds(buckets, U) /\ count = Cardinality(U)
  BY DEF ZhashInv
<1>2. buckets' = buckets /\ count' = count
  BY DEF Zhash!IteratorNext
<1>3. /\ zit \in Iterators /\ zit.valid /\ zit.bucket <= Len(buckets) /\ OnceEach(zit)
      /\ IsThere(buckets, zit) /\ Given(zit) \cap Ahead(buckets, zit) = {}
      /\ zit.start = Given(zit) \cup Ahead(buckets, zit)
  BY DEF ZhashInv, IteratorInv, Zhash!IteratorNext
<1>4. PICK b : b = Zhash!NextPlace
  OBVIOUS
<1>5. PICK i : i = (IF b = zit.bucket THEN zit.idx ELSE 0) + 1
  OBVIOUS
<1>6. PICK n \in Nat \ {0} : n = Len(buckets) /\ DOMAIN buckets = 1 .. n
  BY <1>1 DEF Holds
<1>7. PICK z : z = zit'
  OBVIOUS
<1>8. IteratorInv(buckets, z)
  <2>1. CASE b = n /\ Ahead(buckets, zit) = {}
    <3>1. z = [zit EXCEPT !.bucket = b, !.idx = 0]
      BY <1>4, <1>6, <1>7, <2>1 DEF Zhash!IteratorNext
    <3>2. /\ z \in Iterators /\ z.valid = zit.valid /\ z.bucket = n /\ z.idx = 0
          /\ z.given = zit.given /\ z.start = zit.start
      BY <1>3, <2>1, <3>1 DEF Iterators
    <3>3. Given(z) = Given(zit) /\ OnceEach(z) /\ IsThere(buckets, z) /\ z.bucket <= Len(buckets)
      BY <1>3, <1>6, <3>2 DEF Given, OnceEach, IsThere
    <3>4. Ahead(buckets, z) = {}
      <4>1. \A c \in 1 .. n : \A j : ~IsPast(z, c, j)
        BY <3>2 DEF IsPast
      <4> QED
        BY <1>6, <4>1 DEF Ahead
    <3> QED
      BY <1>3, <2>1, <3>2, <3>3, <3>4 DEF IteratorInv
  <2>2. CASE /\ b \in Nat /\ b < n /\ b + 1 \in DOMAIN buckets
             /\ i \in DOMAIN buckets[b + 1] /\ i \in Nat /\ IsPast(zit, b + 1, i)
             /\ \A c \in DOMAIN buckets : \A j \in DOMAIN buckets[c] :
                   IsPast(zit, c, j) => c > b + 1 \/ (c = b + 1 /\ j >= i)
    <3>1. PICK k \in Keys : k = buckets[b + 1][i].key
      BY <1>1, <2>2, OnePlace
    <3>2. z = [zit EXCEPT !.bucket = b, !.idx = i, !.given = Append(zit.given, k)]
      BY <1>4, <1>5, <1>6, <1>7, <2>2, <3>1 DEF Zhash!IteratorNext
    <3>3. PICK g, given : g = zit.given /\ given = Append(zit.given, k)
      OBVIOUS
    <3>4. g \in Seq(Keys)
      BY <1>3, <3>3 DEF Iterators
    <3>5. PICK l \in Nat : l = Len(g)
      BY <3>4, LenProperties
    <3>6. given \in Seq(Keys) /\ Len(given) = l + 1 /\ given[l + 1] = k /\ \A j \in 1 .. l : given[j] = g[j]
      BY <3>3, <3>4, <3>5, AppendProperties
    <3>7. /\ z \in Iterators /\ z.valid = zit.valid /\ z.bucket = b /\ z.idx = i
          /\ z.given = given /\ z.start = zit.start
      BY <1>3, <2>2, <3>2, <3>3, <3>6 DEF Iterators
    <3>8. DOMAIN g = 1 .. l /\ DOMAIN given = 1 .. l + 1
      BY <3>4, <3>5, <3>6
    <3>9. Given(z) = Given(zit) \cup {k}
      <4>1. \A j \in 1 .. l + 1 : j \in 1 .. l \/ j = l + 1
        BY <3>5
      <4>2. \A x \in Given(z) : x \in Given(zit) \cup {k}
        BY <3>3, <3>6, <3>7, <3>8, <4>1 DEF Given
      <4>3. \A x \in Given(zit) : x \in Given(z)
        <5>1. \A j \in 1 .. l : j \in 1 .. l + 1
          BY <3>5
        <5> QED
          BY <3>3, <3>6, <3>7, <3>8, <5>1 DEF Given
      <4>4. k \in Given(z)
        <5>1. l + 1 \in 1 .. l + 1
          BY <3>5
        <5> QED
          BY <3>6, <3>7, <3>8, <5>1 DEF Given
      <4> QED
        BY <4>2, <4>3, <4>4
    <3>10. k \in Ahead(buckets, zit)
      BY <2>2, <3>1 DEF Ahead
    <3>11. Ahead(buckets, z) = Ahead(buckets, zit) \ {k}
      <4>1. ASSUME NEW x \in Ahead(buckets, z) PROVE x \in Ahead(buckets, zit) \ {k}
        <5>1. PICK c \in DOMAIN buckets : \E j \in DOMAIN buckets[c] : IsPast(z, c, j) /\ buckets[c][j].key = x
          BY <4>1 DEF Ahead
        <5>2. PICK j \in DOMAIN buckets[c] : IsPast(z, c, j) /\ buckets[c][j].key = x
          BY <5>1
        <5>3. j \in Nat /\ c \in Nat
          BY <1>1, <1>6 DEF Holds, Lists
        <5>4. c > b + 1 \/ (c = b + 1 /\ j > i)
          BY <3>7, <5>2 DEF IsPast
        <5>5. IsPast(zit, c, j)
          <6>1. zit.bucket \in Nat /\ zit.idx \in Nat
            BY <1>3 DEF Iterators
          <6> QED
            BY <2>2, <5>3, <5>4, <6>1 DEF IsPast
        <5>6. x # k
          <6>1. ~(c = b + 1 /\ j = i)
            BY <2>2, <5>3, <5>4
          <6> QED
            BY <1>1, <2>2, <3>1, <5>2, <6>1, OnePlace
        <5>7. x \in Keys
          BY <4>1 DEF Ahead
        <5> QED
          BY <5>2, <5>5, <5>6, <5>7 DEF Ahead
      <4>2. ASSUME NEW x \in Ahead(buckets, zit), x # k PROVE x \in Ahead(buckets, z)
        <5>1. PICK c \in DOMAIN buckets : \E j \in DOMAIN buckets[c] : IsPast(zit, c, j) /\ buckets[c][j].key = x
          BY <4>2 DEF Ahead
        <5>2. PICK j \in DOMAIN buckets[c] : IsPast(zit, c, j) /\ buckets[c][j].key = x
          BY <5>1
        <5>3. j \in Nat /\ c \in Nat
          BY <1>1, <1>6 DEF Holds, Lists
        <5>4. c > b + 1 \/ (c = b + 1 /\ j >= i)
          BY <2>2, <5>2
        <5>5. ~(c = b + 1 /\ j = i)
          BY <3>1, <4>2, <5>2
        <5>6. IsPast(z, c, j)
          BY <2>2, <3>7, <5>3, <5>4, <5>5 DEF IsPast
        <5>7. x \in Keys
          BY <4>2 DEF Ahead
        <5> QED
          BY <5>2, <5>6, <5>7 DEF Ahead
      <4> QED
        BY <4>1, <4>2
    <3>12. z.start = Given(z) \cup Ahead(buckets, z) /\ Given(z) \cap Ahead(buckets, z) = {}
      BY <1>3, <3>7, <3>9, <3>10, <3>11
    <3>13. OnceEach(z)
      <4>1. k \notin Given(zit)
        BY <1>3, <3>10
      <4>2. \A j \in 1 .. l : given[j] # k
        BY <3>3, <3>6, <3>8, <4>1 DEF Given
      <4>3. \A x, y \in 1 .. l : given[x] = given[y] => x = y
        BY <1>3, <3>3, <3>6, <3>8 DEF OnceEach
      <4>4. \A j \in 1 .. l + 1 : j \in 1 .. l \/ j = l + 1
        BY <3>5
      <4>5. \A x, y \in 1 .. l + 1 : given[x] = given[y] => x = y
        BY <3>6, <4>2, <4>3, <4>4
      <4> QED
        BY <3>7, <3>8, <4>5 DEF OnceEach
    <3>14. IsThere(buckets, z)
      <4>1. z.given[Len(z.given)] = k
        BY <3>6, <3>7
      <4>2. ASSUME NEW c \in DOMAIN buckets, NEW j \in DOMAIN buckets[c], buckets[c][j].key = k
            PROVE  c = b + 1 /\ j = i
        BY <1>1, <2>2, <3>1, <4>2, OnePlace
      <4> QED
        BY <3>7, <4>1, <4>2 DEF IsThere
    <3>15. z.bucket <= Len(buckets)
      BY <1>6, <2>2, <3>7
    <3> QED
      BY <3>7, <3>12, <3>13, <3>14, <3>15 DEF IteratorInv
  <2>3. \/ b = n /\ Ahead(buckets, zit) = {}
        \/ /\ b \in Nat /\ b < n /\ b + 1 \in DOMAIN buckets
           /\ i \in DOMAIN buckets[b + 1] /\ i \in Nat /\ IsPast(zit, b + 1, i)
           /\ \A c \in DOMAIN buckets : \A j \in DOMAIN buckets[c] :
                 IsPast(zit, c, j) => c > b + 1 \/ (c = b + 1 /\ j >= i)
    BY <1>1, <1>3, <1>4, <1>5, <1>6, NextPlaceIs
  <2> QED
    BY <2>1, <2>2, <2>3
<1>9. ZhashInv'
  BY <1>1, <1>2, <1>7, <1>8 DEF ZhashInv
<1>10. Zhash!Map' = Zhash!Map
  BY <1>2, ZhashMap
<1> QED
  BY <1>9, <1>10 DEF Zhash!IsAMap

(* zhash_iterator_remove: the entry that fills the gap is ahead, as it was. *)
LEMMA IteratorRemoveKeeps ==
  ASSUME ZhashInv, Zhash!IteratorRemove
  PROVE  ZhashInv' /\ Zhash!IsAMap
<1>1. PICK U \in SUBSET Items : Holds(buckets, U) /\ count = Cardinality(U)
  BY DEF ZhashInv
<1>2. /\ zit \in Iterators /\ zit.valid /\ zit.bucket <= Len(buckets) /\ OnceEach(zit)
      /\ IsThere(buckets, zit) /\ Given(zit) \cap Ahead(buckets, zit) = {}
      /\ zit.start = Given(zit) \cup Ahead(buckets, zit)
      /\ zit.given # <<>> /\ zit.bucket < Len(buckets)
  BY DEF ZhashInv, IteratorInv, Zhash!IteratorRemove
<1>3. PICK k \in Keys : k = zit.given[Len(zit.given)]
  <2>1. zit.given \in Seq(Keys)
    BY <1>2 DEF Iterators
  <2> QED
    BY <1>2, <2>1
<1>4. Zhash!IsIn(buckets, k) /\ Zhash!RemoveReal(k) /\ zit' = [zit EXCEPT !.idx = @ - 1]
  BY <1>3 DEF Zhash!IteratorRemove, Zhash!Last, Zhash!StepBack
<1>5. k \in KeysOf(U)
  BY <1>1, <1>4, ZhashFound
<1>6. PICK h \in DOMAIN buckets, i \in DOMAIN buckets[Home(Len(buckets), k)] :
         /\ h = Home(Len(buckets), k) /\ buckets[h][i].key = k
         /\ Len(buckets') = Len(buckets)
         /\ \A c \in DOMAIN buckets : c # h => buckets'[c] = buckets[c]
         /\ Len(buckets'[h]) = Len(buckets[h]) - 1
         /\ \A j \in 1 .. Len(buckets[h]) - 1 :
               buckets'[h][j] = IF j = i THEN buckets[h][Len(buckets[h])] ELSE buckets[h][j]
  BY <1>1, <1>4, <1>5, RemoveRealIs
<1>7. PICK V \in SUBSET Items : Holds(buckets', V) /\ count' = Cardinality(V)
  BY <1>1, <1>4, RemoveRealIs
<1>8. Zhash!IsAMap
  BY <1>1, <1>4, RemoveRealIs
<1>9. PICK t, z : t = buckets' /\ z = zit'
  OBVIOUS
<1>10. PICK n \in Nat \ {0} : n = Len(buckets) /\ DOMAIN buckets = 1 .. n /\ DOMAIN t = 1 .. n
  BY <1>1, <1>6, <1>7, <1>9 DEF Holds
<1>11. PICK L \in Nat \ {0} : L = Len(buckets[h]) /\ DOMAIN buckets[h] = 1 .. L /\ i \in 1 .. L
  <2>1. Len(buckets[h]) \in Nat /\ DOMAIN buckets[h] = 1 .. Len(buckets[h]) /\ i \in DOMAIN buckets[h]
    <3>1. Lists(buckets[h], At(U, Len(buckets), h))
      BY <1>1, <1>6, HoldsBucket
    <3>2. buckets[h] \in Seq(At(U, Len(buckets), h))
      BY <3>1 DEF Lists
    <3> QED
      BY <1>6, <3>2
  <2>2. PICK L \in Nat : L = Len(buckets[h])
    BY <2>1, Zenon
  <2>3. i \in 1 .. L /\ DOMAIN buckets[h] = 1 .. L
    BY <2>1, <2>2
  <2>4. L # 0
    BY <2>3
  <2> QED
    BY <2>2, <2>3, <2>4
<1>12. DOMAIN t[h] = 1 .. L - 1
  BY <1>6, <1>7, <1>9, <1>10, <1>11 DEF Holds, Lists
<1>13. \A j \in 1 .. L - 1 : t[h][j] = IF j = i THEN buckets[h][L] ELSE buckets[h][j]
  BY <1>6, <1>9, <1>11
<1>14. \A c \in 1 .. n : c # h => t[c] = buckets[c]
  BY <1>6, <1>9, <1>10
<1>15. h = zit.bucket + 1 /\ i = zit.idx
  <2>1. i \in DOMAIN buckets[h]
    BY <1>11
  <2> QED
    BY <1>2, <1>3, <1>6, <2>1 DEF IsThere
<1>16. /\ z.bucket = zit.bucket /\ z.idx = i - 1 /\ z.given = zit.given
       /\ z.start = zit.start /\ z.valid = zit.valid /\ z \in Iterators
  <2>1. zit \in Iterators /\ z = [zit EXCEPT !.idx = zit.idx - 1]
    BY <1>2, <1>4, <1>9
  <2>2. i - 1 \in Nat /\ zit.idx - 1 = i - 1
    BY <1>11, <1>15
  <2>3. z = [zit EXCEPT !.idx = i - 1]
    BY <2>1, <2>2
  <2> QED
    BY <2>1, <2>2, <2>3 DEF Iterators
<1>17. \A c, j : IsPast(zit, c, j) <=> c > h \/ (c = h /\ j > i)
  BY <1>15 DEF IsPast
<1>18. \A c, j : IsPast(z, c, j) <=> c > h \/ (c = h /\ j > i - 1)
  BY <1>15, <1>16 DEF IsPast
<1>19. Ahead(t, z) = Ahead(buckets, zit)
  <2>1. ASSUME NEW x \in Ahead(t, z) PROVE x \in Ahead(buckets, zit)
    <3>1. PICK c \in DOMAIN t : \E j \in DOMAIN t[c] : IsPast(z, c, j) /\ t[c][j].key = x
      BY <2>1 DEF Ahead
    <3>2. PICK j \in DOMAIN t[c] : IsPast(z, c, j) /\ t[c][j].key = x
      BY <3>1
    <3>3. c \in 1 .. n /\ x \in Keys
      BY <1>10, <2>1 DEF Ahead
    <3>4. CASE c # h
      <4>1. j \in DOMAIN buckets[c] /\ buckets[c][j].key = x
        BY <1>14, <3>2, <3>3, <3>4
      <4>2. IsPast(zit, c, j)
        BY <1>17, <1>18, <3>2, <3>4
      <4> QED
        BY <1>10, <3>3, <4>1, <4>2 DEF Ahead
    <3>5. CASE c = h /\ j = i
      <4>1. j \in 1 .. L - 1
        BY <1>12, <3>2, <3>5
      <4>2. buckets[h][L].key = x
        BY <1>13, <3>2, <3>5, <4>1
      <4>3. IsPast(zit, h, L) /\ L \in DOMAIN buckets[h]
        BY <1>11, <1>17, <3>5, <4>1
      <4> QED
        BY <3>3, <4>2, <4>3 DEF Ahead
    <3>6. CASE c = h /\ j # i
      <4>1. j \in 1 .. L - 1 /\ j > i - 1
        BY <1>11, <1>12, <1>18, <3>2, <3>6
      <4>2. buckets[h][j].key = x /\ j \in DOMAIN buckets[h]
        BY <1>11, <1>13, <3>2, <3>6, <4>1
      <4>3. IsPast(zit, h, j)
        BY <1>11, <1>17, <3>6, <4>1
      <4> QED
        BY <3>3, <4>2, <4>3 DEF Ahead
    <3> QED
      BY <3>4, <3>5, <3>6
  <2>2. ASSUME NEW x \in Ahead(buckets, zit) PROVE x \in Ahead(t, z)
    <3>1. PICK c \in DOMAIN buckets : \E j \in DOMAIN buckets[c] : IsPast(zit, c, j) /\ buckets[c][j].key = x
      BY <2>2 DEF Ahead
    <3>2. PICK j \in DOMAIN buckets[c] : IsPast(zit, c, j) /\ buckets[c][j].key = x
      BY <3>1
    <3>3. c \in 1 .. n /\ x \in Keys
      BY <1>10, <2>2 DEF Ahead
    <3>4. CASE c # h
      <4>1. j \in DOMAIN t[c] /\ t[c][j].key = x
        BY <1>14, <3>2, <3>3, <3>4
      <4>2. IsPast(z, c, j)
        BY <1>17, <1>18, <3>2, <3>4
      <4> QED
        BY <1>10, <3>3, <4>1, <4>2 DEF Ahead
    <3>5. CASE c = h /\ j = L
      <4>1. i < L
        BY <1>11, <1>17, <3>2, <3>5
      <4>2. i \in 1 .. L - 1 /\ i > i - 1
        BY <1>11, <4>1
      <4>3. t[h][i].key = x /\ i \in DOMAIN t[h]
        BY <1>12, <1>13, <3>2, <3>5, <4>2
      <4>4. IsPast(z, h, i) /\ h \in DOMAIN t
        BY <1>10, <1>18, <4>2
      <4> QED
        BY <3>3, <4>3, <4>4 DEF Ahead
    <3>6. CASE c = h /\ j # L
      <4>1. j \in 1 .. L - 1 /\ j > i /\ j # i /\ j > i - 1
        BY <1>11, <1>17, <3>2, <3>6
      <4>2. t[h][j].key = x /\ j \in DOMAIN t[h]
        BY <1>12, <1>13, <3>2, <3>6, <4>1
      <4>3. IsPast(z, h, j) /\ h \in DOMAIN t
        BY <1>10, <1>18, <4>1
      <4> QED
        BY <3>3, <4>2, <4>3 DEF Ahead
    <3> QED
      BY <3>4, <3>5, <3>6
  <2> QED
    BY <2>1, <2>2
<1>20. Given(z) = Given(zit) /\ OnceEach(z)
  BY <1>2, <1>16 DEF Given, OnceEach
<1>21. IsThere(t, z)
  <2>1. \A c \in DOMAIN t : \A j \in DOMAIN t[c] : t[c][j].key # k
    <3> SUFFICES ASSUME NEW c \in DOMAIN t, NEW j \in DOMAIN t[c], t[c][j].key = k PROVE FALSE
      OBVIOUS
    <3>0. i \in DOMAIN buckets[h]
      BY <1>11
    <3>1. CASE c # h
      <4>1. c \in DOMAIN buckets /\ j \in DOMAIN buckets[c] /\ buckets[c][j].key = k
        BY <1>10, <1>14, <3>1
      <4> QED
        BY <1>1, <1>6, <3>0, <3>1, <4>1, OnePlace
    <3>2. CASE c = h
      <4>1. j \in 1 .. L - 1
        BY <1>12, <3>2
      <4>2. PICK p \in 1 .. L : p # i /\ buckets[h][p].key = k
        <5>1. CASE j = i
          <6>1. L \in 1 .. L /\ L # i /\ buckets[h][L].key = k
            BY <1>11, <1>13, <3>2, <4>1, <5>1
          <6> QED
            BY <6>1
        <5>2. CASE j # i
          <6>1. j \in 1 .. L /\ buckets[h][j].key = k
            BY <1>11, <1>13, <3>2, <4>1, <5>2
          <6> QED
            BY <5>2, <6>1
        <5> QED
          BY <5>1, <5>2
      <4>3. p \in DOMAIN buckets[h]
        BY <1>11
      <4> QED
        BY <1>1, <1>6, <3>0, <4>2, <4>3, OnePlace
    <3> QED
      BY <3>1, <3>2
  <2>2. z.given[Len(z.given)] = k
    BY <1>3, <1>16
  <2> QED
    BY <2>1, <2>2 DEF IsThere
<1>22. z.bucket <= Len(t)
  BY <1>2, <1>6, <1>9, <1>16
<1>23. IteratorInv(t, z)
  BY <1>2, <1>16, <1>19, <1>20, <1>21, <1>22 DEF IteratorInv
<1>24. ZhashInv'
  BY <1>7, <1>9, <1>23 DEF ZhashInv
<1> QED
  BY <1>8, <1>24

-----------------------------------------------------------------------------
(* Every step of zhash keeps the invariant, and is one of a map.           *)
LEMMA ZhashStepKeeps ==
  ASSUME ZhashInv, Zhash!Next
  PROVE  ZhashInv' /\ Zhash!IsAMap
BY PutKeeps, RemoveKeyKeeps, GetKeeps, CopyKeeps, IteratorInitKeeps, IteratorNextKeeps, IteratorRemoveKeeps
   DEF Zhash!Next

(* And so does one of another component. *)
LEMMA ZhashRests ==
  ASSUME ZhashInv, UNCHANGED zhashVars
  PROVE  ZhashInv' /\ Zhash!IsAMap
<1>1. ZhashInv'
  BY DEF ZhashInv, zhashVars
<1>2. buckets' = buckets /\ had' = had
  BY DEF zhashVars
<1> QED
  BY <1>1, <1>2, ZhashMap, ZhashStays

-----------------------------------------------------------------------------
(* What the cells of an array can hold. *)
CellValues == Elements \cup {List!Unset}

(* The cells t hold the elements of s in front. *)
InFront(t, s) ==
    /\ t \in Seq(CellValues) /\ s \in Seq(Elements) /\ Len(s) <= Len(t)
    /\ \A i \in 1 .. Len(s) : t[i] = s[i]

(* The cells in use hold elements, and there are as many cells.            *)
ListInv ==
    /\ cells \in Seq(CellValues) /\ filled \in Nat /\ filled <= Len(cells)
    /\ \A i \in 1 .. filled : cells[i] \in Elements

(* The contents are what is in front. *)
LEMMA ContentsAre ==
  ASSUME ListInv
  PROVE  List!Contents \in Seq(Elements) /\ Len(List!Contents) = filled /\ InFront(cells, List!Contents)
<1>1. filled \in Nat /\ filled <= Len(cells) /\ \A i \in 1 .. filled : cells[i] \in Elements
  BY DEF ListInv
<1>2. /\ SubSeq(cells, 1, filled) \in Seq(Elements)
      /\ Len(SubSeq(cells, 1, filled)) = IF 1 <= filled THEN filled - 1 + 1 ELSE 0
      /\ \A i \in 1 .. filled - 1 + 1 : SubSeq(cells, 1, filled)[i] = cells[1 + i - 1]
  BY <1>1, SubSeqProperties
<1>3. PICK s \in Seq(Elements) : s = List!Contents
  BY <1>2 DEF List!Contents
<1>4. Len(s) = filled /\ \A i \in 1 .. filled : s[i] = cells[i]
  BY <1>1, <1>2, <1>3 DEF List!Contents
<1> QED
  BY <1>1, <1>3, <1>4 DEF ListInv, InFront

(* Cells that hold s in front have it as their contents.                   *)
LEMMA FrontIs ==
  ASSUME NEW t, NEW s, InFront(t, s)
  PROVE  SubSeq(t, 1, Len(s)) = s
<1>1. PICK n \in Nat : n = Len(s)
  BY DEF InFront
<1>2. \A i \in 1 .. n : t[i] \in Elements /\ t[i] = s[i]
  BY <1>1 DEF InFront
<1>3. /\ SubSeq(t, 1, n) \in Seq(Elements)
      /\ Len(SubSeq(t, 1, n)) = IF 1 <= n THEN n - 1 + 1 ELSE 0
      /\ \A i \in 1 .. n - 1 + 1 : SubSeq(t, 1, n)[i] = t[1 + i - 1]
  BY <1>2, SubSeqProperties
<1>4. PICK u \in Seq(Elements) : u = SubSeq(t, 1, n)
  BY <1>3
<1>5. Len(u) = n /\ \A i \in 1 .. n : u[i] = t[i]
  BY <1>3, <1>4
<1>6. u = s
  BY <1>1, <1>2, <1>5, SeqEqual DEF InFront
<1> QED
  BY <1>1, <1>4, <1>6

(* And so do they after a step. *)
LEMMA FrontNext ==
  ASSUME NEW t, NEW s, InFront(t, s), cells' = t, filled' = Len(s)
  PROVE  ListInv' /\ List!Contents' = s
<1>1. Len(s) \in Nat /\ \A i \in 1 .. Len(s) : t[i] \in Elements
  BY DEF InFront
<1>2. ListInv'
  BY <1>1 DEF ListInv, InFront, CellValues
<1> QED
  BY <1>2, FrontIs DEF List!Contents

(* zarray_ensure_capacity: there is a cell for one element more.           *)
LEMMA EnsuredIs ==
  ASSUME ListInv
  PROVE  \E t : t = List!Ensured(cells, filled + 1) /\ InFront(t, List!Contents) /\ filled + 1 <= Len(t)
<1>1. PICK n \in Nat : n = Len(cells) /\ filled \in Nat /\ filled <= n
  BY DEF ListInv
<1>2. PICK s : s = List!Contents /\ InFront(cells, s) /\ Len(s) = filled
  BY ContentsAre
<1>3. CASE n > filled + 1
  <2>1. List!Ensured(cells, filled + 1) = cells
    BY <1>1, <1>3 DEF List!Ensured
  <2> QED
    BY <1>1, <1>2, <1>3, <2>1
<1>4. CASE ~(n > filled + 1)
  <2>1. PICK m \in Nat \ {0} : m = MinAlloc
    BY ComponentsAssumption DEF List!ListAssumption
  <2>2. PICK k \in Nat \ {0} : k = List!NewAlloc(n) - n
    <3>1. List!NewAlloc(n) = IF 2 * n < m THEN m ELSE 2 * n
      BY <2>1 DEF List!NewAlloc
    <3>2. (IF 2 * n < m THEN m ELSE 2 * n) - n \in Nat \ {0}
      BY <1>1, <2>1
    <3> QED
      BY <3>1, <3>2
  <2> DEFINE u == [c \in 1 .. k |-> List!Unset]
  <2>3. u \in Seq(CellValues) /\ Len(u) = k
    BY <2>2 DEF CellValues
  <2> HIDE DEF u
  <2>4. PICK t \in Seq(CellValues) : t = cells \o u
    BY <2>3, ConcatProperties DEF ListInv
  <2>5. Len(t) = n + k /\ \A i \in 1 .. n : t[i] = cells[i]
    <3>1. Len(t) = Len(cells) + Len(u)
      BY <2>3, <2>4, ConcatProperties DEF ListInv
    <3>2. \A i \in 1 .. Len(cells) + Len(u) : t[i] = IF i <= Len(cells) THEN cells[i] ELSE u[i - Len(cells)]
      BY <2>3, <2>4, ConcatProperties DEF ListInv
    <3> QED
      BY <1>1, <2>2, <2>3, <3>1, <3>2
  <2>6. t = List!Ensured(cells, filled + 1)
    BY <1>1, <1>4, <2>2, <2>4 DEF List!Ensured, u
  <2>7. filled + 1 <= Len(t) /\ Len(s) <= Len(t)
    BY <1>1, <1>2, <2>2, <2>5
  <2>8. \A i \in 1 .. Len(s) : t[i] = s[i]
    <3>1. \A i \in 1 .. Len(s) : i \in 1 .. n /\ cells[i] = s[i]
      BY <1>1, <1>2 DEF InFront
    <3> QED
      BY <2>5, <3>1
  <2>9. InFront(t, s)
    BY <1>2, <2>7, <2>8 DEF InFront
  <2> QED
    BY <1>2, <2>6, <2>7, <2>9
<1> QED
  BY <1>3, <1>4

(* Sequence a has the l elements of s from the m-th, t has those of a and  *)
(* then those of b, and u those of s but x as the k-th.                    *)
IsSlice(a, s, m, l) == Len(a) = l /\ \A i \in 1 .. l : a[i] = s[m + i - 1]
IsJoined(t, a, b, p, r) ==
    Len(t) = p + r /\ \A i \in 1 .. p + r : t[i] = IF i <= p THEN a[i] ELSE b[i - p]
IsReplaced(u, s, k, x) == Len(u) = Len(s) /\ \A i \in 1 .. Len(s) : u[i] = IF i = k THEN x ELSE s[i]

(* SubSeq. *)
LEMMA SliceIs ==
  ASSUME NEW S, NEW s, NEW m \in Int, NEW n \in Int, NEW l \in Nat, n = m + l - 1,
         \A i \in m .. n : s[i] \in S
  PROVE  SubSeq(s, m, n) \in Seq(S) /\ IsSlice(SubSeq(s, m, n), s, m, l)
<1>1. /\ SubSeq(s, m, n) \in Seq(S)
      /\ Len(SubSeq(s, m, n)) = IF m <= n THEN n - m + 1 ELSE 0
      /\ \A i \in 1 .. n - m + 1 : SubSeq(s, m, n)[i] = s[m + i - 1]
  BY SubSeqProperties
<1>2. PICK a \in Seq(S) : a = SubSeq(s, m, n)
  BY <1>1
<1>3. n - m + 1 = l /\ Len(a) = l
  BY <1>1, <1>2
<1> QED
  BY <1>1, <1>2, <1>3 DEF IsSlice

(* Concatenation. *)
LEMMA JoinedIs ==
  ASSUME NEW S, NEW a \in Seq(S), NEW b \in Seq(S)
  PROVE  a \o b \in Seq(S) /\ IsJoined(a \o b, a, b, Len(a), Len(b))
BY ConcatProperties DEF IsJoined

(* And a change of one element. *)
LEMMA ReplacedIs ==
  ASSUME NEW S, NEW s \in Seq(S), NEW k \in 1 .. Len(s), NEW x \in S
  PROVE  [s EXCEPT ![k] = x] \in Seq(S) /\ IsReplaced([s EXCEPT ![k] = x], s, k, x)
BY ExceptSeq DEF IsReplaced

(* A sequence with an element more. *)
LEMMA InsertAtIs ==
  ASSUME NEW S, NEW s \in Seq(S), NEW x \in S, NEW k \in 1 .. Len(s) + 1
  PROVE  \E t \in Seq(S) :
            /\ t = List!InsertAt(s, k, x) /\ Len(t) = Len(s) + 1
            /\ \A i \in 1 .. Len(s) + 1 : t[i] = IF i < k THEN s[i] ELSE IF i = k THEN x ELSE s[i - 1]
<1>1. PICK n \in Nat : n = Len(s) /\ k \in 1 .. n + 1 /\ DOMAIN s = 1 .. n
  OBVIOUS
<1>2. \A i \in 1 .. n : s[i] \in S
  BY <1>1
<1>3. PICK a \in Seq(S) : a = SubSeq(s, 1, k - 1) /\ Len(a) = k - 1 /\ \A i \in 1 .. k - 1 : a[i] = s[i]
  <2>1. \A i \in 1 .. k - 1 : s[i] \in S
    BY <1>1, <1>2
  <2>2. 1 \in Int /\ k - 1 \in Int /\ k - 1 \in Nat /\ k - 1 = 1 + (k - 1) - 1
    BY <1>1
  <2>3. SubSeq(s, 1, k - 1) \in Seq(S) /\ IsSlice(SubSeq(s, 1, k - 1), s, 1, k - 1)
    BY <2>1, <2>2, SliceIs
  <2>4. PICK a \in Seq(S) : a = SubSeq(s, 1, k - 1) /\ IsSlice(a, s, 1, k - 1)
    BY <2>3
  <2>5. \A i \in 1 .. k - 1 : 1 + i - 1 = i
    OBVIOUS
  <2> QED
    BY <2>4, <2>5 DEF IsSlice
<1>4. PICK b \in Seq(S) : /\ b = SubSeq(s, k, n) /\ Len(b) = n - k + 1
                          /\ \A i \in 1 .. n - k + 1 : b[i] = s[k + i - 1]
  <2>1. \A i \in k .. n : s[i] \in S
    BY <1>1, <1>2
  <2>2. k \in Int /\ n \in Int /\ n - k + 1 \in Nat /\ n = k + (n - k + 1) - 1
    BY <1>1
  <2>3. SubSeq(s, k, n) \in Seq(S) /\ IsSlice(SubSeq(s, k, n), s, k, n - k + 1)
    BY <2>1, <2>2, SliceIs
  <2> QED
    BY <2>3 DEF IsSlice
<1>5. PICK u \in Seq(S) : /\ u = a \o <<x>> /\ Len(u) = k /\ u[k] = x
                          /\ \A i \in 1 .. k - 1 : u[i] = s[i]
  <2>1. <<x>> \in Seq(S) /\ Len(<<x>>) = 1 /\ <<x>>[1] = x
    OBVIOUS
  <2>2. PICK w \in Seq(S) : w = <<x>> /\ 1 = Len(w) /\ w[1] = x
    BY <2>1
  <2>3. k - 1 = Len(a)
    BY <1>3
  <2>4. PICK u \in Seq(S) :
           /\ u = a \o w /\ Len(u) = (k - 1) + 1
           /\ \A i \in 1 .. (k - 1) + 1 : u[i] = IF i <= k - 1 THEN a[i] ELSE w[i - (k - 1)]
    <3>1. a \o w \in Seq(S) /\ IsJoined(a \o w, a, w, k - 1, 1)
      BY <2>2, <2>3, JoinedIs
    <3> QED
      BY <3>1 DEF IsJoined
  <2>5. (k - 1) + 1 = k /\ k \in 1 .. k /\ ~(k <= k - 1) /\ k - (k - 1) = 1
    BY <1>1
  <2>6. u[k] = x
    BY <2>2, <2>4, <2>5
  <2>7. \A i \in 1 .. k - 1 : u[i] = s[i]
    <3>1. \A i \in 1 .. k - 1 : i \in 1 .. k /\ i <= k - 1
      BY <1>1
    <3> QED
      BY <1>3, <2>4, <2>5, <3>1
  <2> QED
    BY <2>2, <2>4, <2>5, <2>6, <2>7
<1>6. PICK t \in Seq(S) : /\ t = u \o b /\ Len(t) = n + 1
                          /\ \A i \in 1 .. n + 1 : t[i] = IF i <= k THEN u[i] ELSE b[i - k]
  <2>1. k = Len(u) /\ n - k + 1 = Len(b)
    BY <1>4, <1>5
  <2>2. PICK t \in Seq(S) :
           /\ t = u \o b /\ Len(t) = k + (n - k + 1)
           /\ \A i \in 1 .. k + (n - k + 1) : t[i] = IF i <= k THEN u[i] ELSE b[i - k]
    <3>1. u \o b \in Seq(S) /\ IsJoined(u \o b, u, b, k, n - k + 1)
      BY <2>1, JoinedIs
    <3> QED
      BY <3>1 DEF IsJoined
  <2>3. k + (n - k + 1) = n + 1
    BY <1>1
  <2> QED
    BY <2>2, <2>3
<1>7. t = List!InsertAt(s, k, x)
  BY <1>1, <1>3, <1>4, <1>5, <1>6 DEF List!InsertAt
<1>8. \A i \in 1 .. n + 1 : t[i] = IF i < k THEN s[i] ELSE IF i = k THEN x ELSE s[i - 1]
  <2> SUFFICES ASSUME NEW i \in 1 .. n + 1
               PROVE  t[i] = IF i < k THEN s[i] ELSE IF i = k THEN x ELSE s[i - 1]
    OBVIOUS
  <2>1. CASE i < k
    BY <1>1, <1>5, <1>6, <2>1
  <2>2. CASE i = k
    BY <1>1, <1>5, <1>6, <2>2
  <2>3. CASE i > k
    <3>1. i - k \in 1 .. n - k + 1 /\ k + (i - k) - 1 = i - 1
      BY <1>1, <2>3
    <3>2. t[i] = b[i - k] /\ b[i - k] = s[i - 1]
      BY <1>1, <1>4, <1>6, <2>3, <3>1
    <3> QED
      BY <1>1, <2>3, <3>2
  <2> QED
    BY <1>1, <2>1, <2>2, <2>3
<1> QED
  BY <1>1, <1>6, <1>7, <1>8

(* And with one less. *)
LEMMA RemoveAtIs ==
  ASSUME NEW S, NEW s \in Seq(S), NEW k \in 1 .. Len(s)
  PROVE  \E t \in Seq(S) :
            /\ t = List!RemoveAt(s, k) /\ Len(t) = Len(s) - 1
            /\ \A i \in 1 .. Len(s) - 1 : t[i] = IF i < k THEN s[i] ELSE s[i + 1]
<1>1. PICK n \in Nat : n = Len(s) /\ k \in 1 .. n /\ DOMAIN s = 1 .. n
  OBVIOUS
<1>2. \A i \in 1 .. n : s[i] \in S
  BY <1>1
<1>3. PICK a \in Seq(S) : a = SubSeq(s, 1, k - 1) /\ Len(a) = k - 1 /\ \A i \in 1 .. k - 1 : a[i] = s[i]
  <2>1. \A i \in 1 .. k - 1 : s[i] \in S
    BY <1>1, <1>2
  <2>2. 1 \in Int /\ k - 1 \in Int /\ k - 1 \in Nat /\ k - 1 = 1 + (k - 1) - 1
    BY <1>1
  <2>3. SubSeq(s, 1, k - 1) \in Seq(S) /\ IsSlice(SubSeq(s, 1, k - 1), s, 1, k - 1)
    BY <2>1, <2>2, SliceIs
  <2>4. PICK a \in Seq(S) : a = SubSeq(s, 1, k - 1) /\ IsSlice(a, s, 1, k - 1)
    BY <2>3
  <2>5. \A i \in 1 .. k - 1 : 1 + i - 1 = i
    OBVIOUS
  <2> QED
    BY <2>4, <2>5 DEF IsSlice
<1>4. PICK b \in Seq(S) : /\ b = SubSeq(s, k + 1, n) /\ Len(b) = n - k
                          /\ \A i \in 1 .. n - k : b[i] = s[k + i]
  <2>1. \A i \in k + 1 .. n : s[i] \in S
    BY <1>1, <1>2
  <2>2. k + 1 \in Int /\ n \in Int /\ n - k \in Nat /\ n = (k + 1) + (n - k) - 1
    BY <1>1
  <2>3. SubSeq(s, k + 1, n) \in Seq(S) /\ IsSlice(SubSeq(s, k + 1, n), s, k + 1, n - k)
    BY <2>1, <2>2, SliceIs
  <2>4. PICK b \in Seq(S) : b = SubSeq(s, k + 1, n) /\ IsSlice(b, s, k + 1, n - k)
    BY <2>3
  <2>5. \A i \in 1 .. n - k : (k + 1) + i - 1 = k + i
    BY <1>1
  <2> QED
    BY <2>4, <2>5 DEF IsSlice
<1>5. PICK t \in Seq(S) : /\ t = a \o b /\ Len(t) = n - 1
                          /\ \A i \in 1 .. n - 1 : t[i] = IF i <= k - 1 THEN a[i] ELSE b[i - (k - 1)]
  <2>1. k - 1 = Len(a) /\ n - k = Len(b)
    BY <1>3, <1>4
  <2>2. PICK t \in Seq(S) :
           /\ t = a \o b /\ Len(t) = (k - 1) + (n - k)
           /\ \A i \in 1 .. (k - 1) + (n - k) : t[i] = IF i <= k - 1 THEN a[i] ELSE b[i - (k - 1)]
    <3>1. a \o b \in Seq(S) /\ IsJoined(a \o b, a, b, k - 1, n - k)
      BY <2>1, JoinedIs
    <3> QED
      BY <3>1 DEF IsJoined
  <2>3. (k - 1) + (n - k) = n - 1
    BY <1>1
  <2> QED
    BY <2>2, <2>3
<1>6. t = List!RemoveAt(s, k)
  BY <1>1, <1>3, <1>4, <1>5 DEF List!RemoveAt
<1>7. \A i \in 1 .. n - 1 : t[i] = IF i < k THEN s[i] ELSE s[i + 1]
  <2> SUFFICES ASSUME NEW i \in 1 .. n - 1 PROVE t[i] = IF i < k THEN s[i] ELSE s[i + 1]
    OBVIOUS
  <2>1. CASE i < k
    BY <1>1, <1>3, <1>5, <2>1
  <2>2. CASE i >= k
    <3>1. i - (k - 1) \in 1 .. n - k /\ k + (i - (k - 1)) = i + 1
      BY <1>1, <2>2
    <3>2. b[i - (k - 1)] = s[i + 1]
      BY <1>4, <3>1
    <3>3. t[i] = b[i - (k - 1)]
      BY <1>1, <1>5, <2>2
    <3> QED
      BY <1>1, <2>2, <3>2, <3>3
  <2> QED
    BY <1>1, <2>1, <2>2
<1> QED
  BY <1>1, <1>5, <1>6, <1>7

(* And with the last one in the place of another. *)
LEMMA ShuffledIs ==
  ASSUME NEW S, NEW s \in Seq(S), NEW k \in 1 .. Len(s)
  PROVE  \E t \in Seq(S) :
            /\ t = List!Front([s EXCEPT ![k] = List!Last(s)]) /\ Len(t) = Len(s) - 1
            /\ \A i \in 1 .. Len(s) - 1 : t[i] = IF i = k THEN s[Len(s)] ELSE s[i]
<1>1. PICK n \in Nat : n = Len(s) /\ k \in 1 .. n /\ n \in 1 .. n /\ DOMAIN s = 1 .. n
  OBVIOUS
<1>2. List!Last(s) = s[n] /\ s[n] \in S
  BY <1>1 DEF List!Last
<1>3. PICK u \in Seq(S) : /\ u = [s EXCEPT ![k] = List!Last(s)] /\ Len(u) = n
                          /\ \A i \in 1 .. n : u[i] = IF i = k THEN s[n] ELSE s[i]
  <2>1. PICK x \in S : x = List!Last(s) /\ x = s[n]
    BY <1>2
  <2>2. [s EXCEPT ![k] = x] \in Seq(S) /\ IsReplaced([s EXCEPT ![k] = x], s, k, x)
    BY <1>1, ReplacedIs
  <2>3. PICK u \in Seq(S) : u = [s EXCEPT ![k] = x] /\ IsReplaced(u, s, k, x)
    BY <2>2
  <2> QED
    BY <1>1, <2>1, <2>3 DEF IsReplaced
<1>4. \A i \in 1 .. n - 1 : u[i] \in S
  BY <1>1, <1>3
<1>5. PICK t \in Seq(S) : t = SubSeq(u, 1, n - 1) /\ Len(t) = n - 1 /\ \A i \in 1 .. n - 1 : t[i] = u[i]
  <2>1. n - 1 \in Int /\ 1 \in Int /\ n - 1 \in Nat /\ n - 1 = 1 + (n - 1) - 1
    BY <1>1
  <2>2. SubSeq(u, 1, n - 1) \in Seq(S) /\ IsSlice(SubSeq(u, 1, n - 1), u, 1, n - 1)
    BY <1>4, <2>1, SliceIs
  <2>3. PICK t \in Seq(S) : t = SubSeq(u, 1, n - 1) /\ IsSlice(t, u, 1, n - 1)
    BY <2>2
  <2>4. \A i \in 1 .. n - 1 : 1 + i - 1 = i
    OBVIOUS
  <2> QED
    BY <2>3, <2>4 DEF IsSlice
<1>6. t = List!Front([s EXCEPT ![k] = List!Last(s)])
  BY <1>3, <1>5 DEF List!Front
<1>7. \A i \in 1 .. n - 1 : t[i] = IF i = k THEN s[n] ELSE s[i]
  BY <1>1, <1>3, <1>5
<1> QED
  BY <1>1, <1>5, <1>6, <1>7

-----------------------------------------------------------------------------
(* zarray_add *)
LEMMA AddKeeps ==
  ASSUME ListInv, NEW e \in Elements, List!Add(e)
  PROVE  ListInv' /\ List!IsASequence
<1>1. PICK s \in Seq(Elements) : s = List!Contents /\ Len(s) = filled
  BY ContentsAre
<1>2. PICK n \in Nat : n = filled /\ n = Len(s)
  BY <1>1
<1>3. PICK t : t = List!Ensured(cells, filled + 1) /\ InFront(t, s) /\ filled + 1 <= Len(t)
  BY <1>1, EnsuredIs
<1>4. PICK u \in Seq(Elements) : u = Append(s, e) /\ Len(u) = n + 1 /\ u[n + 1] = e /\ \A i \in 1 .. n : u[i] = s[i]
  <2>1. PICK u : u = Append(s, e)
    OBVIOUS
  <2>2. /\ u \in Seq(Elements) /\ Len(u) = Len(s) + 1
        /\ \A i \in 1 .. Len(s) + 1 : u[i] = IF i <= Len(s) THEN s[i] ELSE e
    BY <2>1
  <2>3. Len(u) = n + 1 /\ \A i \in 1 .. n + 1 : u[i] = IF i <= n THEN s[i] ELSE e
    BY <1>2, <2>2
  <2> QED
    BY <2>1, <2>2, <2>3
<1>5. PICK r \in Seq(CellValues) : r = [t EXCEPT ![n + 1] = e] /\ IsReplaced(r, t, n + 1, e)
  <2>1. t \in Seq(CellValues) /\ n + 1 \in 1 .. Len(t) /\ e \in CellValues
    BY <1>2, <1>3 DEF InFront, CellValues
  <2>2. [t EXCEPT ![n + 1] = e] \in Seq(CellValues) /\ IsReplaced([t EXCEPT ![n + 1] = e], t, n + 1, e)
    BY <2>1, ReplacedIs
  <2> QED
    BY <2>2
<1>6. InFront(r, u)
  <2>1. Len(r) = Len(t) /\ Len(t) \in Nat /\ n + 1 <= Len(t)
    BY <1>2, <1>3, <1>5 DEF IsReplaced, InFront
  <2>2. \A i \in 1 .. n + 1 : r[i] = IF i = n + 1 THEN e ELSE t[i]
    BY <1>2, <1>5, <2>1 DEF IsReplaced
  <2>3. \A i \in 1 .. n : t[i] = s[i]
    BY <1>2, <1>3 DEF InFront
  <2>4. \A i \in 1 .. n + 1 : i = n + 1 \/ (i \in 1 .. n /\ i # n + 1)
    OBVIOUS
  <2>5. \A i \in 1 .. n + 1 : r[i] = u[i]
    BY <1>4, <2>2, <2>3, <2>4
  <2> QED
    BY <1>4, <1>5, <2>1, <2>5 DEF InFront
<1>7. cells' = r /\ filled' = Len(u)
  BY <1>2, <1>3, <1>4, <1>5 DEF List!Add
<1>8. ListInv' /\ List!Contents' = Append(List!Contents, e)
  BY <1>1, <1>4, <1>6, <1>7, FrontNext
<1> QED
  BY <1>8 DEF List!IsASequence

(* zarray_insert *)
LEMMA InsertKeeps ==
  ASSUME ListInv, NEW e \in Elements, NEW idx \in 0 .. filled, List!InsertElement(idx, e)
  PROVE  ListInv' /\ List!IsASequence
<1>1. PICK s \in Seq(Elements) : s = List!Contents /\ Len(s) = filled
  BY ContentsAre
<1>2. PICK n \in Nat : n = filled /\ n = Len(s) /\ idx \in 0 .. n
  BY <1>1
<1>3. PICK t : t = List!Ensured(cells, filled + 1) /\ InFront(t, s) /\ filled + 1 <= Len(t)
  BY <1>1, EnsuredIs
<1>4. PICK k \in 1 .. n + 1 : k = idx + 1
  BY <1>2
<1>5. PICK u \in Seq(Elements) :
         /\ u = List!InsertAt(s, k, e) /\ Len(u) = n + 1
         /\ \A i \in 1 .. n + 1 : u[i] = IF i < k THEN s[i] ELSE IF i = k THEN e ELSE s[i - 1]
  <2>1. k \in 1 .. Len(s) + 1
    BY <1>2
  <2>2. PICK u \in Seq(Elements) :
           /\ u = List!InsertAt(s, k, e) /\ Len(u) = Len(s) + 1
           /\ \A i \in 1 .. Len(s) + 1 : u[i] = IF i < k THEN s[i] ELSE IF i = k THEN e ELSE s[i - 1]
    BY <2>1, InsertAtIs
  <2> QED
    BY <1>2, <2>2
<1>6. PICK m \in Nat : m = Len(t) /\ n + 1 <= m /\ DOMAIN t = 1 .. m /\ t \in Seq(CellValues)
  BY <1>2, <1>3 DEF InFront
<1>7. PICK r : r = List!MovedByInsert(t, idx)
  OBVIOUS
<1>8. r = [c \in 1 .. m |-> IF c - 1 \in k .. n THEN t[c - 1] ELSE t[c]]
  <2>1. \A c \in 1 .. m : c - 1 \in idx + 1 .. idx + 1 + (n - idx) - 1 <=> c - 1 \in k .. n
    BY <1>2, <1>4
  <2>2. \A c \in 1 .. m : c - (idx + 1) + idx = c - 1
    BY <1>2
  <2>3. r = [c \in 1 .. m |-> IF c - 1 \in idx + 1 .. idx + 1 + (n - idx) - 1 THEN t[c - (idx + 1) + idx] ELSE t[c]]
    BY <1>2, <1>6, <1>7 DEF List!MovedByInsert, List!Moved
  <2> QED
    BY <2>1, <2>2, <2>3
<1>9. r \in Seq(CellValues) /\ Len(r) = m
  <2>1. \A c \in 1 .. m : (IF c - 1 \in k .. n THEN t[c - 1] ELSE t[c]) \in CellValues
    <3> SUFFICES ASSUME NEW c \in 1 .. m PROVE (IF c - 1 \in k .. n THEN t[c - 1] ELSE t[c]) \in CellValues
      OBVIOUS
    <3>1. c - 1 \in k .. n => c - 1 \in 1 .. m
      BY <1>4, <1>6
    <3> QED
      BY <1>6, <3>1
  <2>2. r \in [1 .. m -> CellValues]
    BY <1>8, <2>1
  <2> QED
    BY <2>2
<1>10. PICK z \in Seq(CellValues) : z = [r EXCEPT ![k] = e] /\ IsReplaced(z, r, k, e)
  <2>1. k \in 1 .. Len(r) /\ e \in CellValues
    BY <1>4, <1>6, <1>9 DEF CellValues
  <2>2. [r EXCEPT ![k] = e] \in Seq(CellValues) /\ IsReplaced([r EXCEPT ![k] = e], r, k, e)
    BY <1>9, <2>1, ReplacedIs
  <2> QED
    BY <2>2
<1>11. InFront(z, u)
  <2>1. Len(z) = m /\ \A i \in 1 .. m : z[i] = IF i = k THEN e ELSE r[i]
    BY <1>9, <1>10 DEF IsReplaced
  <2>2. \A i \in 1 .. n : t[i] = s[i]
    BY <1>2, <1>3 DEF InFront
  <2>3. \A i \in 1 .. n + 1 : z[i] = u[i]
    <3> SUFFICES ASSUME NEW i \in 1 .. n + 1 PROVE z[i] = u[i]
      OBVIOUS
    <3>1. i \in 1 .. m
      BY <1>6
    <3>2. CASE i < k
      <4>1. i \in 1 .. n /\ ~(i - 1 \in k .. n) /\ i # k
        BY <1>4, <3>2
      <4>2. r[i] = t[i]
        BY <1>8, <3>1, <4>1
      <4> QED
        BY <1>5, <2>1, <2>2, <3>1, <3>2, <4>1, <4>2
    <3>3. CASE i = k
      BY <1>5, <2>1, <3>1, <3>3
    <3>4. CASE i > k
      <4>1. i - 1 \in k .. n /\ i # k /\ i - 1 \in 1 .. n /\ ~(i < k)
        BY <1>4, <3>4
      <4>2. r[i] = t[i - 1]
        BY <1>8, <3>1, <4>1
      <4> QED
        BY <1>5, <2>1, <2>2, <3>1, <4>1, <4>2
    <3> QED
      BY <1>4, <3>2, <3>3, <3>4
  <2> QED
    BY <1>5, <1>6, <1>10, <2>1, <2>3 DEF InFront
<1>12. cells' = z /\ filled' = Len(u)
  BY <1>2, <1>3, <1>4, <1>5, <1>7, <1>10 DEF List!InsertElement
<1>13. ListInv' /\ List!Contents' = List!InsertAt(List!Contents, k, e) /\ k \in 1 .. filled + 1
  BY <1>1, <1>2, <1>5, <1>11, <1>12, FrontNext
<1> QED
  BY <1>13 DEF List!IsASequence

(* zarray_remove_index, keeping the order *)
LEMMA RemoveIndexKeeps ==
  ASSUME ListInv, NEW idx \in 0 .. filled - 1, List!RemoveIndex(idx)
  PROVE  ListInv' /\ List!IsASequence
<1>1. PICK s \in Seq(Elements) : s = List!Contents /\ Len(s) = filled /\ InFront(cells, s)
  BY ContentsAre
<1>2. PICK n \in Nat : n = filled /\ n = Len(s) /\ idx \in 0 .. n - 1
  BY <1>1
<1>3. PICK k \in 1 .. n : k = idx + 1
  BY <1>2
<1>4. PICK u \in Seq(Elements) :
         /\ u = List!RemoveAt(s, k) /\ Len(u) = n - 1
         /\ \A i \in 1 .. n - 1 : u[i] = IF i < k THEN s[i] ELSE s[i + 1]
  <2>1. n = Len(s) /\ k \in 1 .. Len(s)
    BY <1>2
  <2>2. \E u \in Seq(Elements) :
           /\ u = List!RemoveAt(s, k) /\ Len(u) = Len(s) - 1
           /\ \A i \in 1 .. Len(s) - 1 : u[i] = IF i < k THEN s[i] ELSE s[i + 1]
    BY <2>1, RemoveAtIs
  <2> QED
    BY <2>1, <2>2
<1>5. PICK m \in Nat : m = Len(cells) /\ n <= m /\ DOMAIN cells = 1 .. m /\ cells \in Seq(CellValues)
  BY <1>1, <1>2 DEF InFront
<1>6. PICK r : r = List!Moved(cells, idx, idx + 1, filled - idx - 1)
  OBVIOUS
<1>7. r = [c \in 1 .. m |-> IF c \in k .. n - 1 THEN cells[c + 1] ELSE cells[c]]
  <2>1. \A c \in 1 .. m : c - 1 \in idx .. idx + (n - idx - 1) - 1 <=> c \in k .. n - 1
    BY <1>2, <1>3
  <2>2. \A c \in 1 .. m : c - idx + (idx + 1) = c + 1
    BY <1>2
  <2>3. r = [c \in 1 .. m |-> IF c - 1 \in idx .. idx + (n - idx - 1) - 1 THEN cells[c - idx + (idx + 1)] ELSE cells[c]]
    BY <1>2, <1>5, <1>6 DEF List!Moved
  <2> QED
    BY <2>1, <2>2, <2>3
<1>8. r \in Seq(CellValues) /\ Len(r) = m
  <2>1. \A c \in 1 .. m : (IF c \in k .. n - 1 THEN cells[c + 1] ELSE cells[c]) \in CellValues
    <3> SUFFICES ASSUME NEW c \in 1 .. m PROVE (IF c \in k .. n - 1 THEN cells[c + 1] ELSE cells[c]) \in CellValues
      OBVIOUS
    <3>1. c \in k .. n - 1 => c + 1 \in 1 .. m
      BY <1>3, <1>5
    <3> QED
      BY <1>5, <3>1
  <2>2. r \in [1 .. m -> CellValues]
    BY <1>7, <2>1
  <2> QED
    BY <2>2
<1>9. InFront(r, u)
  <2>1. \A i \in 1 .. n : cells[i] = s[i]
    BY <1>1, <1>2 DEF InFront
  <2>2. \A i \in 1 .. n - 1 : r[i] = u[i]
    <3> SUFFICES ASSUME NEW i \in 1 .. n - 1 PROVE r[i] = u[i]
      OBVIOUS
    <3>1. i \in 1 .. m /\ i \in 1 .. n /\ i + 1 \in 1 .. n /\ (i \in k .. n - 1 <=> ~(i < k))
      BY <1>3, <1>5
    <3> QED
      BY <1>4, <1>7, <2>1, <3>1
  <2> QED
    BY <1>4, <1>5, <1>8, <2>2 DEF InFront
<1>10. cells' = r /\ filled' = Len(u)
  BY <1>2, <1>4, <1>6 DEF List!RemoveIndex
<1>11. ListInv' /\ List!Contents' = List!RemoveAt(List!Contents, k) /\ k \in 1 .. filled
  BY <1>1, <1>2, <1>4, <1>9, <1>10, FrontNext
<1> QED
  BY <1>11 DEF List!IsASequence

(* zarray_remove_index, with the last one in its place *)
LEMMA ShufflingKeeps ==
  ASSUME ListInv, NEW idx \in 0 .. filled - 1, List!RemoveShuffling(idx)
  PROVE  ListInv' /\ List!IsASequence
<1>1. PICK s \in Seq(Elements) : s = List!Contents /\ Len(s) = filled /\ InFront(cells, s)
  BY ContentsAre
<1>2. PICK n \in Nat : n = filled /\ n = Len(s) /\ idx \in 0 .. n - 1
  BY <1>1
<1>3. PICK k \in 1 .. n : k = idx + 1
  BY <1>2
<1>4. PICK u \in Seq(Elements) :
         /\ u = List!Front([s EXCEPT ![k] = List!Last(s)]) /\ Len(u) = n - 1
         /\ \A i \in 1 .. n - 1 : u[i] = IF i = k THEN s[n] ELSE s[i]
  <2>1. k \in 1 .. Len(s)
    BY <1>2
  <2>2. PICK u \in Seq(Elements) :
           /\ u = List!Front([s EXCEPT ![k] = List!Last(s)]) /\ Len(u) = Len(s) - 1
           /\ \A i \in 1 .. Len(s) - 1 : u[i] = IF i = k THEN s[Len(s)] ELSE s[i]
    BY <2>1, ShuffledIs
  <2> QED
    BY <1>2, <2>2
<1>5. PICK m \in Nat : m = Len(cells) /\ n <= m /\ DOMAIN cells = 1 .. m /\ cells \in Seq(CellValues)
  BY <1>1, <1>2 DEF InFront
<1>6. PICK x \in CellValues : x = cells[n]
  BY <1>3, <1>5
<1>7. PICK r \in Seq(CellValues) : r = [cells EXCEPT ![k] = x] /\ IsReplaced(r, cells, k, x)
  <2>1. k \in 1 .. Len(cells)
    BY <1>3, <1>5
  <2>2. [cells EXCEPT ![k] = x] \in Seq(CellValues) /\ IsReplaced([cells EXCEPT ![k] = x], cells, k, x)
    BY <1>5, <2>1, ReplacedIs
  <2> QED
    BY <2>2
<1>8. InFront(r, u)
  <2>1. \A i \in 1 .. n : cells[i] = s[i]
    BY <1>1, <1>2 DEF InFront
  <2>2. Len(r) = m /\ \A i \in 1 .. m : r[i] = IF i = k THEN x ELSE cells[i]
    BY <1>5, <1>7 DEF IsReplaced
  <2>3. \A i \in 1 .. n - 1 : r[i] = u[i]
    <3> SUFFICES ASSUME NEW i \in 1 .. n - 1 PROVE r[i] = u[i]
      OBVIOUS
    <3>1. i \in 1 .. m /\ i \in 1 .. n /\ n \in 1 .. n
      BY <1>3, <1>5
    <3> QED
      BY <1>4, <1>6, <2>1, <2>2, <3>1
  <2>4. Len(u) <= Len(r)
    BY <1>3, <1>4, <1>5, <2>2
  <2>5. \A i \in 1 .. Len(u) : r[i] = u[i]
    BY <1>4, <2>3
  <2> QED
    BY <2>4, <2>5 DEF InFront
<1>9. cells' = r /\ filled' = Len(u)
  BY <1>2, <1>3, <1>4, <1>6, <1>7 DEF List!RemoveShuffling
<1>10. /\ ListInv' /\ k \in 1 .. filled
       /\ List!Contents' = List!Front([List!Contents EXCEPT ![k] = List!Last(List!Contents)])
  BY <1>1, <1>2, <1>4, <1>8, <1>9, FrontNext
<1> QED
  BY <1>10 DEF List!IsASequence

(* zarray_set *)
LEMMA SetKeeps ==
  ASSUME ListInv, NEW e \in Elements, NEW idx \in 0 .. filled - 1, List!Set(idx, e)
  PROVE  ListInv' /\ List!IsASequence
<1>1. PICK s \in Seq(Elements) : s = List!Contents /\ Len(s) = filled /\ InFront(cells, s)
  BY ContentsAre
<1>2. PICK n \in Nat : n = filled /\ n = Len(s) /\ idx \in 0 .. n - 1
  BY <1>1
<1>3. PICK k \in 1 .. n : k = idx + 1
  BY <1>2
<1>4. PICK m \in Nat : m = Len(cells) /\ n <= m /\ cells \in Seq(CellValues)
  BY <1>1, <1>2 DEF InFront
<1>5. PICK u \in Seq(Elements) : u = [s EXCEPT ![k] = e] /\ IsReplaced(u, s, k, e)
  <2>1. [s EXCEPT ![k] = e] \in Seq(Elements) /\ IsReplaced([s EXCEPT ![k] = e], s, k, e)
    BY <1>2, ReplacedIs
  <2> QED
    BY <2>1
<1>6. PICK r \in Seq(CellValues) : r = [cells EXCEPT ![k] = e] /\ IsReplaced(r, cells, k, e)
  <2>1. k \in 1 .. Len(cells) /\ e \in CellValues
    BY <1>3, <1>4 DEF CellValues
  <2>2. [cells EXCEPT ![k] = e] \in Seq(CellValues) /\ IsReplaced([cells EXCEPT ![k] = e], cells, k, e)
    BY <1>4, <2>1, ReplacedIs
  <2> QED
    BY <2>2
<1>7. InFront(r, u)
  <2>1. Len(u) = n /\ \A i \in 1 .. n : u[i] = IF i = k THEN e ELSE s[i]
    BY <1>2, <1>5 DEF IsReplaced
  <2>2. Len(r) = m /\ \A i \in 1 .. m : r[i] = IF i = k THEN e ELSE cells[i]
    BY <1>4, <1>6 DEF IsReplaced
  <2>3. \A i \in 1 .. n : i \in 1 .. m /\ cells[i] = s[i]
    BY <1>1, <1>2, <1>4 DEF InFront
  <2> QED
    BY <1>4, <1>5, <1>6, <2>1, <2>2, <2>3 DEF InFront
<1>8. cells' = r /\ filled' = Len(u)
  BY <1>2, <1>3, <1>5, <1>6 DEF List!Set, IsReplaced
<1>9. ListInv' /\ k \in 1 .. filled /\ List!Contents' = [List!Contents EXCEPT ![k] = e]
  BY <1>1, <1>2, <1>5, <1>7, <1>8, FrontNext
<1> QED
  BY <1>9 DEF List!IsASequence

(* zarray_index_of finds a place of the array, if any.                     *)
LEMMA IndexIs ==
  ASSUME ListInv, NEW e \in Elements, List!IndexOf(e) # -1
  PROVE  List!IndexOf(e) \in 0 .. filled - 1
<1>1. PICK s \in Seq(Elements) : s = List!Contents /\ Len(s) = filled
  BY ContentsAre
<1>2. PICK n \in Nat : n = filled /\ n = Len(s)
  BY <1>1
<1> DEFINE T == {i \in 1 .. n : s[i] = e}
<1>3. List!IndexOf(e) = (IF T # {} THEN List!Min(T) ELSE 0) - 1
  BY <1>1, <1>2 DEF List!IndexOf, List!SelectInSeq
<1> HIDE DEF T
<1>4. T # {}
  BY <1>3
<1>5. T \subseteq Nat /\ T \subseteq 1 .. n
  BY DEF T
<1>6. \E m \in T : \A k \in T : m <= k
  BY <1>4, <1>5, LeastNumber
<1>7. List!Min(T) \in T
  BY <1>6 DEF List!Min
<1>8. PICK v \in 1 .. n : v = List!Min(T)
  BY <1>5, <1>7
<1>9. List!IndexOf(e) = v - 1
  BY <1>3, <1>4, <1>8
<1> QED
  BY <1>2, <1>8, <1>9

(* zarray_remove_value *)
LEMMA RemoveValueKeeps ==
  ASSUME ListInv, NEW e \in Elements, List!RemoveValue(e)
  PROVE  ListInv' /\ List!IsASequence
<1>1. CASE List!IndexOf(e) = -1
  <2>1. cells' = cells /\ filled' = filled
    BY <1>1 DEF List!RemoveValue, List!vars
  <2>2. ListInv' /\ List!Contents' = List!Contents
    BY <2>1 DEF ListInv, List!Contents
  <2> QED
    BY <2>2 DEF List!IsASequence
<1>2. CASE List!IndexOf(e) # -1
  <2>1. PICK i \in 0 .. filled - 1 : i = List!IndexOf(e)
    BY <1>2, IndexIs
  <2>2. List!RemoveIndex(i) \/ List!RemoveShuffling(i)
    BY <1>2, <2>1 DEF List!RemoveValue
  <2> QED
    BY <2>2, RemoveIndexKeeps, ShufflingKeeps
<1> QED
  BY <1>1, <1>2

(* zarray_clear *)
LEMMA ClearKeeps ==
  ASSUME ListInv, List!Clear
  PROVE  ListInv' /\ List!IsASequence
<1>1. cells' = cells /\ filled' = 0 /\ <<>> \in Seq(Elements) /\ Len(<<>>) = 0
  BY DEF List!Clear
<1>2. InFront(cells, <<>>)
  BY <1>1 DEF InFront, ListInv
<1>3. ListInv' /\ List!Contents' = <<>>
  BY <1>1, <1>2, FrontNext
<1> QED
  BY <1>3 DEF List!IsASequence

(* Any cells behind the elements of s leave these in front.                *)
LEMMA FrontOfJoined ==
  ASSUME NEW s \in Seq(Elements), NEW b \in Seq(CellValues)
  PROVE  InFront(s \o b, s)
<1>1. s \in Seq(CellValues)
  BY SeqMonotonic DEF CellValues
<1>2. PICK t \in Seq(CellValues) : t = s \o b /\ IsJoined(t, s, b, Len(s), Len(b))
  <2>1. s \o b \in Seq(CellValues) /\ IsJoined(s \o b, s, b, Len(s), Len(b))
    BY <1>1, JoinedIs
  <2> QED
    BY <2>1
<1>3. PICK n \in Nat, m \in Nat : n = Len(s) /\ m = Len(b)
  OBVIOUS
<1>4. Len(t) = n + m /\ \A i \in 1 .. n + m : t[i] = IF i <= n THEN s[i] ELSE b[i - n]
  BY <1>2, <1>3 DEF IsJoined
<1>5. \A i \in 1 .. n : t[i] = s[i]
  BY <1>4
<1> QED
  BY <1>2, <1>3, <1>4, <1>5 DEF InFront

(* zarray_copy *)
LEMMA CopyArrayKeeps ==
  ASSUME ListInv, List!Copy
  PROVE  ListInv' /\ List!IsASequence
<1>1. PICK s \in Seq(Elements) : s = List!Contents /\ Len(s) = filled
  BY ContentsAre
<1>2. PICK n \in Nat : n = Len(cells) - filled
  <2>1. PICK k \in Nat, l \in Nat : k = Len(cells) /\ l = filled /\ l <= k
    BY DEF ListInv
  <2>2. k - l \in Nat
    BY <2>1
  <2> QED
    BY <2>1, <2>2
<1> DEFINE b == [c \in 1 .. n |-> List!Unset]
<1>3. b \in Seq(CellValues)
  BY DEF CellValues
<1>4. cells' = s \o b /\ filled' = Len(s)
  BY <1>1, <1>2 DEF List!Copy
<1> HIDE DEF b
<1>5. InFront(s \o b, s)
  BY <1>3, FrontOfJoined
<1>6. ListInv' /\ List!Contents' = List!Contents
  BY <1>1, <1>4, <1>5, FrontNext
<1> QED
  BY <1>6 DEF List!IsASequence

-----------------------------------------------------------------------------
(* Order p, of the first n numbers, makes the function s ascend.           *)
Ascends(p, s, n) ==
    /\ p \in [1 .. n -> 1 .. n]
    /\ \A i, j \in 1 .. n : p[i] = p[j] => i = j
    /\ \A j \in 1 .. n : \E i \in 1 .. n : p[i] = j
    /\ \A i, j \in 1 .. n : i < j => s[p[i]] <= s[p[j]]

(* There is a greatest among some integers. *)
LEMMA GreatestOf ==
  ASSUME NEW n \in Nat, NEW s, \A i \in 1 .. n + 1 : s[i] \in Int
  PROVE  \E m \in 1 .. n + 1 : \A i \in 1 .. n + 1 : s[i] <= s[m]
<1> DEFINE T == {k \in 0 .. n : \E m \in 1 .. k + 1 : \A i \in 1 .. k + 1 : s[i] <= s[m]}
<1>1. 0 \in T
  <2>1. 1 \in 1 .. 0 + 1 /\ \A i \in 1 .. 0 + 1 : i = 1 /\ s[1] \in Int
    OBVIOUS
  <2> QED
    BY <2>1
<1>2. ASSUME NEW k \in 1 .. n, k - 1 \in T PROVE k \in T
  <2>1. PICK m \in 1 .. k : \A i \in 1 .. k : s[i] <= s[m]
    <3>1. (k - 1) + 1 = k
      OBVIOUS
    <3> QED
      BY <1>2, <3>1
  <2>2. \A i \in 1 .. k + 1 : i \in 1 .. n + 1 /\ (i \in 1 .. k \/ i = k + 1) /\ s[i] \in Int
    OBVIOUS
  <2>3. m \in 1 .. k + 1 /\ k + 1 \in 1 .. k + 1
    OBVIOUS
  <2>4. CASE s[k + 1] <= s[m]
    BY <2>1, <2>2, <2>3, <2>4
  <2>5. CASE ~(s[k + 1] <= s[m])
    <3>1. \A i \in 1 .. k : s[i] <= s[k + 1]
      BY <2>1, <2>2, <2>3, <2>5
    <3>2. \A i \in 1 .. k + 1 : s[i] <= s[k + 1]
      BY <2>2, <2>3, <3>1
    <3> QED
      BY <2>3, <3>2
  <2> QED
    BY <2>4, <2>5
<1>3. n \in T
  <2> HIDE DEF T
  <2>1. \A k \in 0 .. n : k \in T
    BY <1>1, <1>2, BoundedInduction
  <2> QED
    BY <2>1
<1> QED
  BY <1>3

(* One element more, the greatest, is put at the end: what was in its      *)
(* place is the last one of the others.                                    *)
LEMMA OneMoreAscends ==
  ASSUME NEW n \in Nat, NEW s, NEW m \in 1 .. n + 1, NEW p, NEW r,
         \A i \in 1 .. n + 1 : s[i] \in Int,
         \A i \in 1 .. n + 1 : s[i] <= s[m],
         \A i \in 1 .. n : r[i] = IF i = m THEN s[n + 1] ELSE s[i],
         Ascends(p, r, n)
  PROVE  \E u : Ascends(u, s, n + 1)
<1> DEFINE u == [i \in 1 .. n + 1 |-> IF i = n + 1 THEN m ELSE IF p[i] = m THEN n + 1 ELSE p[i]]
<1>1. \A i \in 1 .. n + 1 : i = n + 1 \/ (i \in 1 .. n /\ i # n + 1)
  OBVIOUS
<1>2. \A i \in 1 .. n : p[i] \in 1 .. n
  BY DEF Ascends
<1>3. u[n + 1] = m
  BY <1>1
<1>4. \A i \in 1 .. n : /\ u[i] = IF p[i] = m THEN n + 1 ELSE p[i]
                       /\ u[i] \in 1 .. n + 1 /\ u[i] # m /\ s[u[i]] = r[p[i]]
  <2> SUFFICES ASSUME NEW i \in 1 .. n
               PROVE  /\ u[i] = IF p[i] = m THEN n + 1 ELSE p[i]
                      /\ u[i] \in 1 .. n + 1 /\ u[i] # m /\ s[u[i]] = r[p[i]]
    OBVIOUS
  <2>1. i \in 1 .. n + 1 /\ i # n + 1
    OBVIOUS
  <2>2. u[i] = IF p[i] = m THEN n + 1 ELSE p[i]
    BY <2>1
  <2>3. PICK x \in 1 .. n : x = p[i]
    BY <1>2
  <2>4. r[x] = IF x = m THEN s[n + 1] ELSE s[x]
    OBVIOUS
  <2>5. n + 1 \in 1 .. n + 1 /\ x \in 1 .. n + 1 /\ x # n + 1
    OBVIOUS
  <2> HIDE DEF u
  <2> QED
    BY <2>2, <2>3, <2>4, <2>5
<1>5. u \in [1 .. n + 1 -> 1 .. n + 1]
  BY <1>1, <1>2
<1> HIDE DEF u
<1>6. ASSUME NEW i \in 1 .. n + 1, NEW j \in 1 .. n + 1, u[i] = u[j] PROVE i = j
  <2>1. CASE i = n + 1 \/ j = n + 1
    BY <1>1, <1>3, <1>4, <1>6, <2>1
  <2>2. CASE i \in 1 .. n /\ j \in 1 .. n
    <3>1. p[i] \in 1 .. n /\ p[j] \in 1 .. n /\ p[i] # n + 1 /\ p[j] # n + 1
      BY <1>2, <2>2
    <3>2. p[i] = p[j]
      BY <1>4, <1>6, <2>2, <3>1
    <3> QED
      BY <2>2, <3>2 DEF Ascends
  <2> QED
    BY <1>1, <2>1, <2>2
<1>7. ASSUME NEW j \in 1 .. n + 1 PROVE \E i \in 1 .. n + 1 : u[i] = j
  <2>0. n + 1 \in 1 .. n + 1 /\ \A i \in 1 .. n : i \in 1 .. n + 1
    OBVIOUS
  <2>1. CASE j = m
    BY <1>3, <2>0, <2>1
  <2>2. CASE j # m /\ j = n + 1
    <3>1. m \in 1 .. n
      BY <1>1, <2>2
    <3>2. PICK i \in 1 .. n : p[i] = m
      BY <3>1 DEF Ascends
    <3> QED
      BY <1>4, <2>0, <2>2, <3>2
  <2>3. CASE j # m /\ j # n + 1
    <3>1. j \in 1 .. n
      BY <1>1, <2>3
    <3>2. PICK i \in 1 .. n : p[i] = j
      BY <3>1 DEF Ascends
    <3> QED
      BY <1>4, <2>0, <2>3, <3>2
  <2> QED
    BY <2>1, <2>2, <2>3
<1>8. ASSUME NEW i \in 1 .. n + 1, NEW j \in 1 .. n + 1, i < j PROVE s[u[i]] <= s[u[j]]
  <2>1. i \in 1 .. n
    BY <1>8
  <2>2. CASE j = n + 1
    BY <1>3, <1>4, <2>1, <2>2
  <2>3. CASE j \in 1 .. n
    <3>1. r[p[i]] <= r[p[j]]
      BY <1>8, <2>1, <2>3 DEF Ascends
    <3> QED
      BY <1>4, <2>1, <2>3, <3>1
  <2> QED
    BY <1>1, <2>2, <2>3
<1>9. Ascends(u, s, n + 1)
  BY <1>5, <1>6, <1>7, <1>8 DEF Ascends
<1> QED
  BY <1>9

(* Integers can be put in ascending order. *)
LEMMA OrderExists ==
  ASSUME NEW n \in Nat, NEW s \in [1 .. n -> Int]
  PROVE  \E p : Ascends(p, s, n)
<1> DEFINE T == {k \in Nat : \A t \in [1 .. k -> Int] : \E p : Ascends(p, t, k)}
<1>1. 0 \in T
  <2> SUFFICES ASSUME NEW t \in [1 .. 0 -> Int] PROVE Ascends([i \in 1 .. 0 |-> i], t, 0)
    OBVIOUS
  <2>1. \A i \in 1 .. 0 : FALSE
    OBVIOUS
  <2> QED
    BY <2>1 DEF Ascends
<1>2. ASSUME NEW k \in Nat, k \in T PROVE k + 1 \in T
  <2> SUFFICES ASSUME NEW t \in [1 .. k + 1 -> Int] PROVE \E p : Ascends(p, t, k + 1)
    OBVIOUS
  <2>1. \A i \in 1 .. k + 1 : t[i] \in Int
    OBVIOUS
  <2>2. PICK m \in 1 .. k + 1 : \A i \in 1 .. k + 1 : t[i] <= t[m]
    BY <2>1, GreatestOf
  <2> DEFINE r == [i \in 1 .. k |-> IF i = m THEN t[k + 1] ELSE t[i]]
  <2>3. r \in [1 .. k -> Int]
    <3>1. k + 1 \in 1 .. k + 1 /\ \A i \in 1 .. k : i \in 1 .. k + 1
      OBVIOUS
    <3> QED
      BY <2>1, <3>1
  <2>4. \A i \in 1 .. k : r[i] = IF i = m THEN t[k + 1] ELSE t[i]
    OBVIOUS
  <2>5. PICK p : Ascends(p, r, k)
    BY <1>2, <2>3
  <2> HIDE DEF r
  <2> QED
    BY <2>1, <2>2, <2>4, <2>5, OneMoreAscends
<1> HIDE DEF T
<1>3. n \in T
  BY <1>1, <1>2, Induction
<1> QED
  BY <1>3 DEF T

(* And the array has such an order, which sorting chooses.                 *)
LEMMA SortedIs ==
  ASSUME NEW s \in Seq(Elements)
  PROVE  \E p \in List!Orders(s) : /\ List!Sorted(s) = [i \in 1 .. Len(s) |-> s[p[i]]]
                                  /\ List!Sorted(s) \in Seq(Elements)
                                  /\ Len(List!Sorted(s)) = Len(s)
<1>1. PICK n \in Nat : n = Len(s) /\ DOMAIN s = 1 .. n /\ \A i \in 1 .. n : s[i] \in Elements
  OBVIOUS
<1>2. s \in [1 .. n -> Int]
  <2>1. Elements \subseteq Int
    BY ComponentsAssumption DEF List!ListAssumption
  <2>2. s \in [1 .. n -> Elements]
    BY <1>1
  <2> QED
    BY <2>1, <2>2
<1>3. PICK p : Ascends(p, s, n)
  BY <1>2, OrderExists
<1>4. p \in List!Orders(s)
  <2>1. p \in [1 .. n -> 1 .. n] /\ DOMAIN p = 1 .. n
    BY <1>3 DEF Ascends
  <2>2. p \in List!Injection(1 .. n, 1 .. n)
    BY <1>3, <2>1 DEF Ascends, List!Injection, List!IsInjective
  <2>3. p \in List!Surjection(1 .. n, 1 .. n)
    BY <1>3, <2>1 DEF Ascends, List!Surjection
  <2>4. p \in List!Bijection(1 .. n, 1 .. n)
    BY <2>2, <2>3 DEF List!Bijection
  <2> QED
    BY <1>1, <1>3, <2>4 DEF Ascends, List!Orders
<1>5. PICK r : r = CHOOSE x \in List!Orders(s) : TRUE
  OBVIOUS
<1>6. r \in List!Orders(s)
  BY <1>4, <1>5
<1>7. List!Sorted(s) = [i \in DOMAIN s |-> s[r[i]]]
  BY <1>5 DEF List!Sorted
<1>8. r \in [1 .. n -> 1 .. n]
  <2>1. r \in List!Bijection(1 .. n, 1 .. n)
    BY <1>1, <1>6 DEF List!Orders
  <2> QED
    BY <2>1 DEF List!Bijection, List!Injection
<1>9. PICK t : t = List!Sorted(s)
  OBVIOUS
<1>10. t = [i \in 1 .. n |-> s[r[i]]]
  BY <1>1, <1>7, <1>9
<1>11. t \in [1 .. n -> Elements]
  BY <1>1, <1>8, <1>10
<1>12. t \in Seq(Elements) /\ Len(t) = n
  BY <1>10, <1>11
<1> QED
  BY <1>1, <1>6, <1>9, <1>10, <1>12

(* zarray_sort *)
LEMMA SortKeeps ==
  ASSUME ListInv, List!Sort
  PROVE  ListInv' /\ List!IsASequence
<1>1. PICK s \in Seq(Elements) : s = List!Contents /\ Len(s) = filled
  BY ContentsAre
<1>2. PICK p \in List!Orders(s) : /\ List!Sorted(s) = [i \in 1 .. Len(s) |-> s[p[i]]]
                                 /\ List!Sorted(s) \in Seq(Elements)
                                 /\ Len(List!Sorted(s)) = Len(s)
  BY SortedIs
<1>3. PICK t \in Seq(Elements) : t = List!Sorted(s) /\ Len(t) = Len(s)
  BY <1>2
<1>4. PICK b \in Seq(CellValues) : b = SubSeq(cells, filled + 1, Len(cells))
  <2>1. filled + 1 \in Int /\ Len(cells) \in Int /\ \A i \in filled + 1 .. Len(cells) : cells[i] \in CellValues
    BY DEF ListInv
  <2> QED
    BY <2>1, SubSeqProperties
<1>5. cells' = t \o b /\ filled' = Len(t)
  BY <1>1, <1>3, <1>4 DEF List!Sort
<1>6. InFront(t \o b, t)
  BY FrontOfJoined
<1>7. ListInv' /\ List!Contents' = t
  BY <1>5, <1>6, FrontNext
<1>8. p \in List!Orders(List!Contents) /\ List!Contents' = [i \in 1 .. filled |-> List!Contents[p[i]]]
  BY <1>1, <1>2, <1>3, <1>7
<1> QED
  BY <1>7, <1>8 DEF List!IsASequence

-----------------------------------------------------------------------------
(* Initially the array is empty. *)
LEMMA ListInit ==
  ASSUME List!Init
  PROVE  ListInv
BY DEF List!Init, ListInv

(* The elements are in the cells that are in use. *)
LEMMA ListExact ==
  ASSUME ListInv
  PROVE  List!ElementsAreHeld
BY DEF ListInv, List!ElementsAreHeld

(* Every step of the array keeps this, and is one of a sequence.           *)
LEMMA ListStepKeeps ==
  ASSUME ListInv, List!Next
  PROVE  ListInv' /\ List!IsASequence
<1>1. ASSUME NEW e \in Elements, List!Add(e) \/ List!RemoveValue(e) PROVE ListInv' /\ List!IsASequence
  BY <1>1, AddKeeps, RemoveValueKeeps
<1>2. ASSUME NEW e \in Elements, NEW idx \in 0 .. filled, List!InsertElement(idx, e)
      PROVE  ListInv' /\ List!IsASequence
  BY <1>2, InsertKeeps
<1>3. ASSUME NEW idx \in 0 .. filled - 1, List!RemoveIndex(idx) \/ List!RemoveShuffling(idx)
      PROVE  ListInv' /\ List!IsASequence
  BY <1>3, RemoveIndexKeeps, ShufflingKeeps
<1>4. ASSUME NEW idx \in 0 .. filled - 1, NEW e \in Elements, List!Set(idx, e)
      PROVE  ListInv' /\ List!IsASequence
  BY <1>4, SetKeeps
<1>5. CASE List!Clear \/ List!Copy \/ List!Sort
  BY <1>5, ClearKeeps, CopyArrayKeeps, SortKeeps
<1> QED
  BY <1>1, <1>2, <1>3, <1>4, <1>5 DEF List!Next

(* And so does one of another component. *)
LEMMA ListRests ==
  ASSUME ListInv, UNCHANGED listVars
  PROVE  ListInv' /\ List!IsASequence
<1>1. cells' = cells /\ filled' = filled
  BY DEF listVars
<1>2. ListInv' /\ List!Contents' = List!Contents
  BY <1>1 DEF ListInv, List!Contents
<1> QED
  BY <1>2 DEF List!IsASequence

-----------------------------------------------------------------------------
(* The invariants of the containers, together. *)
ContainersInv == TableInv /\ ZhashInv /\ ListInv

(* One container moves at a time, and the others do not.                   *)
LEMMA ContainersStep ==
  ASSUME ContainersInv, [MCNext]_all
  PROVE  ContainersInv' /\ Table!IsAMap /\ Zhash!IsAMap /\ List!IsASequence
<1>1. TableInv /\ ZhashInv /\ ListInv
  BY DEF ContainersInv
<1>2. \/ Table!Next /\ UNCHANGED <<zhashVars, listVars>>
      \/ Zhash!Next /\ UNCHANGED <<tableVars, listVars>>
      \/ List!Next /\ UNCHANGED <<tableVars, zhashVars>>
      \/ UNCHANGED <<tableVars, zhashVars, listVars>>
  BY DEF MCNext, all, QueueStep, PoolStep, LinkStep, TableStep, ZhashStep, ListStep
<1>3. TableInv' /\ Table!IsAMap
  BY <1>1, <1>2, TableStepKeeps, TableRests
<1>4. ZhashInv' /\ Zhash!IsAMap
  BY <1>1, <1>2, ZhashStepKeeps, ZhashRests
<1>5. ListInv' /\ List!IsASequence
  BY <1>1, <1>2, ListStepKeeps, ListRests
<1> QED
  BY <1>3, <1>4, <1>5 DEF ContainersInv

(* They hold of the system. *)
LEMMA ContainersHold == MCSpec => []ContainersInv
<1>1. MCInit => ContainersInv
  BY TableInit, ZhashInit, ListInit DEF MCInit, ContainersInv
<1>2. ContainersInv /\ [MCNext]_all => ContainersInv'
  BY ContainersStep
<1> QED
  BY <1>1, <1>2, PTL DEF MCSpec

(* The hash tables hold their keys once and in their buckets, an iterator  *)
(* returns each entry once, no rehash of HashMap overfills a bucket, and   *)
(* the elements of an array are in its cells.                              *)
THEOREM ContainersHoldAll == MCSpec => []ContainersAreExact
<1>1. ContainersInv => ContainersAreExact
  BY TableExact, ZhashExact, ListExact DEF ContainersInv, ContainersAreExact
<1> QED
  BY <1>1, ContainersHold, PTL

(* Every step of a hash table is one of a map that says whether it has     *)
(* found the key, and every step of the array one of a sequence; but for a *)
(* copy of a HashMap, which is empty.                                      *)
THEOREM ContainersRefineAll == MCSpec => ContainersRefine
<1>1. ContainersInv /\ [MCNext]_all
        => [Table!IsAMap /\ Zhash!IsAMap /\ List!IsASequence]_all
  BY ContainersStep
<1> QED
  BY <1>1, ContainersHold, PTL DEF MCSpec, ContainersRefine
=============================================================================
