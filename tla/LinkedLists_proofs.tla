-------------------------- MODULE LinkedLists_proofs ---------------------------
(***************************************************************************)
(* Facts about sequences, those without repetitions first of all, that the   *)
(* proofs about lists, tables and lines rest on: what joining, cutting,      *)
(* appending and deleting leave.                                            *)
(***************************************************************************)
EXTENDS LinkedLists, FiniteSetTheorems, SequenceTheorems, TLAPS

-----------------------------------------------------------------------------
(* Sequences without repetitions. *)

\* As many elements as places.
LEMMA LenIsCardinality ==
  ASSUME NEW T, NEW s \in Seq(T), IsInjective(s)
  PROVE  IsFiniteSet(Range(s)) /\ Cardinality(Range(s)) = Len(s)
PROOF
  <1>0. Len(s) \in Nat /\ DOMAIN s = 1 .. Len(s) /\ s \in [1 .. Len(s) -> T]
    BY LenProperties
  <1>1. IsFiniteSet(1 .. Len(s)) /\ Cardinality(1 .. Len(s)) = Len(s)
    BY <1>0, FS_Interval
  <1>2. s \in Bijection(1 .. Len(s), Range(s))
    BY <1>0 DEF Bijection, Injection, Surjection, Range, IsInjective
  <1> QED BY <1>0, <1>1, <1>2, FS_Bijection DEF ExistsBijection

LEMMA ConcatFacts ==
  ASSUME NEW T, NEW a \in Seq(T), NEW b \in Seq(T), IsInjective(a), IsInjective(b),
         Range(a) \cap Range(b) = {}
  PROVE  /\ a \o b \in Seq(T) /\ IsInjective(a \o b)
         /\ Range(a \o b) = Range(a) \cup Range(b)
         /\ Len(a \o b) = Len(a) + Len(b)
PROOF
  <1>0. /\ Len(a) \in Nat /\ DOMAIN a = 1 .. Len(a)
        /\ Len(b) \in Nat /\ DOMAIN b = 1 .. Len(b)
    BY LenProperties
  <1>1. /\ a \o b \in Seq(T) /\ Len(a \o b) = Len(a) + Len(b)
        /\ \A i \in 1 .. Len(a) + Len(b) :
             (a \o b)[i] = IF i <= Len(a) THEN a[i] ELSE b[i - Len(a)]
        /\ DOMAIN (a \o b) = 1 .. Len(a) + Len(b)
    BY ConcatProperties, LenProperties
  <1>2. Range(a \o b) = Range(a) \cup Range(b)
    <2>1. \A x \in Range(a) : x \in Range(a \o b)
      BY <1>0, <1>1 DEF Range
    <2>2. ASSUME NEW x \in Range(b) PROVE x \in Range(a \o b)
      <3>1. PICK j \in 1 .. Len(b) : x = b[j]
        BY <1>0 DEF Range
      <3>2. j + Len(a) \in 1 .. Len(a) + Len(b) /\ (a \o b)[j + Len(a)] = b[j]
        BY <1>0, <1>1
      <3> QED BY <1>1, <3>1, <3>2 DEF Range
    <2>3. \A x \in Range(a \o b) : x \in Range(a) \cup Range(b)
      BY <1>0, <1>1 DEF Range
    <2> QED BY <2>1, <2>2, <2>3
  <1>3. IsInjective(a \o b)
    <2> SUFFICES ASSUME NEW i \in 1 .. Len(a) + Len(b), NEW j \in 1 .. Len(a) + Len(b),
                        (a \o b)[i] = (a \o b)[j]
                 PROVE  i = j
      BY <1>1 DEF IsInjective
    <2>1. CASE i <= Len(a) /\ j <= Len(a)
      BY <2>1, <1>0, <1>1 DEF IsInjective
    <2>2. CASE i > Len(a) /\ j > Len(a)
      BY <2>2, <1>0, <1>1 DEF IsInjective
    <2>3. CASE i <= Len(a) /\ j > Len(a)
      <3>1. a[i] = b[j - Len(a)] /\ i \in DOMAIN a /\ j - Len(a) \in DOMAIN b
        BY <2>3, <1>0, <1>1
      <3> QED BY <3>1 DEF Range
    <2>4. CASE i > Len(a) /\ j <= Len(a)
      <3>1. a[j] = b[i - Len(a)] /\ j \in DOMAIN a /\ i - Len(a) \in DOMAIN b
        BY <2>4, <1>0, <1>1
      <3> QED BY <3>1 DEF Range
    <2> QED BY <2>1, <2>2, <2>3, <2>4
  <1> QED BY <1>1, <1>2, <1>3

\* A sequence cut after its n-th element.
LEMMA CutFacts ==
  ASSUME NEW T, NEW s \in Seq(T), IsInjective(s), NEW n \in 0 .. Len(s)
  PROVE  /\ SubSeq(s, 1, n) \in Seq(T) /\ IsInjective(SubSeq(s, 1, n))
         /\ SubSeq(s, n + 1, Len(s)) \in Seq(T) /\ IsInjective(SubSeq(s, n + 1, Len(s)))
         /\ Len(SubSeq(s, 1, n)) = n
         /\ Len(SubSeq(s, n + 1, Len(s))) = Len(s) - n
         /\ \A i \in 1 .. n : SubSeq(s, 1, n)[i] = s[i]
         /\ Range(SubSeq(s, 1, n)) \cap Range(SubSeq(s, n + 1, Len(s))) = {}
         /\ Range(SubSeq(s, 1, n)) \cup Range(SubSeq(s, n + 1, Len(s))) = Range(s)
         /\ Range(SubSeq(s, 1, n)) = {s[i] : i \in 1 .. n}
         /\ Range(SubSeq(s, n + 1, Len(s))) = {s[i] : i \in n + 1 .. Len(s)}
PROOF
  <1> DEFINE a == SubSeq(s, 1, n)
  <1> DEFINE b == SubSeq(s, n + 1, Len(s))
  <1>0. /\ Len(s) \in Nat /\ DOMAIN s = 1 .. Len(s) /\ n \in Nat /\ n <= Len(s)
        /\ \A i \in 1 .. Len(s) : s[i] \in T
    BY LenProperties, ElementOfSeq
  <1>1. /\ a \in Seq(T) /\ Len(a) = n
        /\ \A i \in 1 .. n : a[i] = s[i]
        /\ DOMAIN a = 1 .. n
    BY <1>0, SubSeqProperties, LenProperties
  <1>2. /\ b \in Seq(T) /\ Len(b) = Len(s) - n
        /\ \A i \in 1 .. Len(s) - n : b[i] = s[n + i]
        /\ DOMAIN b = 1 .. Len(s) - n
    <2>0. n + 1 \in Int /\ Len(s) \in Int /\ \A i \in n + 1 .. Len(s) : s[i] \in T
      BY <1>0
    <2>1. /\ b \in Seq(T)
          /\ Len(b) = IF n + 1 <= Len(s) THEN Len(s) - (n + 1) + 1 ELSE 0
      BY <2>0, SubSeqProperties
    <2>3. Len(b) = Len(s) - n
      <3>1. CASE n + 1 <= Len(s)
        BY <3>1, <1>0, <2>1
      <3>2. CASE ~(n + 1 <= Len(s))
        <4>0. \A k, l \in Nat : k <= l /\ ~(k + 1 <= l) => l - k = 0
          OBVIOUS
        <4>1. Len(s) - n = 0
          BY <3>2, <1>0, <4>0, Zenon
        <4> QED BY <3>2, <4>1, <2>1
      <3> QED BY <3>1, <3>2
    <2>2. \A i \in 1 .. Len(s) - n : b[i] = s[n + i]
      BY <1>0, SubSeqProperties
    <2> QED BY <2>1, <2>2, <2>3, LenProperties
  <1>h. HIDE DEF a, b
  <1>3. IsInjective(a) /\ IsInjective(b)
    <2>1. IsInjective(a)
      BY <1>0, <1>1 DEF IsInjective
    <2>2. \A i, j \in 1 .. Len(s) - n : b[i] = b[j] => n + i = n + j
      BY <1>0, <1>2 DEF IsInjective
    <2>3. IsInjective(b)
      BY <1>0, <1>2, <2>2 DEF IsInjective
    <2> QED BY <2>1, <2>3
  <1>4. Range(a) = {s[i] : i \in 1 .. n}
    BY <1>1 DEF Range
  <1>5. Range(b) = {s[i] : i \in n + 1 .. Len(s)}
    <2>1. \A x \in Range(b) : x \in {s[i] : i \in n + 1 .. Len(s)}
      BY <1>0, <1>2 DEF Range
    <2>2. ASSUME NEW i \in n + 1 .. Len(s) PROVE s[i] \in Range(b)
      <3>1. i - n \in 1 .. Len(s) - n /\ b[i - n] = s[i]
        BY <1>0, <1>2
      <3> QED BY <3>1, <1>2 DEF Range
    <2> QED BY <2>1, <2>2
  <1>6. Range(a) \cap Range(b) = {}
    BY <1>0, <1>4, <1>5 DEF IsInjective
  <1>7. Range(a) \cup Range(b) = Range(s)
    <2>1. Range(s) = {s[i] : i \in 1 .. Len(s)}
      BY <1>0 DEF Range
    <2>2. 1 .. Len(s) = (1 .. n) \cup (n + 1 .. Len(s))
      BY <1>0
    <2> QED BY <2>1, <2>2, <1>4, <1>5
  <1> QED BY <1>1, <1>2, <1>3, <1>4, <1>5, <1>6, <1>7 DEF a, b

LEMMA RemoveAtFacts ==
  ASSUME NEW T, NEW s \in Seq(T), IsInjective(s), NEW n \in DOMAIN s
  PROVE  /\ RemoveAt(s, n) \in Seq(T) /\ IsInjective(RemoveAt(s, n))
         /\ Range(RemoveAt(s, n)) = Range(s) \ {s[n]}
         /\ Len(RemoveAt(s, n)) = Len(s) - 1
PROOF
  <1> DEFINE a == SubSeq(s, 1, n - 1)
  <1> DEFINE b == SubSeq(s, n + 1, Len(s))
  <1>0. /\ Len(s) \in Nat /\ DOMAIN s = 1 .. Len(s)
        /\ n - 1 \in 0 .. Len(s) /\ n \in 0 .. Len(s)
    BY LenProperties
  <1>1. /\ a \in Seq(T) /\ IsInjective(a) /\ Len(a) = n - 1
        /\ \A i \in 1 .. n - 1 : a[i] = s[i]
    BY <1>0, CutFacts
  <1>2. /\ b \in Seq(T) /\ IsInjective(b) /\ Len(b) = Len(s) - n
        /\ Range(SubSeq(s, 1, n)) \cap Range(b) = {}
        /\ Range(SubSeq(s, 1, n)) \cup Range(b) = Range(s)
        /\ Len(SubSeq(s, 1, n)) = n
        /\ \A i \in 1 .. n : SubSeq(s, 1, n)[i] = s[i]
        /\ SubSeq(s, 1, n) \in Seq(T)
    BY <1>0, CutFacts
  <1>3. Range(a) = {s[i] : i \in 1 .. n - 1}
    BY <1>1, LenProperties DEF Range
  <1>4. Range(SubSeq(s, 1, n)) = {s[i] : i \in 1 .. n}
    BY <1>2, LenProperties DEF Range
  <1>h. HIDE DEF a, b
  <1>5. Range(SubSeq(s, 1, n)) = Range(a) \cup {s[n]} /\ s[n] \notin Range(a)
    <2>1. {s[i] : i \in 1 .. n} = {s[i] : i \in 1 .. n - 1} \cup {s[n]}
      BY <1>0
    <2>2. s[n] \notin {s[i] : i \in 1 .. n - 1}
      BY <1>0 DEF IsInjective
    <2> QED BY <2>1, <2>2, <1>3, <1>4
  <1>6. Range(a) \cap Range(b) = {} /\ Range(a) \cup Range(b) = Range(s) \ {s[n]}
    BY <1>2, <1>5
  <1>7. RemoveAt(s, n) = a \o b
    BY DEF RemoveAt, a, b
  <1>8. Len(a) + Len(b) = Len(s) - 1
    BY <1>0, <1>1, <1>2
  <1>9. /\ a \o b \in Seq(T) /\ IsInjective(a \o b)
        /\ Range(a \o b) = Range(a) \cup Range(b)
        /\ Len(a \o b) = Len(a) + Len(b)
    <2>1. a \in Seq(T) /\ b \in Seq(T) /\ IsInjective(a) /\ IsInjective(b)
      BY <1>1, <1>2
    <2>2. Range(a) \cap Range(b) = {}
      BY <1>6
    <2> QED BY <2>1, <2>2, ConcatFacts, Zenon
  <1> QED BY <1>6, <1>7, <1>8, <1>9

LEMMA AppendFacts ==
  ASSUME NEW T, NEW s \in Seq(T), IsInjective(s), NEW x \in T, x \notin Range(s)
  PROVE  /\ Append(s, x) \in Seq(T) /\ IsInjective(Append(s, x))
         /\ Range(Append(s, x)) = Range(s) \cup {x}
         /\ Len(Append(s, x)) = Len(s) + 1
PROOF
  <1>1. /\ Append(s, x) \in Seq(T) /\ Len(Append(s, x)) = Len(s) + 1
        /\ \A i \in 1 .. Len(s) : Append(s, x)[i] = s[i]
        /\ Append(s, x)[Len(s) + 1] = x
    BY AppendProperties
  <1>2. \A i \in 1 .. Len(s) + 1 : i \in 1 .. Len(s) \/ i = Len(s) + 1
    OBVIOUS
  <1> QED BY <1>1, <1>2 DEF IsInjective, Range

LEMMA InsertAtFacts ==
  ASSUME NEW T, NEW s \in Seq(T), IsInjective(s), NEW n \in 0 .. Len(s), NEW x \in T,
         x \notin Range(s)
  PROVE  LET r == InsertAt(s, n + 1, x)
         IN  /\ r \in Seq(T) /\ IsInjective(r)
             /\ Range(r) = Range(s) \cup {x}
             /\ Len(r) = Len(s) + 1
             /\ \A i \in 1 .. n : r[i] = s[i]
             /\ r[n + 1] = x
             /\ \A i \in n + 2 .. Len(s) + 1 : r[i] = s[i - 1]
PROOF
  <1> DEFINE a == SubSeq(s, 1, n)
  <1> DEFINE b == SubSeq(s, n + 1, Len(s))
  <1> DEFINE m == <<x>>
  <1>0. Len(s) \in Nat /\ n \in Nat /\ n <= Len(s) /\ DOMAIN s = 1 .. Len(s)
    BY LenProperties
  <1>1. /\ a \in Seq(T) /\ IsInjective(a) /\ b \in Seq(T) /\ IsInjective(b)
        /\ Len(a) = n /\ Len(b) = Len(s) - n
        /\ Range(a) \cap Range(b) = {} /\ Range(a) \cup Range(b) = Range(s)
        /\ \A i \in 1 .. n : a[i] = s[i]
    BY CutFacts
  <1>2. \A i \in 1 .. Len(s) - n : b[i] = s[n + i]
    <2>1. \A i \in n + 1 .. Len(s) : s[i] \in T
      BY <1>0, ElementOfSeq
    <2> QED BY <1>0, <2>1, SubSeqProperties
  <1>3. m \in Seq(T) /\ IsInjective(m) /\ Range(m) = {x} /\ Len(m) = 1 /\ m[1] = x
    BY DEF IsInjective, Range
  <1>4. InsertAt(s, n + 1, x) = (a \o m) \o b
    <2>1. (n + 1) - 1 = n
      BY <1>0
    <2> QED BY <2>1 DEF InsertAt
  <1>h. HIDE DEF a, b, m
  <1>5. /\ a \o m \in Seq(T) /\ IsInjective(a \o m)
        /\ Range(a \o m) = Range(a) \cup {x} /\ Len(a \o m) = n + 1
    <2>1. Range(a) \cap Range(m) = {}
      BY <1>1, <1>3
    <2>3. a \in Seq(T) /\ m \in Seq(T) /\ IsInjective(a) /\ IsInjective(m)
      BY <1>1, <1>3
    <2>2. /\ a \o m \in Seq(T) /\ IsInjective(a \o m)
          /\ Range(a \o m) = Range(a) \cup Range(m)
          /\ Len(a \o m) = Len(a) + Len(m)
      BY <2>1, <2>3, ConcatFacts, ZenonT(60)
    <2> QED BY <2>2, <1>1, <1>3
  <1>6. /\ (a \o m) \o b \in Seq(T) /\ IsInjective((a \o m) \o b)
        /\ Range((a \o m) \o b) = Range(s) \cup {x} /\ Len((a \o m) \o b) = Len(s) + 1
    <2>1. Range(a \o m) \cap Range(b) = {}
      BY <1>1, <1>5
    <2>3. a \o m \in Seq(T) /\ b \in Seq(T) /\ IsInjective(a \o m) /\ IsInjective(b)
      BY <1>1, <1>5
    <2>2. /\ (a \o m) \o b \in Seq(T) /\ IsInjective((a \o m) \o b)
          /\ Range((a \o m) \o b) = Range(a \o m) \cup Range(b)
          /\ Len((a \o m) \o b) = Len(a \o m) + Len(b)
      BY <2>1, <2>3, ConcatFacts, ZenonT(60)
    <2> QED BY <2>2, <1>0, <1>1, <1>5
  <1>a. a \in Seq(T) /\ m \in Seq(T) /\ b \in Seq(T) /\ a \o m \in Seq(T)
    BY <1>1, <1>3, <1>5
  <1>7. /\ \A i \in 1 .. n + 1 : (a \o m)[i] = IF i <= n THEN a[i] ELSE m[i - n]
        /\ \A i \in 1 .. Len(s) + 1 :
             ((a \o m) \o b)[i] = IF i <= n + 1 THEN (a \o m)[i] ELSE b[i - (n + 1)]
    <2>1. \A i \in 1 .. Len(a) + Len(m) :
            (a \o m)[i] = IF i <= Len(a) THEN a[i] ELSE m[i - Len(a)]
      BY <1>a, ConcatProperties, Zenon
    <2>2. \A i \in 1 .. Len(a \o m) + Len(b) :
            ((a \o m) \o b)[i] = IF i <= Len(a \o m) THEN (a \o m)[i] ELSE b[i - Len(a \o m)]
      BY <1>a, ConcatProperties, Zenon
    <2>3. Len(a \o m) + Len(b) = Len(s) + 1
      BY <1>0, <1>1, <1>5
    <2> QED BY <2>1, <2>2, <2>3, <1>1, <1>3, <1>5
  <1>8. ASSUME NEW i \in 1 .. n PROVE ((a \o m) \o b)[i] = s[i]
    <2>1. i \in 1 .. Len(s) + 1 /\ i \in 1 .. n + 1 /\ i <= n /\ i <= n + 1
      BY <1>0
    <2> QED BY <2>1, <1>1, <1>7
  <1>9. ((a \o m) \o b)[n + 1] = x
    <2>1. /\ n + 1 \in 1 .. Len(s) + 1 /\ n + 1 \in 1 .. n + 1 /\ ~(n + 1 <= n) /\ (n + 1) - n = 1
          /\ n + 1 <= n + 1
      BY <1>0
    <2>2. ((a \o m) \o b)[n + 1] = (a \o m)[n + 1]
      BY <2>1, <1>7
    <2>3. (a \o m)[n + 1] = m[(n + 1) - n]
      BY <2>1, <1>7
    <2> QED BY <2>1, <2>2, <2>3, <1>3
  <1>10. ASSUME NEW i \in n + 2 .. Len(s) + 1 PROVE ((a \o m) \o b)[i] = s[i - 1]
    <2>1. /\ i \in 1 .. Len(s) + 1 /\ ~(i <= n + 1) /\ i - (n + 1) \in 1 .. Len(s) - n
          /\ n + (i - (n + 1)) = i - 1
      BY <1>0
    <2> QED BY <2>1, <1>2, <1>7
  <1> QED BY <1>4, <1>6, <1>8, <1>9, <1>10

-----------------------------------------------------------------------------
(* What is taken out of a list. *)

\* The places of the elements that stay are in bijection with their ranks.
LEMMA PlaceFacts ==
  ASSUME NEW T, NEW s \in Seq(T), NEW qs
  PROVE  /\ IsFiniteSet(Kept(s, qs)) /\ Cardinality(Kept(s, qs)) \in 0 .. Len(s)
         /\ \A k \in 1 .. Cardinality(Kept(s, qs)) : PlaceOf(s, qs, k) \in Kept(s, qs)
         /\ \A k, l \in 1 .. Cardinality(Kept(s, qs)) :
              k < l => PlaceOf(s, qs, k) < PlaceOf(s, qs, l)
         /\ \A i \in Kept(s, qs) :
              \E k \in 1 .. Cardinality(Kept(s, qs)) : PlaceOf(s, qs, k) = i
PROOF
  <1> DEFINE I == Kept(s, qs)
  <1> DEFINE below(i) == {j \in I : j <= i}
  <1> DEFINE rank == [i \in I |-> Cardinality(below(i))]
  <1>0. Len(s) \in Nat /\ DOMAIN s = 1 .. Len(s)
    BY LenProperties
  <1>1. /\ IsFiniteSet(I) /\ Cardinality(I) \in Nat /\ Cardinality(I) <= Len(s)
    <2>1. IsFiniteSet(1 .. Len(s)) /\ Cardinality(1 .. Len(s)) = Len(s)
      BY <1>0, FS_Interval
    <2>2. I \in SUBSET (1 .. Len(s))
      BY <1>0 DEF Kept
    <2> QED BY <2>1, <2>2, FS_Subset, FS_CardinalityType
  <1>2. ASSUME NEW i \in I
        PROVE  /\ below(i) \subseteq I /\ i \in below(i)
               /\ IsFiniteSet(below(i))
               /\ Cardinality(below(i)) \in Nat
               /\ Cardinality(below(i)) \in 1 .. Cardinality(I)
    <2>1. below(i) \subseteq I /\ i \in below(i)
      BY <1>0 DEF Kept
    <2>2. IsFiniteSet(below(i)) /\ Cardinality(below(i)) <= Cardinality(I)
      BY <2>1, <1>1, FS_Subset
    <2>3. Cardinality(below(i)) \in Nat /\ Cardinality(below(i)) # 0
      BY <2>1, <2>2, FS_CardinalityType, FS_EmptySet
    <2> QED BY <2>1, <2>2, <2>3, <1>1
  <1>3. ASSUME NEW i \in I, NEW j \in I, i < j
        PROVE  Cardinality(below(i)) < Cardinality(below(j))
    <2>1. below(i) \subseteq below(j) /\ j \in below(j) /\ j \notin below(i)
      BY <1>0, <1>3 DEF Kept
    <2>2. /\ Cardinality(below(i)) <= Cardinality(below(j))
          /\ Cardinality(below(i)) # Cardinality(below(j))
      BY <2>1, <1>2, FS_Subset
    <2>3. Cardinality(below(i)) \in Nat /\ Cardinality(below(j)) \in Nat
      BY <1>2
    <2>h. HIDE DEF below
    <2> QED BY <2>2, <2>3
  <1>4. rank \in Bijection(I, 1 .. Cardinality(I))
    <2>1. rank \in [I -> 1 .. Cardinality(I)]
      BY <1>2
    <2>2. ASSUME NEW i \in I, NEW j \in I, rank[i] = rank[j] PROVE i = j
      <3>1. rank[i] = Cardinality(below(i)) /\ rank[j] = Cardinality(below(j))
        OBVIOUS
      <3>2. Cardinality(below(i)) \in Nat /\ Cardinality(below(j)) \in Nat
        BY <1>2
      <3>3. i \in Nat /\ j \in Nat
        BY <1>0 DEF Kept
      <3>4. ~(i < j) /\ ~(j < i)
        <4>h. HIDE DEF below
        <4> QED BY <3>1, <3>2, <2>2, <1>3
      <3> QED BY <3>3, <3>4
    <2>3. rank \in Injection(I, 1 .. Cardinality(I))
      <3>h. HIDE DEF rank
      <3> QED BY <2>1, <2>2 DEF Injection, IsInjective
    <2>4. IsFiniteSet(1 .. Cardinality(I)) /\ Cardinality(1 .. Cardinality(I)) = Cardinality(I)
      BY <1>1, FS_Interval
    <2>5. rank \in Surjection(I, 1 .. Cardinality(I))
      <3>h. HIDE DEF rank, I
      <3> QED BY <2>3, <2>4, FS_Injection
    <2> QED BY <2>3, <2>5 DEF Bijection
  <1>5. ASSUME NEW k \in 1 .. Cardinality(I)
        PROVE  PlaceOf(s, qs, k) \in I /\ rank[PlaceOf(s, qs, k)] = k
    <2>1. PICK i \in I : rank[i] = k
      BY <1>4 DEF Bijection, Surjection
    <2>2. Cardinality({j \in Kept(s, qs) : j <= i}) = k
      BY <2>1
    <2>3. /\ PlaceOf(s, qs, k) \in Kept(s, qs)
          /\ Cardinality({j \in Kept(s, qs) : j <= PlaceOf(s, qs, k)}) = k
      BY <2>2 DEF PlaceOf
    <2> QED BY <2>3
  <1>a. ASSUME NEW i \in I, NEW j \in I, i < j PROVE rank[i] < rank[j]
    BY <1>a, <1>3
  <1>b. I \subseteq Nat
    BY <1>0 DEF Kept
  <1>h. HIDE DEF rank, I
  <1>6. ASSUME NEW k \in 1 .. Cardinality(I), NEW l \in 1 .. Cardinality(I), k < l
        PROVE  PlaceOf(s, qs, k) < PlaceOf(s, qs, l)
    <2>1. /\ PlaceOf(s, qs, k) \in I /\ rank[PlaceOf(s, qs, k)] = k
          /\ PlaceOf(s, qs, l) \in I /\ rank[PlaceOf(s, qs, l)] = l
      BY <1>5
    <2>2. ~(PlaceOf(s, qs, l) < PlaceOf(s, qs, k)) /\ PlaceOf(s, qs, l) # PlaceOf(s, qs, k)
      BY <2>1, <1>a, <1>6, <1>1
    <2>3. PlaceOf(s, qs, k) \in Nat /\ PlaceOf(s, qs, l) \in Nat
      BY <2>1, <1>b
    <2> QED BY <2>2, <2>3
  <1>7. ASSUME NEW i \in I PROVE \E k \in 1 .. Cardinality(I) : PlaceOf(s, qs, k) = i
    <2>1. rank[i] \in 1 .. Cardinality(I)
      BY <1>4 DEF Bijection, Injection
    <2>2. PlaceOf(s, qs, rank[i]) \in I /\ rank[PlaceOf(s, qs, rank[i])] = rank[i]
      BY <2>1, <1>5
    <2>3. PlaceOf(s, qs, rank[i]) = i
      BY <2>2, <1>4 DEF Bijection, Injection, IsInjective
    <2> QED BY <2>1, <2>3
  <1>8. Cardinality(I) \in 0 .. Len(s)
    BY <1>0, <1>1
  <1> QED BY <1>1, <1>5, <1>6, <1>7, <1>8 DEF I

LEMMA WithoutFacts ==
  ASSUME NEW T, NEW s \in Seq(T), IsInjective(s), NEW qs
  PROVE  /\ Without(s, qs) \in Seq(T) /\ IsInjective(Without(s, qs))
         /\ Range(Without(s, qs)) = Range(s) \ qs
         /\ Len(Without(s, qs)) = Cardinality(Kept(s, qs))
         /\ Len(Without(s, qs)) <= Len(s)
         /\ \A k, l \in DOMAIN Without(s, qs) : k < l =>
              \E i, j \in DOMAIN s :
                i < j /\ Without(s, qs)[k] = s[i] /\ Without(s, qs)[l] = s[j]
PROOF
  <1> DEFINE I == Kept(s, qs)
  <1> DEFINE w == Without(s, qs)
  <1>0. Len(s) \in Nat /\ DOMAIN s = 1 .. Len(s) /\ \A i \in DOMAIN s : s[i] \in T
    BY LenProperties, ElementOfSeq
  <1>1. /\ Cardinality(I) \in 0 .. Len(s)
        /\ \A k \in 1 .. Cardinality(I) : PlaceOf(s, qs, k) \in I
        /\ \A k, l \in 1 .. Cardinality(I) :
             k < l => PlaceOf(s, qs, k) < PlaceOf(s, qs, l)
        /\ \A i \in I : \E k \in 1 .. Cardinality(I) : PlaceOf(s, qs, k) = i
    BY PlaceFacts
  <1>2. w = [k \in 1 .. Cardinality(I) |-> s[PlaceOf(s, qs, k)]]
    BY DEF Without
  <1>3. \A i \in I : i \in DOMAIN s /\ s[i] \notin qs
    BY DEF Kept
  <1>4. \A i \in DOMAIN s : s[i] \notin qs => i \in I
    BY DEF Kept
  <1>h. HIDE DEF I, w
  <1>5. w \in [1 .. Cardinality(I) -> T] /\ Cardinality(I) \in Nat
    BY <1>0, <1>1, <1>2, <1>3
  <1>6. w \in Seq(T) /\ Len(w) = Cardinality(I) /\ DOMAIN w = 1 .. Cardinality(I)
    BY <1>5, IsASeq, LenProperties
  <1>7. IsInjective(w)
    <2> SUFFICES ASSUME NEW k \in 1 .. Cardinality(I), NEW l \in 1 .. Cardinality(I),
                        w[k] = w[l]
                 PROVE  k = l
      BY <1>6 DEF IsInjective
    <2>1. s[PlaceOf(s, qs, k)] = s[PlaceOf(s, qs, l)]
      BY <1>2
    <2>2. PlaceOf(s, qs, k) \in DOMAIN s /\ PlaceOf(s, qs, l) \in DOMAIN s
      BY <1>1, <1>3
    <2>3. PlaceOf(s, qs, k) = PlaceOf(s, qs, l)
      BY <2>1, <2>2 DEF IsInjective
    <2>4. ~(k < l) /\ ~(l < k)
      BY <2>2, <2>3, <1>0, <1>1
    <2> QED BY <2>4, <1>5
  <1>8. Range(w) = Range(s) \ qs
    <2>1. ASSUME NEW x \in Range(w) PROVE x \in Range(s) /\ x \notin qs
      <3>1. PICK k \in 1 .. Cardinality(I) : x = s[PlaceOf(s, qs, k)]
        BY <1>2 DEF Range
      <3> QED BY <3>1, <1>1, <1>3 DEF Range
    <2>2. ASSUME NEW x \in Range(s), x \notin qs PROVE x \in Range(w)
      <3>1. PICK i \in DOMAIN s : x = s[i]
        BY DEF Range
      <3>2. PICK k \in 1 .. Cardinality(I) : PlaceOf(s, qs, k) = i
        BY <3>1, <2>2, <1>1, <1>4
      <3>3. w[k] = x
        BY <3>1, <3>2, <1>2
      <3> QED BY <3>3, <1>6 DEF Range
    <2> QED BY <2>1, <2>2
  <1>9. ASSUME NEW k \in DOMAIN w, NEW l \in DOMAIN w, k < l
        PROVE  \E i, j \in DOMAIN s : i < j /\ w[k] = s[i] /\ w[l] = s[j]
    <2>1. k \in 1 .. Cardinality(I) /\ l \in 1 .. Cardinality(I)
      BY <1>6
    <2>2. /\ PlaceOf(s, qs, k) \in DOMAIN s /\ PlaceOf(s, qs, l) \in DOMAIN s
          /\ PlaceOf(s, qs, k) < PlaceOf(s, qs, l)
      BY <2>1, <1>1, <1>3, <1>9
    <2>3. w[k] = s[PlaceOf(s, qs, k)] /\ w[l] = s[PlaceOf(s, qs, l)]
      BY <2>1, <1>2
    <2> QED BY <2>2, <2>3
  <1>10. Len(w) <= Len(s)
    BY <1>0, <1>1, <1>6
  <1> QED BY <1>6, <1>7, <1>8, <1>9, <1>10 DEF w, I

\* One more element of the list is one more place or none.
LEMMA LongerCut ==
  ASSUME NEW T, NEW s \in Seq(T), IsInjective(s), NEW qs, NEW n \in 1 .. Len(s)
  PROVE  Len(Without(SubSeq(s, 1, n), qs)) <= Len(Without(SubSeq(s, 1, n - 1), qs)) + 1
PROOF
  <1> DEFINE I(k) == {i \in 1 .. k : s[i] \notin qs}
  <1>0. /\ Len(s) \in Nat /\ n \in 0 .. Len(s) /\ n - 1 \in 0 .. Len(s)
        /\ 1 .. n = (1 .. n - 1) \cup {n}
    BY LenProperties
  <1>1. ASSUME NEW k \in 0 .. Len(s)
        PROVE  Len(Without(SubSeq(s, 1, k), qs)) = Cardinality(I(k)) /\ IsFiniteSet(I(k))
    <2>1. /\ SubSeq(s, 1, k) \in Seq(T) /\ IsInjective(SubSeq(s, 1, k))
          /\ Len(SubSeq(s, 1, k)) = k /\ \A i \in 1 .. k : SubSeq(s, 1, k)[i] = s[i]
      BY CutFacts
    <2>2. DOMAIN SubSeq(s, 1, k) = 1 .. k
      BY <2>1, LenProperties
    <2>3. Kept(SubSeq(s, 1, k), qs) = I(k)
      BY <2>1, <2>2 DEF Kept
    <2>4. IsFiniteSet(1 .. k)
      BY <1>0, FS_Interval
    <2>5. IsFiniteSet(I(k))
      BY <2>4, FS_Subset
    <2>6. Len(Without(SubSeq(s, 1, k), qs)) = Cardinality(Kept(SubSeq(s, 1, k), qs))
      BY <2>1, WithoutFacts
    <2> QED BY <2>3, <2>5, <2>6
  <1>2. I(n) = I(n - 1) \/ I(n) = I(n - 1) \cup {n}
    BY <1>0
  <1>3. IsFiniteSet(I(n - 1)) /\ Cardinality(I(n - 1)) \in Nat
    BY <1>0, <1>1, FS_CardinalityType
  <1>h. HIDE DEF I
  <1>4. Cardinality(I(n)) <= Cardinality(I(n - 1)) + 1
    <2>1. \/ Cardinality(I(n - 1) \cup {n}) = Cardinality(I(n - 1)) + 1
          \/ Cardinality(I(n - 1) \cup {n}) = Cardinality(I(n - 1))
      BY <1>3, FS_AddElement
    <2>2. \/ Cardinality(I(n)) = Cardinality(I(n - 1)) + 1
          \/ Cardinality(I(n)) = Cardinality(I(n - 1))
      BY <2>1, <1>2, Zenon
    <2> QED BY <2>2, <1>3
  <1> QED BY <1>0, <1>1, <1>4

\* A set of numbers has a least one.
LEMMA LeastNumber ==
  ASSUME NEW S, S \subseteq Nat, S # {}
  PROVE  \E i \in S : \A j \in S : i <= j
PROOF
  <1> DEFINE R == OpToRel(<, Nat)
  <1>1. \A a, b \in Nat : a < b => <<a, b>> \in R
    BY DEF OpToRel
  <1>2. IsWellFoundedOn(R, Nat)
    BY NatLessThanWellFounded
  <1>h. HIDE DEF R
  <1>3. PICK x \in S : \A y \in S : ~ (<<y, x>> \in R)
    BY <1>2, WFMin
  <1>4. \A y \in S : ~(y < x)
    BY <1>3, <1>1
  <1> QED BY <1>4
=============================================================================
