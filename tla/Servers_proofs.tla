---------------------------- MODULE Servers_proofs -----------------------------
(***************************************************************************)
(* Proofs about module Servers and the hash tables and scans of module     *)
(* Hash it is built on.                                                    *)
(***************************************************************************)
EXTENDS Servers, LinkedLists_proofs

-----------------------------------------------------------------------------
(* The numbers of chains a table can have: the initial one and its doubles, *)
(* as the smallest set closed under doubling.                               *)

Sizes ==
  {n \in Nat : \A A \in SUBSET Nat :
                 (InitSize \in A /\ \A m \in A : 2 * m \in A) => n \in A}

\* A table of more than the initial size is the double of another.
LEMMA SizesFacts ==
  /\ Sizes \subseteq Nat /\ InitSize \in Sizes
  /\ \A n \in Sizes : n >= InitSize /\ n > 1 /\ 2 * n \in Sizes
  /\ \A n \in Sizes : n # InitSize => \E m \in Sizes : n = 2 * m
PROOF
  <1>1. Sizes \subseteq Nat /\ InitSize \in Sizes
    BY HashAssumption DEF Sizes
  <1>2. ASSUME NEW n \in Sizes PROVE 2 * n \in Sizes
    <2>1. ASSUME NEW A \in SUBSET Nat, InitSize \in A, \A m \in A : 2 * m \in A
          PROVE  2 * n \in A
      BY <2>1 DEF Sizes
    <2> QED BY <1>1, <2>1 DEF Sizes
  <1>3. ASSUME NEW n \in Sizes PROVE n >= InitSize /\ n > 1
    <2> DEFINE A == {m \in Nat : m >= InitSize}
    <2>1. InitSize \in A /\ \A m \in A : 2 * m \in A
      BY HashAssumption
    <2>2. n \in A
      BY <2>1 DEF Sizes
    <2> QED BY <2>2, HashAssumption
  <1>4. ASSUME NEW n \in Sizes, n # InitSize PROVE \E m \in Sizes : n = 2 * m
    <2> DEFINE A == {k \in Sizes : k = InitSize \/ \E m \in Sizes : k = 2 * m}
    <2>1. InitSize \in A /\ \A m \in A : 2 * m \in A
      BY <1>1, <1>2
    <2>2. A \in SUBSET Nat
      BY <1>1
    <2>3. n \in A
      <3> HIDE DEF A
      <3> QED BY <2>1, <2>2 DEF Sizes
    <2> QED BY <2>3, <1>4
  <1> QED BY <1>1, <1>2, <1>3, <1>4

\* Quotient and remainder are unique.
LEMMA Division ==
  ASSUME NEW n \in Nat \ {0}, NEW q \in Nat, NEW r \in 0 .. n - 1
  PROVE  (n * q + r) % n = r /\ (n * q + r) \div n = q
PROOF
  OBVIOUS

\* The bit of a hash value that a doubling exposes.
LEMMA ExposedBit ==
  ASSUME NEW n \in Nat \ {0}, NEW h \in Nat
  PROVE  /\ h % n \in 0 .. n - 1 /\ (h \div n) % 2 \in {0, 1}
         /\ h % (2 * n) = (h % n) + n * ((h \div n) % 2)
PROOF
  <1> DEFINE q == h \div n
             r == h % n
             p == q \div 2
             b == q % 2
  <1>1. q \in Nat /\ r \in 0 .. n - 1 /\ h = n * q + r
    OBVIOUS
  <1>2. p \in Nat /\ b \in {0, 1} /\ q = 2 * p + b
    BY <1>1
  <1> HIDE DEF q, r, p, b
  <1>3. n * b \in {0, n}
    BY <1>2
  <1>4. n * b + r \in 0 .. 2 * n - 1
    BY <1>1, <1>2, <1>3
  <1>5. h = (2 * n) * p + (n * b + r)
    <2>1. n * (2 * p + b) = (2 * n) * p + n * b
      BY <1>2
    <2> QED BY <1>1, <1>2, <2>1
  <1>6. ((2 * n) * p + (n * b + r)) % (2 * n) = n * b + r
    <2>1. \A k \in Nat \ {0}, u \in Nat : \A v \in 0 .. k - 1 : (k * u + v) % k = v
      BY Division
    <2>2. 2 * n \in Nat \ {0}
      OBVIOUS
    <2> QED BY <1>2, <1>4, <2>1, <2>2
  <1>7. h % (2 * n) = r + n * b
    BY <1>1, <1>3, <1>5, <1>6
  <1> QED BY <1>1, <1>2, <1>7 DEF q, r, p, b
-----------------------------------------------------------------------------
(* What hash_verify asserts of a table, and what it takes to keep it so: the *)
(* number of chains, the marks, and every node in its own chain, once.      *)

Table(S) ==
  [ nchains : Nat, chains : UNION {[0 .. n - 1 -> Seq(S)] : n \in Nat}, nodecount : Nat,
    highmark : Nat, lowmark : Nat ]

Good(t, S) ==
  /\ t \in Table(S)
  /\ t.nchains \in Sizes
  /\ t.highmark = 2 * t.nchains
  /\ t.lowmark \in Nat /\ 2 * t.lowmark <= t.nchains
  /\ t.chains \in [Chains(t) -> Seq(S)]
  /\ \A c \in Chains(t) : IsInjective(t.chains[c])
  /\ \A c \in Chains(t) : \A x \in Range(t.chains[c]) : ChainOf(t, x) = c
  /\ IsFiniteSet(Nodes(t)) /\ t.nodecount = Cardinality(Nodes(t))

\* S is a set of nodes with hash values.
Keyed(S) == NULL \notin S /\ \A x \in S : HKey[x] \in Nat

LEMMA GoodFacts ==
  ASSUME NEW S, Keyed(S), NEW t, Good(t, S)
  PROVE  /\ t.nchains \in Nat /\ t.nchains > 1 /\ t.nodecount \in Nat
         /\ \A c \in Chains(t) :
              /\ c \in Nat
              /\ t.chains[c] \in Seq(S) /\ Len(t.chains[c]) \in Nat
              /\ DOMAIN t.chains[c] = 1 .. Len(t.chains[c])
         /\ \A c \in Chains(t) : \A i \in DOMAIN t.chains[c] :
              /\ t.chains[c][i] \in Nodes(t)
              /\ ChainOf(t, t.chains[c][i]) = c
         /\ Nodes(t) \subseteq S
         /\ \A x \in S : ChainOf(t, x) \in Chains(t)
         /\ \A x \in S : x \in Nodes(t) <=> x \in Range(t.chains[ChainOf(t, x)])
         /\ \A c, d \in Chains(t) : c # d => Range(t.chains[c]) \cap Range(t.chains[d]) = {}
PROOF
  <1>1. t.nchains \in Nat /\ t.nchains > 1
    BY SizesFacts DEF Good
  <1>2. t.nodecount \in Nat
    BY FS_CardinalityType DEF Good
  <1>3. ASSUME NEW c \in Chains(t)
        PROVE  /\ c \in Nat
               /\ t.chains[c] \in Seq(S) /\ Len(t.chains[c]) \in Nat
               /\ DOMAIN t.chains[c] = 1 .. Len(t.chains[c])
    <2>1. t.chains[c] \in Seq(S)
      BY DEF Good
    <2>2. c \in Nat
      BY <1>1 DEF Chains
    <2> QED BY <2>1, <2>2, LenProperties
  <1>4. ASSUME NEW c \in Chains(t), NEW i \in DOMAIN t.chains[c]
        PROVE  /\ t.chains[c][i] \in Nodes(t) /\ ChainOf(t, t.chains[c][i]) = c
               /\ t.chains[c][i] \in S
    <2>1. t.chains[c][i] \in Range(t.chains[c])
      BY DEF Range
    <2>2. t.chains[c][i] \in S
      BY <1>3, ElementOfSeq
    <2> QED BY <2>1, <2>2 DEF Good, Nodes
  <1>5. Nodes(t) \subseteq S
    BY <1>4 DEF Nodes, Range
  <1>6. ASSUME NEW x \in S PROVE ChainOf(t, x) \in Chains(t)
    <2>1. HKey[x] \in Nat
      BY DEF Keyed
    <2>2. HKey[x] % t.nchains \in 0 .. t.nchains - 1
      BY <2>1, <1>1
    <2> QED BY <2>2 DEF ChainOf, Chains
  <1>7. ASSUME NEW x \in S
        PROVE  x \in Nodes(t) <=> x \in Range(t.chains[ChainOf(t, x)])
    <2>1. ASSUME x \in Nodes(t) PROVE x \in Range(t.chains[ChainOf(t, x)])
      <3>1. PICK c \in Chains(t) : x \in Range(t.chains[c])
        BY <2>1 DEF Nodes
      <3>2. ChainOf(t, x) = c
        BY <3>1 DEF Good
      <3> QED BY <3>1, <3>2
    <2>2. ASSUME x \in Range(t.chains[ChainOf(t, x)]) PROVE x \in Nodes(t)
      BY <2>2, <1>6 DEF Nodes
    <2> QED BY <2>1, <2>2
  <1>8. \A c, d \in Chains(t) : c # d => Range(t.chains[c]) \cap Range(t.chains[d]) = {}
    <2>1. \A c \in Chains(t) : \A x \in Range(t.chains[c]) : ChainOf(t, x) = c
      BY DEF Good
    <2> QED BY <2>1, ZenonT(60)
  <1> QED BY <1>1, <1>2, <1>3, <1>4, <1>5, <1>6, <1>7, <1>8

\* hash_verify: the places of the nodes are as many as the nodes.
LEMMA GoodIsVerified ==
  ASSUME NEW S, Keyed(S), NEW t, Good(t, S)
  PROVE  Verified(t)
PROOF
  <1>1. t.lowmark < t.highmark
    BY GoodFacts DEF Good
  <1>2. \A p \in Places(t) : p[1] \in Chains(t) /\ p[2] \in DOMAIN t.chains[p[1]]
                             /\ p = <<p[1], p[2]>>
    BY DEF Places
  <1>3. \A p \in Places(t) : /\ ChainOf(t, t.chains[p[1]][p[2]]) = p[1]
                             /\ t.chains[p[1]][p[2]] \in Nodes(t)
    BY <1>2, GoodFacts
  <1>4. ASSUME NEW p \in Places(t), NEW q \in Places(t),
               t.chains[p[1]][p[2]] = t.chains[q[1]][q[2]]
        PROVE  p = q
    <2>1. p[1] = q[1]
      BY <1>3, <1>4
    <2>2. p[2] = q[2]
      <3>1. IsInjective(t.chains[p[1]])
        BY <1>2 DEF Good
      <3> QED BY <1>2, <1>4, <2>1, <3>1 DEF IsInjective
    <2> QED BY <2>1, <2>2, <1>2
  <1>5. t.nodecount = Cardinality(Places(t))
    <2> DEFINE f == [p \in Places(t) |-> t.chains[p[1]][p[2]]]
    <2>1. f \in [Places(t) -> Nodes(t)]
      BY <1>3
    <2>2. \A p, q \in Places(t) : f[p] = f[q] => p = q
      BY <1>4
    <2>3. ASSUME NEW x \in Nodes(t) PROVE \E p \in Places(t) : f[p] = x
      <3>1. PICK c \in Chains(t) : x \in Range(t.chains[c])
        BY DEF Nodes
      <3>2. PICK i \in DOMAIN t.chains[c] : x = t.chains[c][i]
        BY <3>1 DEF Range
      <3>3. <<c, i>> \in Places(t)
        BY DEF Places
      <3>4. f[<<c, i>>] = x
        BY <3>2, <3>3
      <3> QED BY <3>3, <3>4
    <2> HIDE DEF f
    <2>4. f \in Bijection(Places(t), Nodes(t))
      BY <2>1, <2>2, <2>3 DEF Bijection, Injection, Surjection, IsInjective
    <2>5. IsFiniteSet(Places(t)) /\ Cardinality(Places(t)) = Cardinality(Nodes(t))
      <3>1. f \in Injection(Places(t), Nodes(t)) /\ f \in Surjection(Places(t), Nodes(t))
        BY <2>4 DEF Bijection
      <3>2. IsFiniteSet(Nodes(t))
        BY DEF Good
      <3> QED BY <3>1, <3>2, FS_Injection
    <2> QED BY <2>5 DEF Good
  <1> QED BY <1>1, <1>3, <1>4, <1>5 DEF Verified
-----------------------------------------------------------------------------
(* What the operations on a table do to it. *)

LEMMA EmptyTableIsGood ==
  ASSUME NEW S
  PROVE  Good(EmptyTable, S) /\ Nodes(EmptyTable) = {}
PROOF
  <1>1. /\ EmptyTable.nchains = InitSize /\ EmptyTable.nodecount = 0
        /\ EmptyTable.highmark = 2 * InitSize /\ EmptyTable.lowmark = InitSize \div 2
        /\ EmptyTable.chains = [c \in 0 .. InitSize - 1 |-> <<>>]
    BY DEF EmptyTable
  <1>2. Chains(EmptyTable) = 0 .. InitSize - 1
    BY <1>1 DEF Chains
  <1>3. \A c \in Chains(EmptyTable) : EmptyTable.chains[c] = <<>>
    BY <1>1, <1>2
  <1>4. Range(<<>>) = {} /\ IsInjective(<<>>) /\ <<>> \in Seq(S)
    BY DEF Range, IsInjective
  <1>5. Nodes(EmptyTable) = {}
    BY <1>3, <1>4 DEF Nodes
  <1>6. InitSize \div 2 \in Nat /\ 2 * (InitSize \div 2) <= InitSize
    BY HashAssumption
  <1>7. EmptyTable.chains \in [Chains(EmptyTable) -> Seq(S)]
    BY <1>1, <1>2, <1>4
  <1>8. EmptyTable \in Table(S)
    <2>1. EmptyTable.chains \in UNION {[0 .. n - 1 -> Seq(S)] : n \in Nat}
      BY <1>2, <1>7, HashAssumption
    <2> QED BY <1>1, <1>6, <2>1, HashAssumption DEF EmptyTable, Table
  <1> QED BY <1>1, <1>3, <1>4, <1>5, <1>6, <1>7, <1>8, SizesFacts, FS_EmptySet DEF Good

LEMMA ReverseFacts ==
  ASSUME NEW T, NEW s \in Seq(T), IsInjective(s)
  PROVE  /\ Reverse(s) \in Seq(T) /\ IsInjective(Reverse(s))
         /\ Range(Reverse(s)) = Range(s)
PROOF
  <1>1. Len(s) \in Nat /\ DOMAIN s = 1 .. Len(s)
    BY LenProperties
  <1>2. \A i \in 1 .. Len(s) : s[i] \in T
    BY <1>1, ElementOfSeq
  <1>3. Reverse(s) = [i \in 1 .. Len(s) |-> s[Len(s) - i + 1]]
    BY DEF Reverse
  <1>4. \A i \in 1 .. Len(s) : Len(s) - i + 1 \in 1 .. Len(s)
    BY <1>1
  <1>5. Reverse(s) \in [1 .. Len(s) -> T]
    BY <1>2, <1>3, <1>4
  <1>6. Reverse(s) \in Seq(T)
    BY <1>1, <1>5, SeqDef
  <1>7. \A i \in 1 .. Len(s) : Reverse(s)[Len(s) - i + 1] = s[i]
    <2> SUFFICES ASSUME NEW i \in 1 .. Len(s) PROVE Reverse(s)[Len(s) - i + 1] = s[i]
      OBVIOUS
    <2>1. Len(s) - (Len(s) - i + 1) + 1 = i
      BY <1>1
    <2> QED BY <1>3, <1>4, <2>1
  <1>8. Range(Reverse(s)) = Range(s)
    <2>1. \A x \in Range(Reverse(s)) : x \in Range(s)
      BY <1>1, <1>3, <1>4 DEF Range
    <2>2. \A x \in Range(s) : x \in Range(Reverse(s))
      BY <1>1, <1>5, <1>4, <1>7 DEF Range
    <2> QED BY <2>1, <2>2
  <1>9. IsInjective(Reverse(s))
    <2> SUFFICES ASSUME NEW i \in 1 .. Len(s), NEW j \in 1 .. Len(s),
                        Reverse(s)[i] = Reverse(s)[j]
                 PROVE  i = j
      BY <1>5 DEF IsInjective
    <2>1. s[Len(s) - i + 1] = s[Len(s) - j + 1]
      BY <1>3
    <2>2. Len(s) - i + 1 = Len(s) - j + 1
      BY <1>1, <1>4, <2>1 DEF IsInjective
    <2> QED BY <1>1, <2>2
  <1> QED BY <1>6, <1>8, <1>9
\* grow_table: every node stays in the table, in the chain of its hash value.
LEMMA GrowFacts ==
  ASSUME NEW S, Keyed(S), NEW t, Good(t, S)
  PROVE  Good(Grow(t), S) /\ Nodes(Grow(t)) = Nodes(t)
PROOF
  <1> DEFINE n == t.nchains
             g == Grow(t)
             part(c) == Without(t.chains[c % n], OnBit(t, 1 - c \div n))
  <1>1. n \in Nat \ {0} /\ Chains(t) = 0 .. n - 1
    BY GoodFacts DEF Chains
  <1>2. /\ g.nchains = 2 * n /\ g.nodecount = t.nodecount
        /\ g.highmark = 2 * t.highmark /\ g.lowmark = 2 * t.lowmark
        /\ g.chains = [c \in 0 .. 2 * n - 1 |-> Reverse(part(c))]
    BY DEF Grow
  <1>3. Chains(g) = 0 .. 2 * n - 1
    BY <1>2 DEF Chains
  <1>4. ASSUME NEW c \in 0 .. 2 * n - 1
        PROVE  /\ c % n \in Chains(t) /\ c \div n \in {0, 1}
               /\ c = (c % n) + n * (c \div n)
    <2>1. CASE c < n
      <3>1. c = n * 0 + c /\ c \in 0 .. n - 1
        BY <2>1, <1>1, <1>4
      <3>2. (n * 0 + c) % n = c /\ (n * 0 + c) \div n = 0
        BY <3>1, <1>1, Division
      <3>3. n * 0 + c = c /\ n * 0 = 0 /\ c + 0 = c /\ 0 \in {0, 1}
        BY <1>1, <1>4
      <3>4. c % n = c /\ c \div n = 0
        BY <3>2, <3>3
      <3>5. n * (c \div n) = 0 /\ c + 0 = c
        BY <3>1, <3>3, <3>4, Zenon
      <3> QED BY <3>1, <3>4, <3>5, <1>1, Zenon
    <2>2. CASE c >= n
      <3>1. c = n * 1 + (c - n) /\ c - n \in 0 .. n - 1
        BY <2>2, <1>1, <1>4
      <3>2. (n * 1 + (c - n)) % n = c - n /\ (n * 1 + (c - n)) \div n = 1
        BY <3>1, <1>1, Division
      <3> QED BY <3>1, <3>2, <1>1
    <2> QED BY <2>1, <2>2, <1>1
  <1>5. ASSUME NEW c \in 0 .. 2 * n - 1
        PROVE  /\ g.chains[c] \in Seq(S) /\ IsInjective(g.chains[c])
               /\ Range(g.chains[c]) = Range(t.chains[c % n]) \ OnBit(t, 1 - c \div n)
    <2>1. t.chains[c % n] \in Seq(S) /\ IsInjective(t.chains[c % n])
      BY <1>4 DEF Good
    <2>2. /\ part(c) \in Seq(S) /\ IsInjective(part(c))
          /\ Range(part(c)) = Range(t.chains[c % n]) \ OnBit(t, 1 - c \div n)
      <3> DEFINE s == t.chains[c % n]
                 qs == OnBit(t, 1 - c \div n)
      <3>1. s \in Seq(S) /\ IsInjective(s)
        BY <2>1
      <3> HIDE DEF s, qs
      <3>2. /\ Without(s, qs) \in Seq(S) /\ IsInjective(Without(s, qs))
            /\ Range(Without(s, qs)) = Range(s) \ qs
        BY <3>1, WithoutFacts
      <3> QED BY <3>2 DEF s, qs
    <2>3. g.chains[c] = Reverse(part(c))
      BY <1>2
    <2> HIDE DEF g, part
    <2> QED BY <2>2, <2>3, ReverseFacts
  <1> DEFINE bit(x) == (HKey[x] \div n) % 2
  <1>6. ASSUME NEW x \in S
        PROVE  /\ HKey[x] % n \in Chains(t) /\ bit(x) \in {0, 1}
               /\ ChainOf(g, x) = (HKey[x] % n) + n * bit(x)
               /\ ChainOf(g, x) \in 0 .. 2 * n - 1
               /\ ChainOf(g, x) % n = HKey[x] % n /\ ChainOf(g, x) \div n = bit(x)
    <2>1. HKey[x] \in Nat
      BY DEF Keyed
    <2>2. /\ HKey[x] % n \in 0 .. n - 1 /\ bit(x) \in {0, 1}
          /\ HKey[x] % (2 * n) = (HKey[x] % n) + n * bit(x)
      BY <2>1, <1>1, ExposedBit
    <2>3. ChainOf(g, x) = n * bit(x) + (HKey[x] % n)
      BY <2>2, <1>1, <1>2 DEF ChainOf
    <2>4. ChainOf(g, x) % n = HKey[x] % n /\ ChainOf(g, x) \div n = bit(x)
      <3>1. \A q \in Nat, r \in 0 .. n - 1 : (n * q + r) % n = r /\ (n * q + r) \div n = q
        BY <1>1, Division
      <3>2. bit(x) \in Nat
        BY <2>2
      <3> HIDE DEF g, bit
      <3> QED BY <2>2, <2>3, <3>1, <3>2
    <2>5. ChainOf(g, x) \in 0 .. 2 * n - 1
      BY <2>2, <2>3, <1>1
    <2> QED BY <2>2, <2>3, <2>4, <2>5, <1>1
  <1>7. ASSUME NEW c \in 0 .. 2 * n - 1, NEW x \in Range(g.chains[c])
        PROVE  x \in Nodes(t) /\ ChainOf(g, x) = c
    <2>1. x \in Range(t.chains[c % n]) /\ x \notin OnBit(t, 1 - c \div n)
      BY <1>5
    <2>2. x \in Nodes(t) /\ ChainOf(t, x) = c % n /\ x \in S
      BY <2>1, <1>4, GoodFacts DEF Nodes, Good
    <2>3. HKey[x] % n = c % n /\ bit(x) = c \div n
      BY <2>1, <2>2, <1>4, <1>6 DEF OnBit, ChainOf
    <2> QED BY <2>2, <2>3, <1>4, <1>6
  <1>8. ASSUME NEW x \in Nodes(t)
        PROVE  ChainOf(g, x) \in Chains(g) /\ x \in Range(g.chains[ChainOf(g, x)])
    <2>1. x \in S /\ x \in Range(t.chains[ChainOf(t, x)])
      BY GoodFacts
    <2>2. x \in Range(t.chains[ChainOf(g, x) % n])
      BY <2>1, <1>6 DEF ChainOf
    <2>3. x \notin OnBit(t, 1 - ChainOf(g, x) \div n)
      BY <2>1, <1>6 DEF OnBit
    <2> QED BY <2>1, <2>2, <2>3, <1>3, <1>5, <1>6
  <1>9. Nodes(g) = Nodes(t)
    <2>1. ASSUME NEW x \in Nodes(g) PROVE x \in Nodes(t)
      <3>1. PICK c \in Chains(g) : x \in Range(g.chains[c])
        BY DEF Nodes
      <3> QED BY <3>1, <1>3, <1>7
    <2>2. \A x \in Nodes(t) : x \in Nodes(g)
      BY <1>8 DEF Nodes
    <2> QED BY <2>1, <2>2
  <1>10. g.chains \in [Chains(g) -> Seq(S)]
    BY <1>2, <1>3, <1>5
  <1>11. /\ g.nchains \in Sizes /\ g.highmark = 2 * g.nchains
         /\ g.lowmark \in Nat /\ 2 * g.lowmark <= g.nchains
    <2>1. /\ n \in Sizes /\ t.highmark = 2 * n
          /\ t.lowmark \in Nat /\ 2 * t.lowmark <= n
      BY DEF Good
    <2>2. 2 * n \in Sizes
      BY <2>1, SizesFacts
    <2>3. PICK low \in Nat : low = t.lowmark
      BY <2>1
    <2>4. 2 * low \in Nat /\ 2 * (2 * low) <= 2 * n
      BY <2>1, <2>3, <1>1
    <2> HIDE DEF n, g
    <2> QED BY <2>1, <2>2, <2>3, <2>4, <1>2, Zenon
  <1>12. IsFiniteSet(Nodes(g)) /\ g.nodecount = Cardinality(Nodes(g))
    BY <1>2, <1>9 DEF Good
  <1>13. g \in Table(S)
    <2>1. g.chains \in UNION {[0 .. m - 1 -> Seq(S)] : m \in Nat}
      <3>1. g.chains \in [0 .. 2 * n - 1 -> Seq(S)] /\ 2 * n \in Nat
        BY <1>3, <1>10, <1>1
      <3> QED BY <3>1
    <2>2. /\ g.nchains \in Nat /\ g.nodecount \in Nat
          /\ g.highmark \in Nat /\ g.lowmark \in Nat
      BY <1>1, <1>2, <1>11, GoodFacts
    <2> QED BY <2>1, <2>2 DEF Grow, Table
  <1> HIDE DEF g
  <1> QED BY <1>2, <1>3, <1>5, <1>7, <1>9, <1>10, <1>11, <1>12, <1>13 DEF Good, g

\* shrink_table: the same, when the table has been doubled before.
LEMMA ShrinkFacts ==
  ASSUME NEW S, Keyed(S), NEW t, Good(t, S), t.nchains # InitSize
  PROVE  Good(Shrink(t), S) /\ Nodes(Shrink(t)) = Nodes(t)
PROOF
  <1> DEFINE h == Shrink(t)
  <1>1. PICK n \in Sizes : t.nchains = 2 * n
    BY SizesFacts DEF Good
  <1>2. n \in Nat \ {0} /\ t.nchains \div 2 = n /\ Chains(t) = 0 .. 2 * n - 1
    BY <1>1, SizesFacts DEF Chains
  <1>3. /\ h.nchains = n /\ h.nodecount = t.nodecount
        /\ h.highmark = t.highmark \div 2 /\ h.lowmark = t.lowmark \div 2
        /\ h.chains = [c \in 0 .. n - 1 |-> t.chains[c] \o t.chains[c + n]]
    BY <1>2 DEF Shrink
  <1>4. Chains(h) = 0 .. n - 1
    BY <1>3 DEF Chains
  <1>5. ASSUME NEW c \in 0 .. n - 1
        PROVE  /\ h.chains[c] \in Seq(S) /\ IsInjective(h.chains[c])
               /\ Range(h.chains[c]) = Range(t.chains[c]) \cup Range(t.chains[c + n])
               /\ c \in Chains(t) /\ c + n \in Chains(t)
    <2>1. c \in Chains(t) /\ c + n \in Chains(t) /\ c # c + n
      BY <1>2
    <2>2. Range(t.chains[c]) \cap Range(t.chains[c + n]) = {}
      BY <2>1, GoodFacts
    <2>3. /\ t.chains[c] \in Seq(S) /\ IsInjective(t.chains[c])
          /\ t.chains[c + n] \in Seq(S) /\ IsInjective(t.chains[c + n])
      BY <2>1 DEF Good
    <2>4. h.chains[c] = t.chains[c] \o t.chains[c + n]
      BY <1>3
    <2> HIDE DEF h
    <2> QED BY <2>1, <2>2, <2>3, <2>4, ConcatFacts
  <1>6. ASSUME NEW x \in S
        PROVE  /\ ChainOf(h, x) \in 0 .. n - 1
               /\ ChainOf(t, x) = ChainOf(h, x) \/ ChainOf(t, x) = ChainOf(h, x) + n
    <2>1. HKey[x] \in Nat
      BY DEF Keyed
    <2>2. /\ HKey[x] % n \in 0 .. n - 1 /\ (HKey[x] \div n) % 2 \in {0, 1}
          /\ HKey[x] % (2 * n) = (HKey[x] % n) + n * ((HKey[x] \div n) % 2)
      BY <2>1, <1>2, ExposedBit
    <2>3. ChainOf(h, x) = HKey[x] % n /\ ChainOf(t, x) = HKey[x] % (2 * n)
      BY <1>1, <1>3 DEF ChainOf
    <2> QED BY <2>2, <2>3, <1>2
  <1>7. ASSUME NEW c \in 0 .. n - 1, NEW x \in Range(h.chains[c])
        PROVE  x \in Nodes(t) /\ ChainOf(h, x) = c
    <2>1. PICK d \in {c, c + n} : x \in Range(t.chains[d])
      BY <1>5
    <2>2. d \in Chains(t)
      BY <1>5
    <2>3. x \in Nodes(t) /\ ChainOf(t, x) = d /\ x \in S
      <3>1. x \in Nodes(t)
        BY <2>1, <2>2 DEF Nodes
      <3>2. ChainOf(t, x) = d
        BY <2>1, <2>2 DEF Good
      <3> QED BY <3>1, <3>2, GoodFacts
    <2> QED BY <2>1, <2>3, <1>2, <1>6
  <1>8. ASSUME NEW x \in Nodes(t)
        PROVE  ChainOf(h, x) \in Chains(h) /\ x \in Range(h.chains[ChainOf(h, x)])
    <2>1. x \in S /\ x \in Range(t.chains[ChainOf(t, x)])
      BY GoodFacts
    <2> QED BY <2>1, <1>4, <1>5, <1>6
  <1>9. Nodes(h) = Nodes(t)
    BY <1>4, <1>7, <1>8 DEF Nodes
  <1>10. h.chains \in [Chains(h) -> Seq(S)]
    BY <1>3, <1>4, <1>5
  <1>11. /\ h.nchains \in Sizes /\ h.highmark = 2 * h.nchains
         /\ h.lowmark \in Nat /\ 2 * h.lowmark <= h.nchains
    <2>1. t.highmark = 2 * (2 * n) /\ t.lowmark \in Nat /\ 2 * t.lowmark <= 2 * n
      BY <1>1 DEF Good
    <2>2. h.highmark = 2 * n
      BY <2>1, <1>2, <1>3
    <2>3. h.lowmark \in Nat /\ 2 * h.lowmark <= n
      BY <2>1, <1>2, <1>3
    <2> QED BY <2>2, <2>3, <1>3
  <1>12. IsFiniteSet(Nodes(h)) /\ h.nodecount = Cardinality(Nodes(h))
    BY <1>3, <1>9 DEF Good
  <1>13. h \in Table(S)
    <2>1. h.chains \in UNION {[0 .. m - 1 -> Seq(S)] : m \in Nat}
      <3>1. h.chains \in [0 .. n - 1 -> Seq(S)] /\ n \in Nat
        BY <1>4, <1>10, <1>2
      <3> QED BY <3>1
    <2>2. /\ h.nchains \in Nat /\ h.nodecount \in Nat
          /\ h.highmark \in Nat /\ h.lowmark \in Nat
      BY <1>2, <1>3, <1>11, GoodFacts
    <2> QED BY <2>1, <2>2 DEF Shrink, Table
  <1> HIDE DEF h
  <1> QED BY <1>3, <1>4, <1>5, <1>7, <1>9, <1>10, <1>11, <1>12, <1>13 DEF Good, h

\* r is t with another chain k, after which its nodes are `nodes'.
Rechained(S, t, k, chain, nodes, r) ==
  /\ k \in Chains(t)
  /\ chain \in Seq(S) /\ IsInjective(chain)
  /\ \A y \in Range(chain) : ChainOf(t, y) = k
  /\ nodes = (Nodes(t) \ Range(t.chains[k])) \cup Range(chain)
  /\ IsFiniteSet(nodes)
  /\ r = WithChain(t, k, chain, Cardinality(nodes))

LEMMA OneChainChanged ==
  ASSUME NEW S, Keyed(S), NEW t, Good(t, S), NEW k, NEW chain, NEW nodes, NEW r,
         Rechained(S, t, k, chain, nodes, r)
  PROVE  /\ Good(r, S) /\ Nodes(r) = nodes
         /\ Chains(r) = Chains(t)
         /\ \A y \in S : ChainOf(r, y) = ChainOf(t, y)
         /\ r.chains[k] = chain
         /\ \A c \in Chains(t) \ {k} : r.chains[c] = t.chains[c]
PROOF
  <1> DEFINE count == Cardinality(nodes)
  <1>1. k \in Chains(t)
    BY DEF Rechained
  <1>2. /\ r.nchains = t.nchains /\ r.nodecount = count
        /\ r.highmark = t.highmark /\ r.lowmark = t.lowmark
        /\ r.chains = [t.chains EXCEPT ![k] = chain]
    <2>1. t \in Table(S)
      BY DEF Good
    <2>2. r = WithChain(t, k, chain, count)
      BY DEF Rechained
    <2> QED BY <2>1, <2>2 DEF Table, WithChain
  <1>3. /\ chain \in Seq(S) /\ IsInjective(chain)
        /\ \A y \in Range(chain) : ChainOf(t, y) = k
        /\ nodes = (Nodes(t) \ Range(t.chains[k])) \cup Range(chain)
        /\ IsFiniteSet(nodes) /\ count = Cardinality(nodes)
    BY DEF Rechained
  <1>4. t.chains \in [Chains(t) -> Seq(S)]
    BY DEF Good
  <1>5. Chains(r) = Chains(t) /\ \A y : ChainOf(r, y) = ChainOf(t, y)
    BY <1>2 DEF Chains, ChainOf
  <1>6. r.chains[k] = chain /\ \A c \in Chains(t) \ {k} : r.chains[c] = t.chains[c]
    BY <1>1, <1>2, <1>4
  <1>7. r.chains \in [Chains(r) -> Seq(S)]
    BY <1>2, <1>3, <1>4, <1>5
  <1>8. \A c \in Chains(r) : /\ IsInjective(r.chains[c])
                             /\ \A y \in Range(r.chains[c]) : ChainOf(r, y) = c
    BY <1>3, <1>5, <1>6 DEF Good
  <1>9. Nodes(r) = nodes
    <2>1. ASSUME NEW y \in nodes PROVE y \in Nodes(r)
      <3>1. CASE y \in Range(chain)
        BY <3>1, <1>1, <1>5, <1>6 DEF Nodes
      <3>2. CASE y \in Nodes(t) \ Range(t.chains[k])
        <4>1. PICK c \in Chains(t) : y \in Range(t.chains[c])
          BY <3>2 DEF Nodes
        <4>2. c # k
          BY <3>2, <4>1
        <4> QED BY <4>1, <4>2, <1>5, <1>6 DEF Nodes
      <3> QED BY <3>1, <3>2, <1>3
    <2>2. ASSUME NEW y \in Nodes(r) PROVE y \in nodes
      <3>1. PICK c \in Chains(t) : y \in Range(r.chains[c])
        BY <1>5 DEF Nodes
      <3>2. CASE c = k
        BY <3>1, <3>2, <1>3, <1>6
      <3>3. CASE c # k
        <4>1. y \in Range(t.chains[c]) /\ y \in Nodes(t)
          BY <3>1, <3>3, <1>6 DEF Nodes
        <4>2. y \notin Range(t.chains[k])
          BY <4>1, <3>3, <1>1 DEF Good
        <4> QED BY <4>1, <4>2, <1>3
      <3> QED BY <3>2, <3>3
    <2> QED BY <2>1, <2>2
  <1>10. /\ r.nchains \in Sizes /\ r.highmark = 2 * r.nchains
         /\ r.lowmark \in Nat /\ 2 * r.lowmark <= r.nchains
    BY <1>2 DEF Good
  <1>11. Good(r, S)
    <2>1. IsFiniteSet(Nodes(r)) /\ r.nodecount = Cardinality(Nodes(r))
      BY <1>2, <1>3, <1>9
    <2>2. r \in Table(S)
      <3>1. r.chains \in UNION {[0 .. m - 1 -> Seq(S)] : m \in Nat} /\ count \in Nat
        <4>1. t.nchains \in Nat
          BY GoodFacts
        <4>2. r.chains \in [0 .. t.nchains - 1 -> Seq(S)]
          BY <1>5, <1>7 DEF Chains
        <4>3. count \in Nat
          BY <1>3, FS_CardinalityType
        <4> QED BY <4>1, <4>2, <4>3
      <3>2. r.chains = [t.chains EXCEPT ![k] = chain] /\ t \in Table(S)
        BY <1>2 DEF Good
      <3>3. r = WithChain(t, k, chain, count)
        BY DEF Rechained
      <3> HIDE DEF count
      <3> QED BY <3>1, <3>2, <3>3 DEF Table, WithChain
    <2> QED BY <1>7, <1>8, <1>10, <2>1, <2>2, Zenon DEF Good
  <1> QED BY <1>2, <1>5, <1>6, <1>9, <1>11

LEMMA HashInsertFacts ==
  ASSUME NEW S, Keyed(S), NEW t, Good(t, S), NEW x \in S, x \notin Nodes(t)
  PROVE  Good(HashInsert(t, x), S) /\ Nodes(HashInsert(t, x)) = Nodes(t) \cup {x}
PROOF
  <1> DEFINE g == IF t.nodecount >= t.highmark THEN Grow(t) ELSE t
             k == ChainOf(g, x)
             chain == <<x>> \o g.chains[k]
             nodes == Nodes(t) \cup {x}
  <1>1. Good(g, S) /\ Nodes(g) = Nodes(t)
    BY GrowFacts
  <1>2. HashInsert(t, x) = WithChain(g, k, chain, g.nodecount + 1)
    BY DEF HashInsert
  <1> HIDE DEF g
  <1>3. k \in Chains(g) /\ x \notin Range(g.chains[k])
    BY <1>1, GoodFacts DEF Nodes
  <1>4. /\ g.chains[k] \in Seq(S) /\ IsInjective(g.chains[k])
        /\ \A y \in Range(g.chains[k]) : ChainOf(g, y) = k
    BY <1>1, <1>3 DEF Good
  <1>5. /\ <<x>> \in Seq(S) /\ IsInjective(<<x>>) /\ Range(<<x>>) = {x}
    BY DEF IsInjective, Range
  <1>6. /\ chain \in Seq(S) /\ IsInjective(chain)
        /\ Range(chain) = {x} \cup Range(g.chains[k])
    <2> HIDE DEF k
    <2> DEFINE a == <<x>>
               b == g.chains[k]
    <2>1. /\ a \in Seq(S) /\ b \in Seq(S) /\ IsInjective(a) /\ IsInjective(b)
          /\ Range(a) \cap Range(b) = {} /\ Range(a) = {x}
      BY <1>3, <1>4, <1>5
    <2> HIDE DEF a, b
    <2>2. /\ a \o b \in Seq(S) /\ IsInjective(a \o b)
          /\ Range(a \o b) = {x} \cup Range(b)
      BY <2>1, ConcatFacts
    <2> QED BY <2>2 DEF a, b
  <1>7. IsFiniteSet(nodes) /\ g.nodecount + 1 = Cardinality(nodes)
    <2>1. IsFiniteSet(Nodes(t)) /\ g.nodecount = Cardinality(Nodes(t))
      BY <1>1 DEF Good
    <2> QED BY <2>1, FS_AddElement
  <1>8. /\ \A y \in Range(chain) : ChainOf(g, y) = k
        /\ nodes = (Nodes(g) \ Range(g.chains[k])) \cup Range(chain)
    <2>1. Range(g.chains[k]) \subseteq Nodes(g)
      BY <1>3 DEF Nodes
    <2> HIDE DEF chain
    <2> QED BY <1>1, <1>4, <1>6, <2>1
  <1> DEFINE r == WithChain(g, k, chain, g.nodecount + 1)
  <1>9. Good(r, S) /\ Nodes(r) = nodes
    <2>1. Rechained(S, g, k, chain, nodes, r)
      <3>1. r = WithChain(g, k, chain, Cardinality(nodes)) /\ IsFiniteSet(nodes)
        BY <1>7
      <3> HIDE DEF chain, nodes, k, r
      <3> QED BY <1>3, <1>6, <1>8, <3>1 DEF Rechained
    <2> HIDE DEF chain, nodes, k, r
    <2> QED BY <1>1, <2>1, OneChainChanged
  <1> QED BY <1>2, <1>9

\* r is t without x: the chain of x has lost it, the others are as they were.
Unlinked(S, t, x, r) ==
  /\ Good(r, S) /\ Nodes(r) = Nodes(t) \ {x}
  /\ Chains(r) = Chains(t) /\ \A y \in S : ChainOf(r, y) = ChainOf(t, y)
  /\ r.chains[ChainOf(t, x)] = Without(t.chains[ChainOf(t, x)], {x})
  /\ \A c \in Chains(t) \ {ChainOf(t, x)} : r.chains[c] = t.chains[c]

LEMMA HashScanDeleteFacts ==
  ASSUME NEW S, Keyed(S), NEW t, Good(t, S), NEW x \in Nodes(t)
  PROVE  Unlinked(S, t, x, HashScanDelete(t, x))
PROOF
  <1> DEFINE k == ChainOf(t, x)
             s == t.chains[k]
             chain == Without(s, {x})
             nodes == Nodes(t) \ {x}
             r == WithChain(t, k, chain, t.nodecount - 1)
  <1>1. x \in S /\ k \in Chains(t) /\ x \in Range(s)
    BY GoodFacts
  <1>2. HashScanDelete(t, x) = r
    BY DEF HashScanDelete
  <1>3. s \in Seq(S) /\ IsInjective(s) /\ \A y \in Range(s) : ChainOf(t, y) = k
    BY <1>1 DEF Good
  <1>4. /\ chain \in Seq(S) /\ IsInjective(chain)
        /\ Range(chain) = Range(s) \ {x}
    <2> HIDE DEF s
    <2> QED BY <1>3, WithoutFacts
  <1>5. IsFiniteSet(nodes) /\ t.nodecount - 1 = Cardinality(nodes)
    BY FS_RemoveElement DEF Good
  <1>6. nodes = (Nodes(t) \ Range(s)) \cup Range(chain)
    <2>1. Range(s) \subseteq Nodes(t)
      BY <1>1 DEF Nodes
    <2> HIDE DEF s, chain
    <2> QED BY <1>1, <1>4, <2>1
  <1>7. \A y \in Range(chain) : ChainOf(t, y) = k
    <2> HIDE DEF s, chain, k
    <2> QED BY <1>3, <1>4
  <1>8. /\ Good(r, S) /\ Nodes(r) = nodes
        /\ Chains(r) = Chains(t) /\ \A y \in S : ChainOf(r, y) = ChainOf(t, y)
        /\ r.chains[k] = chain
        /\ \A c \in Chains(t) \ {k} : r.chains[c] = t.chains[c]
    <2>1. Rechained(S, t, k, chain, nodes, r)
      <3>1. r = WithChain(t, k, chain, Cardinality(nodes)) /\ IsFiniteSet(nodes)
        BY <1>5
      <3>2. nodes = (Nodes(t) \ Range(t.chains[k])) \cup Range(chain)
        BY <1>6
      <3> HIDE DEF s, chain, nodes, k, r
      <3> QED BY <1>1, <1>4, <1>7, <3>1, <3>2 DEF Rechained
    <2> HIDE DEF s, chain, nodes, k, r
    <2> QED BY <2>1, OneChainChanged
  <1> QED BY <1>2, <1>8 DEF Unlinked

LEMMA HashDeleteFacts ==
  ASSUME NEW S, Keyed(S), NEW t, Good(t, S), NEW x \in Nodes(t)
  PROVE  Good(HashDelete(t, x), S) /\ Nodes(HashDelete(t, x)) = Nodes(t) \ {x}
PROOF
  <1> DEFINE h == IF Shrinks(t) THEN Shrink(t) ELSE t
  <1>1. Good(h, S) /\ Nodes(h) = Nodes(t)
    <2>1. ASSUME Shrinks(t) PROVE t.nchains # InitSize
      BY <2>1, GoodFacts, HashAssumption DEF Shrinks, Good
    <2> QED BY <2>1, ShrinkFacts
  <1> HIDE DEF h
  <1>2. Good(HashScanDelete(h, x), S) /\ Nodes(HashScanDelete(h, x)) = Nodes(h) \ {x}
    BY <1>1, HashScanDeleteFacts DEF Unlinked
  <1> QED BY <1>1, <1>2 DEF HashDelete, h
-----------------------------------------------------------------------------
(* Scans.  The node a scan has fetched is in the table, and in its chain, as *)
(* long as nobody deletes it and the table is not halved.                   *)

Scans(S) == [chain : Nat, next : S \cup {NULL}]

ScanAt(t, scan) ==
  scan.next # NULL => scan.next \in Nodes(t) /\ ChainOf(t, scan.next) = scan.chain

\* A node is ahead when its place is.
LEMMA AheadAt ==
  ASSUME NEW S, Keyed(S), NEW t, Good(t, S), NEW scan, scan.next # NULL,
         NEW c \in Chains(t), NEW i \in DOMAIN t.chains[c]
  PROVE  t.chains[c][i] \in Ahead(t, scan) <=>
           \/ c > scan.chain
           \/ c = scan.chain /\ \E j \in 1 .. i : t.chains[c][j] = scan.next
PROOF
  <1> DEFINE at(d, k) == \/ d > scan.chain
                         \/ d = scan.chain /\ \E j \in 1 .. k : t.chains[d][j] = scan.next
  <1>1. t.chains[c][i] \in Nodes(t)
    BY GoodFacts
  <1>2. ASSUME NEW d \in Chains(t), NEW k \in DOMAIN t.chains[d],
               t.chains[d][k] = t.chains[c][i]
        PROVE  d = c /\ k = i
    <2>1. d = c
      BY <1>2, GoodFacts
    <2>2. IsInjective(t.chains[c])
      BY DEF Good
    <2> QED BY <1>2, <2>1, <2>2 DEF IsInjective
  <1>3. t.chains[c][i] \in Ahead(t, scan) <=>
          \E d \in Chains(t) : \E k \in DOMAIN t.chains[d] :
             t.chains[d][k] = t.chains[c][i] /\ at(d, k)
    BY <1>1 DEF Ahead
  <1> HIDE DEF at
  <1>4. t.chains[c][i] \in Ahead(t, scan) <=> at(c, i)
    BY <1>2, <1>3
  <1> QED BY <1>4 DEF at

\* hash_scan_begin, and the part of hash_scan_next it shares.
LEMMA FirstFromFacts ==
  ASSUME NEW S, Keyed(S), NEW t, Good(t, S), NEW c \in Nat, NEW at \in Nat
  PROVE  /\ FirstFrom(t, c, at) \in Scans(S) /\ ScanAt(t, FirstFrom(t, c, at))
         /\ Ahead(t, FirstFrom(t, c, at)) = {x \in Nodes(t) : ChainOf(t, x) >= c}
PROOF
  <1> DEFINE full == {d \in Chains(t) : d >= c /\ t.chains[d] # <<>>}
             r == FirstFrom(t, c, at)
  <1>1. ASSUME NEW x \in Nodes(t), ChainOf(t, x) >= c PROVE ChainOf(t, x) \in full
    <2>1. x \in S /\ ChainOf(t, x) \in Chains(t) /\ x \in Range(t.chains[ChainOf(t, x)])
      BY GoodFacts
    <2>2. t.chains[ChainOf(t, x)] # <<>>
      BY <2>1 DEF Range
    <2> QED BY <1>1, <2>1, <2>2
  <1>2. CASE full = {}
    <2>1. r = [chain |-> at, next |-> NULL]
      BY <1>2 DEF FirstFrom
    <2>2. Ahead(t, r) = {}
      BY <2>1 DEF Ahead
    <2>3. {x \in Nodes(t) : ChainOf(t, x) >= c} = {}
      BY <1>1, <1>2
    <2> QED BY <2>1, <2>2, <2>3 DEF Scans, ScanAt
  <1>3. CASE full # {}
    <2> DEFINE d == CHOOSE d \in full : \A e \in full : d <= e
    <2>1. full \subseteq Nat
      BY GoodFacts
    <2>2. \E e \in full : \A f \in full : e <= f
      <3> HIDE DEF full
      <3> QED BY <1>3, <2>1, LeastNumber
    <2>3. d \in full /\ \A e \in full : d <= e
      BY <2>2
    <2>4. r = [chain |-> d, next |-> Head(t.chains[d])]
      BY <1>3 DEF FirstFrom
    <2> HIDE DEF d
    <2>5. /\ d \in Chains(t) /\ d \in Nat /\ d >= c /\ t.chains[d] # <<>>
          /\ t.chains[d] \in Seq(S)
      BY <2>3, GoodFacts
    <2>6. 1 \in DOMAIN t.chains[d] /\ Head(t.chains[d]) = t.chains[d][1]
      BY <2>5, LenProperties, EmptySeq, HeadTailProperties
    <2>7. t.chains[d][1] \in Nodes(t) /\ ChainOf(t, t.chains[d][1]) = d /\ t.chains[d][1] \in S
      BY <2>5, <2>6, GoodFacts
    <2>8. r.chain = d /\ r.next = t.chains[d][1] /\ r.next # NULL /\ r \in Scans(S)
      BY <2>4, <2>5, <2>6, <2>7 DEF Scans, Keyed
    <2> HIDE DEF full, r
    <2>9. ASSUME NEW x \in Nodes(t) PROVE x \in Ahead(t, r) <=> ChainOf(t, x) >= c
      <3>1. PICK e \in Chains(t) : x \in Range(t.chains[e])
        BY DEF Nodes
      <3>2. PICK i \in DOMAIN t.chains[e] : x = t.chains[e][i]
        BY <3>1 DEF Range
      <3>3. ChainOf(t, x) = e /\ e \in Nat /\ i \in Nat /\ i >= 1
        BY <3>2, GoodFacts
      <3>4. x \in Ahead(t, r) <=>
              e > d \/ (e = d /\ \E j \in 1 .. i : t.chains[e][j] = t.chains[d][1])
        BY <3>2, <2>8, AheadAt
      <3>5. x \in Ahead(t, r) <=> e >= d
        BY <2>5, <3>3, <3>4
      <3>6. e >= c => e >= d
        BY <1>1, <2>3, <3>3
      <3> QED BY <2>5, <3>3, <3>5, <3>6
    <2>10. Ahead(t, r) \subseteq Nodes(t)
      BY DEF Ahead
    <2> QED BY <2>7, <2>8, <2>9, <2>10 DEF ScanAt, r
  <1> QED BY <1>2, <1>3
\* node->next: the node one place further in the same chain.
LEMMA NodeAfterFacts ==
  ASSUME NEW S, Keyed(S), NEW t, Good(t, S), NEW x, HasNext(t, x)
  PROVE  \E c \in Chains(t) : \E i \in 1 .. Len(t.chains[c]) - 1 :
            /\ t.chains[c][i] = x /\ t.chains[c][i + 1] = NodeAfter(t, x)
            /\ i \in DOMAIN t.chains[c] /\ i + 1 \in DOMAIN t.chains[c]
PROOF
  <1>1. PICK c \in Chains(t) : \E i \in 1 .. Len(t.chains[c]) - 1 : t.chains[c][i] = x
    BY DEF HasNext
  <1>2. PICK i \in 1 .. Len(t.chains[c]) - 1 : t.chains[c][i] = x
    BY <1>1
  <1>3. i \in DOMAIN t.chains[c] /\ i + 1 \in DOMAIN t.chains[c]
    BY GoodFacts
  <1> DEFINE P(y) == \E d \in Chains(t) : \E j \in 1 .. Len(t.chains[d]) - 1 :
                        t.chains[d][j] = x /\ t.chains[d][j + 1] = y
  <1>4. \E y \in Nodes(t) : P(y)
    <2>1. t.chains[c][i + 1] \in Nodes(t)
      BY <1>3, GoodFacts
    <2> QED BY <1>2, <2>1
  <1>5. P(NodeAfter(t, x))
    <2>1. NodeAfter(t, x) = CHOOSE y \in Nodes(t) : P(y)
      BY DEF NodeAfter
    <2> HIDE DEF P
    <2> QED BY <1>4, <2>1
  <1>6. PICK d \in Chains(t) : \E j \in 1 .. Len(t.chains[d]) - 1 :
                        t.chains[d][j] = x /\ t.chains[d][j + 1] = NodeAfter(t, x)
    BY <1>5
  <1>7. PICK j \in 1 .. Len(t.chains[d]) - 1 :
                        t.chains[d][j] = x /\ t.chains[d][j + 1] = NodeAfter(t, x)
    BY <1>6
  <1>8. j \in DOMAIN t.chains[d] /\ j + 1 \in DOMAIN t.chains[d]
    BY GoodFacts
  <1> QED BY <1>7, <1>8

\* hash_scan_next: what was ahead is still ahead, but for the node returned.
LEMMA HashScanNextFacts ==
  ASSUME NEW S, Keyed(S), NEW t, Good(t, S), NEW scan \in Scans(S)
  PROVE  LET r == HashScanNext(t, scan)
         IN  /\ r \in Scans(S)
             /\ scan.next # NULL /\ ScanAt(t, scan) =>
                  /\ ScanAt(t, r) /\ r.next # scan.next
                  /\ Ahead(t, r) = Ahead(t, scan) \ {scan.next}
PROOF
  <1> DEFINE r == HashScanNext(t, scan)
             x == scan.next
  <1> SUFFICES /\ r \in Scans(S)
               /\ x # NULL /\ ScanAt(t, scan) =>
                    /\ ScanAt(t, r) /\ r.next # x
                    /\ Ahead(t, r) = Ahead(t, scan) \ {x}
    OBVIOUS
  <1>0. scan.chain \in Nat /\ x \in S \cup {NULL}
    BY DEF Scans
  <1>1. CASE x = NULL
    BY <1>1 DEF HashScanNext
  <1>2. CASE x # NULL /\ HasNext(t, x)
    <2>1. PICK c \in Chains(t) : \E i \in 1 .. Len(t.chains[c]) - 1 :
            /\ t.chains[c][i] = x /\ t.chains[c][i + 1] = NodeAfter(t, x)
            /\ i \in DOMAIN t.chains[c] /\ i + 1 \in DOMAIN t.chains[c]
      BY <1>2, NodeAfterFacts
    <2>2. PICK i \in 1 .. Len(t.chains[c]) - 1 :
            /\ t.chains[c][i] = x /\ t.chains[c][i + 1] = NodeAfter(t, x)
            /\ i \in DOMAIN t.chains[c] /\ i + 1 \in DOMAIN t.chains[c]
      BY <2>1
    <2> DEFINE y == t.chains[c][i + 1]
    <2>3. r = [scan EXCEPT !.next = y]
      BY <1>2, <2>2 DEF HashScanNext
    <2>4. /\ y \in Nodes(t) /\ y \in S /\ ChainOf(t, y) = c /\ ChainOf(t, x) = c
          /\ x \in Nodes(t)
      BY <2>2, GoodFacts
    <2>5. y # NULL
      BY <2>4 DEF Keyed
    <2>6. r \in Scans(S) /\ r.chain = scan.chain /\ r.next = y
      BY <2>3, <2>4 DEF Scans
    <2>7. i \in Nat /\ IsInjective(t.chains[c]) /\ y # x
      <3>1. IsInjective(t.chains[c])
        BY DEF Good
      <3>2. i \in Nat /\ i # i + 1
        OBVIOUS
      <3> QED BY <2>2, <3>1, <3>2 DEF IsInjective
    <2>8. ASSUME ScanAt(t, scan)
          PROVE  ScanAt(t, r) /\ Ahead(t, r) = Ahead(t, scan) \ {x}
      <3>1. scan.chain = c
        BY <2>4, <2>8, <1>2 DEF ScanAt
      <3>2. ScanAt(t, r)
        BY <2>4, <2>6, <3>1 DEF ScanAt
      <3> HIDE DEF r, x, y
      <3>3. ASSUME NEW z \in Nodes(t)
            PROVE  z \in Ahead(t, r) <=> z \in Ahead(t, scan) /\ z # x
        <4>1. PICK e \in Chains(t) : z \in Range(t.chains[e])
          BY DEF Nodes
        <4>2. PICK k \in DOMAIN t.chains[e] : z = t.chains[e][k]
          BY <4>1 DEF Range
        <4>3. e \in Nat /\ c \in Nat /\ k \in Nat /\ k >= 1 /\ ChainOf(t, z) = e
          BY <4>2, GoodFacts
        <4>4. z \in Ahead(t, r) <=>
                e > c \/ (e = c /\ \E j \in 1 .. k : t.chains[e][j] = y)
          BY <4>2, <2>5, <2>6, <3>1, AheadAt DEF y
        <4>5. z \in Ahead(t, scan) <=>
                e > c \/ (e = c /\ \E j \in 1 .. k : t.chains[e][j] = x)
          BY <4>2, <1>2, <3>1, AheadAt DEF x
        <4>6. CASE e # c
          BY <4>3, <4>4, <4>5, <4>6, <2>4
        <4>7. CASE e = c
          <5>1. DOMAIN t.chains[c] = 1 .. Len(t.chains[c]) /\ Len(t.chains[c]) \in Nat
            BY GoodFacts
          <5>2. \A j \in 1 .. k : j \in DOMAIN t.chains[c]
            BY <4>2, <4>7, <5>1
          <5>3. (\E j \in 1 .. k : t.chains[c][j] = y) <=> k >= i + 1
            BY <2>2, <2>7, <4>3, <5>2 DEF IsInjective, y
          <5>4. (\E j \in 1 .. k : t.chains[c][j] = x) <=> k >= i
            <6>1. i \in DOMAIN t.chains[c] /\ t.chains[c][i] = x /\ i >= 1
              BY <2>2
            <6>2. \A j \in 1 .. k : t.chains[c][j] = x => j = i
              BY <5>2, <6>1, <2>7 DEF IsInjective
            <6>3. k >= i => i \in 1 .. k
              BY <6>1, <2>7, <4>3
            <6> QED BY <6>1, <6>2, <6>3, <2>7, <4>3
          <5>5. z = x <=> k = i
            BY <2>2, <2>7, <4>2, <4>7 DEF IsInjective
          <5> QED BY <4>3, <4>4, <4>5, <4>7, <5>3, <5>4, <5>5, <2>7
        <4> QED BY <4>6, <4>7
      <3>4. Ahead(t, r) \subseteq Nodes(t) /\ Ahead(t, scan) \subseteq Nodes(t)
        BY DEF Ahead
      <3> QED BY <3>2, <3>3, <3>4
    <2> HIDE DEF y
    <2> QED BY <2>6, <2>7, <2>8
  <1>3. CASE x # NULL /\ ~HasNext(t, x)
    <2>1. r = FirstFrom(t, scan.chain + 1, scan.chain)
      BY <1>3 DEF HashScanNext
    <2>2. /\ r \in Scans(S) /\ ScanAt(t, r)
          /\ Ahead(t, r) = {y \in Nodes(t) : ChainOf(t, y) >= scan.chain + 1}
      BY <1>0, <2>1, FirstFromFacts
    <2> HIDE DEF r
    <2>3. ASSUME ScanAt(t, scan)
          PROVE  r.next # x /\ Ahead(t, r) = Ahead(t, scan) \ {x}
      <3>1. x \in Nodes(t) /\ ChainOf(t, x) = scan.chain
        BY <1>3, <2>3 DEF ScanAt
      <3>2. x \notin Ahead(t, r)
        BY <1>0, <2>2, <3>1
      <3>3. r.next # x
        <4> SUFFICES ASSUME r.next = x PROVE FALSE
          OBVIOUS
        <4>1. PICK e \in Chains(t) : x \in Range(t.chains[e])
          BY <3>1 DEF Nodes
        <4>2. PICK k \in DOMAIN t.chains[e] : x = t.chains[e][k]
          BY <4>1 DEF Range
        <4>3. e = scan.chain /\ r.chain = e /\ k \in 1 .. k
          BY <4>2, <3>1, <1>3, <2>2, GoodFacts DEF ScanAt
        <4>4. x \in Ahead(t, r)
          BY <4>2, <4>3, <1>3, AheadAt
        <4> QED BY <4>4, <3>2
      <3> HIDE DEF x
      <3>4. ASSUME NEW z \in Nodes(t)
            PROVE  z \in Ahead(t, scan) <=> ChainOf(t, z) >= scan.chain + 1 \/ z = x
        <4>1. PICK e \in Chains(t) : z \in Range(t.chains[e])
          BY DEF Nodes
        <4>2. PICK k \in DOMAIN t.chains[e] : z = t.chains[e][k]
          BY <4>1 DEF Range
        <4>3. e \in Nat /\ k \in Nat /\ k >= 1 /\ ChainOf(t, z) = e
          BY <4>2, GoodFacts
        <4>4. z \in Ahead(t, scan) <=>
                \/ e > scan.chain
                \/ e = scan.chain /\ \E j \in 1 .. k : t.chains[e][j] = x
          BY <4>2, <1>3, AheadAt DEF x
        <4>5. ASSUME NEW j \in 1 .. k, e = scan.chain, t.chains[e][j] = x PROVE j = k
          <5>1. Len(t.chains[e]) \in Nat /\ DOMAIN t.chains[e] = 1 .. Len(t.chains[e])
            BY GoodFacts
          <5>2. j \notin 1 .. Len(t.chains[e]) - 1
            BY <4>5, <1>3 DEF HasNext
          <5> QED BY <4>2, <4>3, <5>1, <5>2
        <4>6. ASSUME z = x PROVE e = scan.chain /\ k \in 1 .. k
          BY <4>3, <4>6, <3>1
        <4> QED BY <1>0, <4>2, <4>3, <4>4, <4>5, <4>6
      <3>5. Ahead(t, scan) \subseteq Nodes(t)
        BY DEF Ahead
      <3> QED BY <2>2, <3>2, <3>3, <3>4, <3>5
    <2> QED BY <2>2, <2>3
  <1> HIDE DEF r, x
  <1> QED BY <1>1, <1>2, <1>3
\* The elements of d stand in s in the order they have in d.
SameOrder(d, s) ==
  \A k, l \in DOMAIN d : k < l =>
    \E i, j \in DOMAIN s : i < j /\ d[k] = s[i] /\ d[l] = s[j]

LEMMA WithoutKeepsOrder ==
  ASSUME NEW T, NEW s \in Seq(T), IsInjective(s), NEW qs
  PROVE  Range(Without(s, qs)) = Range(s) \ qs /\ SameOrder(Without(s, qs), s)
PROOF
  <1>1. s \in Seq(T) /\ IsInjective(s)
    OBVIOUS
  <1>2. /\ Range(Without(s, qs)) = Range(s) \ qs
        /\ \A k, l \in DOMAIN Without(s, qs) : k < l =>
             \E i, j \in DOMAIN s :
               i < j /\ Without(s, qs)[k] = s[i] /\ Without(s, qs)[l] = s[j]
    BY <1>1, WithoutFacts
  <1> QED BY <1>2 DEF SameOrder

\* After a deletion the nodes that are left stand in the order they had.
LEMMA OrderKept ==
  ASSUME NEW S, Keyed(S), NEW t, Good(t, S), NEW x \in Nodes(t), NEW c \in Chains(t)
  PROVE  /\ Range(HashScanDelete(t, x).chains[c]) = Range(t.chains[c]) \ {x}
         /\ SameOrder(HashScanDelete(t, x).chains[c], t.chains[c])
PROOF
  <1> DEFINE s == t.chains[c]
             r == HashScanDelete(t, x)
  <1>1. s \in Seq(S) /\ IsInjective(s)
    BY GoodFacts DEF Good
  <1>2. Unlinked(S, t, x, r)
    BY HashScanDeleteFacts
  <1>3. CASE c = ChainOf(t, x)
    <2>1. r.chains[c] = Without(s, {x})
      BY <1>2, <1>3 DEF Unlinked
    <2>2. Range(Without(s, {x})) = Range(s) \ {x} /\ SameOrder(Without(s, {x}), s)
      <3> HIDE DEF s
      <3> QED BY <1>1, WithoutKeepsOrder
    <2> QED BY <2>1, <2>2
  <1>4. CASE c # ChainOf(t, x)
    <2>1. r.chains[c] = s
      BY <1>2, <1>4 DEF Unlinked
    <2>2. x \notin Range(s)
      BY <1>4 DEF Good
    <2>3. SameOrder(s, s)
      BY DEF SameOrder
    <2> QED BY <2>1, <2>2, <2>3
  <1> QED BY <1>3, <1>4

\* A node that is deleted behind the back of a scan which has not fetched it.
LEMMA DeletedElsewhere ==
  ASSUME NEW S, Keyed(S), NEW t, Good(t, S), NEW x \in Nodes(t), NEW scan \in Scans(S),
         ScanAt(t, scan), scan.next # x
  PROVE  /\ ScanAt(HashScanDelete(t, x), scan)
         /\ Ahead(HashScanDelete(t, x), scan) = Ahead(t, scan) \ {x}
PROOF
  <1> DEFINE r == HashScanDelete(t, x)
  <1>1. /\ Good(r, S) /\ Nodes(r) = Nodes(t) \ {x} /\ Chains(r) = Chains(t)
        /\ \A y \in S : ChainOf(r, y) = ChainOf(t, y)
    <2>1. Unlinked(S, t, x, r)
      BY HashScanDeleteFacts
    <2> QED BY <2>1 DEF Unlinked
  <1>2. ASSUME NEW c \in Chains(t)
        PROVE  /\ Range(r.chains[c]) = Range(t.chains[c]) \ {x}
               /\ SameOrder(r.chains[c], t.chains[c])
    BY OrderKept
  <1> HIDE DEF r
  <1>3. Nodes(t) \subseteq S
    BY GoodFacts
  <1>4. ScanAt(r, scan)
    BY <1>1, <1>3 DEF ScanAt
  <1>5. ASSUME scan.next # NULL, NEW y \in Nodes(t), y # x
        PROVE  y \in Ahead(r, scan) <=> y \in Ahead(t, scan)
    <2> DEFINE n == scan.next
    <2>1. n \in Nodes(t) /\ n # x /\ ChainOf(t, n) = scan.chain
      BY <1>5 DEF ScanAt
    <2>2. PICK c \in Chains(t) : y \in Range(t.chains[c])
      BY DEF Nodes
    <2>3. PICK i \in DOMAIN t.chains[c] : y = t.chains[c][i]
      BY <2>2 DEF Range
    <2>4. PICK k \in DOMAIN r.chains[c] : y = r.chains[c][k]
      BY <1>2, <1>5, <2>2 DEF Range
    <2>5. /\ i \in Nat /\ i >= 1 /\ k \in Nat /\ k >= 1 /\ c \in Nat
          /\ DOMAIN t.chains[c] = 1 .. Len(t.chains[c]) /\ Len(t.chains[c]) \in Nat
          /\ DOMAIN r.chains[c] = 1 .. Len(r.chains[c]) /\ Len(r.chains[c]) \in Nat
      <3>1. t.chains[c] \in Seq(S) /\ r.chains[c] \in Seq(S) /\ c \in Nat
        BY <2>3, <1>1, GoodFacts DEF Good, Chains
      <3>2. /\ DOMAIN t.chains[c] = 1 .. Len(t.chains[c]) /\ Len(t.chains[c]) \in Nat
            /\ DOMAIN r.chains[c] = 1 .. Len(r.chains[c]) /\ Len(r.chains[c]) \in Nat
        BY <3>1, LenProperties, Zenon
      <3>3. i \in 1 .. Len(t.chains[c]) /\ k \in 1 .. Len(r.chains[c])
        BY <2>3, <2>4, <3>2, Zenon
      <3> QED BY <3>1, <3>2, <3>3, SMTT(60)
    <2>6. y \in Ahead(t, scan) <=>
            \/ c > scan.chain
            \/ c = scan.chain /\ \E j \in 1 .. i : t.chains[c][j] = n
      BY <2>3, <1>5, AheadAt
    <2>7. y \in Ahead(r, scan) <=>
            \/ c > scan.chain
            \/ c = scan.chain /\ \E j \in 1 .. k : r.chains[c][j] = n
      BY <2>4, <1>5, <1>1, AheadAt
    <2>8. CASE c # scan.chain
      BY <2>6, <2>7, <2>8
    <2>9. CASE c = scan.chain
      <3>1. n \in Range(t.chains[c])
        BY <2>1, <2>9, GoodFacts
      <3>2. PICK p \in DOMAIN t.chains[c] : n = t.chains[c][p]
        BY <3>1 DEF Range
      <3>3. PICK q \in DOMAIN r.chains[c] : n = r.chains[c][q]
        <4>1. n \in Range(r.chains[c])
          BY <1>2, <2>1, <3>1
        <4> HIDE DEF n
        <4> QED BY <4>1 DEF Range
      <3>4. IsInjective(t.chains[c]) /\ IsInjective(r.chains[c])
        BY <1>1 DEF Good
      <3>5. (\E j \in 1 .. i : t.chains[c][j] = n) <=> p <= i
        <4>1. \A j \in 1 .. i : t.chains[c][j] = n => j = p
          BY <2>3, <2>5, <3>2, <3>4, SMTT(60) DEF IsInjective
        <4>2. p \in Nat /\ p >= 1 /\ (p <= i => p \in 1 .. i)
          BY <2>5, <3>2
        <4> HIDE DEF n
        <4> QED BY <4>1, <4>2, <2>5, <3>2
      <3>6. (\E j \in 1 .. k : r.chains[c][j] = n) <=> q <= k
        <4>1. \A j \in 1 .. k : r.chains[c][j] = n => j = q
          BY <2>4, <2>5, <3>3, <3>4 DEF IsInjective
        <4>2. q \in Nat /\ q >= 1 /\ (q <= k => q \in 1 .. k)
          BY <2>5, <3>3
        <4> HIDE DEF n
        <4> QED BY <4>1, <4>2, <2>5, <3>3
      <3>7. p \in Nat /\ q \in Nat
        BY <2>5, <3>2, <3>3
      <3>8. ASSUME q < k PROVE p < i
        <4>1. PICK u, v \in DOMAIN t.chains[c] :
                u < v /\ r.chains[c][q] = t.chains[c][u] /\ r.chains[c][k] = t.chains[c][v]
          BY <1>2, <3>8, <3>3, <2>4 DEF SameOrder
        <4>2. u = p /\ v = i
          BY <4>1, <3>2, <3>3, <3>4, <2>3, <2>4 DEF IsInjective
        <4> QED BY <4>1, <4>2
      <3>9. ASSUME k < q PROVE i < p
        <4>1. PICK u, v \in DOMAIN t.chains[c] :
                u < v /\ r.chains[c][k] = t.chains[c][u] /\ r.chains[c][q] = t.chains[c][v]
          BY <1>2, <3>9, <3>3, <2>4 DEF SameOrder
        <4>2. u = i /\ v = p
          BY <4>1, <3>2, <3>3, <3>4, <2>3, <2>4 DEF IsInjective
        <4> QED BY <4>1, <4>2
      <3>10. q = k => p = i
        BY <2>3, <2>4, <3>2, <3>3, <3>4 DEF IsInjective
      <3>11. q <= k <=> p <= i
        BY <3>7, <3>8, <3>9, <3>10, <2>5
      <3> QED BY <2>6, <2>7, <2>9, <3>5, <3>6, <3>11
    <2> QED BY <2>8, <2>9
  <1>6. CASE scan.next = NULL
    BY <1>6, <1>4 DEF Ahead, r
  <1>7. CASE scan.next # NULL
    <2>1. Ahead(r, scan) \subseteq Nodes(r) /\ Ahead(t, scan) \subseteq Nodes(t)
      BY DEF Ahead
    <2>2. Ahead(r, scan) = Ahead(t, scan) \ {x}
      BY <2>1, <1>1, <1>5, <1>7
    <2> QED BY <2>2, <1>4 DEF r
  <1> QED BY <1>6, <1>7
-----------------------------------------------------------------------------
(* The inductive invariant. *)

\* The network is a tree with us at its root, and a user is on a server of it.
Tree ==
  /\ me \in Linked /\ uplinkname[me] = NULL
  /\ \A u \in User : uplink[u] = Freed \/ uplink[u] \in Linked
  /\ \A A \in SUBSET Linked : A # {} => \E s \in A : uplinkname[s] \notin A

\* The calls of DelServer are those of a branch, from its top down; only the
\* innermost has come to the users; the scans stand at nodes of their table.
Calls ==
  /\ \A i \in DOMAIN stack : stack[i].srv \in Linked \ {me}
  /\ \A i \in DOMAIN stack : i > 1 =>
       stack[i].at = "leaves" /\ uplinkname[stack[i - 1].srv] = stack[i].srv
  /\ \A i \in DOMAIN stack : ~stack[i].spoilt =>
       ScanAt(IF stack[i].at = "leaves" THEN serverhash ELSE nickhash, stack[i].scan)

ServersInv ==
  /\ ServersTypeOK /\ signons \in Nat
  /\ Good(serverhash, Server) /\ Good(nickhash, User)
  /\ Tree /\ Calls
  /\ ServerUsersCounted /\ ScanMissesNothing
\* Names have hash values, and NULL is none of them.
LEMMA Keys == Keyed(Server) /\ Keyed(User) /\ Freed \notin Server /\ NULL \notin Server
PROOF
  BY ServersAssumption DEF Keyed

LEMMA Pushed ==
  ASSUME NEW T, NEW s \in Seq(T), NEW f \in T
  PROVE  /\ <<f>> \o s \in Seq(T) /\ <<f>> \o s # <<>>
         /\ (<<f>> \o s)[1] = f /\ 1 \in DOMAIN (<<f>> \o s)
         /\ \A i \in DOMAIN (<<f>> \o s) : i \in Nat /\ i >= 1
         /\ \A i \in DOMAIN (<<f>> \o s) : i > 1 =>
              i - 1 \in DOMAIN s /\ (<<f>> \o s)[i] = s[i - 1]
PROOF
  <1>1. <<f>> \in Seq(T) /\ Len(<<f>>) = 1 /\ <<f>>[1] = f
    OBVIOUS
  <1>2. Len(s) \in Nat /\ DOMAIN s = 1 .. Len(s)
    BY LenProperties
  <1>3. /\ <<f>> \o s \in Seq(T) /\ Len(<<f>> \o s) = 1 + Len(s)
        /\ \A i \in 1 .. 1 + Len(s) : (<<f>> \o s)[i] = IF i <= 1 THEN <<f>>[i] ELSE s[i - 1]
    BY <1>1, ConcatProperties
  <1>4. DOMAIN (<<f>> \o s) = 1 .. 1 + Len(s)
    BY <1>3, LenProperties
  <1>5. <<f>> \o s # <<>>
    BY <1>3, <1>2, EmptySeq
  <1> QED BY <1>1, <1>2, <1>3, <1>4, <1>5

LEMMA TopChanged ==
  ASSUME NEW T, NEW s \in Seq(T), s # <<>>, NEW f \in T
  PROVE  /\ <<f>> \o Tail(s) \in Seq(T) /\ <<f>> \o Tail(s) # <<>>
         /\ (<<f>> \o Tail(s))[1] = f
         /\ DOMAIN (<<f>> \o Tail(s)) = DOMAIN s
         /\ \A i \in DOMAIN s : i > 1 => (<<f>> \o Tail(s))[i] = s[i]
PROOF
  <1>1. Len(s) \in Nat /\ DOMAIN s = 1 .. Len(s) /\ Len(s) >= 1
    BY LenProperties, EmptySeq
  <1>2. /\ Tail(s) \in Seq(T) /\ Len(Tail(s)) = Len(s) - 1
        /\ \A i \in 1 .. Len(s) - 1 : Tail(s)[i] = s[i + 1]
    BY HeadTailProperties
  <1>3. <<f>> \in Seq(T) /\ Len(<<f>>) = 1 /\ <<f>>[1] = f
    OBVIOUS
  <1>4. /\ <<f>> \o Tail(s) \in Seq(T) /\ Len(<<f>> \o Tail(s)) = Len(s)
        /\ \A i \in 1 .. Len(s) :
             (<<f>> \o Tail(s))[i] = IF i <= 1 THEN <<f>>[i] ELSE Tail(s)[i - 1]
    BY <1>1, <1>2, <1>3, ConcatProperties
  <1>5. DOMAIN (<<f>> \o Tail(s)) = 1 .. Len(s)
    BY <1>4, LenProperties
  <1>6. \A i \in 1 .. Len(s) : i > 1 => Tail(s)[i - 1] = s[i]
    <2> SUFFICES ASSUME NEW i \in 1 .. Len(s), i > 1 PROVE Tail(s)[i - 1] = s[i]
      OBVIOUS
    <2>1. i - 1 \in 1 .. Len(s) - 1 /\ (i - 1) + 1 = i
      BY <1>1
    <2> QED BY <1>2, <2>1
  <1> QED BY <1>1, <1>3, <1>4, <1>5, <1>6, EmptySeq

\* The scan of a call has everything ahead of it that it is to remove.
Reaches(f) ==
  IF f.at = "leaves"
    THEN \A s \in Linked : uplinkname[s] = f.srv => s \in Ahead(serverhash, f.scan)
    ELSE \A u \in Online : uplink[u] = f.srv => u \in Ahead(nickhash, f.scan)

ScanOf(f) == ScanAt(IF f.at = "leaves" THEN serverhash ELSE nickhash, f.scan)

LEMMA StackFacts ==
  ASSUME ServersInv, stack # <<>>
  PROVE  /\ stack \in Seq(Frame) /\ 1 \in DOMAIN stack /\ Top = stack[1] /\ Top \in Frame
         /\ \A i \in DOMAIN stack : i \in Nat /\ i >= 1 /\ stack[i] \in Frame
         /\ \A i \in DOMAIN stack : i > 1 => i - 1 \in DOMAIN stack
         /\ Top.srv \in Linked \ {me} /\ Top.srv \in Server
         /\ ~Top.spoilt => ScanOf(Top) /\ Reaches(Top)
PROOF
  <1>1. stack \in Seq(Frame)
    BY DEF ServersInv, ServersTypeOK
  <1>2. Len(stack) \in Nat /\ DOMAIN stack = 1 .. Len(stack) /\ Len(stack) >= 1
    BY <1>1, LenProperties, EmptySeq
  <1>3. Top = stack[1] /\ \A i \in DOMAIN stack : stack[i] \in Frame
    BY <1>1, <1>2, HeadTailProperties, ElementOfSeq DEF Top
  <1>4. Top.srv \in Linked \ {me} /\ Top.srv \in Server
    BY <1>2, <1>3 DEF ServersInv, Calls, ServersTypeOK
  <1>5. ~Top.spoilt => ScanOf(Top)
    BY <1>2, <1>3 DEF ServersInv, Calls, ScanOf
  <1>6. ~Top.spoilt => Reaches(Top)
    BY <1>2, <1>3 DEF ServersInv, ScanMissesNothing, Reaches
  <1> QED BY <1>1, <1>2, <1>3, <1>4, <1>5, <1>6
\* A step that leaves the tables of servers alone and changes the innermost
\* call, or makes one more.
LEMMA NewTop ==
  ASSUME ServersInv, stack # <<>>, NEW f \in Frame, f.srv = Top.srv,
         stack' = <<f>> \o Tail(stack), UNCHANGED <<serverhash, uplinkname>>,
         ~f.spoilt => ScanOf(f)' /\ Reaches(f)'
  PROVE  stack' \in Seq(Frame) /\ Calls' /\ ScanMissesNothing'
PROOF
  <1>1. /\ stack \in Seq(Frame) /\ 1 \in DOMAIN stack /\ Top = stack[1]
        /\ \A i \in DOMAIN stack : i \in Nat /\ i >= 1 /\ stack[i] \in Frame
        /\ \A i \in DOMAIN stack : i > 1 => i - 1 \in DOMAIN stack
    BY StackFacts
  <1>2. /\ stack' \in Seq(Frame) /\ DOMAIN stack' = DOMAIN stack /\ stack'[1] = f
        /\ \A i \in DOMAIN stack : i > 1 => stack'[i] = stack[i]
    BY <1>1, TopChanged
  <1>3. \A i \in DOMAIN stack : stack'[i].srv = stack[i].srv
    BY <1>1, <1>2
  <1>4. Linked' = Linked /\ uplinkname' = uplinkname /\ serverhash' = serverhash
    BY DEF Linked
  <1>5. ASSUME NEW i \in DOMAIN stack
        PROVE  /\ stack'[i].srv \in Linked \ {me}
               /\ i > 1 => /\ stack'[i].at = "leaves"
                           /\ uplinkname[stack'[i - 1].srv] = stack'[i].srv
    <2>1. stack[i].srv \in Linked \ {me}
      BY DEF ServersInv, Calls
    <2>2. i > 1 => stack[i].at = "leaves" /\ uplinkname[stack[i - 1].srv] = stack[i].srv
      BY DEF ServersInv, Calls
    <2> QED BY <1>1, <1>2, <1>3, <2>1, <2>2
  <1>6. ASSUME NEW i \in DOMAIN stack, ~stack'[i].spoilt
        PROVE  ScanAt(IF stack'[i].at = "leaves" THEN serverhash' ELSE nickhash', stack'[i].scan)
    <2>1. CASE i = 1
      BY <2>1, <1>2, <1>6 DEF ScanOf
    <2>2. CASE i > 1
      <3>1. ~stack[i].spoilt /\ stack[i].at = "leaves"
        BY <2>2, <1>2, <1>6 DEF ServersInv, Calls
      <3>2. ScanAt(serverhash, stack[i].scan)
        BY <3>1 DEF ServersInv, Calls
      <3> QED BY <2>2, <3>1, <3>2, <1>2
    <2> QED BY <2>1, <2>2, <1>1
  <1>7. ASSUME NEW i \in DOMAIN stack, ~stack'[i].spoilt
        PROVE  IF stack'[i].at = "leaves"
               THEN \A s \in Linked' : uplinkname'[s] = stack'[i].srv =>
                      \/ s \in Ahead(serverhash', stack'[i].scan)
                      \/ i > 1 /\ s = stack'[i - 1].srv
               ELSE \A u \in Online' : uplink'[u] = stack'[i].srv =>
                      u \in Ahead(nickhash', stack'[i].scan)
    <2>1. CASE i = 1
      <3>1. stack'[i] = f /\ Reaches(f)'
        BY <2>1, <1>2, <1>7
      <3> QED BY <3>1 DEF Reaches
    <2>2. CASE i > 1
      <3>1. ~stack[i].spoilt /\ stack[i].at = "leaves" /\ stack'[i] = stack[i]
        BY <2>2, <1>2, <1>7 DEF ServersInv, Calls
      <3>2. \A s \in Linked : uplinkname[s] = stack[i].srv =>
              s \in Ahead(serverhash, stack[i].scan) \/ s = stack[i - 1].srv
        BY <3>1 DEF ServersInv, ScanMissesNothing
      <3>3. stack'[i - 1].srv = stack[i - 1].srv
        BY <2>2, <1>1, <1>3
      <3>4. \A s \in Linked' : uplinkname'[s] = stack'[i].srv =>
              s \in Ahead(serverhash', stack'[i].scan) \/ s = stack'[i - 1].srv
        BY <3>1, <3>2, <3>3, <1>4
      <3>5. stack'[i].at = "leaves"
        BY <3>1
      <3> QED BY <2>2, <3>4, <3>5, Zenon
    <2>3. i = 1 \/ i > 1
      BY <1>1
    <2> QED BY <2>1, <2>2, <2>3, Zenon
  <1>8. Calls'
    BY <1>2, <1>4, <1>5, <1>6 DEF Calls
  <1>9. ScanMissesNothing'
    BY <1>2, <1>7 DEF ScanMissesNothing
  <1> QED BY <1>2, <1>8, <1>9

LEMMA CallFacts ==
  ASSUME ServersInv, NEW s \in Server
  PROVE  /\ Call(s) \in Frame /\ Call(s).srv = s /\ Call(s).at = "leaves" /\ ~Call(s).spoilt
         /\ ScanOf(Call(s)) /\ Reaches(Call(s))
PROOF
  <1>1. Good(serverhash, Server)
    BY DEF ServersInv
  <1>2. /\ HashScanBegin(serverhash) \in Scans(Server)
        /\ ScanAt(serverhash, HashScanBegin(serverhash))
        /\ Ahead(serverhash, HashScanBegin(serverhash)) =
             {x \in Linked : ChainOf(serverhash, x) >= 0}
    BY <1>1, Keys, FirstFromFacts DEF HashScanBegin, Linked
  <1>3. \A x \in Linked : ChainOf(serverhash, x) >= 0
    BY <1>1, Keys, GoodFacts DEF Linked, Chains
  <1>4. /\ Call(s).srv = s /\ Call(s).at = "leaves" /\ Call(s).spoilt = FALSE
        /\ Call(s).scan = HashScanBegin(serverhash) /\ Call(s) \in Frame
    BY <1>2 DEF Call, Scans, Frame
  <1> QED BY <1>2, <1>3, <1>4 DEF ScanOf, Reaches

\* del_server_leaves calls DelServer for the leaf n its scan has just passed.
LEMMA CallPushed ==
  ASSUME ServersInv, stack # <<>>, NEW f \in Frame, f.srv = Top.srv, f.at = "leaves",
         NEW n \in Linked, uplinkname[n] = f.srv,
         stack' = <<Call(n)>> \o (<<f>> \o Tail(stack)),
         UNCHANGED <<serverhash, uplinkname>>,
         ~f.spoilt => /\ ScanOf(f)
                      /\ \A s \in Linked : uplinkname[s] = f.srv =>
                           s \in Ahead(serverhash, f.scan) \/ s = n
  PROVE  stack' \in Seq(Frame) /\ Calls' /\ ScanMissesNothing'
PROOF
  <1> DEFINE old == <<f>> \o Tail(stack)
  <1>1. /\ stack \in Seq(Frame) /\ 1 \in DOMAIN stack /\ Top = stack[1]
        /\ \A i \in DOMAIN stack : i \in Nat /\ i >= 1 /\ stack[i] \in Frame
        /\ \A i \in DOMAIN stack : i > 1 => i - 1 \in DOMAIN stack
        /\ Top.srv \in Linked \ {me} /\ Top.srv \in Server
    BY StackFacts
  <1>2. /\ old \in Seq(Frame) /\ DOMAIN old = DOMAIN stack /\ old[1] = f
        /\ \A i \in DOMAIN stack : i > 1 => old[i] = stack[i]
    BY <1>1, TopChanged
  <1>3. n \in Server /\ n # me
    <2>1. n \in Server
      BY DEF ServersInv, ServersTypeOK
    <2>2. uplinkname[me] = NULL /\ NULL \notin Server
      BY Keys DEF ServersInv, Tree
    <2> QED BY <1>1, <2>1, <2>2
  <1>4. /\ Call(n) \in Frame /\ Call(n).srv = n /\ Call(n).at = "leaves" /\ ~Call(n).spoilt
        /\ ScanOf(Call(n)) /\ Reaches(Call(n))
    BY <1>3, CallFacts
  <1> HIDE DEF old
  <1>5. stack' = <<Call(n)>> \o old
    BY DEF old
  <1>6. /\ stack' \in Seq(Frame) /\ stack'[1] = Call(n)
        /\ \A i \in DOMAIN stack' : i \in Nat /\ i >= 1
        /\ \A i \in DOMAIN stack' : i > 1 => i - 1 \in DOMAIN old /\ stack'[i] = old[i - 1]
    <2> DEFINE new == Call(n)
    <2>1. new \in Frame
      BY <1>4
    <2> HIDE DEF new
    <2>2. /\ <<new>> \o old \in Seq(Frame) /\ (<<new>> \o old)[1] = new
          /\ \A i \in DOMAIN (<<new>> \o old) : i \in Nat /\ i >= 1
          /\ \A i \in DOMAIN (<<new>> \o old) : i > 1 =>
               i - 1 \in DOMAIN old /\ (<<new>> \o old)[i] = old[i - 1]
      BY <1>2, <2>1, Pushed
    <2>3. stack' = <<new>> \o old
      BY <1>5 DEF new
    <2> QED BY <2>2, <2>3 DEF new
  <1>7. \A i \in DOMAIN stack : old[i].srv = stack[i].srv
    BY <1>1, <1>2
  <1>8. Linked' = Linked /\ uplinkname' = uplinkname /\ serverhash' = serverhash
    BY DEF Linked
  <1>9. ASSUME NEW i \in DOMAIN stack', i > 1
        PROVE  /\ stack'[i].srv \in Linked \ {me} /\ stack'[i].at = "leaves"
               /\ uplinkname[stack'[i - 1].srv] = stack'[i].srv
    <2>1. i - 1 \in DOMAIN stack /\ stack'[i] = old[i - 1]
      BY <1>2, <1>6, <1>9
    <2>2. stack[i - 1].srv \in Linked \ {me}
      BY <2>1 DEF ServersInv, Calls
    <2>3. CASE i = 2
      BY <2>1, <2>2, <2>3, <1>1, <1>2, <1>4, <1>6, <1>7
    <2>4. CASE i > 2
      <3>1. i - 1 \in DOMAIN stack' /\ i - 1 > 1 /\ stack'[i - 1] = old[i - 2]
            /\ i - 2 \in DOMAIN stack
        <4>1. i - 1 \in DOMAIN stack' /\ i - 1 > 1
          <5>1. Len(stack') \in Nat /\ DOMAIN stack' = 1 .. Len(stack')
            BY <1>6, LenProperties
          <5> QED BY <5>1, <2>4
        <4>2. (i - 1) - 1 = i - 2
          BY <1>6
        <4> QED BY <4>1, <4>2, <1>2, <1>6
      <3>2. /\ stack[i - 1].at = "leaves"
            /\ uplinkname[stack[(i - 1) - 1].srv] = stack[i - 1].srv
        BY <2>1, <3>1 DEF ServersInv, Calls
      <3>3. (i - 1) - 1 = i - 2
        BY <1>6
      <3> QED BY <2>1, <2>2, <3>1, <3>2, <3>3, <1>2, <1>7
    <2> QED BY <2>3, <2>4, <1>6, <1>9
  <1> DEFINE Fine(i) ==
        /\ ScanAt(IF stack'[i].at = "leaves" THEN serverhash' ELSE nickhash', stack'[i].scan)
        /\ stack'[i].at = "leaves"
        /\ \A s \in Linked' : uplinkname'[s] = stack'[i].srv =>
             \/ s \in Ahead(serverhash', stack'[i].scan)
             \/ i > 1 /\ s = stack'[i - 1].srv
  <1>10. ASSUME NEW i \in DOMAIN stack', ~stack'[i].spoilt
         PROVE  Fine(i)
    <2>1. CASE i = 1
      BY <2>1, <1>4, <1>6, <1>8 DEF ScanOf, Reaches
    <2>2. CASE i = 2
      <3>1. stack'[i] = f /\ stack'[i - 1].srv = n /\ i > 1
        BY <2>2, <1>2, <1>4, <1>6
      <3>2. ScanAt(serverhash, f.scan)
        BY <3>1, <1>10 DEF ScanOf
      <3>3. \A s \in Linked : uplinkname[s] = f.srv => s \in Ahead(serverhash, f.scan) \/ s = n
        BY <3>1, <1>10
      <3> QED BY <3>1, <3>2, <3>3, <1>8
    <2>3. CASE i > 2
      <3>1. i - 1 \in DOMAIN stack /\ stack'[i] = stack[i - 1] /\ i - 1 > 1
        BY <2>3, <1>2, <1>6
      <3>2. ~stack[i - 1].spoilt /\ stack[i - 1].at = "leaves"
        BY <3>1, <1>10 DEF ServersInv, Calls
      <3>3. ScanAt(serverhash, stack[i - 1].scan)
        BY <3>1, <3>2 DEF ServersInv, Calls
      <3>4. \A s \in Linked : uplinkname[s] = stack[i - 1].srv =>
              s \in Ahead(serverhash, stack[i - 1].scan) \/ s = stack[(i - 1) - 1].srv
        BY <3>1, <3>2 DEF ServersInv, ScanMissesNothing
      <3>5. stack[(i - 1) - 1].srv = stack'[i - 1].srv
        <4>1. i - 1 \in DOMAIN stack'
          <5>1. Len(stack') \in Nat /\ DOMAIN stack' = 1 .. Len(stack')
            BY <1>6, LenProperties
          <5> QED BY <5>1, <2>3
        <4>2. (i - 1) - 1 \in DOMAIN old /\ stack'[i - 1] = old[(i - 1) - 1]
          BY <4>1, <3>1, <1>6
        <4> QED BY <4>2, <1>2, <1>7
      <3>6. \A s \in Linked' : uplinkname'[s] = stack'[i].srv =>
              s \in Ahead(serverhash', stack'[i].scan) \/ s = stack'[i - 1].srv
        BY <3>1, <3>4, <3>5, <1>8
      <3>7. stack'[i].at = "leaves" /\ ScanAt(serverhash', stack'[i].scan)
        BY <3>1, <3>2, <3>3, <1>8
      <3>8. i > 1
        BY <2>3, <1>6
      <3> QED BY <3>6, <3>7, <3>8
    <2>4. i = 1 \/ i = 2 \/ i > 2
      BY <1>6
    <2> HIDE DEF Fine
    <2> QED BY <2>1, <2>2, <2>3, <2>4
  <1>11. \A i \in DOMAIN stack' : stack'[i].srv \in Linked \ {me}
    BY <1>3, <1>4, <1>6, <1>9
  <1>12. Calls'
    BY <1>8, <1>9, <1>10, <1>11 DEF Calls
  <1>13. ScanMissesNothing'
    BY <1>10 DEF ScanMissesNothing
  <1> QED BY <1>6, <1>12, <1>13
-----------------------------------------------------------------------------
(* The steps. *)

\* A step that moves the calls on and leaves the records alone.
LEMMA OnlyCalls ==
  ASSUME ServersInv,
         UNCHANGED <<serverhash, uplinkname, users, nickhash, uplink, signons>>,
         stack' \in Seq(Frame), Calls', ScanMissesNothing', usedfreed' \in BOOLEAN
  PROVE  ServersInv'
PROOF
  <1>1. Linked' = Linked /\ Online' = Online
    BY DEF Linked, Online
  <1>2. ServersTypeOK' /\ signons' \in Nat
    BY <1>1 DEF ServersInv, ServersTypeOK
  <1>3. Tree' /\ Good(serverhash, Server)' /\ Good(nickhash, User)'
    BY <1>1 DEF ServersInv, Tree
  <1>4. ServerUsersCounted'
    BY <1>1 DEF ServersInv, ServerUsersCounted
  <1> QED BY <1>2, <1>3, <1>4 DEF ServersInv

\* A step between two lines from the uplink: no call is in progress.
LEMMA NoCalls ==
  ASSUME stack' = <<>>
  PROVE  stack' \in Seq(Frame) /\ Calls' /\ ScanMissesNothing'
PROOF
  <1>1. DOMAIN stack' = {}
    OBVIOUS
  <1> QED BY <1>1 DEF Calls, ScanMissesNothing

LEMMA InitServersInv ==
  ASSUME ServersInit
  PROVE  ServersInv
PROOF
  <1>1. me \in Server
    BY ServersAssumption
  <1>2. /\ Good(serverhash, Server) /\ Linked = {me}
    <2>1. Good(EmptyTable, Server) /\ Nodes(EmptyTable) = {}
      BY EmptyTableIsGood
    <2>2. Good(HashInsert(EmptyTable, me), Server) /\ Nodes(HashInsert(EmptyTable, me)) = {me}
      BY <1>1, <2>1, Keys, HashInsertFacts
    <2> QED BY <2>2 DEF ServersInit, Linked
  <1>3. Good(nickhash, User) /\ Online = {}
    BY EmptyTableIsGood DEF ServersInit, Online
  <1>4. ServersTypeOK /\ signons \in Nat
    <2>1. <<>> \in Seq(Frame)
      OBVIOUS
    <2>2. Linked \subseteq Server /\ Online \subseteq User
      BY <1>1, <1>2, <1>3
    <2>3. /\ uplinkname \in [Server -> Server \cup {NULL}] /\ users \in [Server -> Int]
          /\ uplink \in [User -> Server \cup {Freed}]
      BY DEF ServersInit
    <2> QED BY <2>1, <2>2, <2>3 DEF ServersInit, ServersTypeOK
  <1>5. Tree
    <2>1. uplinkname[me] = NULL /\ NULL # me
      BY <1>1, Keys DEF ServersInit
    <2>2. \A u \in User : uplink[u] = Freed
      BY DEF ServersInit
    <2>3. ASSUME NEW A \in SUBSET Linked, A # {} PROVE \E s \in A : uplinkname[s] \notin A
      BY <2>1, <2>3, <1>2
    <2> QED BY <1>2, <2>1, <2>2, <2>3 DEF Tree
  <1>6. Calls /\ ScanMissesNothing
    <2>1. DOMAIN stack = {}
      BY DEF ServersInit
    <2> QED BY <2>1 DEF Calls, ScanMissesNothing
  <1>7. ServerUsersCounted
    <2>1. users[me] = 0
      BY <1>1 DEF ServersInit
    <2>2. {u \in Online : uplink[u] = me} = {}
      BY <1>3
    <2> QED BY <1>2, <2>1, <2>2, FS_EmptySet DEF ServerUsersCounted
  <1> QED BY <1>2, <1>3, <1>4, <1>5, <1>6, <1>7 DEF ServersInv

\* The users counted are finitely many.
LEMMA UsersOf ==
  ASSUME ServersInv, NEW s
  PROVE  IsFiniteSet({u \in Online : uplink[u] = s})
PROOF
  <1>1. IsFiniteSet(Online)
    BY DEF ServersInv, Good, Online
  <1> QED BY <1>1, FS_Subset

\* A server comes: nobody is on it, and the tree stays one, whatever the name
\* was that of before.
LEMMA AddServerStep ==
  ASSUME ServersInv, NEW s \in Server, NEW up \in Server, AddServer(s, up)
  PROVE  ServersInv'
PROOF
  <1>1. /\ stack' = <<>> /\ PictureRight /\ s \notin Linked /\ up \in Linked
        /\ serverhash' = HashInsert(serverhash, s)
        /\ uplinkname' = [uplinkname EXCEPT ![s] = up]
        /\ users' = [users EXCEPT ![s] = 0]
        /\ nickhash' = nickhash /\ uplink' = uplink /\ usedfreed' = usedfreed
        /\ signons' = signons
    BY DEF AddServer, Idle
  <1>2. /\ uplinkname \in [Server -> Server \cup {NULL}] /\ users \in [Server -> Int]
        /\ Linked \subseteq Server
    BY DEF ServersInv, ServersTypeOK
  <1>3. Good(serverhash', Server) /\ Linked' = Linked \cup {s}
    <2>1. Good(serverhash, Server) /\ s \notin Nodes(serverhash)
      BY <1>1 DEF ServersInv, Linked
    <2>2. /\ Good(HashInsert(serverhash, s), Server)
          /\ Nodes(HashInsert(serverhash, s)) = Nodes(serverhash) \cup {s}
      BY <2>1, Keys, HashInsertFacts
    <2> QED BY <1>1, <2>2 DEF Linked
  <1>4. Online' = Online /\ Good(nickhash', User)
    BY <1>1 DEF Online, ServersInv
  <1>5. ServersTypeOK' /\ signons' \in Nat
    <2>1. stack' \in Seq(Frame)
      BY <1>1, NoCalls
    <2> QED BY <1>1, <1>2, <1>3, <1>4, <2>1 DEF ServersInv, ServersTypeOK
  <1>6. Tree'
    <2>1. me \in Linked' /\ uplinkname'[me] = NULL
      BY <1>1, <1>2, <1>3 DEF ServersInv, Tree
    <2>2. \A u \in User : uplink'[u] = Freed \/ uplink'[u] \in Linked'
      BY <1>1, <1>3 DEF ServersInv, Tree
    <2>3. ASSUME NEW A \in SUBSET Linked', A # {} PROVE \E r \in A : uplinkname'[r] \notin A
      <3>1. CASE A = {s}
        BY <3>1, <1>1, <1>2
      <3>2. CASE A # {s}
        <4>1. A \ {s} \in SUBSET Linked /\ A \ {s} # {}
          BY <3>2, <2>3, <1>3
        <4>2. PICK r \in A \ {s} : uplinkname[r] \notin A \ {s}
          BY <4>1 DEF ServersInv, Tree
        <4>3. uplinkname'[r] = uplinkname[r]
          BY <4>2, <4>1, <1>1, <1>2
        <4>4. uplinkname[r] # s
          <5>1. CASE r = me
            BY <5>1, Keys DEF ServersInv, Tree
          <5>2. CASE r # me
            BY <5>2, <4>1, <4>2, <1>1 DEF PictureRight
          <5> QED BY <5>1, <5>2
        <4> QED BY <4>2, <4>3, <4>4
      <3> QED BY <3>1, <3>2
    <2> QED BY <2>1, <2>2, <2>3 DEF Tree
  <1>7. ServerUsersCounted'
    <2> SUFFICES ASSUME NEW r \in Linked'
                 PROVE  users'[r] = Cardinality({u \in Online' : uplink'[u] = r})
      BY DEF ServerUsersCounted
    <2>1. CASE r = s
      <3>1. Online \subseteq User
        BY DEF ServersInv, ServersTypeOK
      <3>2. {u \in Online : uplink[u] = s} = {}
        BY <1>1, <3>1, Keys DEF ServersInv, Tree
      <3>3. users'[s] = 0
        BY <1>1, <1>2
      <3> QED BY <2>1, <1>1, <1>4, <3>2, <3>3, FS_EmptySet
    <2>2. CASE r # s
      <3>1. r \in Linked /\ users'[r] = users[r]
        BY <2>2, <1>1, <1>2, <1>3
      <3>2. users[r] = Cardinality({u \in Online : uplink[u] = r})
        BY <3>1 DEF ServersInv, ServerUsersCounted
      <3> QED BY <3>1, <3>2, <1>1, <1>4
    <2> QED BY <2>1, <2>2
  <1>8. Calls' /\ ScanMissesNothing'
    BY <1>1, NoCalls
  <1> QED BY <1>3, <1>4, <1>5, <1>6, <1>7, <1>8 DEF ServersInv
LEMMA SignOnStep ==
  ASSUME ServersInv, SignOn
  PROVE  ServersInv'
PROOF
  <1> DEFINE u == Arrivals[signons + 1]
             h == Home[u]
  <1>1. /\ stack' = <<>> /\ h \in Linked /\ signons < Len(Arrivals)
        /\ signons' = signons + 1 /\ serverhash' = serverhash /\ uplinkname' = uplinkname
        /\ usedfreed' = usedfreed
        /\ \/ UNCHANGED <<nickhash, uplink, users>>
           \/ /\ u \notin Online
              /\ nickhash' = HashInsert(nickhash, u)
              /\ uplink' = [uplink EXCEPT ![u] = h]
              /\ users' = [users EXCEPT ![h] = @ + 1]
    BY DEF SignOn, Idle
  <1>2. u \in User
    <2>1. signons \in Nat /\ Arrivals \in Seq(User)
      BY ServersAssumption DEF ServersInv
    <2>2. signons + 1 \in 1 .. Len(Arrivals)
      BY <1>1, <2>1, LenProperties
    <2> QED BY <2>1, <2>2, ElementOfSeq
  <1>3. h \in Server
    BY <1>2, ServersAssumption
  <1> HIDE DEF u, h
  <1>4. /\ uplink \in [User -> Server \cup {Freed}] /\ users \in [Server -> Int]
        /\ Linked \subseteq Server /\ Linked' = Linked /\ signons' \in Nat
    BY <1>1 DEF ServersInv, ServersTypeOK, Linked
  <1>5. stack' \in Seq(Frame) /\ Calls' /\ ScanMissesNothing'
    BY <1>1, NoCalls
  <1>6. CASE UNCHANGED <<nickhash, uplink, users>>
    <2>1. Online' = Online
      BY <1>6 DEF Online
    <2>2. ServersTypeOK'
      BY <2>1, <1>1, <1>4, <1>5, <1>6 DEF ServersInv, ServersTypeOK
    <2>3. Tree'
      BY <1>1, <1>4, <1>6 DEF ServersInv, Tree
    <2>4. ServerUsersCounted'
      BY <2>1, <1>1, <1>4, <1>6 DEF ServersInv, ServerUsersCounted
    <2> QED BY <2>2, <2>3, <2>4, <1>1, <1>4, <1>5, <1>6 DEF ServersInv
  <1>7. CASE /\ u \notin Online
             /\ nickhash' = HashInsert(nickhash, u)
             /\ uplink' = [uplink EXCEPT ![u] = h]
             /\ users' = [users EXCEPT ![h] = @ + 1]
    <2>1. Good(nickhash', User) /\ Online' = Online \cup {u}
      <3>1. Good(nickhash, User) /\ u \notin Nodes(nickhash)
        BY <1>7 DEF ServersInv, Online
      <3>2. /\ Good(HashInsert(nickhash, u), User)
            /\ Nodes(HashInsert(nickhash, u)) = Nodes(nickhash) \cup {u}
        BY <3>1, <1>2, Keys, HashInsertFacts
      <3> QED BY <1>7, <3>2 DEF Online
    <2>2. ServersTypeOK'
      BY <2>1, <1>1, <1>2, <1>3, <1>4, <1>5, <1>7 DEF ServersInv, ServersTypeOK
    <2>3. Tree'
      BY <1>1, <1>2, <1>4, <1>7 DEF ServersInv, Tree
    <2>4. ServerUsersCounted'
      <3> SUFFICES ASSUME NEW s \in Linked
                   PROVE  users'[s] = Cardinality({v \in Online' : uplink'[v] = s})
        BY <1>4 DEF ServerUsersCounted
      <3> DEFINE on == {v \in Online : uplink[v] = s}
      <3>1. users[s] = Cardinality(on) /\ IsFiniteSet(on) /\ u \notin on /\ s \in Server
        BY <1>4, <1>7, UsersOf DEF ServersInv, ServerUsersCounted
      <3>2. CASE s = h
        <4>1. {v \in Online' : uplink'[v] = s} = on \cup {u}
          BY <3>2, <2>1, <1>2, <1>4, <1>7 DEF ServersInv, ServersTypeOK
        <4>2. users'[s] = users[s] + 1
          BY <3>1, <3>2, <1>4, <1>7
        <4> HIDE DEF on
        <4> QED BY <3>1, <4>1, <4>2, FS_AddElement
      <3>3. CASE s # h
        <4>1. {v \in Online' : uplink'[v] = s} = on
          BY <3>3, <2>1, <1>2, <1>4, <1>7 DEF ServersInv, ServersTypeOK
        <4>2. users'[s] = users[s]
          BY <3>1, <3>3, <1>4, <1>7
        <4> QED BY <3>1, <4>1, <4>2
      <3> QED BY <3>2, <3>3
    <2> QED BY <2>1, <2>2, <2>3, <2>4, <1>1, <1>4, <1>5 DEF ServersInv
  <1> QED BY <1>1, <1>6, <1>7

\* deluser of a user who is in the table.
LEMMA DelUserFacts ==
  ASSUME ServersInv, NEW u \in Online, DelUser(u), serverhash' = serverhash, uplink' = uplink
  PROVE  /\ Good(nickhash', User) /\ Online' = Online \ {u} /\ Linked' = Linked
         /\ users' \in [Server -> Int] /\ ServerUsersCounted'
PROOF
  <1>1. /\ nickhash' = HashDelete(nickhash, u)
        /\ users' = [s \in Server |-> IF s = uplink[u] THEN users[s] - 1 ELSE users[s]]
    BY DEF DelUser
  <1>2. Good(nickhash', User) /\ Online' = Online \ {u}
    <2>1. Good(nickhash, User) /\ u \in Nodes(nickhash)
      BY DEF ServersInv, Online
    <2>2. /\ Good(HashDelete(nickhash, u), User)
          /\ Nodes(HashDelete(nickhash, u)) = Nodes(nickhash) \ {u}
      BY <2>1, Keys, HashDeleteFacts
    <2> QED BY <1>1, <2>2 DEF Online
  <1>3. Linked' = Linked /\ Linked \subseteq Server /\ users \in [Server -> Int]
    BY DEF Linked, ServersInv, ServersTypeOK
  <1>4. users' \in [Server -> Int]
    BY <1>1, <1>3
  <1>5. ServerUsersCounted'
    <2> SUFFICES ASSUME NEW s \in Linked
                 PROVE  users'[s] = Cardinality({v \in Online' : uplink'[v] = s})
      BY <1>3 DEF ServerUsersCounted
    <2> DEFINE on == {v \in Online : uplink[v] = s}
    <2>1. users[s] = Cardinality(on) /\ IsFiniteSet(on) /\ s \in Server
      BY <1>3, UsersOf DEF ServersInv, ServerUsersCounted
    <2>2. {v \in Online' : uplink'[v] = s} = on \ {u}
      BY <1>2
    <2>3. CASE uplink[u] = s
      <3>1. u \in on /\ users'[s] = users[s] - 1
        BY <2>1, <2>3, <1>1
      <3> HIDE DEF on
      <3> QED BY <2>1, <2>2, <3>1, FS_RemoveElement
    <2>4. CASE uplink[u] # s
      <3>1. on \ {u} = on /\ users'[s] = users[s]
        BY <2>1, <2>4, <1>1
      <3> QED BY <2>1, <2>2, <3>1
    <2> QED BY <2>3, <2>4
  <1> QED BY <1>2, <1>3, <1>4, <1>5

LEMMA QuitUserStep ==
  ASSUME ServersInv, NEW u \in User, QuitUser(u)
  PROVE  ServersInv'
PROOF
  <1>1. /\ u \in Online /\ DelUser(u) /\ stack' = <<>> /\ usedfreed' \in BOOLEAN
        /\ UNCHANGED <<serverhash, uplinkname, uplink, signons>>
    BY DEF QuitUser, Idle
  <1>2. /\ Good(nickhash', User) /\ Online' = Online \ {u} /\ Linked' = Linked
        /\ users' \in [Server -> Int] /\ ServerUsersCounted'
    BY <1>1, DelUserFacts
  <1>3. stack' \in Seq(Frame) /\ Calls' /\ ScanMissesNothing'
    BY <1>1, NoCalls
  <1>4. ServersTypeOK'
    BY <1>1, <1>2, <1>3 DEF ServersInv, ServersTypeOK
  <1>5. Tree'
    BY <1>1, <1>2 DEF ServersInv, Tree
  <1> QED BY <1>1, <1>2, <1>3, <1>4, <1>5 DEF ServersInv
LEMMA SquitStep ==
  ASSUME ServersInv, NEW s \in Server, Squit(s)
  PROVE  ServersInv'
PROOF
  <1>1. /\ s \in Linked \ {me} /\ stack' = <<Call(s)>> /\ usedfreed' = usedfreed
        /\ UNCHANGED <<serverhash, uplinkname, users, nickhash, uplink, signons>>
    BY DEF Squit
  <1>2. /\ Call(s) \in Frame /\ Call(s).srv = s /\ Call(s).at = "leaves" /\ ~Call(s).spoilt
        /\ ScanOf(Call(s)) /\ Reaches(Call(s))
    BY CallFacts
  <1>3. /\ stack' \in Seq(Frame) /\ DOMAIN stack' = {1} /\ stack'[1] = Call(s)
    <2> DEFINE f == Call(s)
    <2>1. f \in Frame /\ stack' = <<f>>
      BY <1>1, <1>2
    <2> HIDE DEF f
    <2>2. <<f>> \in Seq(Frame) /\ DOMAIN <<f>> = {1} /\ <<f>>[1] = f
      BY <2>1
    <2> QED BY <2>1, <2>2 DEF f
  <1>4. Linked' = Linked
    BY <1>1 DEF Linked
  <1>5. Calls'
    BY <1>1, <1>2, <1>3, <1>4 DEF Calls, ScanOf
  <1>6. ScanMissesNothing'
    <2>1. \A r \in Linked : uplinkname[r] = s => r \in Ahead(serverhash, Call(s).scan)
      BY <1>2 DEF Reaches
    <2> QED BY <1>1, <1>2, <1>3, <1>4, <2>1 DEF ScanMissesNothing
  <1>7. usedfreed' \in BOOLEAN
    BY <1>1 DEF ServersInv, ServersTypeOK
  <1> QED BY <1>1, <1>3, <1>5, <1>6, <1>7, OnlyCalls

\* The innermost call with its scan one node further.
LEMMA AdvancedLeaves ==
  ASSUME ServersInv, Running("leaves")
  PROVE  LET f == [Top EXCEPT !.scan = HashScanNext(serverhash, @)]
         IN  /\ Advanced(serverhash) = <<f>> \o Tail(stack) /\ stack # <<>>
             /\ f \in Frame /\ f.srv = Top.srv /\ f.at = "leaves" /\ f.spoilt = Top.spoilt
             /\ f.scan = HashScanNext(serverhash, Top.scan)
             /\ ~f.spoilt /\ Top.scan.next # NULL =>
                  /\ ScanOf(f)
                  /\ Ahead(serverhash, f.scan) = Ahead(serverhash, Top.scan) \ {Top.scan.next}
PROOF
  <1> DEFINE f == [Top EXCEPT !.scan = HashScanNext(serverhash, @)]
  <1>1. stack # <<>> /\ Top.at = "leaves"
    BY DEF Running
  <1>2. Top \in Frame /\ (~Top.spoilt => ScanOf(Top))
    BY <1>1, StackFacts
  <1>3. Top \in [srv : Server, at : {"leaves"}, spoilt : BOOLEAN, missed : {FALSE},
                 scan : Scans(Server)]
    BY <1>1, <1>2 DEF Frame, Scans
  <1>4. Top.scan \in Scans(Server) /\ Good(serverhash, Server)
    BY <1>3 DEF ServersInv
  <1>5. /\ HashScanNext(serverhash, Top.scan) \in Scans(Server)
        /\ Top.scan.next # NULL /\ ScanAt(serverhash, Top.scan) =>
             /\ ScanAt(serverhash, HashScanNext(serverhash, Top.scan))
             /\ Ahead(serverhash, HashScanNext(serverhash, Top.scan)) =
                  Ahead(serverhash, Top.scan) \ {Top.scan.next}
    BY <1>4, Keys, HashScanNextFacts
  <1>6. /\ f \in [srv : Server, at : {"leaves"}, spoilt : BOOLEAN, missed : {FALSE},
                  scan : Scans(Server)]
        /\ f.srv = Top.srv /\ f.at = "leaves" /\ f.spoilt = Top.spoilt
        /\ f.scan = HashScanNext(serverhash, Top.scan)
    BY <1>3, <1>5
  <1>7. Advanced(serverhash) = <<f>> \o Tail(stack)
    BY DEF Advanced
  <1> HIDE DEF f
  <1>8. f \in Frame
    BY <1>6 DEF Frame, Scans
  <1>9. ~f.spoilt /\ Top.scan.next # NULL =>
          /\ ScanOf(f)
          /\ Ahead(serverhash, f.scan) = Ahead(serverhash, Top.scan) \ {Top.scan.next}
    BY <1>1, <1>2, <1>5, <1>6 DEF ScanOf
  <1> QED BY <1>1, <1>6, <1>7, <1>8, <1>9 DEF f

LEMMA LeafStepStep ==
  ASSUME ServersInv, LeafStep
  PROVE  ServersInv'
PROOF
  <1> DEFINE f == [Top EXCEPT !.scan = HashScanNext(serverhash, @)]
             n == Top.scan.next
  <1>1. /\ Running("leaves") /\ n \in Linked /\ usedfreed' = usedfreed
        /\ stack' = IF uplinkname[n] = Top.srv
                    THEN <<Call(n)>> \o Advanced(serverhash) ELSE Advanced(serverhash)
        /\ UNCHANGED <<serverhash, uplinkname, users, nickhash, uplink, signons>>
    BY DEF LeafStep
  <1>2. /\ Advanced(serverhash) = <<f>> \o Tail(stack) /\ stack # <<>>
        /\ f \in Frame /\ f.srv = Top.srv /\ f.at = "leaves" /\ f.spoilt = Top.spoilt
        /\ ~f.spoilt /\ n # NULL =>
             ScanOf(f) /\ Ahead(serverhash, f.scan) = Ahead(serverhash, Top.scan) \ {n}
    BY <1>1, AdvancedLeaves
  <1> PICK g : g = f
    OBVIOUS
  <1>3. Top.at = "leaves" /\ (~Top.spoilt => Reaches(Top))
    BY <1>1, <1>2, StackFacts DEF Running
  <1>4. n # NULL
    BY <1>1, Keys DEF ServersInv, ServersTypeOK
  <1>g. /\ Advanced(serverhash) = <<g>> \o Tail(stack) /\ stack # <<>>
        /\ g \in Frame /\ g.srv = Top.srv /\ g.at = "leaves" /\ g.spoilt = Top.spoilt
        /\ ~g.spoilt /\ n # NULL =>
             ScanOf(g) /\ Ahead(serverhash, g.scan) = Ahead(serverhash, Top.scan) \ {n}
    BY <1>2
  <1> HIDE DEF f, n
  <1>5. ~g.spoilt => /\ ScanOf(g)
                     /\ \A s \in Linked : uplinkname[s] = g.srv =>
                          s \in Ahead(serverhash, g.scan) \/ s = n
    BY <1>g, <1>3, <1>4 DEF Reaches
  <1>6. stack' \in Seq(Frame) /\ Calls' /\ ScanMissesNothing'
    <2>1. CASE uplinkname[n] = Top.srv
      <3>1. stack' = <<Call(n)>> \o (<<g>> \o Tail(stack))
        BY <2>1, <1>1, <1>g
      <3>2. UNCHANGED <<serverhash, uplinkname>> /\ uplinkname[n] = g.srv
        BY <2>1, <1>1, <1>g
      <3> QED BY <3>1, <3>2, <1>1, <1>g, <1>5, CallPushed
    <2>2. CASE uplinkname[n] # Top.srv
      <3>1. stack' = <<g>> \o Tail(stack) /\ UNCHANGED <<serverhash, uplinkname>>
        BY <2>2, <1>1, <1>g
      <3>2. Linked' = Linked /\ nickhash' = nickhash
        BY <1>1 DEF Linked
      <3>3. ~g.spoilt => ScanOf(g)'
        BY <1>1, <1>5 DEF ScanOf
      <3>4. ~g.spoilt => Reaches(g)'
        BY <1>1, <1>g, <1>5, <2>2, <3>2 DEF Reaches
      <3> QED BY <3>1, <3>3, <3>4, <1>g, NewTop
    <2> QED BY <2>1, <2>2
  <1>7. usedfreed' \in BOOLEAN
    BY <1>1 DEF ServersInv, ServersTypeOK
  <1> QED BY <1>1, <1>6, <1>7, OnlyCalls

LEMMA FreedLeafStepStep ==
  ASSUME ServersInv, FreedLeafStep
  PROVE  ServersInv'
PROOF
  <1> DEFINE f == [Top EXCEPT !.scan = HashScanNext(serverhash, @)]
             n == Top.scan.next
  <1>1. /\ Running("leaves") /\ n \notin Linked \union {NULL}
        /\ \/ usedfreed' = TRUE /\ stack' = stack
           \/ stack' = Advanced(serverhash) /\ usedfreed' = usedfreed
        /\ UNCHANGED <<serverhash, uplinkname, users, nickhash, uplink, signons>>
    BY DEF FreedLeafStep
  <1>2. /\ Advanced(serverhash) = <<f>> \o Tail(stack) /\ stack # <<>>
        /\ f \in Frame /\ f.srv = Top.srv /\ f.spoilt = Top.spoilt
    BY <1>1, AdvancedLeaves
  <1>3. Top.spoilt
    BY <1>1, <1>2, StackFacts DEF Running, ScanOf, ScanAt, Linked
  <1>4. stack' \in Seq(Frame) /\ Calls' /\ ScanMissesNothing'
    <2>1. CASE stack' = stack
      <3>1. Linked' = Linked /\ Online' = Online
        BY <1>1 DEF Linked, Online
      <3>2. stack' \in Seq(Frame)
        BY <2>1 DEF ServersInv, ServersTypeOK
      <3>3. Calls'
        BY <1>1, <2>1, <3>1 DEF ServersInv, Calls
      <3>4. ScanMissesNothing'
        BY <1>1, <2>1, <3>1 DEF ServersInv, ScanMissesNothing
      <3> QED BY <3>2, <3>3, <3>4
    <2>2. CASE stack' = Advanced(serverhash)
      <3>1. stack' = <<f>> \o Tail(stack) /\ UNCHANGED <<serverhash, uplinkname>> /\ f.spoilt
        BY <1>1, <1>2, <1>3, <2>2
      <3> HIDE DEF f
      <3> QED BY <3>1, <1>2, NewTop
    <2> QED BY <1>1, <2>1, <2>2
  <1>5. usedfreed' \in BOOLEAN
    BY <1>1 DEF ServersInv, ServersTypeOK
  <1> QED BY <1>1, <1>4, <1>5, OnlyCalls

LEMMA LeavesDoneStep ==
  ASSUME ServersInv, LeavesDone
  PROVE  ServersInv'
PROOF
  <1> DEFINE f == [Top EXCEPT !.at = "users", !.spoilt = FALSE, !.missed = Top.spoilt,
                              !.scan = HashScanBegin(nickhash)]
  <1>1. /\ Running("leaves") /\ stack' = <<f>> \o Tail(stack) /\ usedfreed' = usedfreed
        /\ UNCHANGED <<serverhash, uplinkname, users, nickhash, uplink, signons>>
    BY DEF LeavesDone
  <1>2. stack # <<>> /\ Top \in Frame
    BY <1>1, StackFacts DEF Running
  <1>3. /\ HashScanBegin(nickhash) \in Scans(User)
        /\ ScanAt(nickhash, HashScanBegin(nickhash))
        /\ \A x \in Online : x \in Ahead(nickhash, HashScanBegin(nickhash))
    <2>1. Good(nickhash, User)
      BY DEF ServersInv
    <2>2. /\ HashScanBegin(nickhash) \in Scans(User)
          /\ ScanAt(nickhash, HashScanBegin(nickhash))
          /\ Ahead(nickhash, HashScanBegin(nickhash)) =
               {x \in Online : ChainOf(nickhash, x) >= 0}
      BY <2>1, Keys, FirstFromFacts DEF HashScanBegin, Online
    <2>3. \A x \in Online : ChainOf(nickhash, x) >= 0
      BY <2>1, Keys, GoodFacts DEF Online, Chains
    <2> QED BY <2>2, <2>3
  <1>4. /\ f.srv = Top.srv /\ f.at = "users" /\ f.spoilt = FALSE
        /\ f.scan = HashScanBegin(nickhash) /\ f \in Frame
    BY <1>2, <1>3 DEF Frame, Scans
  <1> HIDE DEF f
  <1> PICK g : g = f
    OBVIOUS
  <1>g. /\ g.srv = Top.srv /\ g.at = "users" /\ g.spoilt = FALSE
        /\ g.scan = HashScanBegin(nickhash) /\ g \in Frame
        /\ stack' = <<g>> \o Tail(stack)
    BY <1>1, <1>4
  <1>5. ScanOf(g)' /\ Reaches(g)'
    <2>1. Online' = Online /\ uplink' = uplink /\ nickhash' = nickhash
      BY <1>1 DEF Online
    <2> QED BY <2>1, <1>3, <1>g DEF ScanOf, Reaches
  <1>6. stack' \in Seq(Frame) /\ Calls' /\ ScanMissesNothing'
    BY <1>1, <1>2, <1>g, <1>5, NewTop
  <1>7. usedfreed' \in BOOLEAN
    BY <1>1 DEF ServersInv, ServersTypeOK
  <1> QED BY <1>1, <1>6, <1>7, OnlyCalls
\* The innermost call with its scan of the users one node further.
LEMMA AdvancedUsers ==
  ASSUME ServersInv, Running("users")
  PROVE  LET f == [Top EXCEPT !.scan = HashScanNext(nickhash, @)]
         IN  /\ Advanced(nickhash) = <<f>> \o Tail(stack) /\ stack # <<>>
             /\ f \in [srv : Server, at : {"users"}, spoilt : BOOLEAN, missed : BOOLEAN,
                       scan : Scans(User)]
             /\ f.srv = Top.srv /\ f.spoilt = Top.spoilt
             /\ ~f.spoilt /\ Top.scan.next # NULL =>
                  /\ ScanAt(nickhash, f.scan) /\ f.scan.next # Top.scan.next
                  /\ Ahead(nickhash, f.scan) = Ahead(nickhash, Top.scan) \ {Top.scan.next}
PROOF
  <1> DEFINE f == [Top EXCEPT !.scan = HashScanNext(nickhash, @)]
  <1>1. stack # <<>> /\ Top.at = "users"
    BY DEF Running
  <1>2. Top \in Frame /\ (~Top.spoilt => ScanOf(Top))
    BY <1>1, StackFacts
  <1>3. Top \in [srv : Server, at : {"users"}, spoilt : BOOLEAN, missed : BOOLEAN,
                 scan : Scans(User)]
    BY <1>1, <1>2 DEF Frame, Scans
  <1>4. Top.scan \in Scans(User) /\ Good(nickhash, User)
    BY <1>3 DEF ServersInv
  <1>5. /\ HashScanNext(nickhash, Top.scan) \in Scans(User)
        /\ Top.scan.next # NULL /\ ScanAt(nickhash, Top.scan) =>
             /\ ScanAt(nickhash, HashScanNext(nickhash, Top.scan))
             /\ HashScanNext(nickhash, Top.scan).next # Top.scan.next
             /\ Ahead(nickhash, HashScanNext(nickhash, Top.scan)) =
                  Ahead(nickhash, Top.scan) \ {Top.scan.next}
    BY <1>4, Keys, HashScanNextFacts
  <1>6. /\ f \in [srv : Server, at : {"users"}, spoilt : BOOLEAN, missed : BOOLEAN,
                  scan : Scans(User)]
        /\ f.srv = Top.srv /\ f.spoilt = Top.spoilt
        /\ f.scan = HashScanNext(nickhash, Top.scan)
    BY <1>3, <1>5
  <1>7. Advanced(nickhash) = <<f>> \o Tail(stack)
    BY DEF Advanced
  <1> HIDE DEF f
  <1>8. ~f.spoilt /\ Top.scan.next # NULL =>
          /\ ScanAt(nickhash, f.scan) /\ f.scan.next # Top.scan.next
          /\ Ahead(nickhash, f.scan) = Ahead(nickhash, Top.scan) \ {Top.scan.next}
    BY <1>1, <1>2, <1>5, <1>6 DEF ScanOf
  <1> QED BY <1>1, <1>6, <1>7, <1>8 DEF f

LEMMA SkipUserStep ==
  ASSUME ServersInv, SkipUser
  PROVE  ServersInv'
PROOF
  <1> DEFINE n == Top.scan.next
  <1>1. /\ Running("users") /\ n \in Online /\ uplink[n] # Top.srv /\ usedfreed' = usedfreed
        /\ stack' = Advanced(nickhash)
        /\ UNCHANGED <<serverhash, uplinkname, users, nickhash, uplink, signons>>
    BY DEF SkipUser
  <1>2. n # NULL
    BY <1>1, Keys DEF ServersInv, ServersTypeOK, Keyed
  <1> PICK f : f = [Top EXCEPT !.scan = HashScanNext(nickhash, @)]
    OBVIOUS
  <1>3. /\ stack' = <<f>> \o Tail(stack) /\ stack # <<>>
        /\ f \in [srv : Server, at : {"users"}, spoilt : BOOLEAN, missed : BOOLEAN,
                  scan : Scans(User)]
        /\ f.srv = Top.srv /\ f.spoilt = Top.spoilt
        /\ ~f.spoilt /\ n # NULL =>
             ScanAt(nickhash, f.scan) /\ Ahead(nickhash, f.scan) = Ahead(nickhash, Top.scan) \ {n}
    BY <1>1, AdvancedUsers
  <1>4. Top.at = "users" /\ (~Top.spoilt => Reaches(Top))
    BY <1>1, <1>3, StackFacts DEF Running
  <1> HIDE DEF n
  <1>5. f \in Frame /\ f.at = "users"
    BY <1>3 DEF Frame, Scans
  <1>6. Online' = Online /\ uplink' = uplink /\ nickhash' = nickhash
    BY <1>1 DEF Online
  <1>7. ~f.spoilt => ScanOf(f)' /\ Reaches(f)'
    BY <1>1, <1>2, <1>3, <1>4, <1>5, <1>6 DEF ScanOf, Reaches
  <1>8. stack' \in Seq(Frame) /\ Calls' /\ ScanMissesNothing'
    BY <1>1, <1>3, <1>5, <1>7, NewTop
  <1>9. usedfreed' \in BOOLEAN
    BY <1>1 DEF ServersInv, ServersTypeOK
  <1> QED BY <1>1, <1>8, <1>9, OnlyCalls

LEMMA QuitServerUserStep ==
  ASSUME ServersInv, QuitServerUser
  PROVE  ServersInv'
PROOF
  <1> DEFINE n == Top.scan.next
             h == [Top EXCEPT !.scan = HashScanNext(nickhash, @)]
  <1>1. /\ Running("users") /\ n \in Online /\ DelUser(n) /\ usedfreed' = usedfreed
        /\ stack' = <<[Head(Advanced(nickhash)) EXCEPT !.spoilt = @ \/ Shrinks(nickhash)]>>
                      \o Tail(stack)
        /\ UNCHANGED <<serverhash, uplinkname, uplink, signons>>
    BY DEF QuitServerUser
  <1>2. n # NULL
    BY <1>1, Keys DEF ServersInv, ServersTypeOK, Keyed
  <1>3. /\ Advanced(nickhash) = <<h>> \o Tail(stack) /\ stack # <<>>
        /\ h \in [srv : Server, at : {"users"}, spoilt : BOOLEAN, missed : BOOLEAN,
                  scan : Scans(User)]
        /\ h.srv = Top.srv /\ h.spoilt = Top.spoilt
        /\ ~h.spoilt /\ n # NULL =>
             /\ ScanAt(nickhash, h.scan) /\ h.scan.next # n
             /\ Ahead(nickhash, h.scan) = Ahead(nickhash, Top.scan) \ {n}
    BY <1>1, AdvancedUsers
  <1>4. Top.at = "users" /\ (~Top.spoilt => Reaches(Top)) /\ stack \in Seq(Frame)
    BY <1>1, <1>3, StackFacts DEF Running
  <1>5. Head(Advanced(nickhash)) = h
    BY <1>3 DEF Advanced
  <1> HIDE DEF n, h
  <1> PICK f : f = [h EXCEPT !.spoilt = @ \/ Shrinks(nickhash)]
    OBVIOUS
  <1>6. /\ f.srv = Top.srv /\ f.at = "users" /\ f.scan = h.scan
        /\ f.spoilt = (Top.spoilt \/ Shrinks(nickhash))
        /\ f \in [srv : Server, at : {"users"}, spoilt : BOOLEAN, missed : BOOLEAN,
                  scan : Scans(User)]
    BY <1>3
  <1>7. f \in Frame /\ stack' = <<f>> \o Tail(stack)
    BY <1>1, <1>5, <1>6 DEF Frame, Scans
  <1>8. /\ Good(nickhash', User) /\ Online' = Online \ {n} /\ Linked' = Linked
        /\ users' \in [Server -> Int] /\ ServerUsersCounted'
    BY <1>1, DelUserFacts
  <1>9. ASSUME ~f.spoilt PROVE ScanOf(f)' /\ Reaches(f)'
    <2>1. nickhash' = HashScanDelete(nickhash, n)
      BY <1>1, <1>6, <1>9 DEF DelUser, HashDelete
    <2>2. /\ ScanAt(nickhash, f.scan) /\ f.scan.next # n
          /\ Ahead(nickhash, f.scan) = Ahead(nickhash, Top.scan) \ {n}
      BY <1>2, <1>3, <1>6, <1>9
    <2>3. Good(nickhash, User) /\ n \in Nodes(nickhash) /\ f.scan \in Scans(User)
      BY <1>1, <1>6 DEF ServersInv, Online
    <2>4. /\ ScanAt(nickhash', f.scan)
          /\ Ahead(nickhash', f.scan) = Ahead(nickhash, f.scan) \ {n}
      BY <2>1, <2>2, <2>3, Keys, DeletedElsewhere
    <2>5. \A u \in Online : uplink[u] = f.srv => u \in Ahead(nickhash, Top.scan)
      BY <1>4, <1>6, <1>9 DEF Reaches
    <2>6. \A u \in Online' : uplink'[u] = f.srv => u \in Ahead(nickhash', f.scan)
      BY <2>2, <2>4, <2>5, <1>1, <1>8
    <2> QED BY <2>4, <2>6, <1>6 DEF ScanOf, Reaches
  <1>10. stack' \in Seq(Frame) /\ Calls' /\ ScanMissesNothing'
    BY <1>1, <1>3, <1>6, <1>7, <1>9, NewTop
  <1>11. ServersTypeOK'
    BY <1>1, <1>8, <1>10 DEF ServersInv, ServersTypeOK
  <1>12. Tree'
    BY <1>1, <1>8 DEF ServersInv, Tree
  <1>13. Good(serverhash', Server) /\ signons' \in Nat
    BY <1>1 DEF ServersInv
  <1> QED BY <1>8, <1>10, <1>11, <1>12, <1>13 DEF ServersInv
\* The server to be removed is that of the innermost call only.
LEMMA BranchHasNoLoop ==
  ASSUME ServersInv, NEW j \in DOMAIN stack, j > 1
  PROVE  stack[j].srv # stack[1].srv
PROOF
  <1> SUFFICES ASSUME stack[j].srv = stack[1].srv PROVE FALSE
    OBVIOUS
  <1>1. Len(stack) \in Nat /\ DOMAIN stack = 1 .. Len(stack) /\ j \in Nat
    BY LenProperties DEF ServersInv, ServersTypeOK
  <1> DEFINE A == {stack[k].srv : k \in 1 .. j - 1}
  <1>2. \A k \in 1 .. j - 1 :
          /\ k \in DOMAIN stack /\ k + 1 \in DOMAIN stack /\ k + 1 > 1 /\ (k + 1) - 1 = k
          /\ k + 1 = j \/ k + 1 \in 1 .. j - 1
    BY <1>1
  <1>3. A \in SUBSET Linked
    BY <1>2 DEF ServersInv, Calls
  <1>4. stack[1].srv \in A
    BY <1>1
  <1>5. PICK s \in A : uplinkname[s] \notin A
    <2> HIDE DEF A
    <2> QED BY <1>3, <1>4 DEF ServersInv, Tree
  <1>6. PICK k \in 1 .. j - 1 : s = stack[k].srv
    OBVIOUS
  <1>7. uplinkname[stack[k].srv] = stack[k + 1].srv
    BY <1>2 DEF ServersInv, Calls
  <1>8. stack[k + 1].srv \in A
    BY <1>2, <1>4
  <1> QED BY <1>5, <1>6, <1>7, <1>8

\* The frame that is left of a call when the call it made returns.
Returned(f, s) == [f EXCEPT !.spoilt = @ \/ f.scan.next = s]

LEMMA ReturnedFacts ==
  ASSUME NEW f \in Frame, f.at = "leaves", NEW s
  PROVE  /\ Returned(f, s) \in Frame /\ Returned(f, s).at = "leaves"
         /\ Returned(f, s).srv = f.srv /\ Returned(f, s).scan = f.scan
         /\ f.scan \in Scans(Server)
         /\ ~Returned(f, s).spoilt => ~f.spoilt /\ f.scan.next # s
PROOF
  <1>1. f \in [srv : Server, at : {"leaves"}, spoilt : BOOLEAN, missed : {FALSE},
               scan : Scans(Server)]
    BY DEF Frame, Scans
  <1>2. /\ Returned(f, s) \in
             [srv : Server, at : {"leaves"}, spoilt : BOOLEAN, missed : {FALSE},
              scan : Scans(Server)]
        /\ Returned(f, s).srv = f.srv /\ Returned(f, s).scan = f.scan
        /\ Returned(f, s).spoilt = (f.spoilt \/ f.scan.next = s)
    BY <1>1 DEF Returned
  <1>3. Returned(f, s) \in Frame
    BY <1>2 DEF Frame, Scans
  <1> QED BY <1>1, <1>2, <1>3

LEMMA RemoveServerStep ==
  ASSUME ServersInv, RemoveServer
  PROVE  ServersInv'
PROOF
  <1> DEFINE r == Top.srv
             m == Len(stack) - 1
  <1>1. /\ stack # <<>> /\ serverhash' = HashScanDelete(serverhash, r)
        /\ uplink' = [u \in User |-> IF uplink[u] = r THEN Freed ELSE uplink[u]]
        /\ stack' = [i \in 1 .. m |-> Returned(stack[i + 1], r)]
        /\ UNCHANGED <<uplinkname, users, nickhash, usedfreed, signons>>
    BY DEF RemoveServer, Running, Returned
  <1>2. /\ stack \in Seq(Frame) /\ 1 \in DOMAIN stack /\ Top = stack[1]
        /\ \A i \in DOMAIN stack : stack[i] \in Frame
        /\ r \in Linked \ {me} /\ r \in Server
    BY <1>1, StackFacts
  <1>3. /\ m \in Nat /\ DOMAIN stack = 1 .. Len(stack) /\ Len(stack) \in Nat
        /\ \A i \in 1 .. m : /\ i \in Nat /\ i \in DOMAIN stack /\ i + 1 \in DOMAIN stack
                             /\ i + 1 > 1 /\ (i + 1) - 1 = i
                             /\ i = 1 \/ (i > 1 /\ i - 1 \in 1 .. m /\ (i - 1) + 1 = i)
    <2>1. Len(stack) \in Nat /\ DOMAIN stack = 1 .. Len(stack) /\ Len(stack) >= 1
      BY <1>1, <1>2, LenProperties, EmptySeq
    <2> QED BY <2>1
  <1>4. r = stack[1].srv
    BY <1>2
  <1> HIDE DEF r, m
  <1>5. /\ Good(serverhash', Server) /\ Linked' = Linked \ {r} /\ Online' = Online
        /\ Good(serverhash, Server) /\ Linked = Nodes(serverhash)
    <2>1. Good(serverhash, Server) /\ r \in Nodes(serverhash)
      BY <1>2 DEF ServersInv, Linked
    <2>2. Unlinked(Server, serverhash, r, HashScanDelete(serverhash, r))
      BY <2>1, Keys, HashScanDeleteFacts
    <2>3. Online' = Online
      BY <1>1 DEF Online
    <2> QED BY <1>1, <2>1, <2>2, <2>3 DEF Unlinked, Linked
  <1>6. ASSUME NEW i \in 1 .. m
        PROVE  /\ stack'[i] \in Frame /\ stack'[i].at = "leaves"
               /\ stack'[i].srv = stack[i + 1].srv /\ stack'[i].scan = stack[i + 1].scan
               /\ stack[i + 1].scan \in Scans(Server)
               /\ ~stack'[i].spoilt => ~stack[i + 1].spoilt /\ stack[i + 1].scan.next # r
    <2>1. stack[i + 1] \in Frame /\ stack[i + 1].at = "leaves"
      BY <1>2, <1>3 DEF ServersInv, Calls
    <2>2. stack'[i] = Returned(stack[i + 1], r)
      BY <1>1
    <2> QED BY <2>1, <2>2, ReturnedFacts
  <1>7. DOMAIN stack' = 1 .. m /\ stack' \in Seq(Frame)
    <2>1. DOMAIN stack' = 1 .. m /\ stack' \in [1 .. m -> Frame]
      BY <1>1, <1>6
    <2> QED BY <2>1, <1>3, SeqDef
  <1>8. ASSUME NEW i \in 1 .. m
        PROVE  /\ stack'[i].srv \in Linked' \ {me}
               /\ i > 1 => uplinkname'[stack'[i - 1].srv] = stack'[i].srv
    <2>1. stack[i + 1].srv \in Linked \ {me} /\ uplinkname[stack[i].srv] = stack[i + 1].srv
      BY <1>3 DEF ServersInv, Calls
    <2>2. stack[i + 1].srv # r
      BY <1>3, <1>4, BranchHasNoLoop
    <2>3. i > 1 => stack'[i - 1].srv = stack[i].srv
      BY <1>3, <1>6
    <2> QED BY <2>1, <2>2, <2>3, <1>1, <1>5, <1>6
  <1>9. ASSUME NEW i \in 1 .. m, ~stack'[i].spoilt
        PROVE  /\ ScanAt(serverhash', stack'[i].scan)
               /\ \A s \in Linked' : uplinkname'[s] = stack'[i].srv =>
                    \/ s \in Ahead(serverhash', stack'[i].scan)
                    \/ i > 1 /\ s = stack'[i - 1].srv
    <2> DEFINE scan == stack[i + 1].scan
    <2>1. /\ ~stack[i + 1].spoilt /\ stack[i + 1].at = "leaves" /\ scan.next # r
          /\ scan \in Scans(Server) /\ stack'[i].scan = scan
      BY <1>3, <1>6, <1>9 DEF ServersInv, Calls
    <2>2. ScanAt(serverhash, scan)
      BY <2>1, <1>3 DEF ServersInv, Calls
    <2>3. \A s \in Linked : uplinkname[s] = stack[i + 1].srv =>
            s \in Ahead(serverhash, scan) \/ s = stack[i].srv
      <3>1. i + 1 \in DOMAIN stack /\ (i + 1) - 1 = i
        BY <1>3
      <3>2. \A s \in Linked : uplinkname[s] = stack[i + 1].srv =>
              s \in Ahead(serverhash, scan) \/ s = stack[(i + 1) - 1].srv
        BY <2>1, <3>1 DEF ServersInv, ScanMissesNothing
      <3> QED BY <3>1, <3>2
    <2> HIDE DEF scan
    <2>4. /\ ScanAt(serverhash', scan)
          /\ Ahead(serverhash', scan) = Ahead(serverhash, scan) \ {r}
      <3>1. r \in Nodes(serverhash)
        BY <1>2, <1>5
      <3> QED BY <2>1, <2>2, <3>1, <1>1, <1>5, Keys, DeletedElsewhere
    <2>5. i = 1 => stack[i].srv = r
      BY <1>4
    <2>6. i > 1 => stack'[i - 1].srv = stack[i].srv
      BY <1>3, <1>6
    <2>7. i = 1 \/ i > 1
      BY <1>3
    <2>8. ASSUME NEW s \in Linked', uplinkname'[s] = stack'[i].srv
          PROVE  s \in Ahead(serverhash', scan) \/ (i > 1 /\ s = stack'[i - 1].srv)
      <3>1. s \in Linked /\ s # r /\ uplinkname[s] = stack[i + 1].srv
        BY <2>8, <1>1, <1>5, <1>6
      <3> QED BY <3>1, <2>3, <2>4, <2>5, <2>6, <2>7
    <2> QED BY <2>1, <2>4, <2>8
  <1>10. Calls'
    <2>1. \A i \in DOMAIN stack' : ~stack'[i].spoilt =>
            ScanAt(IF stack'[i].at = "leaves" THEN serverhash' ELSE nickhash', stack'[i].scan)
      BY <1>6, <1>7, <1>9
    <2> QED BY <2>1, <1>6, <1>7, <1>8 DEF Calls
  <1>11. ScanMissesNothing'
    BY <1>6, <1>7, <1>9 DEF ScanMissesNothing
  <1>12. /\ Linked \subseteq Server /\ uplink \in [User -> Server \cup {Freed}]
         /\ Online \subseteq User
    BY DEF ServersInv, ServersTypeOK
  <1>13. ServersTypeOK'
    BY <1>1, <1>5, <1>7, <1>12 DEF ServersInv, ServersTypeOK
  <1>14. Tree'
    <2>1. me \in Linked' /\ uplinkname'[me] = NULL
      BY <1>1, <1>2, <1>5 DEF ServersInv, Tree
    <2>2. \A u \in User : uplink'[u] = Freed \/ uplink'[u] \in Linked'
      BY <1>1, <1>5 DEF ServersInv, Tree
    <2>3. \A A \in SUBSET Linked' : A # {} => \E s \in A : uplinkname'[s] \notin A
      BY <1>1, <1>5 DEF ServersInv, Tree
    <2> QED BY <2>1, <2>2, <2>3 DEF Tree
  <1>15. ServerUsersCounted'
    <2> SUFFICES ASSUME NEW s \in Linked'
                 PROVE  users'[s] = Cardinality({u \in Online' : uplink'[u] = s})
      BY DEF ServerUsersCounted
    <2>1. s \in Linked /\ s # r /\ s # Freed
      BY <1>5, <1>12, Keys
    <2>2. {u \in Online' : uplink'[u] = s} = {u \in Online : uplink[u] = s}
      BY <2>1, <1>1, <1>5, <1>12
    <2>3. users[s] = Cardinality({u \in Online : uplink[u] = s})
      BY <2>1 DEF ServersInv, ServerUsersCounted
    <2> QED BY <2>2, <2>3, <1>1
  <1>16. Good(nickhash', User) /\ signons' \in Nat
    BY <1>1 DEF ServersInv
  <1> QED BY <1>5, <1>10, <1>11, <1>13, <1>14, <1>15, <1>16 DEF ServersInv
-----------------------------------------------------------------------------
(* The theorems. *)

LEMMA ServersStep ==
  ASSUME ServersInv, [ServersNext]_servervars
  PROVE  ServersInv'
PROOF
  <1>1. CASE \E s, up \in Server : AddServer(s, up)
    BY <1>1, AddServerStep
  <1>2. CASE SignOn
    BY <1>2, SignOnStep
  <1>3. CASE \E u \in User : QuitUser(u)
    BY <1>3, QuitUserStep
  <1>4. CASE \E s \in Server : Squit(s)
    BY <1>4, SquitStep
  <1>5. CASE DelServer
    BY <1>5, LeafStepStep, FreedLeafStepStep, LeavesDoneStep, SkipUserStep,
       QuitServerUserStep, RemoveServerStep DEF DelServer
  <1>6. CASE UNCHANGED servervars
    <2>1. Linked' = Linked /\ Online' = Online /\ UNCHANGED servervars
      BY <1>6 DEF Linked, Online, servervars
    <2>2. Calls' /\ ScanMissesNothing' /\ stack' \in Seq(Frame) /\ usedfreed' \in BOOLEAN
      BY <2>1 DEF servervars, ServersInv, ServersTypeOK, Calls, ScanMissesNothing
    <2> QED BY <2>2, <1>6, OnlyCalls DEF servervars
  <1> QED BY <1>1, <1>2, <1>3, <1>4, <1>5, <1>6 DEF ServersNext

\* The inductive invariant: the tables are good, the servers linked are a tree
\* with ours at its root, and the calls of DelServer that are in progress are
\* a branch of it, each with a scan that stands at a node of its table.
THEOREM ServersInvariant == ServersSpec => []ServersInv
PROOF
  BY InitServersInv, ServersStep, PTL DEF ServersSpec

\* The types of the state of src/servers.c and src/users.c.
THEOREM ServersTyped == ServersSpec => []ServersTypeOK
PROOF
  <1>1. ServersInv => ServersTypeOK
    BY DEF ServersInv
  <1> QED BY <1>1, ServersInvariant, PTL

\* What hash_verify asserts after every insertion, deletion and resizing of
\* src/hash.c holds of the two tables, for every hash function and every order
\* of servers and users coming and going.
THEOREM TablesStayVerified == ServersSpec => []TablesVerified
PROOF
  <1>1. ServersInv => TablesVerified
    BY GoodIsVerified, Keys DEF ServersInv, TablesVerified
  <1> QED BY <1>1, ServersInvariant, PTL

\* The count that SQUIT, the statistics and the bots read (s->server->users)
\* is that of the users who point to the server.
THEOREM UsersStayCounted == ServersSpec => []ServerUsersCounted
PROOF
  <1>1. ServersInv => ServerUsersCounted
    BY DEF ServersInv
  <1> QED BY <1>1, ServersInvariant, PTL

\* The scans of del_server_leaves and QuitServerUsers, of whatever depth the
\* recursion is, lose nothing they are to remove as long as nobody deletes the
\* node they have fetched or halves the table.
THEOREM ScansMissNothing == ServersSpec => []ScanMissesNothing
PROOF
  <1>1. ServersInv => ScanMissesNothing
    BY DEF ServersInv
  <1> QED BY <1>1, ServersInvariant, PTL
-----------------------------------------------------------------------------
(* Branches. *)

LEMMA BranchFacts ==
  ASSUME NEW T, NEW parent, NEW s \in T
  PROVE  /\ Branch(T, parent, s) \subseteq T /\ s \in Branch(T, parent, s)
         /\ \A y \in T : parent[y] \in Branch(T, parent, s) => y \in Branch(T, parent, s)
PROOF
  <1>1. Branch(T, parent, s) \subseteq T /\ s \in Branch(T, parent, s)
    BY DEF Branch
  <1>2. ASSUME NEW y \in T, parent[y] \in Branch(T, parent, s)
        PROVE  y \in Branch(T, parent, s)
    <2> SUFFICES ASSUME NEW B \in SUBSET T, s \in B, \A z \in T : parent[z] \in B => z \in B
                 PROVE  y \in B
      BY DEF Branch
    <2>1. parent[y] \in B
      BY <1>2 DEF Branch
    <2> QED BY <2>1
  <1> QED BY <1>1, <1>2

\* A server that nobody is behind leaves the rest of the branch as it is.
LEMMA BranchTrimmed ==
  ASSUME NEW T, NEW parent, NEW s \in T, NEW x \in T, x # s, \A y \in T : parent[y] # x
  PROVE  Branch(T \ {x}, parent, s) = Branch(T, parent, s) \ {x}
PROOF
  <1>1. ASSUME NEW y \in Branch(T \ {x}, parent, s)
        PROVE  y \in Branch(T, parent, s) \ {x}
    <2>1. y \in T /\ y # x
      BY DEF Branch
    <2>2. ASSUME NEW B \in SUBSET T, s \in B, \A z \in T : parent[z] \in B => z \in B
          PROVE  y \in B
      <3>1. B \ {x} \in SUBSET (T \ {x}) /\ s \in B \ {x}
        BY <2>2
      <3>2. \A z \in T \ {x} : parent[z] \in B \ {x} => z \in B \ {x}
        BY <2>2
      <3>3. y \in B \ {x}
        BY <3>1, <3>2 DEF Branch
      <3> QED BY <3>3
    <2> QED BY <2>1, <2>2 DEF Branch
  <1>2. ASSUME NEW y \in Branch(T, parent, s) \ {x}
        PROVE  y \in Branch(T \ {x}, parent, s)
    <2>1. y \in T \ {x}
      BY DEF Branch
    <2>2. ASSUME NEW B \in SUBSET (T \ {x}), s \in B,
                 \A z \in T \ {x} : parent[z] \in B => z \in B
          PROVE  y \in B
      <3>1. B \cup {x} \in SUBSET T /\ s \in B \cup {x}
        BY <2>2
      <3>2. \A z \in T : parent[z] \in B \cup {x} => z \in B \cup {x}
        BY <2>2
      <3>3. y \in B \cup {x}
        BY <3>1, <3>2 DEF Branch
      <3> QED BY <3>3
    <2> QED BY <2>1, <2>2 DEF Branch
  <1> QED BY <1>1, <1>2

LEMMA BranchEnd ==
  ASSUME NEW T, NEW parent, NEW s \in T, \A y \in T : parent[y] # s
  PROVE  Branch(T, parent, s) = {s}
PROOF
  <1>1. {s} \in SUBSET T /\ \A y \in T : parent[y] \in {s} => y \in {s}
    OBVIOUS
  <1>2. Branch(T, parent, s) \subseteq {s}
    BY <1>1 DEF Branch
  <1> QED BY <1>2, BranchFacts

\* The servers of the calls in progress are on the branch that is being removed.
Root == stack[Len(stack)].srv

LEMMA CallsOnBranch ==
  ASSUME ServersInv, stack # <<>>
  PROVE  /\ Root \in Linked /\ Lost = Branch(Linked, uplinkname, Root)
         /\ \A i \in DOMAIN stack : stack[i].srv \in Lost
PROOF
  <1> DEFINE n == Len(stack)
  <1>1. n \in Nat /\ n >= 1 /\ DOMAIN stack = 1 .. n
    BY LenProperties, EmptySeq DEF ServersInv, ServersTypeOK
  <1>2. \A i \in 1 .. n : stack[i].srv \in Linked
    BY <1>1 DEF ServersInv, Calls
  <1>3. Root \in Linked /\ Lost = Branch(Linked, uplinkname, Root)
    BY <1>1, <1>2 DEF Root, Lost
  <1>4. ASSUME NEW i \in 1 .. n PROVE stack[i].srv \in Lost
    <2> DEFINE S == {k \in 0 .. n - 1 : stack[n - k].srv \notin Lost}
    <2>1. S = {}
      <3> SUFFICES ASSUME S # {} PROVE FALSE
        OBVIOUS
      <3>1. S \subseteq Nat
        <4>1. \A k \in 0 .. n - 1 : k \in Nat
          OBVIOUS
        <4> QED BY <4>1
      <3>2. PICK k \in S : \A j \in S : k <= j
        <4> HIDE DEF S
        <4> QED BY <3>1, LeastNumber
      <3>3. k # 0
        BY <1>1, <1>3, BranchFacts DEF Root
      <3>4. k \in 0 .. n - 1 /\ k \in Nat /\ n \in Nat
        BY <1>1, <3>2
      <3>0. k - 1 \in 0 .. n - 1 /\ k - 1 \notin S
        <4>1. k - 1 \in 0 .. n - 1 /\ ~(k <= k - 1)
          <5> HIDE DEF n
          <5> QED BY <3>3, <3>4
        <4> QED BY <3>2, <4>1
      <3>5. stack[n - (k - 1)].srv \in Lost
        BY <3>0
      <3> DEFINE j == n - (k - 1)
      <3>6. j \in DOMAIN stack /\ j > 1 /\ j - 1 = n - k /\ n - k \in 1 .. n
        <4> HIDE DEF n
        <4> QED BY <1>1, <3>3, <3>4
      <3>7. uplinkname[stack[j - 1].srv] = stack[j].srv
        <4> HIDE DEF j
        <4> QED BY <3>6 DEF ServersInv, Calls
      <3>8. stack[n - k].srv \in Lost
        BY <3>5, <3>6, <3>7, <1>2, <1>3, BranchFacts
      <3> QED BY <3>2, <3>8
    <2>2. n - i \in 0 .. n - 1 /\ n - (n - i) = i
      BY <1>1
    <2> QED BY <2>1, <2>2
  <1> QED BY <1>1, <1>3, <1>4

\* What is shown of the network changes with the servers and users shown only.
LEMMA ViewKept ==
  ASSUME Shown' = Shown, uplinkname' = uplinkname,
         Present' = Present, \A u \in Present : uplink'[u] = uplink[u]
  PROVE  UNCHANGED NW!splitsvars
PROOF
  BY DEF NW!splitsvars

\* A step of DelServer that leaves the servers and the first call alone.
LEMMA CallsMoveOn ==
  ASSUME stack # <<>>, stack' # <<>>, Root' = Root,
         UNCHANGED <<serverhash, uplinkname>>
  PROVE  Lost' = Lost /\ Linked' = Linked
PROOF
  <1>1. Linked' = Linked
    BY DEF Linked
  <1> QED BY <1>1 DEF Lost, Root

LEMMA RootOfTop ==
  ASSUME ServersInv, stack # <<>>, NEW f \in Frame, f.srv = Top.srv,
         stack' = <<f>> \o Tail(stack)
  PROVE  Root' = Root /\ stack' # <<>>
PROOF
  <1>1. stack \in Seq(Frame) /\ Top = stack[1]
    BY StackFacts
  <1>2. /\ stack' \in Seq(Frame) /\ stack' # <<>> /\ DOMAIN stack' = DOMAIN stack
        /\ stack'[1] = f /\ \A i \in DOMAIN stack : i > 1 => stack'[i] = stack[i]
    BY <1>1, TopChanged
  <1>3. /\ Len(stack) \in Nat /\ Len(stack) >= 1 /\ DOMAIN stack = 1 .. Len(stack)
        /\ Len(stack') \in Nat /\ DOMAIN stack' = 1 .. Len(stack')
    BY <1>1, <1>2, LenProperties, EmptySeq
  <1>4. Len(stack') = Len(stack)
    BY <1>2, <1>3
  <1>5. stack'[Len(stack)].srv = stack[Len(stack)].srv
    BY <1>1, <1>2, <1>3
  <1> QED BY <1>2, <1>4, <1>5 DEF Root

LEMMA RootOfCall ==
  ASSUME ServersInv, stack # <<>>, NEW f \in Frame, f.srv = Top.srv, NEW g \in Frame,
         stack' = <<g>> \o (<<f>> \o Tail(stack))
  PROVE  Root' = Root /\ stack' # <<>>
PROOF
  <1> DEFINE old == <<f>> \o Tail(stack)
  <1>1. stack \in Seq(Frame) /\ Top = stack[1]
    BY StackFacts
  <1>2. /\ old \in Seq(Frame) /\ old # <<>> /\ DOMAIN old = DOMAIN stack
        /\ old[1] = f /\ \A i \in DOMAIN stack : i > 1 => old[i] = stack[i]
    BY <1>1, TopChanged
  <1>3. /\ Len(stack) \in Nat /\ Len(stack) >= 1 /\ DOMAIN stack = 1 .. Len(stack)
        /\ Len(old) \in Nat /\ DOMAIN old = 1 .. Len(old)
    BY <1>1, <1>2, LenProperties, EmptySeq
  <1> HIDE DEF old
  <1>4. Len(old) = Len(stack) /\ old[Len(stack)].srv = stack[Len(stack)].srv
    <2>1. Len(old) = Len(stack)
      BY <1>2, <1>3
    <2>2. \A i \in DOMAIN stack : i = 1 \/ i > 1
      BY <1>3
    <2>3. \A i \in DOMAIN stack : old[i].srv = stack[i].srv
      BY <1>1, <1>2, <2>2
    <2>4. Len(stack) \in DOMAIN stack
      BY <1>3
    <2> QED BY <2>1, <2>3, <2>4
  <1>5. stack' = <<g>> \o old
    BY DEF old
  <1>6. /\ stack' \in Seq(Frame) /\ stack' # <<>> /\ Len(stack') = 1 + Len(old)
        /\ stack'[1 + Len(old)] = old[Len(old)]
    <2>1. <<g>> \in Seq(Frame) /\ Len(<<g>>) = 1
      OBVIOUS
    <2>2. /\ <<g>> \o old \in Seq(Frame) /\ Len(<<g>> \o old) = 1 + Len(old)
          /\ \A i \in 1 .. 1 + Len(old) :
               (<<g>> \o old)[i] = IF i <= 1 THEN <<g>>[i] ELSE old[i - 1]
      BY <1>2, <2>1, ConcatProperties
    <2>3. /\ 1 + Len(old) \in 1 .. 1 + Len(old) /\ ~(1 + Len(old) <= 1)
          /\ (1 + Len(old)) - 1 = Len(old)
      BY <1>3, <1>4
    <2>4. (<<g>> \o old)[1 + Len(old)] = old[Len(old)]
      BY <2>2, <2>3
    <2>5. Len(<<g>> \o old) # 0
      BY <1>3, <2>2
    <2> QED BY <1>5, <2>2, <2>4, <2>5, EmptySeq
  <1> QED BY <1>4, <1>6 DEF Root

-----------------------------------------------------------------------------
(* What a step of DelServer that removes no server does to the calls. *)

\* The innermost call goes on as g.
GoesOn(g) ==
  /\ g \in Frame /\ g.srv = Top.srv
  /\ \/ Top.at = "leaves" /\ g.at = "leaves" /\ g.spoilt = Top.spoilt
     \/ /\ Top.at = "leaves" /\ g.at = "users" /\ ~g.spoilt /\ g.missed = Top.spoilt
        /\ Top.scan.next = NULL
     \/ /\ Top.at = "users" /\ g.at = "users" /\ g.missed = Top.missed
        /\ g.spoilt = (Top.spoilt \/ (QuitServerUser /\ Shrinks(nickhash)))

\* It makes a call for the server its scan stood at, and the scan is past it.
CallsFor(g, n) ==
  /\ GoesOn(g) /\ g.at = "leaves" /\ n = Top.scan.next /\ n \in Linked
  /\ uplinkname[n] = Top.srv
  /\ ~Top.spoilt => g.scan.next # n
  /\ stack' = <<Call(n)>> \o (<<g>> \o Tail(stack))

LEMMA DelServerMoves ==
  ASSUME ServersInv, LeafStep \/ FreedLeafStep \/ LeavesDone \/ SkipUser \/ QuitServerUser
  PROVE  /\ stack # <<>> /\ UNCHANGED <<serverhash, uplinkname, uplink>> /\ Linked' = Linked
         /\ ~QuitServerUser => UNCHANGED nickhash
         /\ \E g \in Frame :
              \/ GoesOn(g) /\ stack' = <<g>> \o Tail(stack)
              \/ \E n \in Linked : CallsFor(g, n)
PROOF
  <1>1. /\ stack # <<>> /\ UNCHANGED <<serverhash, uplinkname, uplink>>
        /\ ~QuitServerUser => UNCHANGED nickhash
    BY DEF LeafStep, FreedLeafStep, LeavesDone, SkipUser, QuitServerUser, DelUser, Running
  <1>2. Linked' = Linked
    BY <1>1 DEF Linked
  <1>3. Top \in Frame /\ stack \in Seq(Frame)
    BY <1>1, StackFacts
  <1>4. ASSUME LeafStep \/ FreedLeafStep
        PROVE  /\ Top.at = "leaves"
               /\ \E f \in Frame : /\ Advanced(serverhash) = <<f>> \o Tail(stack) /\ GoesOn(f)
                                   /\ f.at = "leaves"
                                   /\ f.scan = HashScanNext(serverhash, Top.scan)
    <2>1. Running("leaves") /\ Top.at = "leaves"
      BY <1>4 DEF LeafStep, FreedLeafStep, Running
    <2> DEFINE h == [Top EXCEPT !.scan = HashScanNext(serverhash, @)]
    <2>2. /\ Advanced(serverhash) = <<h>> \o Tail(stack)
          /\ h \in Frame /\ h.srv = Top.srv /\ h.at = "leaves" /\ h.spoilt = Top.spoilt
          /\ h.scan = HashScanNext(serverhash, Top.scan)
      BY <2>1, AdvancedLeaves
    <2> HIDE DEF h
    <2> QED BY <2>1, <2>2 DEF GoesOn
  <1>5. CASE LeafStep
    <2> DEFINE n == Top.scan.next
    <2>1. PICK f \in Frame : /\ Advanced(serverhash) = <<f>> \o Tail(stack) /\ GoesOn(f)
                             /\ f.at = "leaves" /\ Top.at = "leaves"
                             /\ f.scan = HashScanNext(serverhash, Top.scan)
      BY <1>4, <1>5
    <2>2. /\ n \in Linked
          /\ stack' = IF uplinkname[n] = Top.srv
                      THEN <<Call(n)>> \o Advanced(serverhash) ELSE Advanced(serverhash)
      BY <1>5 DEF LeafStep
    <2>3. ~Top.spoilt => f.scan.next # n
      <3>1. Top.scan \in Scans(Server) /\ Good(serverhash, Server)
        BY <2>1, <1>3 DEF Frame, Scans, ServersInv
      <3>2. ~Top.spoilt => ScanAt(serverhash, Top.scan)
        BY <1>1, <2>1, StackFacts DEF ScanOf
      <3>3. n # NULL
        BY <2>2, Keys DEF ServersInv, ServersTypeOK
      <3> QED BY <2>1, <3>1, <3>2, <3>3, Keys, HashScanNextFacts
    <2> HIDE DEF n
    <2>4. CASE uplinkname[n] = Top.srv
      <3>1. stack' = <<Call(n)>> \o (<<f>> \o Tail(stack))
        BY <2>1, <2>2, <2>4
      <3>2. CallsFor(f, n)
        BY <2>1, <2>2, <2>3, <2>4, <3>1 DEF CallsFor, n
      <3> QED BY <1>1, <1>2, <2>1, <2>2, <3>2
    <2>5. CASE uplinkname[n] # Top.srv
      <3>1. stack' = <<f>> \o Tail(stack)
        BY <2>1, <2>2, <2>5
      <3> QED BY <1>1, <1>2, <2>1, <3>1
    <2> QED BY <2>4, <2>5
  <1>6. CASE FreedLeafStep
    <2>1. PICK f \in Frame : /\ Advanced(serverhash) = <<f>> \o Tail(stack) /\ GoesOn(f)
                             /\ Top.at = "leaves"
      BY <1>4, <1>6
    <2>2. stack' = stack \/ stack' = Advanced(serverhash)
      BY <1>6 DEF FreedLeafStep
    <2>3. stack = <<Top>> \o Tail(stack)
      <3>1. Top = stack[1]
        BY <1>1, StackFacts
      <3>2. /\ <<Top>> \o Tail(stack) \in Seq(Frame) /\ (<<Top>> \o Tail(stack))[1] = Top
            /\ DOMAIN (<<Top>> \o Tail(stack)) = DOMAIN stack
            /\ \A i \in DOMAIN stack : i > 1 => (<<Top>> \o Tail(stack))[i] = stack[i]
        BY <1>1, <1>3, TopChanged
      <3> DEFINE r == <<Top>> \o Tail(stack)
      <3>3. /\ DOMAIN stack = 1 .. Len(stack) /\ Len(stack) \in Nat
            /\ DOMAIN r = 1 .. Len(r) /\ Len(r) \in Nat
        BY <1>3, <3>2, LenProperties
      <3> HIDE DEF r
      <3>4. Len(stack) = Len(r) /\ \A i \in 1 .. Len(stack) : stack[i] = r[i]
        BY <3>1, <3>2, <3>3 DEF r
      <3>5. stack = r
        BY <1>3, <3>2, <3>4, SeqEqual DEF r
      <3> QED BY <3>5 DEF r
    <2>4. GoesOn(Top)
      BY <1>3, <2>1 DEF GoesOn
    <2> QED BY <1>1, <1>2, <1>3, <2>1, <2>2, <2>3, <2>4
  <1>7. CASE LeavesDone
    <2> DEFINE f == [Top EXCEPT !.at = "users", !.spoilt = FALSE, !.missed = Top.spoilt,
                                !.scan = HashScanBegin(nickhash)]
    <2>1. stack' = <<f>> \o Tail(stack) /\ Top.at = "leaves" /\ Top.scan.next = NULL
      BY <1>7 DEF LeavesDone, Running
    <2>2. HashScanBegin(nickhash) \in Scans(User)
      BY Keys, FirstFromFacts DEF ServersInv, HashScanBegin
    <2>3. /\ f \in Frame /\ f.srv = Top.srv /\ f.at = "users" /\ f.spoilt = FALSE
          /\ f.missed = Top.spoilt
      BY <1>3, <2>1, <2>2 DEF Frame, Scans
    <2> HIDE DEF f
    <2>4. GoesOn(f)
      BY <2>1, <2>3 DEF GoesOn
    <2> QED BY <1>1, <1>2, <2>1, <2>3, <2>4
  <1>8. CASE SkipUser \/ QuitServerUser
    <2>1. Running("users") /\ Top.at = "users"
      BY <1>8 DEF SkipUser, QuitServerUser, Running
    <2> DEFINE h == [Top EXCEPT !.scan = HashScanNext(nickhash, @)]
    <2>2. /\ Advanced(nickhash) = <<h>> \o Tail(stack)
          /\ h \in [srv : Server, at : {"users"}, spoilt : BOOLEAN, missed : BOOLEAN,
                    scan : Scans(User)]
          /\ h.srv = Top.srv /\ h.spoilt = Top.spoilt
      BY <2>1, AdvancedUsers
    <2>3. h.missed = Top.missed
      BY <1>3 DEF Frame
    <2> HIDE DEF h
    <2>4. CASE SkipUser /\ ~QuitServerUser
      <3>1. stack' = <<h>> \o Tail(stack)
        BY <2>2, <2>4 DEF SkipUser
      <3>2. GoesOn(h)
        BY <2>1, <2>2, <2>3, <2>4 DEF GoesOn, Frame, Scans
      <3> QED BY <1>1, <1>2, <3>1, <3>2 DEF GoesOn
    <2>5. CASE QuitServerUser
      <3>1. Head(Advanced(nickhash)) = h
        <4>1. Tail(stack) \in Seq(Frame) /\ h \in Frame
          BY <1>1, <1>3, <2>2, HeadTailProperties DEF Frame, Scans
        <4>2. /\ Advanced(nickhash)[1] = h /\ Advanced(nickhash) # <<>>
              /\ Advanced(nickhash) \in Seq(Frame)
          BY <2>2, <4>1, Pushed
        <4> QED BY <4>2, HeadTailProperties
      <3> PICK f : f = [h EXCEPT !.spoilt = @ \/ Shrinks(nickhash)]
        OBVIOUS
      <3>2. stack' = <<f>> \o Tail(stack)
        BY <2>5, <3>1 DEF QuitServerUser
      <3>3. /\ f.srv = Top.srv /\ f.at = "users" /\ f.missed = Top.missed
            /\ f.spoilt = (Top.spoilt \/ Shrinks(nickhash))
            /\ f \in [srv : Server, at : {"users"}, spoilt : BOOLEAN, missed : BOOLEAN,
                      scan : Scans(User)]
        BY <2>2, <2>3
      <3>4. GoesOn(f)
        BY <2>1, <2>5, <3>3 DEF GoesOn, Frame, Scans
      <3> QED BY <1>1, <1>2, <3>2, <3>4 DEF GoesOn
    <2> QED BY <1>8, <2>4, <2>5
  <1> QED BY <1>5, <1>6, <1>7, <1>8
-----------------------------------------------------------------------------
(* The steps of the refinement. *)

\* Once the leaves are done, nobody is behind the server any more, unless the
\* scan for them was spoilt.
LeavesGone ==
  stack # <<>> /\ Top.at = "users" /\ ~Top.missed =>
    \A s \in Linked : uplinkname[s] # Top.srv

LEMMA NewTopIs ==
  ASSUME NEW T, NEW s \in Seq(T), NEW f \in T, stack' = <<f>> \o s
  PROVE  Top' = f /\ stack' # <<>>
PROOF
  BY Pushed, HeadTailProperties DEF Top

LEMMA LeavesGoneStep ==
  ASSUME ServersInv, ServersInv', LeavesGone, [ServersNext]_servervars
  PROVE  LeavesGone'
PROOF
  <1>1. CASE UNCHANGED servervars
    <2>1. stack' = stack /\ Linked' = Linked /\ uplinkname' = uplinkname
      BY <1>1 DEF servervars, Linked
    <2> QED BY <2>1 DEF LeavesGone, Top
  <1>2. CASE stack' = <<>>
    BY <1>2 DEF LeavesGone
  <1>3. CASE \E s \in Server : Squit(s)
    <2>1. PICK s \in Server : stack' = <<Call(s)>>
      BY <1>3 DEF Squit
    <2>2. Top' = Call(s)
      BY <2>1 DEF Top
    <2> QED BY <2>2 DEF LeavesGone, Call
  <1>4. CASE LeafStep \/ FreedLeafStep \/ LeavesDone \/ SkipUser \/ QuitServerUser
    <2>1. /\ stack # <<>> /\ UNCHANGED <<uplinkname>> /\ Linked' = Linked
          /\ stack \in Seq(Frame) /\ Tail(stack) \in Seq(Frame) /\ Top \in Frame
      BY <1>4, DelServerMoves, StackFacts, HeadTailProperties
    <2>2. PICK g \in Frame : \/ GoesOn(g) /\ stack' = <<g>> \o Tail(stack)
                             \/ \E n \in Linked : CallsFor(g, n)
      BY <1>4, DelServerMoves
    <2>3. CASE GoesOn(g) /\ stack' = <<g>> \o Tail(stack)
      <3>1. Top' = g
        BY <2>1, <2>3, NewTopIs
      <3>2. CASE g.at = "leaves"
        BY <3>1, <3>2 DEF LeavesGone
      <3>3. CASE Top.at = "leaves" /\ g.at = "users"
        <4>1. g.missed = Top.spoilt /\ Top.scan.next = NULL /\ g.srv = Top.srv
          BY <2>3, <3>3 DEF GoesOn
        <4>2. ~Top.spoilt => \A s \in Linked : uplinkname[s] = Top.srv =>
                               s \in Ahead(serverhash, Top.scan)
          BY <2>1, <3>3, StackFacts DEF Reaches
        <4>3. Ahead(serverhash, Top.scan) = {}
          BY <4>1 DEF Ahead
        <4> QED BY <2>1, <3>1, <4>1, <4>2, <4>3 DEF LeavesGone
      <3>4. CASE Top.at = "users" /\ g.at = "users"
        <4>1. g.missed = Top.missed /\ g.srv = Top.srv
          BY <2>3, <3>4 DEF GoesOn
        <4> QED BY <2>1, <3>1, <3>4, <4>1 DEF LeavesGone
      <3> QED BY <2>3, <3>2, <3>3, <3>4 DEF GoesOn
    <2>4. CASE \E n \in Linked : CallsFor(g, n)
      <3>1. PICK n \in Linked : stack' = <<Call(n)>> \o (<<g>> \o Tail(stack))
        BY <2>4 DEF CallsFor
      <3>2. <<g>> \o Tail(stack) \in Seq(Frame) /\ Call(n) \in Frame /\ Call(n).at = "leaves"
        <4>1. n \in Server
          BY DEF ServersInv, ServersTypeOK
        <4> QED BY <2>1, <4>1, CallFacts, TopChanged
      <3>3. Top' = Call(n)
        BY <3>1, <3>2, NewTopIs
      <3> QED BY <3>2, <3>3 DEF LeavesGone
    <2> QED BY <2>2, <2>3, <2>4
  <1>5. CASE RemoveServer
    <2>1. stack \in Seq(Frame) /\ stack # <<>> /\ Len(stack) \in Nat
      BY <1>5, StackFacts, LenProperties DEF RemoveServer, Running
    <2> DEFINE m == Len(stack) - 1
    <2>2. stack' = [i \in 1 .. m |-> [stack[i + 1] EXCEPT
                       !.spoilt = @ \/ stack[i + 1].scan.next = Top.srv]]
      BY <1>5 DEF RemoveServer
    <2>3. SUFFICES ASSUME stack' # <<>> PROVE Top'.at = "leaves"
      BY DEF LeavesGone
    <2>4. 1 \in 1 .. m /\ 2 \in DOMAIN stack
      <3>1. m \in Nat
        BY <2>1, EmptySeq
      <3>2. m # 0
        <4> HIDE DEF m
        <4>1. DOMAIN stack' = 1 .. m
          BY <2>2
        <4>2. stack' \in Seq(Frame)
          BY DEF ServersInv, ServersTypeOK
        <4>3. DOMAIN stack' = 1 .. Len(stack') /\ Len(stack') \in Nat /\ Len(stack') # 0
          BY <2>3, <4>2, LenProperties, EmptySeq
        <4>4. 1 .. m = 1 .. Len(stack')
          BY <4>1, <4>3
        <4>5. 1 \in 1 .. Len(stack')
          BY <4>3
        <4>6. 1 \in 1 .. m
          BY <4>4, <4>5
        <4> QED BY <3>1, <4>6
      <3>3. DOMAIN stack = 1 .. Len(stack)
        BY <2>1, LenProperties
      <3> QED BY <2>1, <3>1, <3>2, <3>3
    <2>5. Top' = [stack[2] EXCEPT !.spoilt = @ \/ stack[2].scan.next = Top.srv]
      <3>1. Top' = stack'[1]
        <4>1. stack' \in Seq(Frame)
          BY DEF ServersInv, ServersTypeOK
        <4> QED BY <2>3, <4>1, HeadTailProperties DEF Top
      <3> HIDE DEF m
      <3> QED BY <2>2, <2>4, <3>1
    <2>6. stack[2].at = "leaves" /\ stack[2] \in Frame
      BY <2>1, <2>4, ElementOfSeq, LenProperties DEF ServersInv, Calls
    <2> QED BY <2>5, <2>6 DEF Frame
  <1>6. CASE (\E s, up \in Server : AddServer(s, up)) \/ SignOn \/ \E u \in User : QuitUser(u)
    <2>1. stack' = <<>>
      BY <1>6 DEF AddServer, SignOn, QuitUser, Idle
    <2> QED BY <2>1, <1>2
  <1> QED BY <1>1, <1>3, <1>4, <1>5, <1>6 DEF ServersNext, DelServer

\* Between two lines of the uplink all that is there is shown.
LEMMA IdleSteps ==
  ASSUME ServersInv,
         \/ \E s, up \in Server : AddServer(s, up)
         \/ SignOn \/ \E u \in User : QuitUser(u)
  PROVE  UNCHANGED NW!splitsvars \/ NW!SplitsNext
PROOF
  <1>1. stack = <<>> /\ stack' = <<>>
    BY DEF AddServer, SignOn, QuitUser, Idle
  <1>0. Shown = Linked /\ Shown' = Linked' /\ Present = Online /\ Present' = Online'
    BY <1>1 DEF Lost, Shown, Present
  <1>2. /\ Good(serverhash, Server) /\ Good(nickhash, User)
        /\ uplinkname \in [Server -> Server \cup {NULL}] /\ Linked \subseteq Server
        /\ uplink \in [User -> Server \cup {Freed}] /\ Online \subseteq User
    BY DEF ServersInv, ServersTypeOK
  <1>3. CASE \E s, up \in Server : AddServer(s, up)
    <2>1. PICK s \in Server, up \in Server : AddServer(s, up)
      BY <1>3
    <2>2. /\ s \notin Linked /\ up \in Linked /\ uplinkname' = [uplinkname EXCEPT ![s] = up]
          /\ UNCHANGED <<nickhash, uplink>> /\ Online' = Online
      BY <2>1 DEF AddServer, Online
    <2>3. Linked' = Linked \cup {s}
      BY <1>2, <2>1, <2>2, Keys, HashInsertFacts DEF AddServer, Linked
    <2>4. NW!Link(s, up)
      <3>1. [x \in Shown' |-> uplinkname'[x]] =
              [x \in Shown \cup {s} |->
                 IF x = s THEN up ELSE [y \in Shown |-> uplinkname[y]][x]]
        BY <1>0, <1>2, <2>2, <2>3
      <3>2. [u \in Present' |-> uplink'[u]] =
              [u \in Present |-> uplink[u]]
        BY <1>0, <2>2
      <3> QED BY <1>0, <2>2, <3>1, <3>2 DEF NW!Link
    <2> QED BY <2>4 DEF NW!SplitsNext
  <1>4. ASSUME UNCHANGED <<serverhash, uplinkname>>
        PROVE  /\ Linked' = Linked
               /\ [x \in Shown' |-> uplinkname'[x]] = [x \in Shown |-> uplinkname[x]]
    BY <1>0, <1>4 DEF Linked
  <1>5. CASE SignOn
    <2> DEFINE u == Arrivals[signons + 1]
    <2>1. /\ UNCHANGED <<serverhash, uplinkname>> /\ Home[u] \in Linked
          /\ \/ u \in Online /\ UNCHANGED <<nickhash, uplink>>
             \/ /\ u \notin Online /\ nickhash' = HashInsert(nickhash, u)
                /\ uplink' = [uplink EXCEPT ![u] = Home[u]]
      BY <1>5 DEF SignOn
    <2>2. u \in User
      <3>1. signons + 1 \in 1 .. Len(Arrivals) /\ Arrivals \in Seq(User)
        BY <1>5, ServersAssumption, LenProperties DEF SignOn, ServersInv
      <3> QED BY <3>1, ElementOfSeq
    <2> PICK v : v = u
      OBVIOUS
    <2>v. /\ v \in User /\ Home[v] \in Linked /\ UNCHANGED <<serverhash, uplinkname>>
          /\ \/ v \in Online /\ UNCHANGED <<nickhash, uplink>>
             \/ /\ v \notin Online /\ nickhash' = HashInsert(nickhash, v)
                /\ uplink' = [uplink EXCEPT ![v] = Home[v]]
      BY <2>1, <2>2
    <2> HIDE DEF u
    <2>3. CASE v \in Online /\ UNCHANGED <<nickhash, uplink>>
      <3>1. Online' = Online
        BY <2>3 DEF Online
      <3> QED BY <1>0, <1>4, <2>v, <2>3, <3>1, ViewKept
    <2>4. CASE v \notin Online /\ nickhash' = HashInsert(nickhash, v)
               /\ uplink' = [uplink EXCEPT ![v] = Home[v]]
      <3>1. Online' = Online \cup {v}
        BY <1>2, <2>v, <2>4, Keys, HashInsertFacts DEF Online
      <3>2. [x \in Present' |-> uplink'[x]] =
              [x \in Present \cup {v} |->
                 IF x = v THEN Home[v]
                 ELSE [w \in Present |-> uplink[w]][x]]
        BY <1>0, <1>2, <2>v, <2>4, <3>1
      <3>3. NW!SignOn(v, Home[v])
        BY <1>0, <1>4, <2>v, <2>4, <3>2 DEF NW!SignOn
      <3>4. Home[v] \in Server
        BY <1>2, <2>v
      <3>5. \E x \in User, s \in Server : NW!SignOn(x, s)
        BY <2>v, <3>3, <3>4
      <3> QED BY <3>5 DEF NW!SplitsNext
    <2> QED BY <2>v, <2>3, <2>4
  <1>6. CASE \E u \in User : QuitUser(u)
    <2>1. PICK u \in User : QuitUser(u)
      BY <1>6
    <2>2. /\ u \in Online /\ nickhash' = HashDelete(nickhash, u)
          /\ UNCHANGED <<serverhash, uplinkname, uplink>>
      BY <2>1 DEF QuitUser, DelUser
    <2>3. Online' = Online \ {u}
      BY <1>2, <2>2, Keys, HashDeleteFacts DEF Online
    <2>4. [v \in Present' |-> uplink'[v]] =
            [v \in Present \ {u} |->
               [w \in Present |-> uplink[w]][v]]
      BY <1>0, <2>2, <2>3
    <2>5. NW!Quit(u)
      BY <1>0, <1>4, <2>2, <2>4 DEF NW!Quit
    <2> QED BY <2>5 DEF NW!SplitsNext
  <1> QED BY <1>3, <1>5, <1>6

\* With a SQUIT the branch is no longer shown.
LEMMA SquitIsSplit ==
  ASSUME ServersInv, NEW s \in Server, Squit(s)
  PROVE  NW!Split(s)
PROOF
  <1>1. /\ s \in Linked \ {me} /\ stack = <<>> /\ stack' = <<Call(s)>> /\ Lost = {}
        /\ UNCHANGED <<serverhash, uplinkname, nickhash, uplink>>
    BY DEF Squit, Idle, Lost
  <1>2. Linked' = Linked /\ Online' = Online
    BY <1>1 DEF Linked, Online
  <1> DEFINE b == Branch(Linked, uplinkname, s)
             behind == [x \in Linked |-> uplinkname[x]]
  <1>3. Lost' = b
    <2>1. stack' # <<>> /\ Len(stack') = 1 /\ stack'[1].srv = s
      BY <1>1 DEF Call
    <2> QED BY <1>1, <1>2, <2>1 DEF Lost
  <1>4. Branch(Linked, behind, s) = b
    BY DEF Branch
  <1> HIDE DEF b
  <1>0. /\ Shown = Linked /\ Shown' = Linked \ b
        /\ Present = Online /\ Present' = {u \in Online : uplink[u] \notin b}
    BY <1>1, <1>2, <1>3 DEF Shown, Present
  <1>5. [x \in Shown' |-> uplinkname'[x]] = [x \in Linked \ b |-> behind[x]]
    BY <1>0, <1>1
  <1>6. [u \in Present' |-> uplink'[u]] =
          [u \in {u \in Online : [v \in Online |-> uplink[v]][u] \notin b} |->
             [v \in Online |-> uplink[v]][u]]
    BY <1>0, <1>1
  <1>7. /\ [x \in Shown |-> uplinkname[x]] = behind
        /\ [u \in Present |-> uplink[u]] =
             [u \in Online |-> uplink[u]]
    BY <1>0
  <1>8. s \in Linked \ {me} /\ DOMAIN behind = Linked
    BY <1>1
  <1> DEFINE shown == [x \in Shown |-> uplinkname[x]]
             present == [u \in Present |-> uplink[u]]
  <1>9. NW!Split(s) <=>
          /\ s \in DOMAIN shown \ {me}
          /\ [x \in Shown' |-> uplinkname'[x]] =
               [x \in DOMAIN shown \ NW!Branch(DOMAIN shown, shown, s) |-> shown[x]]
          /\ [u \in Present' |-> uplink'[u]] =
               [u \in {u \in DOMAIN present :
                        present[u] \notin NW!Branch(DOMAIN shown, shown, s)} |-> present[u]]
    BY DEF NW!Split
  <1>b. NW!Branch(Linked, behind, s) = b
    BY <1>4 DEF NW!Branch, Branch
  <1>10. DOMAIN shown = Linked /\ NW!Branch(DOMAIN shown, shown, s) = b
    BY <1>b, <1>7, <1>8
  <1>11. DOMAIN present = Online /\ present = [v \in Online |-> uplink[v]]
    BY <1>7
  <1>12. shown = behind
    BY <1>7
  <1> HIDE DEF behind, shown, present
  <1> QED BY <1>5, <1>6, <1>8, <1>9, <1>10, <1>11, <1>12

\* While the branch is taken down nothing that is shown changes, but for what
\* a spoilt scan leaves behind.
LEMMA CallsAreNotSeen ==
  ASSUME ServersInv, ServersInv',
         LeafStep \/ FreedLeafStep \/ LeavesDone \/ SkipUser \/ QuitServerUser
  PROVE  UNCHANGED NW!splitsvars
PROOF
  <1>1. /\ stack # <<>> /\ UNCHANGED <<serverhash, uplinkname, uplink>> /\ Linked' = Linked
        /\ ~QuitServerUser => UNCHANGED nickhash
    BY DelServerMoves
  <1>2. PICK g \in Frame : \/ GoesOn(g) /\ stack' = <<g>> \o Tail(stack)
                           \/ \E n \in Linked : CallsFor(g, n)
    BY DelServerMoves
  <1>3. Root' = Root /\ stack' # <<>>
    <2>1. CASE GoesOn(g) /\ stack' = <<g>> \o Tail(stack)
      BY <1>1, <2>1, RootOfTop DEF GoesOn
    <2>2. CASE \E n \in Linked : CallsFor(g, n)
      <3>1. PICK n \in Linked : stack' = <<Call(n)>> \o (<<g>> \o Tail(stack)) /\ g.srv = Top.srv
        BY <2>2 DEF CallsFor, GoesOn
      <3>2. Call(n) \in Frame
        BY CallFacts DEF ServersInv, ServersTypeOK
      <3> QED BY <1>1, <3>1, <3>2, RootOfCall
    <2> QED BY <1>2, <2>1, <2>2
  <1>4. Lost' = Lost
    BY <1>1, <1>3, CallsMoveOn
  <1>5. Present' = Present
    <2>1. CASE QuitServerUser
      <3>1. /\ Top.scan.next \in Online /\ uplink[Top.scan.next] = Top.srv
            /\ nickhash' = HashDelete(nickhash, Top.scan.next)
        BY <2>1 DEF QuitServerUser, DelUser
      <3>2. Online' = Online \ {Top.scan.next}
        BY <3>1, Keys, HashDeleteFacts DEF Online, ServersInv
      <3>3. Top.srv \in Lost
        BY <1>1, CallsOnBranch, StackFacts
      <3> QED BY <1>1, <1>4, <3>1, <3>2, <3>3 DEF Present
    <2>2. CASE ~QuitServerUser
      BY <1>1, <1>4, <2>2 DEF Online, Present
    <2> QED BY <2>1, <2>2
  <1> QED BY <1>1, <1>4, <1>5, ViewKept DEF Shown

LEMMA RemovalIsNotSeen ==
  ASSUME ServersInv, ServersInv', LeavesGone, RemoveServer, ~Missed
  PROVE  UNCHANGED NW!splitsvars
PROOF
  <1> DEFINE x == Top.srv
             m == Len(stack) - 1
  <1>1. /\ stack # <<>> /\ Top.at = "users" /\ ~Top.missed /\ ~Top.spoilt /\ Top.scan.next = NULL
        /\ serverhash' = HashScanDelete(serverhash, x)
        /\ uplink' = [u \in User |-> IF uplink[u] = x THEN Freed ELSE uplink[u]]
        /\ stack' = [i \in 1 .. m |-> Returned(stack[i + 1], x)]
        /\ UNCHANGED <<uplinkname, nickhash>>
    BY DEF RemoveServer, Running, Missed, Returned
  <1>2. /\ stack \in Seq(Frame) /\ Top = stack[1] /\ 1 \in DOMAIN stack /\ x \in Linked
        /\ \A i \in DOMAIN stack : stack[i] \in Frame
    BY <1>1, StackFacts
  <1>3. Linked' = Linked \ {x} /\ Online' = Online
    <2>1. Good(serverhash, Server) /\ x \in Nodes(serverhash)
      BY <1>2 DEF ServersInv, Linked
    <2> HIDE DEF x
    <2>2. Nodes(HashScanDelete(serverhash, x)) = Nodes(serverhash) \ {x}
      BY <2>1, Keys, HashScanDeleteFacts DEF Unlinked
    <2> QED BY <1>1, <2>2 DEF Linked, Online
  <1>4. \A s \in Linked : uplinkname[s] # x
    BY <1>1 DEF LeavesGone
  <1>5. \A u \in Online : uplink[u] # x
    <2>1. \A u \in Online : uplink[u] = x => u \in Ahead(nickhash, Top.scan)
      BY <1>1, StackFacts DEF Reaches
    <2>2. Ahead(nickhash, Top.scan) = {}
      BY <1>1 DEF Ahead
    <2> QED BY <2>1, <2>2
  <1>6. \A u \in Online : uplink'[u] = uplink[u]
    <2>1. Online \subseteq User
      BY DEF ServersInv, ServersTypeOK
    <2> QED BY <1>1, <1>5, <2>1
  <1>7. Lost' = Lost \ {x} /\ x \in Lost
    <2>1. /\ Root \in Linked /\ Lost = Branch(Linked, uplinkname, Root) /\ x \in Lost
      BY <1>1, <1>2, CallsOnBranch
    <2>2. Len(stack) \in Nat /\ Len(stack) >= 1 /\ DOMAIN stack = 1 .. Len(stack)
      BY <1>1, <1>2, LenProperties, EmptySeq
    <2>3. CASE m = 0
      <3>1. Root = x
        <4>1. Len(stack) = 1
          <5>1. \A k \in Nat : k - 1 = 0 => k = 1
            OBVIOUS
          <5> QED BY <2>2, <2>3, <5>1
        <4> QED BY <1>2, <4>1 DEF Root
      <3>2. Lost = {x}
        BY <1>2, <1>4, <2>1, <3>1, BranchEnd
      <3>3. stack' = <<>>
        <4>1. stack' \in Seq(Frame)
          BY DEF ServersInv, ServersTypeOK
        <4>2. DOMAIN stack' = {}
          <5> HIDE DEF x, m
          <5>1. DOMAIN stack' = 1 .. m
            BY <1>1
          <5> QED BY <2>3, <5>1
        <4>3. Len(stack') = 0
          <5>1. Len(stack') \in Nat /\ DOMAIN stack' = 1 .. Len(stack')
            BY <4>1, LenProperties
          <5> QED BY <4>2, <5>1
        <4> QED BY <4>1, <4>3, EmptySeq
      <3>4. Lost' = {}
        BY <3>3 DEF Lost
      <3> QED BY <3>2, <3>4
    <2>4. CASE m # 0
      <3>1. m \in Nat /\ m \in 1 .. m /\ m + 1 = Len(stack) /\ Len(stack) \in DOMAIN stack
        BY <2>2, <2>4
      <3>2. Root # x
        <4>1. Len(stack) > 1
          BY <2>2, <2>4
        <4> QED BY <1>2, <3>1, <4>1, BranchHasNoLoop DEF Root
      <3>3. Len(stack') = m /\ stack' # <<>> /\ stack'[m] = Returned(stack[Len(stack)], x)
        <4>1. stack' \in Seq(Frame)
          BY DEF ServersInv, ServersTypeOK
        <4> HIDE DEF x, m
        <4>2. DOMAIN stack' = 1 .. m /\ stack'[m] = Returned(stack[Len(stack)], x)
          BY <1>1, <3>1
        <4>3. Len(stack') \in Nat /\ DOMAIN stack' = 1 .. Len(stack')
          BY <4>1, LenProperties
        <4>4. Len(stack') = m
          BY <3>1, <4>2, <4>3
        <4>5. m # 0
          BY <2>4
        <4> QED BY <4>1, <4>2, <4>4, <4>5, EmptySeq
      <3>4. stack'[Len(stack')].srv = Root
        <4>1. stack[Len(stack)] \in Frame
          BY <1>2, <3>1
        <4>2. Returned(stack[Len(stack)], x).srv = stack[Len(stack)].srv
          BY <4>1 DEF Returned, Frame
        <4> QED BY <3>3, <4>2 DEF Root
      <3>5. Lost' = Branch(Linked \ {x}, uplinkname, Root)
        BY <1>1, <1>3, <3>3, <3>4 DEF Lost
      <3>6. Branch(Linked \ {x}, uplinkname, Root) = Branch(Linked, uplinkname, Root) \ {x}
        <4> HIDE DEF x
        <4> QED BY <1>2, <1>4, <2>1, <3>2, BranchTrimmed
      <3> QED BY <2>1, <3>5, <3>6
    <2> QED BY <2>3, <2>4
  <1> HIDE DEF x, m
  <1>8. Shown' = Shown
    BY <1>3, <1>7 DEF Shown
  <1>9. Present' = Present
    <2>1. \A u \in Online : uplink'[u] \notin Lost' <=> uplink[u] \notin Lost
      BY <1>5, <1>6, <1>7
    <2> QED BY <1>3, <2>1 DEF Present
  <1>10. \A u \in Present : uplink'[u] = uplink[u]
    BY <1>6 DEF Present
  <1> QED BY <1>1, <1>8, <1>9, <1>10, ViewKept

\* A step of the program is one of the network, or is not seen in it, or leaves
\* something behind that a spoilt scan has missed.
LEMMA ViewStep ==
  ASSUME ServersInv, ServersInv', LeavesGone, ServersNext
  PROVE  \/ UNCHANGED NW!splitsvars \/ NW!SplitsNext
         \/ RemoveServer /\ Missed
PROOF
  <1>1. CASE (\E s, up \in Server : AddServer(s, up)) \/ SignOn \/ \E u \in User : QuitUser(u)
    BY <1>1, IdleSteps
  <1>2. CASE \E s \in Server : Squit(s)
    <2>1. PICK s \in Server : NW!Split(s)
      BY <1>2, SquitIsSplit
    <2> QED BY <2>1 DEF NW!SplitsNext
  <1>3. CASE LeafStep \/ FreedLeafStep \/ LeavesDone \/ SkipUser \/ QuitServerUser
    BY <1>3, CallsAreNotSeen
  <1>4. CASE RemoveServer
    BY <1>4, RemovalIsNotSeen
  <1> QED BY <1>1, <1>2, <1>3, <1>4 DEF ServersNext, DelServer

LEMMA LeavesAreGone == ServersSpec => [](ServersInv /\ LeavesGone)
PROOF
  <1>1. ServersInit => LeavesGone
    BY DEF ServersInit, LeavesGone
  <1>2. ServersInv /\ ServersInv' /\ LeavesGone /\ [ServersNext]_servervars => LeavesGone'
    BY LeavesGoneStep
  <1> QED BY <1>1, <1>2, ServersInvariant, PTL DEF ServersSpec

\* A split is one step of the network that NeoStats shows: whatever the order
\* of the tables and the depth of the tree, the calls of DelServer are not seen
\* in it, but for the removal of a server whose own scans have been spoilt.
THEOREM SplitsStayWhole == ServersSpec => SplitsAreWhole
PROOF
  <1> DEFINE A == \/ UNCHANGED NW!splitsvars
                  \/ NW!SplitsNext
                  \/ RemoveServer /\ Missed
  <1>1. /\ ServersInv /\ LeavesGone /\ (ServersInv /\ LeavesGone)' /\ [ServersNext]_servervars
        => [A]_servervars
    BY ViewStep
  <1>2. ServersSpec => [][A]_servervars
    <2> HIDE DEF A
    <2> QED BY <1>1, LeavesAreGone, PTL DEF ServersSpec
  <1> QED BY <1>2 DEF SplitsAreWhole

\* As long as no server is removed whose scans were spoilt, NeoStats implements
\* the network of Splits: its servers and users at each moment are those of a tree
\* that loses its branches whole.
THEOREM ServersFollowSplits ==
  ServersSpec /\ [][~(RemoveServer /\ Missed)]_servervars => NW!SplitsSpec
PROOF
  <1>1. ServersInit => NW!SplitsInit
    <2> SUFFICES ASSUME ServersInit PROVE NW!SplitsInit
      OBVIOUS
    <2>1. /\ serverhash = HashInsert(EmptyTable, me) /\ nickhash = EmptyTable /\ stack = <<>>
          /\ uplinkname = [s \in Server |-> NULL] /\ me \in Server
      BY ServersAssumption DEF ServersInit
    <2>2. Linked = {me} /\ Online = {}
      BY <2>1, Keys, EmptyTableIsGood, HashInsertFacts DEF Linked, Online
    <2>3. Shown = {me} /\ Present = {}
      BY <2>1, <2>2 DEF Shown, Present, Lost
    <2>4. /\ [s \in Shown |-> uplinkname[s]] = [s \in {me} |-> NULL]
          /\ [u \in Present |-> uplink[u]] = [u \in {} |-> me]
      BY <2>1, <2>3
    <2> QED BY <2>4 DEF NW!SplitsInit
  <1>2. /\ ServersInv /\ LeavesGone /\ (ServersInv /\ LeavesGone)'
        /\ [~(RemoveServer /\ Missed)]_servervars /\ [ServersNext]_servervars
        => [NW!SplitsNext]_NW!splitsvars
    <2>1. CASE UNCHANGED servervars
      <3>1. /\ Shown' = Shown /\ Present' = Present
            /\ uplinkname' = uplinkname /\ uplink' = uplink
        BY <2>1 DEF servervars, Shown, Present, Lost, Linked, Online
      <3> QED BY <3>1, ViewKept
    <2>2. CASE ServersNext /\ ~(RemoveServer /\ Missed)
      BY <2>2, ViewStep
    <2> QED BY <2>1, <2>2
  <1> QED BY <1>1, <1>2, LeavesAreGone, PTL DEF ServersSpec, NW!SplitsSpec
-----------------------------------------------------------------------------
(* Small networks: where no scan of DelServer can be spoilt. *)

\* No server is more than two links away from us.
Shallow == \A s \in Linked \ {me} : uplinkname[s] = me \/ uplinkname[uplinkname[s]] = me

\* The table of users has doubled once at the most.
Few == Cardinality(Online) <= 4 * InitSize

SmallInv ==
  /\ nickhash.nchains \in {InitSize, 2 * InitSize}
  /\ \A i \in DOMAIN stack : ~stack[i].spoilt /\ ~stack[i].missed
  /\ \A i \in DOMAIN stack : i > 1 => stack[i].scan.next # stack[i - 1].srv
  /\ ~usedfreed /\ PictureRight
  /\ \A u \in Online : uplink[u] # Freed

\* A table that has doubled once at the most is not halved.
LEMMA SmallTable ==
  ASSUME NEW S, NEW t, Good(t, S), t.nchains \in {InitSize, 2 * InitSize}
  PROVE  /\ ~Shrinks(t)
         /\ \A x : HashDelete(t, x).nchains = t.nchains
PROOF
  <1>1. ~Shrinks(t)
    <2>1. /\ t.lowmark \in Nat /\ 2 * t.lowmark <= t.nchains /\ InitSize \in Nat
          /\ t.nodecount \in Nat
      BY HashAssumption, FS_CardinalityType DEF Good
    <2>2. t.lowmark <= InitSize
      BY <2>1
    <2> QED BY <2>1, <2>2 DEF Shrinks
  <1>2. ASSUME NEW x PROVE HashDelete(t, x).nchains = t.nchains
    <2>1. HashDelete(t, x) = HashScanDelete(t, x)
      BY <1>1 DEF HashDelete
    <2> QED BY <2>1 DEF HashScanDelete, WithChain, Good, Table
  <1> QED BY <1>1, <1>2

LEMMA SmallInsert ==
  ASSUME NEW S, Keyed(S), NEW t, Good(t, S), t.nchains \in {InitSize, 2 * InitSize},
         NEW x \in S, x \notin Nodes(t), Cardinality(Nodes(t) \cup {x}) <= 4 * InitSize
  PROVE  HashInsert(t, x).nchains \in {InitSize, 2 * InitSize}
PROOF
  <1>1. /\ t.nodecount \in Nat /\ t.nodecount + 1 <= 4 * InitSize /\ t.highmark = 2 * t.nchains
        /\ InitSize \in Nat
    <2>1. /\ IsFiniteSet(Nodes(t)) /\ t.nodecount = Cardinality(Nodes(t))
          /\ t.highmark = 2 * t.nchains
      BY DEF Good
    <2>2. Cardinality(Nodes(t)) \in Nat
      BY <2>1, FS_CardinalityType
    <2>3. Cardinality(Nodes(t) \cup {x}) = Cardinality(Nodes(t)) + 1
      BY <2>1, FS_AddElement
    <2> QED BY <2>1, <2>2, <2>3, HashAssumption
  <1> DEFINE g == IF t.nodecount >= t.highmark THEN Grow(t) ELSE t
  <1>2. g.nchains \in {InitSize, 2 * InitSize}
    <2>1. CASE t.nodecount >= t.highmark
      <3>1. t.nchains = InitSize
        BY <1>1, <2>1
      <3>2. g.nchains = 2 * t.nchains
        BY <2>1 DEF Grow
      <3> QED BY <3>1, <3>2
    <2>2. CASE ~(t.nodecount >= t.highmark)
      BY <2>2
    <2> QED BY <2>1, <2>2
  <1>3. g \in Table(S)
    <2>1. CASE t.nodecount >= t.highmark
      BY <2>1, GrowFacts DEF Good
    <2>2. CASE ~(t.nodecount >= t.highmark)
      BY <2>2 DEF Good
    <2> QED BY <2>1, <2>2
  <1>4. HashInsert(t, x).nchains = g.nchains
    <2>1. HashInsert(t, x) =
            WithChain(g, ChainOf(g, x), <<x>> \o g.chains[ChainOf(g, x)], g.nodecount + 1)
      BY DEF HashInsert
    <2> HIDE DEF g
    <2> QED BY <1>3, <2>1 DEF WithChain, Table
  <1> QED BY <1>2, <1>4

\* The innermost call is not spoilt, and its scan for leaves stands at a server
\* that is still linked.
LEMMA SmallCalls ==
  ASSUME ServersInv, SmallInv, stack # <<>>
  PROVE  /\ ~Top.spoilt /\ ~Top.missed /\ ~Missed /\ ~Shrinks(nickhash)
         /\ Top.at = "leaves" => Top.scan.next \in Linked \cup {NULL}
PROOF
  <1>1. 1 \in DOMAIN stack /\ Top = stack[1] /\ (~Top.spoilt => ScanOf(Top))
    BY StackFacts
  <1>2. ~Top.spoilt /\ ~Top.missed
    BY <1>1 DEF SmallInv
  <1>3. ~Shrinks(nickhash)
    BY SmallTable DEF SmallInv, ServersInv
  <1>4. Top.at = "leaves" => Top.scan.next \in Linked \cup {NULL}
    BY <1>1, <1>2 DEF ScanOf, ScanAt, Linked
  <1> QED BY <1>2, <1>3, <1>4 DEF Missed

\* Two servers at most are being removed at a time.
LEMMA ShallowCalls ==
  ASSUME ServersInv, Shallow, NEW i \in DOMAIN stack
  PROVE  i = 1 \/ i = 2
PROOF
  <1>1. Len(stack) \in Nat /\ DOMAIN stack = 1 .. Len(stack) /\ i \in Nat
    BY LenProperties DEF ServersInv, ServersTypeOK
  <1> SUFFICES ASSUME i > 2 PROVE FALSE
    BY <1>1
  <1>2. 1 \in DOMAIN stack /\ 2 \in DOMAIN stack /\ 3 \in DOMAIN stack
    BY <1>1
  <1>3. \A k \in DOMAIN stack : stack[k].srv \in Linked \ {me}
    BY DEF ServersInv, Calls
  <1>4. /\ uplinkname[stack[1].srv] = stack[2].srv
        /\ uplinkname[stack[2].srv] = stack[3].srv
    <2>1. \A k \in DOMAIN stack : k > 1 => uplinkname[stack[k - 1].srv] = stack[k].srv
      BY DEF ServersInv, Calls
    <2> QED BY <1>2, <2>1
  <1>5. uplinkname[stack[1].srv] = me \/ uplinkname[uplinkname[stack[1].srv]] = me
    BY <1>2, <1>3 DEF Shallow
  <1> QED BY <1>2, <1>3, <1>4, <1>5

LEMMA InitSmall == ASSUME ServersInit PROVE SmallInv
PROOF
  <1>1. /\ stack = <<>> /\ usedfreed = FALSE /\ nickhash = EmptyTable
        /\ serverhash = HashInsert(EmptyTable, me) /\ me \in Server
    BY ServersAssumption DEF ServersInit
  <1>2. nickhash.nchains = InitSize
    BY <1>1 DEF EmptyTable
  <1>3. Linked = {me} /\ Online = {}
    BY <1>1, Keys, EmptyTableIsGood, HashInsertFacts DEF Linked, Online
  <1>4. DOMAIN stack = {}
    BY <1>1
  <1> QED BY <1>1, <1>2, <1>3, <1>4 DEF SmallInv, PictureRight

LEMMA SmallIdle ==
  ASSUME ServersInv, ServersInv', SmallInv, Few',
         \/ \E s, up \in Server : AddServer(s, up)
         \/ SignOn \/ \E u \in User : QuitUser(u)
  PROVE  SmallInv'
PROOF
  <1>0. stack = <<>> /\ stack' = <<>> /\ ~usedfreed
    BY DEF AddServer, SignOn, QuitUser, Idle
  <1>1. stack = <<>> /\ stack' = <<>> /\ DOMAIN stack' = {} /\ ~usedfreed
    BY <1>0
  <1>2. /\ Good(serverhash, Server) /\ Good(nickhash, User)
        /\ uplinkname \in [Server -> Server \cup {NULL}] /\ Linked \subseteq Server
        /\ uplink \in [User -> Server \cup {Freed}] /\ Online \subseteq User
    BY DEF ServersInv, ServersTypeOK
  <1>3. CASE \E s, up \in Server : AddServer(s, up)
    <2>1. PICK s \in Server, up \in Server : AddServer(s, up)
      BY <1>3
    <2>2. /\ s \notin Linked /\ up \in Linked /\ uplinkname' = [uplinkname EXCEPT ![s] = up]
          /\ UNCHANGED <<nickhash, uplink, usedfreed>> /\ Online' = Online
      BY <2>1 DEF AddServer, Online
    <2>3. Linked' = Linked \cup {s}
      BY <1>2, <2>1, <2>2, Keys, HashInsertFacts DEF AddServer, Linked
    <2>4. PictureRight'
      BY <1>2, <2>2, <2>3 DEF PictureRight, SmallInv
    <2> QED BY <1>1, <2>2, <2>4 DEF SmallInv
  <1>4. ASSUME UNCHANGED <<serverhash, uplinkname>>
        PROVE  PictureRight'
    BY <1>4 DEF PictureRight, Linked, SmallInv
  <1>5. CASE SignOn
    <2> DEFINE u == Arrivals[signons + 1]
    <2>1. /\ UNCHANGED <<serverhash, uplinkname, usedfreed>> /\ Home[u] \in Linked
          /\ \/ u \in Online /\ UNCHANGED <<nickhash, uplink>>
             \/ /\ u \notin Online /\ nickhash' = HashInsert(nickhash, u)
                /\ uplink' = [uplink EXCEPT ![u] = Home[u]]
      BY <1>5 DEF SignOn
    <2>2. u \in User
      <3>1. signons + 1 \in 1 .. Len(Arrivals) /\ Arrivals \in Seq(User)
        BY <1>5, ServersAssumption, LenProperties DEF SignOn, ServersInv
      <3> QED BY <3>1, ElementOfSeq
    <2> HIDE DEF u
    <2>3. CASE u \in Online /\ UNCHANGED <<nickhash, uplink>>
      <3>1. Online' = Online
        BY <2>3 DEF Online
      <3> QED BY <1>1, <1>4, <2>1, <2>3, <3>1 DEF SmallInv
    <2>4. CASE u \notin Online /\ nickhash' = HashInsert(nickhash, u)
               /\ uplink' = [uplink EXCEPT ![u] = Home[u]]
      <3>1. Online' = Online \cup {u}
        BY <1>2, <2>2, <2>4, Keys, HashInsertFacts DEF Online
      <3>2. nickhash'.nchains \in {InitSize, 2 * InitSize}
        <4>1. Cardinality(Nodes(nickhash) \cup {u}) <= 4 * InitSize
          BY <3>1 DEF Few, Online
        <4>2. nickhash.nchains \in {InitSize, 2 * InitSize}
          BY DEF SmallInv
        <4> QED BY <1>2, <2>2, <2>4, <4>1, <4>2, Keys, SmallInsert DEF Online
      <3>3. \A v \in Online' : uplink'[v] # Freed
        <4>1. Home[u] # Freed
          BY <1>2, <2>1, Keys
        <4> QED BY <1>2, <2>2, <2>4, <3>1, <4>1 DEF SmallInv
      <3> QED BY <1>1, <1>4, <2>1, <3>2, <3>3 DEF SmallInv
    <2> QED BY <2>1, <2>3, <2>4
  <1>6. CASE \E u \in User : QuitUser(u)
    <2>1. PICK u \in User : QuitUser(u)
      BY <1>6
    <2>2. /\ u \in Online /\ nickhash' = HashDelete(nickhash, u)
          /\ UNCHANGED <<serverhash, uplinkname, uplink>>
          /\ usedfreed' \in IF uplink[u] = Freed THEN BOOLEAN ELSE {FALSE}
      BY <2>1 DEF QuitUser, DelUser
    <2>3. Online' = Online \ {u}
      BY <1>2, <2>2, Keys, HashDeleteFacts DEF Online
    <2>4. ~usedfreed'
      BY <2>2 DEF SmallInv
    <2>5. nickhash'.nchains = nickhash.nchains
      BY <1>2, <2>2, SmallTable DEF SmallInv
    <2> QED BY <1>1, <1>4, <2>2, <2>3, <2>4, <2>5 DEF SmallInv
  <1> QED BY <1>3, <1>5, <1>6

\* The calls of a small network go on without being spoilt.
LEMMA SmallMoves ==
  ASSUME ServersInv, ServersInv', SmallInv,
         LeafStep \/ FreedLeafStep \/ LeavesDone \/ SkipUser \/ QuitServerUser
  PROVE  SmallInv'
PROOF
  <1>1. /\ stack # <<>> /\ UNCHANGED <<serverhash, uplinkname, uplink>> /\ Linked' = Linked
        /\ ~QuitServerUser => UNCHANGED nickhash
    BY DelServerMoves
  <1>2. /\ ~Top.spoilt /\ ~Top.missed /\ ~Shrinks(nickhash)
        /\ Top.at = "leaves" => Top.scan.next \in Linked \cup {NULL}
    BY <1>1, SmallCalls
  <1>3. ~FreedLeafStep /\ usedfreed' = usedfreed
    <2>1. ~FreedLeafStep
      BY <1>2 DEF FreedLeafStep, Running
    <2> QED BY <2>1 DEF LeafStep, LeavesDone, SkipUser, QuitServerUser
  <1>4. PictureRight' /\ ~usedfreed'
    BY <1>1, <1>3 DEF PictureRight, SmallInv
  <1>5. nickhash'.nchains = nickhash.nchains /\ Online' \subseteq Online
    <2>1. CASE QuitServerUser
      <3>1. Top.scan.next \in Online /\ nickhash' = HashDelete(nickhash, Top.scan.next)
        BY <2>1 DEF QuitServerUser, DelUser
      <3>2. Good(nickhash, User)
        BY DEF ServersInv
      <3>3. Online' = Online \ {Top.scan.next}
        BY <3>1, <3>2, Keys, HashDeleteFacts DEF Online
      <3> QED BY <3>1, <3>2, <3>3, SmallTable DEF SmallInv
    <2>2. CASE ~QuitServerUser
      BY <1>1, <2>2 DEF Online
    <2> QED BY <2>1, <2>2
  <1>6. \A u \in Online' : uplink'[u] # Freed
    BY <1>1, <1>5 DEF SmallInv
  <1>7. PICK g \in Frame : \/ GoesOn(g) /\ stack' = <<g>> \o Tail(stack)
                           \/ \E n \in Linked : CallsFor(g, n)
    BY DelServerMoves
  <1>8. ~g.spoilt /\ ~g.missed /\ g.srv = Top.srv
    <2>1. GoesOn(g)
      BY <1>7 DEF CallsFor
    <2>2. g.at = "leaves" => ~g.missed
      BY DEF Frame
    <2> QED BY <1>2, <2>1, <2>2 DEF GoesOn
  <1> DEFINE old == <<g>> \o Tail(stack)
  <1>9. /\ stack \in Seq(Frame) /\ Top = stack[1] /\ 1 \in DOMAIN stack
        /\ \A i \in DOMAIN stack : i \in Nat /\ i >= 1
        /\ \A i \in DOMAIN stack : i > 1 => i - 1 \in DOMAIN stack
    BY <1>1, StackFacts
  <1>10. /\ old \in Seq(Frame) /\ old[1] = g /\ DOMAIN old = DOMAIN stack
         /\ \A i \in DOMAIN stack : i > 1 => old[i] = stack[i]
    BY <1>1, <1>9, TopChanged
  <1> HIDE DEF old
  <1>11. \A i \in DOMAIN old : /\ ~old[i].spoilt /\ ~old[i].missed
                               /\ i > 1 => old[i].scan.next # old[i - 1].srv
    <2> SUFFICES ASSUME NEW i \in DOMAIN stack
                 PROVE  /\ ~old[i].spoilt /\ ~old[i].missed
                        /\ i > 1 => old[i].scan.next # old[i - 1].srv
      BY <1>10
    <2>1. CASE i = 1
      BY <1>8, <1>10, <2>1
    <2>2. CASE i > 1
      <3>1. old[i] = stack[i] /\ i - 1 \in DOMAIN stack
        BY <1>9, <1>10, <2>2
      <3>2. old[i - 1].srv = stack[i - 1].srv
        <4>1. i - 1 = 1 \/ i - 1 > 1
          BY <1>9, <2>2
        <4> QED BY <1>8, <1>9, <1>10, <3>1, <4>1
      <3>3. ~stack[i].spoilt /\ ~stack[i].missed /\ stack[i].scan.next # stack[i - 1].srv
        BY <2>2 DEF SmallInv
      <3> QED BY <3>1, <3>2, <3>3
    <2> QED BY <1>9, <2>1, <2>2
  <1>12. \A i \in DOMAIN stack' : /\ ~stack'[i].spoilt /\ ~stack'[i].missed
                                  /\ i > 1 => stack'[i].scan.next # stack'[i - 1].srv
    <2>1. CASE GoesOn(g) /\ stack' = <<g>> \o Tail(stack)
      <3>1. stack' = old
        BY <2>1 DEF old
      <3> QED BY <1>11, <3>1
    <2>2. CASE \E n \in Linked : CallsFor(g, n)
      <3>1. PICK n \in Linked : CallsFor(g, n)
        BY <2>2
      <3>2. stack' = <<Call(n)>> \o old /\ g.scan.next # n
        BY <1>2, <3>1 DEF CallsFor, old
      <3>3. Call(n) \in Frame /\ Call(n).srv = n /\ ~Call(n).spoilt /\ ~Call(n).missed
        <4>1. n \in Server
          BY DEF ServersInv, ServersTypeOK
        <4>2. Call(n) \in Frame /\ Call(n).srv = n /\ ~Call(n).spoilt
          BY <4>1, CallFacts
        <4> QED BY <4>2 DEF Call
      <3> PICK c : c = Call(n)
        OBVIOUS
      <3>4. /\ stack'[1] = c
            /\ \A i \in DOMAIN stack' : i \in Nat /\ i >= 1
            /\ \A i \in DOMAIN stack' : i > 1 => i - 1 \in DOMAIN old /\ stack'[i] = old[i - 1]
        BY <1>10, <3>2, <3>3, Pushed
      <3> SUFFICES ASSUME NEW i \in DOMAIN stack'
                   PROVE  /\ ~stack'[i].spoilt /\ ~stack'[i].missed
                          /\ i > 1 => stack'[i].scan.next # stack'[i - 1].srv
        OBVIOUS
      <3>5. CASE i = 1
        BY <3>3, <3>4, <3>5
      <3>6. CASE i > 1
        <4>1. i \in Nat /\ i - 1 \in DOMAIN old /\ stack'[i] = old[i - 1]
          BY <3>4, <3>6
        <4>2. ~old[i - 1].spoilt /\ ~old[i - 1].missed
          BY <1>11, <4>1
        <4>3. stack'[i].scan.next # stack'[i - 1].srv
          <5>1. CASE i = 2
            <6>1. stack'[2] = g /\ i - 1 = 1
              BY <1>10, <4>1, <5>1
            <6> QED BY <3>2, <3>3, <3>4, <5>1, <6>1
          <5>2. CASE i > 2
            <6>1. i - 1 \in DOMAIN stack'  /\ i - 1 > 1
              <7>1. stack' \in Seq(Frame)
                BY DEF ServersInv, ServersTypeOK
              <7>2. DOMAIN stack' = 1 .. Len(stack') /\ Len(stack') \in Nat
                BY <7>1, LenProperties
              <7> QED BY <4>1, <5>2, <7>2
            <6>2. stack'[i - 1] = old[(i - 1) - 1]
              BY <3>4, <6>1
            <6> QED BY <1>11, <4>1, <6>1, <6>2
          <5> QED BY <3>6, <4>1, <5>1, <5>2
        <4> QED BY <4>1, <4>2, <4>3
      <3> QED BY <3>4, <3>5, <3>6
    <2> QED BY <1>7, <2>1, <2>2
  <1> QED BY <1>4, <1>5, <1>6, <1>12 DEF SmallInv

\* A server is removed when nobody is behind it or on it any more.
LEMMA SmallRemoval ==
  ASSUME ServersInv, ServersInv', LeavesGone, Shallow, SmallInv, RemoveServer
  PROVE  SmallInv'
PROOF
  <1> DEFINE x == Top.srv
             m == Len(stack) - 1
  <1>1. /\ stack # <<>> /\ Top.at = "users" /\ Top.scan.next = NULL /\ ~usedfreed
        /\ serverhash' = HashScanDelete(serverhash, x)
        /\ uplink' = [u \in User |-> IF uplink[u] = x THEN Freed ELSE uplink[u]]
        /\ stack' = [i \in 1 .. m |-> Returned(stack[i + 1], x)]
        /\ UNCHANGED <<uplinkname, nickhash, usedfreed>>
    BY DEF RemoveServer, Running, Returned
  <1>2. /\ stack \in Seq(Frame) /\ Top = stack[1] /\ 1 \in DOMAIN stack /\ x \in Linked
        /\ \A i \in DOMAIN stack : stack[i] \in Frame
    BY <1>1, StackFacts
  <1>3. ~Top.spoilt /\ ~Top.missed
    BY <1>1, SmallCalls
  <1>4. Linked' = Linked \ {x} /\ Online' = Online
    <2>1. Good(serverhash, Server) /\ x \in Nodes(serverhash)
      BY <1>2 DEF ServersInv, Linked
    <2> HIDE DEF x
    <2>2. Nodes(HashScanDelete(serverhash, x)) = Nodes(serverhash) \ {x}
      BY <2>1, Keys, HashScanDeleteFacts DEF Unlinked
    <2> QED BY <1>1, <2>2 DEF Linked, Online
  <1>5. \A s \in Linked : uplinkname[s] # x
    BY <1>1, <1>3 DEF LeavesGone
  <1>6. \A u \in Online : uplink[u] # x
    <2>1. \A u \in Online : uplink[u] = x => u \in Ahead(nickhash, Top.scan)
      BY <1>1, <1>3, StackFacts DEF Reaches
    <2>2. Ahead(nickhash, Top.scan) = {}
      BY <1>1 DEF Ahead
    <2> QED BY <2>1, <2>2
  <1>7. PictureRight'
    BY <1>1, <1>4, <1>5 DEF PictureRight, SmallInv
  <1>8. \A u \in Online' : uplink'[u] # Freed
    <2>1. Online \subseteq User
      BY DEF ServersInv, ServersTypeOK
    <2>2. \A u \in Online : uplink[u] # Freed
      BY DEF SmallInv
    <2> HIDE DEF x
    <2> QED BY <1>1, <1>4, <1>6, <2>1, <2>2
  <1>9. Len(stack) \in Nat /\ DOMAIN stack = 1 .. Len(stack)
    BY <1>2, LenProperties
  <1>10. \A i \in 1 .. m : i = 1 /\ 2 \in DOMAIN stack
    <2> TAKE i \in 1 .. m
    <2>1. i + 1 \in DOMAIN stack /\ i \in Nat /\ i >= 1
      BY <1>9
    <2>2. i + 1 = 2
      BY <2>1, ShallowCalls
    <2> QED BY <2>1, <2>2
  <1>11. \A i \in DOMAIN stack' : /\ ~stack'[i].spoilt /\ ~stack'[i].missed
                                  /\ i > 1 => stack'[i].scan.next # stack'[i - 1].srv
    <2> SUFFICES ASSUME NEW i \in DOMAIN stack'
                 PROVE  i = 1 /\ ~stack'[i].spoilt /\ ~stack'[i].missed
      OBVIOUS
    <2>1. i \in 1 .. m
      <3> HIDE DEF m, x
      <3> QED BY <1>1
    <2>2. i = 1 /\ 2 \in DOMAIN stack
      BY <1>10, <2>1
    <2>3. stack'[1] = Returned(stack[2], x)
      <3> HIDE DEF m, x
      <3> QED BY <1>1, <2>1, <2>2
    <2>4. ~stack[2].spoilt /\ ~stack[2].missed /\ stack[2].scan.next # x
      <3>1. \A k \in DOMAIN stack : k > 1 => stack[k].scan.next # stack[k - 1].srv
        BY DEF SmallInv
      <3>2. stack[2].scan.next # stack[1].srv
        BY <2>2, <3>1
      <3> QED BY <1>2, <2>2, <3>2 DEF SmallInv
    <2>5. stack[2] \in Frame
      BY <1>2, <2>2
    <2>6. ~Returned(stack[2], x).spoilt /\ ~Returned(stack[2], x).missed
      <3> HIDE DEF x
      <3> QED BY <2>4, <2>5 DEF Returned, Frame
    <2> QED BY <2>2, <2>3, <2>6
  <1> QED BY <1>1, <1>7, <1>8, <1>11 DEF SmallInv

LEMMA SmallStep ==
  ASSUME ServersInv, ServersInv', LeavesGone, Shallow, Few', SmallInv,
         [ServersNext]_servervars
  PROVE  SmallInv'
PROOF
  <1>1. CASE UNCHANGED servervars
    <2>1. /\ UNCHANGED <<stack, nickhash, uplink, uplinkname, usedfreed>>
          /\ Linked' = Linked /\ Online' = Online
      BY <1>1 DEF servervars, Linked, Online
    <2> QED BY <2>1 DEF SmallInv, PictureRight
  <1>2. CASE \E s \in Server : Squit(s)
    <2>1. PICK s \in Server : /\ stack' = <<Call(s)>> /\ ~usedfreed
                              /\ UNCHANGED <<serverhash, uplinkname, nickhash, uplink, usedfreed>>
      BY <1>2 DEF Squit, Idle
    <2>2. DOMAIN stack' = {1} /\ stack'[1] = Call(s)
      BY <2>1
    <2>3. ~stack'[1].spoilt /\ ~stack'[1].missed
      BY <2>2 DEF Call
    <2>4. Linked' = Linked /\ Online' = Online
      BY <2>1 DEF Linked, Online
    <2> QED BY <2>1, <2>2, <2>3, <2>4 DEF SmallInv, PictureRight
  <1>3. CASE (\E s, up \in Server : AddServer(s, up)) \/ SignOn \/ \E u \in User : QuitUser(u)
    BY <1>3, SmallIdle
  <1>4. CASE LeafStep \/ FreedLeafStep \/ LeavesDone \/ SkipUser \/ QuitServerUser
    BY <1>4, SmallMoves
  <1>5. CASE RemoveServer
    BY <1>5, SmallRemoval
  <1> QED BY <1>1, <1>2, <1>3, <1>4, <1>5 DEF ServersNext, DelServer

LEMMA SmallNetwork == ServersSpec /\ []Shallow /\ []Few => []SmallInv
PROOF
  <1>1. ServersInit => SmallInv
    BY InitSmall
  <1>2. /\ ServersInv /\ LeavesGone /\ (ServersInv /\ LeavesGone)' /\ Shallow /\ Few'
        /\ SmallInv /\ [ServersNext]_servervars
        => SmallInv'
    BY SmallStep
  <1> QED BY <1>1, <1>2, LeavesAreGone, PTL DEF ServersSpec

\* Up to two links away from us and four times INIT_SIZE users, del_server_leaves
\* does what its comment says: after a SQUIT no server is left whose uplink is
\* gone, and no memory is used that was freed.
THEOREM SmallNetworksAreCleared == ServersSpec /\ []Shallow /\ []Few => []LeavesRemoved
PROOF
  <1>1. SmallInv => LeavesRemoved
    BY DEF SmallInv, PictureRight, LeavesRemoved
  <1> QED BY <1>1, SmallNetwork, PTL

\* Up to there NeoStats implements the network of Splits.
THEOREM SmallNetworksFollowSplits == ServersSpec /\ []Shallow /\ []Few => NW!SplitsSpec
PROOF
  <1>1. ServersInv /\ SmallInv => [~(RemoveServer /\ Missed)]_servervars
    BY SmallCalls DEF Missed
  <1> QED BY <1>1, ServersInvariant, SmallNetwork, ServersFollowSplits, PTL

\* What NeoStats shows of the network is a tree at each moment, in the middle of
\* a split too: every server but ours is behind one that is shown, every user
\* on one that is shown.
ShownWhole ==
  /\ me \in Shown
  /\ \A s \in Shown \ {me} : uplinkname[s] \in Shown
  /\ \A u \in Present : uplink[u] \in Shown

LEMMA MeIsNotLost ==
  ASSUME ServersInv
  PROVE  me \in Shown
PROOF
  <1>1. me \in Linked /\ uplinkname[me] = NULL /\ NULL \notin Linked
    BY Keys DEF ServersInv, Tree, ServersTypeOK
  <1>2. CASE stack = <<>>
    BY <1>1, <1>2 DEF Shown, Lost
  <1>3. CASE stack # <<>>
    <2>1. Root \in Linked \ {me} /\ Lost = Branch(Linked, uplinkname, Root)
      <3>1. Len(stack) \in DOMAIN stack
        BY <1>3, LenProperties, EmptySeq DEF ServersInv, ServersTypeOK
      <3> QED BY <1>3, <3>1, CallsOnBranch DEF ServersInv, Calls, Root
    <2>2. \A y \in Linked : uplinkname[y] \in Linked \ {me} => y \in Linked \ {me}
      BY <1>1
    <2>3. me \notin Branch(Linked, uplinkname, Root)
      BY <2>1, <2>2 DEF Branch
    <2> QED BY <1>1, <2>1, <2>3 DEF Shown
  <1> QED BY <1>2, <1>3

LEMMA SmallShown ==
  ASSUME ServersInv, SmallInv
  PROVE  ShownWhole
PROOF
  <1>1. \A y \in Linked : uplinkname[y] \in Lost => y \in Lost
    <2>1. CASE stack = <<>>
      BY <2>1 DEF Lost
    <2>2. CASE stack # <<>>
      <3>1. Root \in Linked /\ Lost = Branch(Linked, uplinkname, Root)
        BY <2>2, CallsOnBranch
      <3> QED BY <3>1, BranchFacts
    <2> QED BY <2>1, <2>2
  <1>2. \A s \in Shown \ {me} : uplinkname[s] \in Shown
    BY <1>1 DEF Shown, SmallInv, PictureRight
  <1>3. \A u \in Present : uplink[u] \in Shown
    <2>1. \A u \in Present : u \in Online /\ u \in User /\ uplink[u] \notin Lost
      BY DEF Present, ServersInv, ServersTypeOK
    <2>2. \A u \in Online : uplink[u] # Freed
      BY DEF SmallInv
    <2>3. \A u \in User : uplink[u] = Freed \/ uplink[u] \in Linked
      BY DEF ServersInv, Tree
    <2> QED BY <2>1, <2>2, <2>3 DEF Shown
  <1> QED BY <1>2, <1>3, MeIsNotLost DEF ShownWhole

\* Up to there what is shown is such a tree.
THEOREM SmallNetworksAreShownWhole == ServersSpec /\ []Shallow /\ []Few => []ShownWhole
PROOF
  BY SmallShown, ServersInvariant, SmallNetwork, PTL
================================================================================
