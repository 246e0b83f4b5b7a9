----------------------------- MODULE Dns_proofs ------------------------------
(***************************************************************************)
(* Dns, for every set of modules, every finite set of lookups and every     *)
(* size of the active list: nothing waits beside a free place, the queue is *)
(* served in order, and the lists implement what Lookups promises.          *)
(***************************************************************************)
EXTENDS Dns, LinkedLists_proofs

-----------------------------------------------------------------------------
(* The two lists together. *)

\* No lookup is twice in the lists, and the active ones have their places.
Listed(a, q) ==
  /\ a \in Seq(DnsLookup) /\ IsInjective(a)
  /\ q \in Seq(DnsLookup) /\ IsInjective(q)
  /\ Range(a) \cap Range(q) = {}
  /\ \A x, y \in Range(a) \cup Range(q) : x.id = y.id => x = y
  /\ Len(a) <= DnsQueueSize

\* The condition of DnsTypeOK on the two lists.
NoIdTwice(a, q) == IsInjective([i \in DOMAIN (a \o q) |-> (a \o q)[i].id])

LEMMA ListedIsTyped ==
  ASSUME NEW a \in Seq(DnsLookup), NEW q \in Seq(DnsLookup)
  PROVE  Listed(a, q) <=> NoIdTwice(a, q) /\ Len(a) <= DnsQueueSize
PROOF
  <1>0. /\ Len(a) \in Nat /\ DOMAIN a = 1 .. Len(a)
        /\ Len(q) \in Nat /\ DOMAIN q = 1 .. Len(q)
    BY LenProperties
  <1>1. /\ DOMAIN (a \o q) = 1 .. Len(a) + Len(q)
        /\ \A i \in 1 .. Len(a) + Len(q) :
             (a \o q)[i] = IF i <= Len(a) THEN a[i] ELSE q[i - Len(a)]
    BY ConcatProperties, LenProperties
  <1>2. NoIdTwice(a, q) <=>
          \A i, j \in 1 .. Len(a) + Len(q) : (a \o q)[i].id = (a \o q)[j].id => i = j
    BY <1>1 DEF NoIdTwice, IsInjective
  <1>3. ASSUME NoIdTwice(a, q)
        PROVE  /\ IsInjective(a) /\ IsInjective(q) /\ Range(a) \cap Range(q) = {}
               /\ \A x, y \in Range(a) \cup Range(q) : x.id = y.id => x = y
    <2>1. \A i, j \in DOMAIN a : a[i].id = a[j].id => i = j
      BY <1>0, <1>1, <1>2, <1>3
    <2>2. \A i, j \in DOMAIN q : q[i].id = q[j].id => i = j
      <3> SUFFICES ASSUME NEW i \in DOMAIN q, NEW j \in DOMAIN q, q[i].id = q[j].id
                   PROVE  i = j
        OBVIOUS
      <3>1. /\ i + Len(a) \in 1 .. Len(a) + Len(q) /\ (a \o q)[i + Len(a)] = q[i]
            /\ j + Len(a) \in 1 .. Len(a) + Len(q) /\ (a \o q)[j + Len(a)] = q[j]
        BY <1>0, <1>1
      <3>2. i + Len(a) = j + Len(a)
        BY <3>1, <1>2, <1>3
      <3> QED BY <3>2, <1>0
    <2>3. \A i \in DOMAIN a, j \in DOMAIN q : a[i].id # q[j].id
      <3> SUFFICES ASSUME NEW i \in DOMAIN a, NEW j \in DOMAIN q, a[i].id = q[j].id
                   PROVE  FALSE
        OBVIOUS
      <3>1. /\ i \in 1 .. Len(a) + Len(q) /\ (a \o q)[i] = a[i]
            /\ j + Len(a) \in 1 .. Len(a) + Len(q) /\ (a \o q)[j + Len(a)] = q[j]
            /\ i # j + Len(a)
        BY <1>0, <1>1
      <3> QED BY <3>1, <1>2, <1>3
    <2> QED BY <2>1, <2>2, <2>3 DEF IsInjective, Range
  <1>4. ASSUME Listed(a, q) PROVE NoIdTwice(a, q)
    <2> SUFFICES ASSUME NEW i \in 1 .. Len(a) + Len(q), NEW j \in 1 .. Len(a) + Len(q),
                        (a \o q)[i].id = (a \o q)[j].id
                 PROVE  i = j
      BY <1>2
    <2>1. IsInjective(a \o q) /\ Range(a \o q) = Range(a) \cup Range(q)
      BY <1>4, ConcatFacts DEF Listed
    <2>2. (a \o q)[i] \in Range(a \o q) /\ (a \o q)[j] \in Range(a \o q)
      BY <1>1 DEF Range
    <2>3. (a \o q)[i] = (a \o q)[j]
      BY <2>1, <2>2, <1>4 DEF Listed
    <2> QED BY <2>1, <2>3, <1>1 DEF IsInjective
  <1> QED BY <1>3, <1>4 DEF Listed

\* dns_check_queue: a first part of the queue goes, which the active list takes
\* but for the refused, until there is no place or no queue.
Refilled(a, q, refused, na, nq) ==
  /\ CheckQueue([active |-> a, queue |-> q], refused) = [active |-> na, queue |-> nq]
  /\ Listed(na, nq)
  /\ nq # <<>> => Len(na) = DnsQueueSize
  /\ \E n \in 0 .. Len(q) :
       /\ nq = SubSeq(q, n + 1, Len(q))
       /\ Range(na) = Range(a) \cup (Range(SubSeq(q, 1, n)) \ refused)

\* Cutting the queue in two.
LEMMA QueueCut ==
  ASSUME NEW q \in Seq(DnsLookup), IsInjective(q), NEW n \in 0 .. Len(q)
  PROVE  /\ SubSeq(q, 1, n) \in Seq(DnsLookup) /\ IsInjective(SubSeq(q, 1, n))
         /\ SubSeq(q, n + 1, Len(q)) \in Seq(DnsLookup)
         /\ IsInjective(SubSeq(q, n + 1, Len(q)))
         /\ Len(SubSeq(q, n + 1, Len(q))) = Len(q) - n
         /\ Range(SubSeq(q, 1, n)) \cap Range(SubSeq(q, n + 1, Len(q))) = {}
         /\ Range(SubSeq(q, 1, n)) \cup Range(SubSeq(q, n + 1, Len(q))) = Range(q)
PROOF
  BY CutFacts

LEMMA CheckQueueFacts ==
  ASSUME NEW a, NEW q, NEW refused, Listed(a, q), DnsQueueSize \in Nat
  PROVE  \E na, nq : Refilled(a, q, refused, na, nq)
PROOF
  <1> DEFINE room == DnsQueueSize - Len(a)
  <1> DEFINE taken(n) == Without(SubSeq(q, 1, n), refused)
  <1> DEFINE enough == {n \in 0 .. Len(q) : Len(taken(n)) = room}
  <1> DEFINE n == IF enough = {} THEN Len(q) ELSE Min(enough)
  <1>0. /\ a \in Seq(DnsLookup) /\ q \in Seq(DnsLookup) /\ IsInjective(a) /\ IsInjective(q)
        /\ Len(a) \in Nat /\ Len(q) \in Nat /\ room \in Nat /\ Len(a) <= DnsQueueSize
    BY LenProperties DEF Listed
  <1>1. CheckQueue([active |-> a, queue |-> q], refused) =
          [active |-> a \o taken(n), queue |-> SubSeq(q, n + 1, Len(q))]
    BY DEF CheckQueue
  <1>2. ASSUME NEW k \in 0 .. Len(q)
        PROVE  /\ taken(k) \in Seq(DnsLookup) /\ IsInjective(taken(k))
               /\ Range(taken(k)) = Range(SubSeq(q, 1, k)) \ refused
               /\ Len(taken(k)) \in Nat /\ Len(taken(k)) <= k
    <2>1. /\ SubSeq(q, 1, k) \in Seq(DnsLookup) /\ IsInjective(SubSeq(q, 1, k))
          /\ Len(SubSeq(q, 1, k)) = k
      BY <1>0, CutFacts
    <2>2. /\ taken(k) \in Seq(DnsLookup) /\ IsInjective(taken(k))
          /\ Range(taken(k)) = Range(SubSeq(q, 1, k)) \ refused
          /\ Len(taken(k)) <= Len(SubSeq(q, 1, k))
      BY <2>1, WithoutFacts
    <2>3. Len(taken(k)) \in Nat
      BY <2>2, LenProperties
    <2>h. HIDE DEF taken
    <2> QED BY <2>1, <2>2, <2>3
  <1>3. ASSUME NEW k \in 1 .. Len(q) PROVE Len(taken(k)) <= Len(taken(k - 1)) + 1
    BY <1>0, LongerCut
  <1>4. n \in 0 .. Len(q) /\ (enough # {} => n \in enough)
    <2>1. enough \subseteq Nat
      BY <1>0
    <2>2. ASSUME enough # {} PROVE n \in enough
      <3>1. \E i \in enough : \A j \in enough : i <= j
        BY <2>1, <2>2, LeastNumber
      <3> QED BY <2>2, <3>1 DEF Min
    <2>3. enough = {} => n = Len(q)
      OBVIOUS
    <2>4. enough \subseteq 0 .. Len(q)
      OBVIOUS
    <2>h. HIDE DEF n, enough
    <2>5. Len(q) \in 0 .. Len(q)
      BY <1>0
    <2> QED BY <2>2, <2>3, <2>4, <2>5
  <1>5. Len(taken(n)) <= room
    <2>1. CASE enough # {}
      BY <2>1, <1>4
    <2>2. CASE enough = {}
      <3>1. SUFFICES ASSUME ~(Len(taken(n)) <= room) PROVE FALSE
        OBVIOUS
      <3> DEFINE more == {k \in 0 .. Len(q) : Len(taken(k)) > room}
      <3>2. n \in more
        BY <3>1, <1>0, <1>2, <1>4
      <3>a. more \subseteq Nat /\ more # {}
        BY <3>2, <1>0
      <3>3. PICK k \in more : \A j \in more : k <= j
        <4>h. HIDE DEF more
        <4> QED BY <3>a, LeastNumber
      <3>4. k \in 1 .. Len(q)
        BY <3>3, <1>0, <1>2
      <3>5. k - 1 \in 0 .. Len(q) /\ k - 1 \notin more
        BY <3>3, <3>4, <1>0
      <3>6. Len(taken(k - 1)) <= room /\ Len(taken(k)) > room
        BY <3>3, <3>5, <1>0, <1>2
      <3>7. Len(taken(k - 1)) = room
        <4>1. Len(taken(k - 1)) \in Nat /\ Len(taken(k)) \in Nat
          BY <3>4, <3>5, <1>2
        <4>2. Len(taken(k)) <= Len(taken(k - 1)) + 1
          BY <3>4, <1>3
        <4>h. HIDE DEF taken, room
        <4> QED BY <4>1, <4>2, <3>6, <1>0
      <3> QED BY <3>5, <3>7, <2>2
    <2> QED BY <2>1, <2>2
  <1>6. /\ SubSeq(q, 1, n) \in Seq(DnsLookup) /\ IsInjective(SubSeq(q, 1, n))
        /\ SubSeq(q, n + 1, Len(q)) \in Seq(DnsLookup)
        /\ IsInjective(SubSeq(q, n + 1, Len(q)))
        /\ Len(SubSeq(q, n + 1, Len(q))) = Len(q) - n
        /\ Range(SubSeq(q, 1, n)) \cap Range(SubSeq(q, n + 1, Len(q))) = {}
        /\ Range(SubSeq(q, 1, n)) \cup Range(SubSeq(q, n + 1, Len(q))) = Range(q)
    <2>1. n \in 0 .. Len(q)
      BY <1>4
    <2>2. q \in Seq(DnsLookup) /\ IsInjective(q)
      BY <1>0
    <2>h. HIDE DEF n, taken, enough, room
    <2> QED BY <2>1, <2>2, QueueCut, Zenon
  <1>7. SubSeq(q, n + 1, Len(q)) # <<>> => Len(taken(n)) = room
    <2>1. enough = {} => n = Len(q)
      OBVIOUS
    <2>2. enough = {} => Len(SubSeq(q, n + 1, Len(q))) = 0
      BY <2>1, <1>6, <1>0
    <2>3. enough = {} => SubSeq(q, n + 1, Len(q)) = <<>>
      BY <2>2, <1>6, EmptySeq
    <2> QED BY <2>3, <1>4
  <1>8. /\ taken(n) \in Seq(DnsLookup) /\ IsInjective(taken(n))
        /\ Range(taken(n)) = Range(SubSeq(q, 1, n)) \ refused
        /\ Len(taken(n)) \in Nat
    BY <1>2, <1>4
  <1>h. HIDE DEF n, enough, taken
  <1>9. Range(a) \cap Range(taken(n)) = {}
    BY <1>6, <1>8 DEF Listed
  <1>10. /\ a \o taken(n) \in Seq(DnsLookup) /\ IsInjective(a \o taken(n))
         /\ Range(a \o taken(n)) = Range(a) \cup Range(taken(n))
         /\ Len(a \o taken(n)) = Len(a) + Len(taken(n))
    BY <1>0, <1>8, <1>9, ConcatFacts
  <1>11. Len(a \o taken(n)) <= DnsQueueSize
    BY <1>0, <1>5, <1>8, <1>10
  <1>12. Listed(a \o taken(n), SubSeq(q, n + 1, Len(q)))
    BY <1>6, <1>8, <1>10, <1>11 DEF Listed
  <1>13. SubSeq(q, n + 1, Len(q)) # <<>> => Len(a \o taken(n)) = DnsQueueSize
    BY <1>0, <1>7, <1>10
  <1>14. Refilled(a, q, refused, a \o taken(n), SubSeq(q, n + 1, Len(q)))
    BY <1>1, <1>4, <1>8, <1>10, <1>12, <1>13 DEF Refilled
  <1> QED BY <1>14

\* dns_lookup, of a lookup that is new to the lists.
Accepted(a, q, x, na, nq) ==
  /\ Submitted([active |-> a, queue |-> q], x) = [active |-> na, queue |-> nq]
  /\ Listed(na, nq)
  /\ \/ /\ Len(a) < DnsQueueSize /\ nq = q
        /\ na = Append(a, x) /\ Range(na) = Range(a) \cup {x}
     \/ /\ Len(a) = DnsQueueSize /\ na = a
        /\ Range(nq) = Range(q) \cup {x}

LEMMA SubmittedFacts ==
  ASSUME NEW a, NEW q, Listed(a, q), NEW x \in DnsLookup,
         \A r \in Range(a) \cup Range(q) : r.id # x.id, DnsQueueSize \in Nat
  PROVE  \E na, nq : Accepted(a, q, x, na, nq)
PROOF
  <1>0. /\ a \in Seq(DnsLookup) /\ q \in Seq(DnsLookup) /\ IsInjective(a) /\ IsInjective(q)
        /\ Len(a) \in Nat /\ Len(a) <= DnsQueueSize /\ Range(a) \cap Range(q) = {}
        /\ \A y, z \in Range(a) \cup Range(q) : y.id = z.id => y = z
    BY LenProperties DEF Listed
  <1>1. x \notin Range(a) /\ x \notin Range(q)
    OBVIOUS
  <1>2. CASE Len(a) < DnsQueueSize
    <2>1. Submitted([active |-> a, queue |-> q], x) = [active |-> Append(a, x), queue |-> q]
      BY <1>2 DEF Submitted
    <2>2. /\ Append(a, x) \in Seq(DnsLookup) /\ IsInjective(Append(a, x))
          /\ Range(Append(a, x)) = Range(a) \cup {x} /\ Len(Append(a, x)) = Len(a) + 1
      BY <1>0, <1>1, AppendFacts
    <2>3. Len(Append(a, x)) <= DnsQueueSize
      BY <2>2, <1>0, <1>2
    <2>4. Listed(Append(a, x), q)
      BY <2>2, <2>3, <1>0, <1>1 DEF Listed
    <2>5. Accepted(a, q, x, Append(a, x), q)
      BY <2>1, <2>2, <2>4, <1>2 DEF Accepted
    <2> QED BY <2>5
  <1>3. CASE ~(Len(a) < DnsQueueSize)
    <2>1. Submitted([active |-> a, queue |-> q], x) = [active |-> a, queue |-> Append(q, x)]
      BY <1>3 DEF Submitted
    <2>2. /\ Append(q, x) \in Seq(DnsLookup) /\ IsInjective(Append(q, x))
          /\ Range(Append(q, x)) = Range(q) \cup {x}
      BY <1>0, <1>1, AppendFacts
    <2>3. Len(a) = DnsQueueSize
      BY <1>0, <1>3
    <2>4. Listed(a, Append(q, x))
      BY <2>2, <1>0, <1>1 DEF Listed
    <2>5. Accepted(a, q, x, a, Append(q, x))
      BY <2>1, <2>2, <2>3, <2>4 DEF Accepted
    <2> QED BY <2>5
  <1> QED BY <1>2, <1>3

-----------------------------------------------------------------------------
(* The steps. *)

LEMMA SameCardinality == \A S : LK!Cardinality(S) = Cardinality(S)
  BY DEF LK!Cardinality, Cardinality

DnsInv == DnsTypeOK /\ QueueOnlyWhenFull

\* The action of QueueServedInOrder.
InOrder ==
  /\ Active \cap Range(dnsqueue') = {}
  /\ \A i, j \in DOMAIN dnsqueue :
       i < j /\ dnsqueue[j] \in Range(dnslist') => dnsqueue[i] \notin Range(dnsqueue')

\* Everything that is shown of a step.
GoodStep ==
  DnsTypeOK' /\ QueueOnlyWhenFull' /\ InOrder /\ (LK!Next \/ UNCHANGED LK!vars)

LEMMA ListedNow ==
  ASSUME DnsInv
  PROVE  /\ Listed(dnslist, dnsqueue) /\ DnsQueueSize \in Nat
         /\ dnslist \in Seq(DnsLookup) /\ dnsqueue \in Seq(DnsLookup)
         /\ IsInjective(dnslist) /\ IsInjective(dnsqueue)
         /\ Len(dnslist) \in Nat /\ Len(dnslist) <= DnsQueueSize
         /\ DOMAIN dnslist = 1 .. Len(dnslist)
         /\ Active \cap Range(dnsqueue) = {}
         /\ Cardinality(Active) = Len(dnslist)
         /\ Active \subseteq DnsLookup /\ Range(dnsqueue) \subseteq DnsLookup
PROOF
  <1>1. /\ dnslist \in Seq(DnsLookup) /\ dnsqueue \in Seq(DnsLookup)
        /\ NoIdTwice(dnslist, dnsqueue) /\ Len(dnslist) <= DnsQueueSize
        /\ DnsQueueSize \in Nat
    BY DnsAssumption DEF DnsInv, DnsTypeOK, NoIdTwice
  <1>2. Listed(dnslist, dnsqueue)
    BY <1>1, ListedIsTyped
  <1>3. Len(dnslist) \in Nat /\ DOMAIN dnslist = 1 .. Len(dnslist)
    BY <1>1, LenProperties
  <1>4. IsInjective(dnslist) /\ IsInjective(dnsqueue) /\ Active \cap Range(dnsqueue) = {}
    BY <1>2 DEF Listed, Active
  <1>5. Cardinality(Active) = Len(dnslist)
    BY <1>1, <1>4, LenIsCardinality DEF Active
  <1>6. Active \subseteq DnsLookup /\ Range(dnsqueue) \subseteq DnsLookup
    BY <1>1, ElementOfSeq DEF Active, Range
  <1> QED BY <1>1, <1>2, <1>3, <1>4, <1>5, <1>6

\* The types after a step, from the lists.
LEMMA TypedNext ==
  ASSUME Listed(dnslist', dnsqueue'), Core \in present', present' \subseteq Owners,
         pos' \in 0 .. DnsQueueSize + 1, left' \in 0 .. DnsQueueSize, faulted' \in BOOLEAN
  PROVE  DnsTypeOK'
PROOF
  <1>1. dnslist' \in Seq(DnsLookup) /\ dnsqueue' \in Seq(DnsLookup)
    BY DEF Listed
  <1>2. NoIdTwice(dnslist', dnsqueue') /\ Len(dnslist') <= DnsQueueSize
    BY <1>1, ListedIsTyped
  <1> QED BY <1>1, <1>2 DEF DnsTypeOK, NoIdTwice

\* A record ns_calloc hands out is none of those in the lists.
LEMMA NewLookupFacts ==
  ASSUME DnsInv, FreeIds # {}, NEW m \in Owners
  PROVE  /\ NewLookup(m) \in DnsLookup /\ NewLookup(m).modptr = m
         /\ \A r \in Active \cup Range(dnsqueue) : r.id # NewLookup(m).id
PROOF
  <1>1. FreeIds \subseteq Nat /\ FreeIds \subseteq Ids
    BY DnsAssumption DEF FreeIds, DnsInv
  <1>2. \E i \in FreeIds : \A j \in FreeIds : i <= j
    BY <1>1, LeastNumber
  <1>3. Min(FreeIds) \in FreeIds
    BY <1>2 DEF Min
  <1>4. Min(FreeIds) \in Ids /\ \A r \in Pending : r.id # Min(FreeIds)
    BY <1>3 DEF FreeIds
  <1> QED BY <1>4 DEF NewLookup, DnsLookup, Pending, Active

\* dns_check_queue at the end of a step, after some lookups have left the lists.
LEMMA ServedFacts ==
  ASSUME DnsInv, NEW a, NEW q, NEW refused, Listed(a, q),
         Range(a) \subseteq Active, Range(q) \subseteq Range(dnsqueue),
         \A k, l \in DOMAIN q : k < l =>
           \E i, j \in DOMAIN dnsqueue : i < j /\ q[k] = dnsqueue[i] /\ q[l] = dnsqueue[j],
         Become(CheckQueue([active |-> a, queue |-> q], refused))
  PROVE  /\ Listed(dnslist', dnsqueue')
         /\ dnsqueue' # <<>> => Len(dnslist') = DnsQueueSize
         /\ InOrder
         /\ LK!Served(Range(a), Range(q))
PROOF
  <1>1. /\ Active \cap Range(dnsqueue) = {} /\ DnsQueueSize \in Nat
        /\ IsInjective(dnsqueue) /\ dnsqueue \in Seq(DnsLookup)
    BY ListedNow
  <1>a. PICK na, nq : Refilled(a, q, refused, na, nq)
    BY <1>1, CheckQueueFacts
  <1>2. /\ CheckQueue([active |-> a, queue |-> q], refused) = [active |-> na, queue |-> nq]
        /\ Listed(na, nq)
        /\ nq # <<>> => Len(na) = DnsQueueSize
    BY <1>a DEF Refilled
  <1>3. dnslist' = na /\ dnsqueue' = nq
    BY <1>2 DEF Become
  <1>4. PICK n \in 0 .. Len(q) :
          /\ nq = SubSeq(q, n + 1, Len(q))
          /\ Range(na) = Range(a) \cup (Range(SubSeq(q, 1, n)) \ refused)
    BY <1>a DEF Refilled
  <1> DEFINE head == Range(SubSeq(q, 1, n))
  <1>5. q \in Seq(DnsLookup) /\ IsInjective(q) /\ Len(q) \in Nat /\ DOMAIN q = 1 .. Len(q)
    BY LenProperties DEF Listed
  <1>6. /\ head \cap Range(nq) = {} /\ head \cup Range(nq) = Range(q)
        /\ head = {q[i] : i \in 1 .. n} /\ Range(nq) = {q[i] : i \in n + 1 .. Len(q)}
    <2>1. /\ Range(SubSeq(q, 1, n)) \cap Range(SubSeq(q, n + 1, Len(q))) = {}
          /\ Range(SubSeq(q, 1, n)) \cup Range(SubSeq(q, n + 1, Len(q))) = Range(q)
          /\ Range(SubSeq(q, 1, n)) = {q[i] : i \in 1 .. n}
          /\ Range(SubSeq(q, n + 1, Len(q))) = {q[i] : i \in n + 1 .. Len(q)}
      BY <1>5, CutFacts, SMTT(60)
    <2> QED BY <2>1, <1>4
  <1>h. HIDE DEF head
  <1>7. Range(a) \cap Range(q) = {}
    BY DEF Listed
  <1>8. InOrder
    <2>1. Active \cap Range(nq) = {}
      BY <1>1, <1>6
    <2>2. ASSUME NEW i \in DOMAIN dnsqueue, NEW j \in DOMAIN dnsqueue,
                 i < j, dnsqueue[j] \in Range(na), dnsqueue[i] \in Range(nq)
          PROVE  FALSE
      <3>0. i \in Nat /\ j \in Nat
        BY <1>1, LenProperties
      <3>1. dnsqueue[j] \in Range(dnsqueue)
        BY DEF Range
      <3>2. dnsqueue[j] \in head
        BY <3>1, <2>2, <1>1, <1>4 DEF head
      <3>3. PICK l \in 1 .. n : dnsqueue[j] = q[l]
        BY <3>2, <1>6
      <3>4. PICK k \in n + 1 .. Len(q) : dnsqueue[i] = q[k]
        BY <2>2, <1>6
      <3>5. l < k /\ l \in DOMAIN q /\ k \in DOMAIN q
        BY <1>5
      <3>6. PICK i1 \in DOMAIN dnsqueue, j1 \in DOMAIN dnsqueue :
              i1 < j1 /\ q[l] = dnsqueue[i1] /\ q[k] = dnsqueue[j1]
        BY <3>5
      <3>7. i1 = j /\ j1 = i
        BY <3>3, <3>4, <3>6, <1>1 DEF IsInjective
      <3> QED BY <3>0, <3>6, <3>7, <2>2
    <2> QED BY <2>1, <2>2, <1>3 DEF InOrder
  <1>9. LK!Served(Range(a), Range(q))
    <2>1. na \in Seq(DnsLookup) /\ IsInjective(na) /\ Len(na) <= DnsQueueSize
      BY <1>2 DEF Listed
    <2>2. Cardinality(Range(na)) = Len(na)
      BY <2>1, LenIsCardinality
    <2>3. Range(nq) # {} => nq # <<>>
      <3>1. Range(<<>>) = {}
        BY DEF Range
      <3> QED BY <3>1
    <2>4. head \ refused \in SUBSET Range(q)
          /\ head \cap refused \in SUBSET (Range(q) \ (head \ refused))
      BY <1>6
    <2>5. /\ Range(dnslist)' = Range(a) \cup (head \ refused)
          /\ Range(dnsqueue)' = Range(q) \ ((head \ refused) \cup (head \cap refused))
      <3>1. Range(nq) = Range(q) \ ((head \ refused) \cup (head \cap refused))
        BY <1>6
      <3>2. Range(na) = Range(a) \cup (head \ refused)
        BY <1>4 DEF head
      <3> QED BY <3>1, <3>2, <1>3
    <2>6. /\ Cardinality(Range(dnslist)') <= DnsQueueSize
          /\ Range(dnsqueue)' # {} => Cardinality(Range(dnslist)') = DnsQueueSize
      BY <2>1, <2>2, <2>3, <1>2, <1>3
    <2> QED BY <2>4, <2>5, <2>6, SameCardinality, Zenon DEF LK!Served
  <1> QED BY <1>2, <1>3, <1>8, <1>9

\* A step that leaves the lists alone.
LEMMA SameListsInOrder ==
  ASSUME DnsInv, UNCHANGED <<dnslist, dnsqueue>>
  PROVE  Listed(dnslist', dnsqueue') /\ InOrder
PROOF
  <1>1. Listed(dnslist, dnsqueue) /\ Active \cap Range(dnsqueue) = {}
    BY ListedNow
  <1>2. InOrder
    BY <1>1 DEF InOrder, Active, Range
  <1> QED BY <1>1, <1>2

LEMMA StartStep ==
  ASSUME DnsInv, NEW m \in Owners, dns_lookup(m)
  PROVE  GoodStep
PROOF
  <1> DEFINE x == NewLookup(m)
  <1>0. /\ Listed(dnslist, dnsqueue) /\ DnsQueueSize \in Nat
        /\ Active \cap Range(dnsqueue) = {} /\ Cardinality(Active) = Len(dnslist)
        /\ Len(dnslist) \in Nat
    BY ListedNow
  <1>1. /\ Idle /\ m \in present /\ FreeIds # {}
        /\ Become(Submitted(Lists, x))
        /\ UNCHANGED <<present, pos, left, faulted>>
    BY DEF dns_lookup
  <1>2. x \in DnsLookup /\ x.modptr = m /\ \A r \in Active \cup Range(dnsqueue) : r.id # x.id
    BY <1>1, NewLookupFacts
  <1>h. HIDE DEF x
  <1>a. PICK na, nq : Accepted(dnslist, dnsqueue, x, na, nq)
    <2>2. \A r \in Range(dnslist) \cup Range(dnsqueue) : r.id # x.id
      BY <1>2 DEF Active
    <2> QED BY <2>2, <1>0, <1>2, SubmittedFacts
  <1>3. /\ Submitted(Lists, x) = [active |-> na, queue |-> nq]
        /\ Listed(na, nq)
        /\ \/ /\ Len(dnslist) < DnsQueueSize /\ nq = dnsqueue
              /\ na = Append(dnslist, x) /\ Range(na) = Range(dnslist) \cup {x}
           \/ /\ Len(dnslist) = DnsQueueSize /\ na = dnslist
              /\ Range(nq) = Range(dnsqueue) \cup {x}
    <2>1. Lists = [active |-> dnslist, queue |-> dnsqueue]
      BY DEF Lists
    <2> QED BY <2>1, <1>a DEF Accepted
  <1>4. dnslist' = na /\ dnsqueue' = nq
    BY <1>1, <1>3 DEF Become
  <1>5. DnsTypeOK'
    BY <1>1, <1>3, <1>4, TypedNext DEF DnsInv, DnsTypeOK
  <1>6. QueueOnlyWhenFull'
    <2>1. dnsqueue # <<>> => Len(dnslist) = DnsQueueSize
      BY <1>1 DEF DnsInv, QueueOnlyWhenFull
    <2> QED BY <2>1, <1>0, <1>3, <1>4 DEF QueueOnlyWhenFull
  <1>7. x \notin Active /\ x \notin Range(dnsqueue)
    BY <1>2
  <1>8. InOrder
    <2>1. Active \cap Range(nq) = {}
      BY <1>0, <1>3, <1>7
    <2>2. \A j \in DOMAIN dnsqueue : dnsqueue[j] \notin Range(na)
      <3>1. \A j \in DOMAIN dnsqueue : dnsqueue[j] \in Range(dnsqueue)
        BY DEF Range
      <3> QED BY <3>1, <1>0, <1>3, <1>7 DEF Active
    <2> QED BY <2>1, <2>2, <1>4 DEF InOrder
  <1>9. LK!Start(x)
    <2>1. LK!Free(x)
      BY <1>2 DEF LK!Free, Active
    <2>2. LK!AcceptedAs(x, Range(dnslist)', Range(dnsqueue)')
      <3>1. Range(dnslist)' = Range(na) /\ Range(dnsqueue)' = Range(nq)
        BY <1>4
      <3>2. Cardinality(Range(dnslist)) = Len(dnslist)
        BY <1>0 DEF Active
      <3> QED BY <3>1, <3>2, <1>3, SameCardinality DEF LK!AcceptedAs
    <2> QED BY <2>1, <2>2, <1>1, <1>2 DEF LK!Start
  <1>10. x \in LK!Lookup /\ ~faulted
    BY <1>1, <1>2 DEF LK!Lookup, DnsLookup, LK!Owners, Owners, Idle
  <1> QED BY <1>5, <1>6, <1>8, <1>9, <1>10 DEF GoodStep, LK!Next

LEMMA LoadStep ==
  ASSUME DnsInv, NEW m \in Mods, LoadModule(m)
  PROVE  GoodStep
PROOF
  <1>1. /\ Idle /\ m \notin present /\ present' = present \cup {m}
        /\ UNCHANGED <<dnslist, dnsqueue, pos, left, faulted>>
    BY DEF LoadModule
  <1>2. Listed(dnslist', dnsqueue') /\ InOrder
    BY <1>1, SameListsInOrder
  <1>3. DnsTypeOK'
    BY <1>1, <1>2, TypedNext DEF DnsInv, DnsTypeOK, Owners
  <1>4. QueueOnlyWhenFull'
    BY <1>1 DEF DnsInv, QueueOnlyWhenFull, Idle
  <1>5. LK!Load(m) /\ ~faulted
    BY <1>1 DEF LK!Load, Idle
  <1> QED BY <1>2, <1>3, <1>4, <1>5 DEF GoodStep, LK!Next

\* A step that ends the program.
LEMMA FaultStep ==
  ASSUME DnsInv, ~faulted, faulted' = TRUE,
         UNCHANGED <<dnslist, dnsqueue, present, pos, left>>
  PROVE  GoodStep
PROOF
  <1>1. Listed(dnslist', dnsqueue') /\ InOrder
    BY SameListsInOrder
  <1>2. DnsTypeOK'
    BY <1>1, TypedNext DEF DnsInv, DnsTypeOK
  <1>3. QueueOnlyWhenFull'
    BY DEF QueueOnlyWhenFull, Idle
  <1>4. LK!Fault
    BY DEF LK!Fault
  <1> QED BY <1>1, <1>2, <1>3, <1>4 DEF GoodStep, LK!Next

\* canx_dns deletes lookups of the module only.
LEMMA CanxedAreOf ==
  ASSUME NEW s \in Seq(DnsLookup), NEW m
  PROVE  Canxed(s, m) \subseteq {x \in Range(s) : x.modptr = m}
PROOF
  <1> SUFFICES ASSUME NEW x \in Canxed(s, m) PROVE x \in Range(s) /\ x.modptr = m
    OBVIOUS
  <1>1. PICK k \in DOMAIN s :
          /\ x = s[k]
          /\ \E i \in 1 .. k : \A l \in i .. k : s[l].modptr = m
    BY DEF Canxed
  <1>2. PICK i \in 1 .. k : \A l \in i .. k : s[l].modptr = m
    BY <1>1
  <1>3. k \in i .. k
    <2>1. k \in Nat
      BY LenProperties
    <2> QED BY <2>1
  <1> QED BY <1>1, <1>2, <1>3 DEF Range

LEMMA CanxStep ==
  ASSUME DnsInv, NEW m \in Mods, canx_dns(m)
  PROVE  GoodStep
PROOF
  <1> DEFINE a == Without(dnslist, Canxed(dnslist, m))
  <1> DEFINE q == Without(dnsqueue, Canxed(dnsqueue, m))
  <1> DEFINE gone == Canxed(dnslist, m) \cup Canxed(dnsqueue, m)
  <1>0. /\ Listed(dnslist, dnsqueue) /\ Len(dnslist) <= DnsQueueSize
        /\ dnslist \in Seq(DnsLookup) /\ dnsqueue \in Seq(DnsLookup)
        /\ IsInjective(dnslist) /\ IsInjective(dnsqueue)
        /\ Active \cap Range(dnsqueue) = {} /\ DnsQueueSize \in Nat /\ Len(dnslist) \in Nat
    BY ListedNow
  <1>1. /\ Idle /\ m \in present /\ present' = present \ {m}
        /\ UNCHANGED <<pos, left, faulted>>
    BY DEF canx_dns
  <1>2. PICK refused : Become(CheckQueue([active |-> a, queue |-> q], refused))
    BY DEF canx_dns
  <1>3. /\ a \in Seq(DnsLookup) /\ IsInjective(a)
        /\ Range(a) = Range(dnslist) \ Canxed(dnslist, m) /\ Len(a) <= Len(dnslist)
    BY <1>0, WithoutFacts
  <1>4. /\ q \in Seq(DnsLookup) /\ IsInjective(q)
        /\ Range(q) = Range(dnsqueue) \ Canxed(dnsqueue, m)
        /\ \A k, l \in DOMAIN q : k < l =>
             \E i, j \in DOMAIN dnsqueue : i < j /\ q[k] = dnsqueue[i] /\ q[l] = dnsqueue[j]
    BY <1>0, WithoutFacts
  <1>h. HIDE DEF a, q
  <1>5. Range(a) \subseteq Active /\ Range(q) \subseteq Range(dnsqueue)
    BY <1>3, <1>4 DEF Active
  <1>6. Listed(a, q)
    <2>1. Len(a) <= DnsQueueSize
      BY <1>0, <1>3, LenProperties
    <2> QED BY <2>1, <1>0, <1>3, <1>4 DEF Listed
  <1>7. /\ Listed(dnslist', dnsqueue')
        /\ dnsqueue' # <<>> => Len(dnslist') = DnsQueueSize
        /\ InOrder /\ LK!Served(Range(a), Range(q))
    BY <1>2, <1>4, <1>5, <1>6, ServedFacts
  <1>8. DnsTypeOK'
    BY <1>1, <1>7, TypedNext, DnsAssumption DEF DnsInv, DnsTypeOK
  <1>9. QueueOnlyWhenFull'
    BY <1>7 DEF QueueOnlyWhenFull
  <1>10. LK!Unload(m) /\ ~faulted
    <2>1. /\ Canxed(dnslist, m) \subseteq {x \in Range(dnslist) : x.modptr = m}
          /\ Canxed(dnsqueue, m) \subseteq {x \in Range(dnsqueue) : x.modptr = m}
      BY <1>0, CanxedAreOf
    <2>2. gone \in SUBSET {x \in Range(dnslist) \cup Range(dnsqueue) : x.modptr = m}
      BY <2>1
    <2>3. Range(a) = Range(dnslist) \ gone /\ Range(q) = Range(dnsqueue) \ gone
      BY <2>1, <1>0, <1>3, <1>4 DEF Active
    <2>h. HIDE DEF gone
    <2>4. LK!Served(Range(dnslist) \ gone, Range(dnsqueue) \ gone)
      BY <2>3, <1>7
    <2> QED BY <2>2, <2>4, <1>1 DEF LK!Unload, Idle
  <1> QED BY <1>7, <1>8, <1>9, <1>10 DEF GoodStep, LK!Next

LEMMA BeginStep ==
  ASSUME DnsInv, Begin
  PROVE  GoodStep
PROOF
  <1>0. Len(dnslist) \in Nat /\ Len(dnslist) <= DnsQueueSize /\ DnsQueueSize \in Nat
    BY ListedNow
  <1>1. /\ pos' = 1 /\ left' = Len(dnslist)
        /\ UNCHANGED <<dnslist, dnsqueue, present, faulted>>
    BY DEF Begin
  <1>2. Listed(dnslist', dnsqueue') /\ InOrder
    BY <1>1, SameListsInOrder
  <1>3. DnsTypeOK'
    <2>1. pos' \in 0 .. DnsQueueSize + 1 /\ left' \in 0 .. DnsQueueSize
      BY <1>0, <1>1
    <2> QED BY <2>1, <1>1, <1>2, TypedNext DEF DnsInv, DnsTypeOK
  <1>4. QueueOnlyWhenFull'
    BY <1>1 DEF QueueOnlyWhenFull, Idle
  <1>5. UNCHANGED LK!vars
    BY <1>1 DEF LK!vars
  <1> QED BY <1>2, <1>3, <1>4, <1>5 DEF GoodStep

LEMMA WaitStep ==
  ASSUME DnsInv, StillWaiting
  PROVE  GoodStep
PROOF
  <1>0. /\ Len(dnslist) \in Nat /\ Len(dnslist) <= DnsQueueSize /\ DnsQueueSize \in Nat
        /\ DOMAIN dnslist = 1 .. Len(dnslist)
    BY ListedNow
  <1>1. /\ pos \in DOMAIN dnslist /\ pos' = pos + 1 /\ left' = Fewer(left)
        /\ UNCHANGED <<dnslist, dnsqueue, present, faulted>>
    BY DEF StillWaiting, AtElement
  <1>2. Listed(dnslist', dnsqueue') /\ InOrder
    BY <1>1, SameListsInOrder
  <1>3. pos' \in 1 .. DnsQueueSize + 1 /\ left' \in 0 .. DnsQueueSize
    BY <1>0, <1>1 DEF DnsInv, DnsTypeOK, Fewer
  <1>4. DnsTypeOK'
    <2>1. pos' \in 0 .. DnsQueueSize + 1
      BY <1>0, <1>3
    <2> QED BY <2>1, <1>1, <1>2, <1>3, TypedNext DEF DnsInv, DnsTypeOK
  <1>5. QueueOnlyWhenFull'
    BY <1>3 DEF QueueOnlyWhenFull, Idle
  <1>6. UNCHANGED LK!vars
    BY <1>1 DEF LK!vars
  <1> QED BY <1>2, <1>4, <1>5, <1>6 DEF GoodStep

LEMMA EndStep ==
  ASSUME DnsInv, End
  PROVE  GoodStep
PROOF
  <1>0. /\ Listed(dnslist, dnsqueue) /\ DnsQueueSize \in Nat
    BY ListedNow
  <1>1. ~faulted /\ pos' = 0 /\ UNCHANGED <<present, left, faulted>>
    BY DEF End
  <1>2. PICK refused : Become(CheckQueue(Lists, refused))
    BY DEF End
  <1>3. Lists = [active |-> dnslist, queue |-> dnsqueue]
    BY DEF Lists
  <1>4. /\ Listed(dnslist', dnsqueue')
        /\ dnsqueue' # <<>> => Len(dnslist') = DnsQueueSize
        /\ InOrder /\ LK!Served(Range(dnslist), Range(dnsqueue))
    BY <1>0, <1>2, <1>3, ServedFacts DEF Active
  <1>5. DnsTypeOK'
    <2>1. pos' \in 0 .. DnsQueueSize + 1
      BY <1>0, <1>1
    <2> QED BY <2>1, <1>1, <1>4, TypedNext DEF DnsInv, DnsTypeOK
  <1>6. QueueOnlyWhenFull'
    BY <1>4 DEF QueueOnlyWhenFull
  <1>7. LK!Serve
    BY <1>1, <1>4 DEF LK!Serve
  <1> QED BY <1>1, <1>4, <1>5, <1>6, <1>7 DEF GoodStep, LK!Next

\* A callback has returned: it left the lists as they were or with one lookup
\* more, and then its own is deleted.
LEMMA AnsweredStep ==
  ASSUME DnsInv, NEW y \in Active, NEW na, NEW nq, Answered(y, [active |-> na, queue |-> nq]),
         Listed(na, nq), NEW started,
         \A i \in DOMAIN dnslist : i \in DOMAIN na /\ na[i] = dnslist[i],
         \/ started = {} /\ na = dnslist /\ nq = dnsqueue
         \/ \E x \in DnsLookup :
              /\ started = {x} /\ x.modptr = y.modptr
              /\ \A r \in Active \cup Range(dnsqueue) : r.id # x.id
              /\ \/ /\ Len(dnslist) < DnsQueueSize
                    /\ Range(na) = Range(dnslist) \cup {x} /\ nq = dnsqueue
                 \/ /\ Len(dnslist) = DnsQueueSize
                    /\ na = dnslist /\ Range(nq) = Range(dnsqueue) \cup {x}
  PROVE  GoodStep
PROOF
  <1>0. /\ Listed(dnslist, dnsqueue) /\ DnsQueueSize \in Nat
        /\ Active \cap Range(dnsqueue) = {} /\ Cardinality(Active) = Len(dnslist)
        /\ DOMAIN dnslist = 1 .. Len(dnslist) /\ Len(dnslist) \in Nat
        /\ Active \subseteq DnsLookup
    BY ListedNow
  <1>1. /\ pos \in DOMAIN dnslist /\ ~faulted /\ dnslist[pos] = y /\ y.modptr \in present
        /\ dnslist' = RemoveAt(na, pos) /\ dnsqueue' = nq
        /\ left' = Fewer(left) /\ UNCHANGED <<present, pos, faulted>>
    BY DEF Answered, AtElement, Become
  <1>2. na \in Seq(DnsLookup) /\ IsInjective(na) /\ Len(na) \in Nat /\ Len(na) <= DnsQueueSize
    BY LenProperties DEF Listed
  <1>3. pos \in DOMAIN na /\ na[pos] = y
    BY <1>1
  <1>4. /\ RemoveAt(na, pos) \in Seq(DnsLookup) /\ IsInjective(RemoveAt(na, pos))
        /\ Range(RemoveAt(na, pos)) = Range(na) \ {y} /\ Len(RemoveAt(na, pos)) = Len(na) - 1
    BY <1>2, <1>3, RemoveAtFacts
  <1>5. Listed(dnslist', dnsqueue')
    <2>1. Len(RemoveAt(na, pos)) <= DnsQueueSize
      BY <1>0, <1>2, <1>4
    <2> QED BY <2>1, <1>1, <1>4 DEF Listed
  <1>6. pos # 0 /\ pos' \in 0 .. DnsQueueSize + 1 /\ left' \in 0 .. DnsQueueSize
    BY <1>0, <1>1 DEF DnsInv, DnsTypeOK, Fewer
  <1>7. DnsTypeOK'
    BY <1>1, <1>5, <1>6, TypedNext DEF DnsInv, DnsTypeOK
  <1>8. QueueOnlyWhenFull'
    BY <1>1, <1>6 DEF QueueOnlyWhenFull, Idle
  <1>9. y \in Range(na) /\ Range(dnslist)' = Range(na) \ {y} /\ Range(dnsqueue)' = Range(nq)
    BY <1>1, <1>3, <1>4, ZenonT(60) DEF Range
  <1>10. InOrder
    <2>1. Active \cap Range(nq) = {} /\ Range(na) \cap Range(dnsqueue) = {}
      BY <1>0 DEF Active
    <2>2. \A j \in DOMAIN dnsqueue : dnsqueue[j] \in Range(dnsqueue)
      BY DEF Range
    <2> QED BY <2>1, <2>2, <1>1, <1>4 DEF InOrder
  <1>11. LK!CallBack(y, started)
    <2>1. CASE started = {} /\ na = dnslist /\ nq = dnsqueue
      BY <2>1, <1>1, <1>9 DEF LK!CallBack, Active
    <2>2. CASE started # {}
      <3>1. PICK x \in DnsLookup :
              /\ started = {x} /\ x.modptr = y.modptr
              /\ \A r \in Active \cup Range(dnsqueue) : r.id # x.id
              /\ \/ /\ Len(dnslist) < DnsQueueSize
                    /\ Range(na) = Range(dnslist) \cup {x} /\ nq = dnsqueue
                 \/ /\ Len(dnslist) = DnsQueueSize
                    /\ na = dnslist /\ Range(nq) = Range(dnsqueue) \cup {x}
        BY <2>2
      <3>2. x \in LK!Lookup
        BY DEF LK!Lookup, DnsLookup, LK!Owners, Owners
      <3>3. LK!Free(x)
        BY <3>1 DEF LK!Free, Active
      <3>4. Range(dnslist)' \cup {y} = Range(na) /\ y \notin Range(dnslist)'
        BY <1>9
      <3>5. LK!AcceptedAs(x, Range(dnslist)' \cup {y}, Range(dnsqueue)')
        <4>1. Cardinality(Range(dnslist)) = Len(dnslist)
          BY <1>0 DEF Active
        <4> QED BY <4>1, <3>1, <3>4, <1>9, SameCardinality DEF LK!AcceptedAs
      <3> QED BY <3>1, <3>2, <3>3, <3>4, <3>5, <1>1 DEF LK!CallBack, Active
    <2> QED BY <2>1, <2>2
  <1>12. LK!Next
    <2>1. started \in {{}} \cup {{r} : r \in LK!Lookup}
      BY DEF LK!Lookup, DnsLookup, LK!Owners, Owners
    <2>2. y \in Range(dnslist)
      BY DEF Active
    <2> QED BY <2>1, <2>2, <1>1, <1>11 DEF LK!Next
  <1> QED BY <1>7, <1>8, <1>10, <1>12 DEF GoodStep

LEMMA CalledBackStep ==
  ASSUME DnsInv, NEW y \in Active, CalledBack(y)
  PROVE  GoodStep
PROOF
  <1>0. /\ Listed(dnslist, dnsqueue) /\ DnsQueueSize \in Nat
        /\ dnslist \in Seq(DnsLookup) /\ Active \subseteq DnsLookup
        /\ Lists = [active |-> dnslist, queue |-> dnsqueue]
    BY ListedNow DEF Lists
  <1>1. CASE Answered(y, Lists)
    <2>1. Answered(y, [active |-> dnslist, queue |-> dnsqueue])
      BY <1>0, <1>1
    <2> QED BY <2>1, <1>0, AnsweredStep
  <1>2. CASE FreeIds # {} /\ Answered(y, Submitted(Lists, NewLookup(y.modptr)))
    <2> DEFINE x == NewLookup(y.modptr)
    <2>1. y.modptr \in Owners
      BY <1>0 DEF DnsLookup
    <2>2. x \in DnsLookup /\ x.modptr = y.modptr
          /\ \A r \in Active \cup Range(dnsqueue) : r.id # x.id
      BY <2>1, <1>2, NewLookupFacts
    <2>3. \A r \in Range(dnslist) \cup Range(dnsqueue) : r.id # x.id
      BY <2>2 DEF Active
    <2>4. Answered(y, Submitted([active |-> dnslist, queue |-> dnsqueue], x))
      BY <1>0, <1>2
    <2>h. HIDE DEF x
    <2>5. PICK na, nq : Accepted(dnslist, dnsqueue, x, na, nq)
      BY <2>2, <2>3, <1>0, SubmittedFacts
    <2>6. /\ Submitted([active |-> dnslist, queue |-> dnsqueue], x) =
               [active |-> na, queue |-> nq]
          /\ Listed(na, nq)
          /\ \/ /\ Len(dnslist) < DnsQueueSize /\ nq = dnsqueue
                /\ na = Append(dnslist, x) /\ Range(na) = Range(dnslist) \cup {x}
             \/ /\ Len(dnslist) = DnsQueueSize /\ na = dnslist
                /\ Range(nq) = Range(dnsqueue) \cup {x}
      BY <2>5 DEF Accepted
    <2>7. Answered(y, [active |-> na, queue |-> nq])
      BY <2>4, <2>6
    <2>8. \A i \in DOMAIN dnslist : i \in DOMAIN na /\ na[i] = dnslist[i]
      <3>1. /\ DOMAIN dnslist = 1 .. Len(dnslist)
            /\ DOMAIN Append(dnslist, x) = 1 .. Len(dnslist) + 1 /\ Len(dnslist) \in Nat
            /\ \A i \in 1 .. Len(dnslist) : Append(dnslist, x)[i] = dnslist[i]
        BY <1>0, <2>2, AppendProperties, LenProperties
      <3> QED BY <3>1, <2>6
    <2> QED BY <2>2, <2>6, <2>7, <2>8, AnsweredStep, ZenonT(60)
  <1> QED BY <1>1, <1>2 DEF CalledBack

-----------------------------------------------------------------------------
(* The theorems. *)

LEMMA EveryStep ==
  ASSUME DnsInv, [DnsNext]_dnsvars
  PROVE  DnsInv' /\ (UNCHANGED dnsvars \/ GoodStep)
PROOF
  <1>1. CASE UNCHANGED dnsvars
    BY <1>1 DEF dnsvars, DnsInv, DnsTypeOK, QueueOnlyWhenFull, Idle
  <1>2. CASE DnsNext
    <2>1. ASSUME NEW m \in Owners, dns_lookup(m) PROVE GoodStep
      BY <2>1, StartStep
    <2>2. ASSUME NEW m \in Mods, LoadModule(m) PROVE GoodStep
      BY <2>2, LoadStep
    <2>3. ASSUME NEW m \in Mods, UnloadFaults(m) PROVE GoodStep
      BY <2>3, FaultStep DEF UnloadFaults, Idle
    <2>4. ASSUME NEW m \in Mods, canx_dns(m) PROVE GoodStep
      BY <2>4, CanxStep
    <2>5. ASSUME Begin PROVE GoodStep
      BY <2>5, BeginStep
    <2>6. ASSUME StillWaiting PROVE GoodStep
      BY <2>6, WaitStep
    <2>7. ASSUME NEW y \in Active, CalledBack(y) PROVE GoodStep
      BY <2>7, CalledBackStep
    <2>8. ASSUME CallbackFaults PROVE GoodStep
      BY <2>8, FaultStep DEF CallbackFaults, AtElement
    <2>9. ASSUME End PROVE GoodStep
      BY <2>9, EndStep
    <2>10. GoodStep
      BY <1>2, <2>1, <2>2, <2>3, <2>4, <2>5, <2>6, <2>7, <2>8, <2>9 DEF DnsNext, do_dns
    <2> QED BY <2>10 DEF DnsInv, GoodStep
  <1> QED BY <1>1, <1>2

LEMMA DnsStarted ==
  ASSUME DnsInit
  PROVE  DnsInv /\ LK!Init
PROOF
  <1>1. Listed(<<>>, <<>>) /\ Range(<<>>) = {}
    BY EmptySeq, DnsAssumption DEF Listed, IsInjective, Range
  <1>2. DnsTypeOK
    <2>1. NoIdTwice(dnslist, dnsqueue) /\ Len(dnslist) <= DnsQueueSize
          /\ dnslist \in Seq(DnsLookup) /\ dnsqueue \in Seq(DnsLookup)
      BY <1>1, ListedIsTyped DEF DnsInit, Listed
    <2>2. DnsQueueSize \in Nat /\ 0 \in 0 .. DnsQueueSize + 1 /\ 0 \in 0 .. DnsQueueSize
      BY DnsAssumption
    <2>3. Core \in present /\ present \subseteq Owners /\ faulted \in BOOLEAN /\ pos = 0 /\ left = 0
      BY DEF DnsInit, Owners
    <2> QED BY <2>1, <2>2, <2>3 DEF DnsTypeOK, NoIdTwice
  <1>3. LK!Init
    BY <1>1 DEF DnsInit, LK!Init
  <1> QED BY <1>2, <1>3 DEF DnsInv, QueueOnlyWhenFull, DnsInit

LEMMA InvariantHolds == DnsSpec => []DnsInv
PROOF
  <1>1. DnsInit => DnsInv
    BY DnsStarted
  <1>2. DnsInv /\ [DnsNext]_dnsvars => DnsInv'
    BY EveryStep
  <1> QED BY <1>1, <1>2, PTL DEF DnsSpec

\* DnsTypeOK: no lookup is in the lists twice, and never more are active than there
\* are places.
THEOREM NoLookupTwice == DnsSpec => []DnsTypeOK
PROOF
  <1>1. DnsInv => DnsTypeOK
    BY DEF DnsInv
  <1> QED BY <1>1, InvariantHolds, PTL

\* QueueOnlyWhenFull: whatever callbacks start and unloads cancel, lookups wait
\* between passes of do_dns only while all places are taken.
THEOREM NothingWaitsInVain == DnsSpec => []QueueOnlyWhenFull
PROOF
  <1>1. DnsInv => QueueOnlyWhenFull
    BY DEF DnsInv
  <1> QED BY <1>1, InvariantHolds, PTL

\* QueueServedInOrder: of two queued lookups the later one never becomes active
\* first.
THEOREM ServedInOrder == DnsSpec => QueueServedInOrder
PROOF
  <1>1. DnsInv /\ [DnsNext]_dnsvars => [InOrder]_dnsvars
    BY EveryStep DEF GoodStep
  <1>2. QueueServedInOrder <=> [][InOrder]_dnsvars
    BY DEF QueueServedInOrder, InOrder
  <1> QED BY <1>1, <1>2, InvariantHolds, PTL DEF DnsSpec

\* KeepsThePromise: every behaviour of the lists is one Lookups allows: a lookup is
\* called back once or leaves with its module, and nothing else happens to it.
THEOREM DnsImplementsLookups == DnsSpec => KeepsThePromise
PROOF
  <1>1. DnsInit => LK!Init
    BY DnsStarted
  <1>2. UNCHANGED dnsvars => UNCHANGED LK!vars
    BY DEF dnsvars, LK!vars
  <1>3. DnsInv /\ [DnsNext]_dnsvars => [LK!Next]_LK!vars
    BY <1>2, EveryStep DEF GoodStep
  <1> QED BY <1>1, <1>3, InvariantHolds, PTL DEF DnsSpec, KeepsThePromise, LK!Spec

-----------------------------------------------------------------------------
(* canx_dns: NoLookupOfUnloaded fails where two neighbours in a list are of *)
(* the module.  It fails nowhere else.                                      *)

Apart(s, m) == \A i \in 1 .. Len(s) - 1 : ~(s[i].modptr = m /\ s[i + 1].modptr = m)

\* No unload finds two lookups of its module next to each other.
NoNeighbours == \A m \in Mods : canx_dns(m) => Apart(dnslist, m) /\ Apart(dnsqueue, m)

LEMMA AllCanxed ==
  ASSUME NEW s \in Seq(DnsLookup), NEW m, Apart(s, m)
  PROVE  \A x \in Range(s) : x.modptr = m => x \in Canxed(s, m)
PROOF
  <1> SUFFICES ASSUME NEW k \in DOMAIN s, s[k].modptr = m PROVE s[k] \in Canxed(s, m)
    BY DEF Range
  <1>1. /\ Len(s) \in Nat /\ k \in 1 .. Len(s)
        /\ k \in 1 .. k /\ (k - k) % 2 = 0 /\ k .. k = {k}
    BY LenProperties
  <1>2. k > 1 => s[k - 1].modptr # m
    <2> SUFFICES ASSUME k > 1 PROVE s[k - 1].modptr # m
      OBVIOUS
    <2>1. k - 1 \in 1 .. Len(s) - 1 /\ k - 1 + 1 = k
      BY <1>1
    <2> QED BY <2>1 DEF Apart
  <1> QED BY <1>1, <1>2 DEF Canxed

\* canx_dns of a module whose lookups have no neighbours leaves none of them.
LEMMA CanxClears ==
  ASSUME DnsInv, NoLookupOfUnloaded, NEW m \in Mods, canx_dns(m),
         Apart(dnslist, m), Apart(dnsqueue, m)
  PROVE  NoLookupOfUnloaded'
PROOF
  <1> DEFINE a == Without(dnslist, Canxed(dnslist, m))
  <1> DEFINE q == Without(dnsqueue, Canxed(dnsqueue, m))
  <1>0. /\ Listed(dnslist, dnsqueue) /\ Len(dnslist) <= DnsQueueSize
        /\ dnslist \in Seq(DnsLookup) /\ dnsqueue \in Seq(DnsLookup)
        /\ IsInjective(dnslist) /\ IsInjective(dnsqueue)
        /\ DnsQueueSize \in Nat /\ Len(dnslist) \in Nat
    BY ListedNow
  <1>1. present' = present \ {m}
    BY DEF canx_dns
  <1>2. PICK refused : Become(CheckQueue([active |-> a, queue |-> q], refused))
    BY DEF canx_dns
  <1>3. /\ a \in Seq(DnsLookup) /\ IsInjective(a)
        /\ Range(a) = Range(dnslist) \ Canxed(dnslist, m) /\ Len(a) <= Len(dnslist)
    BY <1>0, WithoutFacts
  <1>4. /\ q \in Seq(DnsLookup) /\ IsInjective(q)
        /\ Range(q) = Range(dnsqueue) \ Canxed(dnsqueue, m)
        /\ \A k, l \in DOMAIN q : k < l =>
             \E i, j \in DOMAIN dnsqueue : i < j /\ q[k] = dnsqueue[i] /\ q[l] = dnsqueue[j]
    BY <1>0, WithoutFacts
  <1>h. HIDE DEF a, q
  <1>5. Listed(a, q)
    <2>1. Len(a) <= DnsQueueSize
      BY <1>0, <1>3, LenProperties
    <2> QED BY <2>1, <1>0, <1>3, <1>4 DEF Listed
  <1>6. LK!Served(Range(a), Range(q))
    <2>1. Range(a) \subseteq Active /\ Range(q) \subseteq Range(dnsqueue)
      BY <1>3, <1>4 DEF Active
    <2> QED BY <1>2, <1>4, <1>5, <2>1, ServedFacts
  <1>7. Pending' \subseteq Range(a) \cup Range(q)
    BY <1>6 DEF LK!Served, Pending
  <1>8. \A x \in Range(a) \cup Range(q) : x \in Pending /\ x.modptr # m
    BY <1>0, <1>3, <1>4, AllCanxed DEF Pending
  <1> QED BY <1>1, <1>7, <1>8 DEF NoLookupOfUnloaded

\* Lookups, without an unload, starts lookups of loaded modules only.
LEMMA LookupsKeep ==
  ASSUME NoLookupOfUnloaded, LK!Next, present \subseteq present'
  PROVE  NoLookupOfUnloaded'
PROOF
  <1> SUFFICES ASSUME NEW x \in Pending', x \notin Pending PROVE x.modptr \in present
    BY DEF NoLookupOfUnloaded
  <1>1. CASE \E y \in LK!Lookup : LK!Start(y)
    BY <1>1 DEF LK!Start, LK!AcceptedAs, Pending
  <1>2. CASE \E y \in Active, started \in {{}} \cup {{r} : r \in LK!Lookup} : LK!CallBack(y, started)
    BY <1>2 DEF LK!CallBack, LK!AcceptedAs, Pending, Active
  <1>3. CASE LK!Serve \/ (\E m \in Mods : LK!Load(m) \/ LK!Unload(m)) \/ LK!Fault
    BY <1>3 DEF LK!Serve, LK!Served, LK!Load, LK!Unload, LK!Fault, Pending
  <1> QED BY <1>1, <1>2, <1>3 DEF LK!Next, Active

\* NoLookupOfUnloaded holds, and no callback of a module that is gone is called,
\* for as long as no unload finds two lookups of its module next to each other:
\* neither what callbacks start meanwhile nor the refill of the active list lets
\* a lookup outlive its module.
THEOREM LookupsGoWithModules ==
  DnsSpec /\ [][NoNeighbours]_dnsvars => []NoLookupOfUnloaded /\ [][~CallbackFaults]_dnsvars
PROOF
  <1>1. DnsInit => NoLookupOfUnloaded
    BY DEF DnsInit, NoLookupOfUnloaded, Pending, Range
  <1>2. ASSUME DnsInv, NoLookupOfUnloaded, [DnsNext]_dnsvars, [NoNeighbours]_dnsvars
        PROVE  NoLookupOfUnloaded'
    <2>1. CASE UNCHANGED dnsvars
      BY <1>2, <2>1 DEF dnsvars, NoLookupOfUnloaded, Pending
    <2>2. ASSUME NEW m \in Mods, canx_dns(m), NoNeighbours PROVE NoLookupOfUnloaded'
      BY <1>2, <2>2, CanxClears DEF NoNeighbours
    <2>3. CASE ~(UNCHANGED dnsvars) /\ DnsNext /\ \A m \in Mods : ~canx_dns(m)
      <3>1. present \subseteq present'
        BY <2>3 DEF DnsNext, do_dns, dns_lookup, LoadModule, UnloadFaults, Begin, StillWaiting,
                    CalledBack, Answered, CallbackFaults, End
      <3>2. LK!Next \/ UNCHANGED LK!vars
        BY <1>2, <2>3, EveryStep DEF GoodStep
      <3>3. CASE UNCHANGED LK!vars
        BY <1>2, <3>3 DEF LK!vars, NoLookupOfUnloaded, Pending
      <3> QED BY <1>2, <3>1, <3>2, <3>3, LookupsKeep
    <2> QED BY <1>2, <2>1, <2>2, <2>3
  <1>3. NoLookupOfUnloaded => ~CallbackFaults
    BY DEF NoLookupOfUnloaded, CallbackFaults, AtElement, Pending, Range
  <1>4. DnsInv /\ NoLookupOfUnloaded /\ [DnsNext]_dnsvars /\ [NoNeighbours]_dnsvars
          => NoLookupOfUnloaded'
    BY <1>2
  <1> QED BY <1>1, <1>3, <1>4, InvariantHolds, PTL DEF DnsSpec
=============================================================================
