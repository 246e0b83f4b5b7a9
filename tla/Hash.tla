-------------------------------- MODULE Hash --------------------------------
(***************************************************************************)
(* The hash tables of src/hash.c and their scans, as operators on values.  *)
(*                                                                         *)
(* A table is a record: nchains chains (a power of two), each a sequence   *)
(* of nodes from its head on, the node count, and the marks at which the   *)
(* table doubles or halves.  A node is in the chain given by the low bits  *)
(* of its hash value, HKey[node].  A scan is the pair hscan_t keeps: the   *)
(* chain it stands in, and the node hash_scan_next will return next, which *)
(* is fetched one call ahead.                                              *)
(***************************************************************************)
EXTENDS LinkedLists

CONSTANTS InitSize,   \* INIT_SIZE, 64 in the program
          HKey,       \* the hash value of each node's key
          NULL        \* the end of a scan

ASSUME HashAssumption == InitSize \in Nat /\ InitSize > 1

Chains(t) == 0 .. t.nchains - 1

\* The nodes of a table, and the places they are found at.
Nodes(t) == UNION {Range(t.chains[c]) : c \in Chains(t)}
Places(t) == UNION {{c} \X DOMAIN t.chains[c] : c \in Chains(t)}

EmptyTable == [ nchains   |-> InitSize,
                chains    |-> [c \in 0 .. InitSize - 1 |-> <<>>],
                nodecount |-> 0,
                highmark  |-> 2 * InitSize,
                lowmark   |-> InitSize \div 2 ]

\* hkey & mask
ChainOf(t, x) == HKey[x] % t.nchains

GrowMutant(t) ==  \* the chains are copied, not split on the exposed bit
    [ nchains   |-> 2 * t.nchains,
      chains    |-> [c \in 0 .. 2 * t.nchains - 1 |->
                       IF c < t.nchains THEN t.chains[c] ELSE <<>>],
      nodecount |-> t.nodecount,
      highmark  |-> 2 * t.highmark,
      lowmark   |-> 2 * t.lowmark ]

\* The nodes whose hash value has b in the bit a doubling exposes.
OnBit(t, b) == {x \in Nodes(t) : (HKey[x] \div t.nchains) % 2 = b}

\* grow_table: every chain is split in two on the newly exposed bit of the
\* hash value, and each half comes out reversed.
Grow(t) ==
    [ nchains   |-> 2 * t.nchains,
      chains    |-> [c \in 0 .. 2 * t.nchains - 1 |->
                       Reverse(Without(t.chains[c % t.nchains],
                                       OnBit(t, 1 - c \div t.nchains)))],
      nodecount |-> t.nodecount,
      highmark  |-> 2 * t.highmark,
      lowmark   |-> 2 * t.lowmark ]

\* shrink_table: each upper chain is tacked onto its lower sister.
Shrink(t) ==
    LET half == t.nchains \div 2
    IN  [ nchains   |-> half,
          chains    |-> [c \in 0 .. half - 1 |->
                           t.chains[c] \o t.chains[c + half]],
          nodecount |-> t.nodecount,
          highmark  |-> t.highmark \div 2,
          lowmark   |-> t.lowmark \div 2 ]

\* The table with another chain c, and the count that goes with it.
WithChain(t, c, chain, count) ==
    [t EXCEPT !.chains[c] = chain, !.nodecount = count]

\* hash_insert: at the head of its chain, after growing a full table.
HashInsert(t, x) ==
    LET g == IF t.nodecount >= t.highmark THEN Grow(t) ELSE t
        k == ChainOf(g, x)
    IN  WithChain(g, k, <<x>> \o g.chains[k], g.nodecount + 1)

\* hash_scan_delete: spliced out of its chain; the table never shrinks.
HashScanDelete(t, x) ==
    LET k == ChainOf(t, x)
    IN  WithChain(t, k, Without(t.chains[k], {x}), t.nodecount - 1)

\* The condition of hash_delete: sparse, and above the initial size.
Shrinks(t) == t.nodecount <= t.lowmark /\ t.nodecount > InitSize

HashDelete(t, x) == HashScanDelete(IF Shrinks(t) THEN Shrink(t) ELSE t, x)
-----------------------------------------------------------------------------
\* The search of hash_scan_begin and hash_scan_next for a chain that is not
\* empty, from chain c on; the scan stays in chain `at' when there is none.
FirstFrom(t, c, at) ==
    LET full == {d \in Chains(t) : d >= c /\ t.chains[d] # <<>>}
    IN  IF full = {} THEN [chain |-> at, next |-> NULL]
        ELSE LET d == CHOOSE d \in full : \A e \in full : d <= e
             IN  [chain |-> d, next |-> Head(t.chains[d])]

HashScanBegin(t) == FirstFrom(t, 0, 0)

\* node->next of a node whose node->next is not NULL.  A node that has been
\* deleted has none: hash_scan_delete and hash_delete clear the field.
HasNext(t, x) ==
    \E c \in Chains(t) : \E i \in 1 .. Len(t.chains[c]) - 1 : t.chains[c][i] = x

NodeAfter(t, x) ==
    CHOOSE y \in Nodes(t) :
        \E c \in Chains(t) : \E i \in 1 .. Len(t.chains[c]) - 1 :
            t.chains[c][i] = x /\ t.chains[c][i + 1] = y

HashScanNextMutant(t, scan) ==  \* takes up the chain it has just finished
    IF scan.next = NULL THEN scan
    ELSE IF HasNext(t, scan.next)
    THEN [scan EXCEPT !.next = NodeAfter(t, scan.next)]
    ELSE FirstFrom(t, scan.chain + 2, scan.chain)

HashScanNextStuckMutant(t, scan) ==  \* the end is not noted
    IF scan.next = NULL THEN scan
    ELSE IF HasNext(t, scan.next)
    THEN [scan EXCEPT !.next = NodeAfter(t, scan.next)]
    ELSE LET s == FirstFrom(t, scan.chain + 1, scan.chain)
         IN  IF s.next = NULL THEN scan ELSE s

\* hash_scan_next: the scan after it has returned scan.next.
HashScanNext(t, scan) ==
    IF scan.next = NULL THEN scan
    ELSE IF HasNext(t, scan.next)
    THEN [scan EXCEPT !.next = NodeAfter(t, scan.next)]
    ELSE FirstFrom(t, scan.chain + 1, scan.chain)
-----------------------------------------------------------------------------
\* The nodes a scan has still to return: the rest of its chain from the node
\* it has fetched, and the chains above.
Ahead(t, scan) ==
    IF scan.next = NULL THEN {}
    ELSE {x \in Nodes(t) : \E c \in Chains(t) : \E i \in DOMAIN t.chains[c] :
            /\ t.chains[c][i] = x
            /\ \/ c > scan.chain
               \/ c = scan.chain /\ \E j \in 1 .. i : t.chains[c][j] = scan.next}

\* hash_verify, and what its callers rely on besides: no node twice.
Verified(t) ==
    /\ t.lowmark < t.highmark
    /\ \A p \in Places(t) : ChainOf(t, t.chains[p[1]][p[2]]) = p[1]
    /\ t.nodecount = Cardinality(Places(t))
    /\ \A p, q \in Places(t) :
          t.chains[p[1]][p[2]] = t.chains[q[1]][q[2]] => p = q
=============================================================================
