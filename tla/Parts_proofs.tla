----------------------------- MODULE Parts_proofs ----------------------------
(***************************************************************************)
(* Modules and LimitServ, for every value of their constants.              *)
(***************************************************************************)
EXTENDS Modules, LimitServ, FiniteSetTheorems, SequenceTheorems, TLAPS

-----------------------------------------------------------------------------
(***************************************************************************)
(* Modules.                                                                *)
(*                                                                         *)
(* That nobody finds another module's data (DataOwned) depends on the      *)
(* cleanup of unload_module, which depends on the counters: an unload that *)
(* finds a counter of 0 cleans up nothing.  So DataOwned is inductive only *)
(* together with DataCounted, and with the fact that a module whose load   *)
(* fails in AddAuthModule is never in the module hash.                     *)
(***************************************************************************)

\* The inductive invariant.
IInv ==
  /\ TypeOK
  /\ modulehash \cap BrokenAuth = {}
  /\ DataOwned
  /\ DataCounted

-----------------------------------------------------------------------------
(* The type invariant. *)

LEMMA InitTypeOK == Init => TypeOK
  BY ModulesAssumption DEF Init, TypeOK, Empty, NoData, Slots

\* Every action keeps the types; the only subtraction on a counter that must
\* stay a natural number is guarded.
LEMMA NextTypeOK == TypeOK /\ [Next]_vars => TypeOK'
<1> SUFFICES ASSUME TypeOK, [Next]_vars PROVE TypeOK'
  OBVIOUS
<1>0. 0 \in Slots
  BY ModulesAssumption DEF Slots
<1>1. ASSUME NEW m \in Mods, LoadModule(m) PROVE TypeOK'
  BY <1>1 DEF LoadModule, assign_mod_number, FreeSlots, TypeOK
<1>2. ASSUME NEW m \in Mods, LoadBrokenAuth(m) PROVE TypeOK'
  BY <1>0, <1>2 DEF LoadBrokenAuth, TypeOK
<1>3. ASSUME NEW m \in Mods, UnloadModule(m) PROVE TypeOK'
  <2>1. modvalue' \in [Holders -> [Slots -> Mods \cup {None}]]
    BY <1>3 DEF UnloadModule, CleanupModdata, TypeOK
  <2>2. datacnt' \in [Mods -> [Kinds -> Nat]]
    BY <1>3 DEF UnloadModule, CleanupModdata, TypeOK, NoData
  <2> QED
    BY <1>3, <2>1, <2>2 DEF UnloadModule, TypeOK
<1>4. ASSUME NEW m \in Mods, NEW h \in Holders, SetModValue(m, h) PROVE TypeOK'
  BY <1>4 DEF SetModValue, TypeOK, Kind, Kinds
<1>5. ASSUME NEW m \in Mods, NEW h \in Holders, ClearModValue(m, h) PROVE TypeOK'
  BY <1>5 DEF ClearModValue, TypeOK, Kind, Kinds
<1>6. ASSUME NEW h \in Holders, Replaced(h) PROVE TypeOK'
  BY <1>6 DEF Replaced, TypeOK, Empty
<1>7. CASE UNCHANGED vars
  BY <1>7 DEF vars, TypeOK
<1> QED
  BY <1>1, <1>2, <1>3, <1>4, <1>5, <1>6, <1>7 DEF Next

-----------------------------------------------------------------------------
(* Sizes of sets of channels and servers. *)

\* Two kinds of records are cleaned up as they should be, K of kind k.
Kept(K, k) == (K = ChanRecs /\ k = "channel") \/ (K = ServerRecs /\ k = "server")

\* The sizes of nested sets of records.
LEMMA Sizes ==
  ASSUME NEW K, NEW k, Kept(K, k), NEW S \in SUBSET K, NEW T \in SUBSET S
  PROVE  /\ IsFiniteSet(S) /\ Cardinality(S) \in Nat
         /\ Cardinality(T) \in Nat /\ Cardinality(T) <= Cardinality(S)
<1>1. IsFiniteSet(K)
  BY ModulesAssumption DEF Kept
<1>2. IsFiniteSet(S)
  BY <1>1, FS_Subset
<1>3. IsFiniteSet(T) /\ Cardinality(T) <= Cardinality(S)
  BY <1>2, FS_Subset
<1> QED
  BY <1>2, <1>3, FS_CardinalityType

\* DataCounted, for one module and one kind.
Covered(m, K, k) == datacnt[m][k] >= Cardinality(Holding(m, K))

LEMMA DataCountedSplit ==
  DataCounted <=> \A m \in modulehash : Covered(m, ChanRecs, "channel") /\ Covered(m, ServerRecs, "server")
  BY DEF DataCounted, Covered

\* A step by which a module loses data but no count keeps its counter covering.
LEMMA LosesData ==
  ASSUME TypeOK, TypeOK', NEW m \in Mods, NEW K, NEW k, Kept(K, k), Covered(m, K, k),
         datacnt'[m][k] = datacnt[m][k],
         \A h \in K : modvalue'[h][modnum'[m]] = m => modvalue[h][modnum[m]] = m
  PROVE  Covered(m, K, k)'
<1>1. Holding(m, K) \in SUBSET K /\ Holding(m, K)' \in SUBSET Holding(m, K)
  BY DEF Holding
<1>2. datacnt[m][k] \in Nat
  BY DEF TypeOK, Kept, Kinds
<1>3. /\ Cardinality(Holding(m, K)') <= Cardinality(Holding(m, K))
      /\ Cardinality(Holding(m, K)') \in Nat /\ Cardinality(Holding(m, K)) \in Nat
  BY <1>1, Sizes
<1> QED
  BY <1>2, <1>3 DEF Covered

\* The kind of a record decides which counter a module changes.
LEMMA KindOfKept ==
  ASSUME NEW K, NEW k, Kept(K, k), NEW h \in Holders
  PROVE  /\ h \in K <=> Kind(h) = k
         /\ K \subseteq Holders /\ K \subseteq ChanRecs \cup ServerRecs
         /\ k \in Kinds
  BY ModulesAssumption DEF Kept, Kind, Holders, Kinds

\* A counter that is 0 says that the module has attached nothing.
LEMMA CountsNothing ==
  ASSUME TypeOK, NEW m \in Mods, NEW K, NEW k, Kept(K, k), Covered(m, K, k),
         NEW h \in K, modvalue[h][modnum[m]] = m
  PROVE  datacnt[m][k] > 0
<1>1. {h} \in SUBSET Holding(m, K) /\ Holding(m, K) \in SUBSET K
  BY DEF Holding
<1>2. /\ Cardinality({h}) <= Cardinality(Holding(m, K))
      /\ Cardinality(Holding(m, K)) \in Nat
  BY <1>1, Sizes
<1>3. Cardinality({h}) = 1
  BY FS_Singleton
<1>4. datacnt[m][k] \in Nat
  BY DEF TypeOK, Kept, Kinds
<1> QED
  BY <1>2, <1>3, <1>4 DEF Covered

-----------------------------------------------------------------------------
(* The actions, one lemma each. *)

\* The records that DataOwned is about.
Owned(h, i) ==
  modvalue[h][i] # None => modvalue[h][i] \in modulehash /\ modnum[modvalue[h][i]] = i

LEMMA LoadKeeps ==
  ASSUME IInv, TypeOK', NEW m \in Mods, LoadModule(m)
  PROVE  IInv'
<1> USE DEF IInv
<1>1. modulehash' = modulehash \cup {m} /\ m \notin modulehash /\ m \notin BrokenAuth
  BY DEF LoadModule
<1>2. PICK i \in Slots : modnum' = [modnum EXCEPT ![m] = i]
  BY DEF LoadModule, assign_mod_number, FreeSlots
<1>3. modvalue' = modvalue /\ datacnt' = datacnt
  BY DEF LoadModule
<1>4. \A h \in ChanRecs \cup ServerRecs, j \in Slots : modvalue[h][j] # m
  BY <1>1, ModulesAssumption DEF DataOwned
<1>5. \A n \in modulehash : modnum'[n] = modnum[n]
  BY <1>1, <1>2 DEF TypeOK
<1>6. DataOwned'
  BY <1>1, <1>3, <1>5 DEF DataOwned
<1>7. ASSUME NEW n \in modulehash', NEW K, NEW k, Kept(K, k)
      PROVE  Covered(n, K, k)'
  <2>1. CASE n = m
    <3>1. Holding(n, K)' = {}
      BY <1>2, <1>3, <1>4, <1>7, <2>1 DEF Holding, TypeOK, Kept
    <3>2. datacnt'[n][k] \in Nat
      BY <1>7, <2>1 DEF TypeOK, Kept, Kinds
    <3> QED
      BY <3>1, <3>2, FS_EmptySet DEF Covered
  <2>2. CASE n \in modulehash
    <3>1. Covered(n, K, k)
      BY <1>7, <2>2, DataCountedSplit DEF Kept
    <3>2. n \in Mods
      BY <2>2 DEF TypeOK
    <3> QED
      BY <1>3, <1>5, <1>7, <2>2, <3>1, <3>2, LosesData
  <2> QED
    BY <1>1, <1>7, <2>1, <2>2
<1>8. DataCounted'
  BY <1>7 DEF DataCounted, Covered, Kept
<1> QED
  BY <1>1, <1>6, <1>8

LEMMA LoadBrokenKeeps ==
  ASSUME IInv, TypeOK', NEW m \in Mods, LoadBrokenAuth(m)
  PROVE  IInv'
<1> USE DEF IInv
<1>1. /\ m \notin modulehash
      /\ modulehash' = modulehash /\ modvalue' = modvalue /\ datacnt' = datacnt
      /\ \A n \in modulehash : modnum'[n] = modnum[n]
  BY DEF LoadBrokenAuth, TypeOK
<1>2. DataOwned'
  BY <1>1 DEF DataOwned
<1>3. DataCounted'
  BY <1>1 DEF DataCounted, Holding
<1> QED
  BY <1>1, <1>2, <1>3

\* The heart of the matter: the counters make unload_module clean up whatever
\* the module has left.
LEMMA UnloadKeeps ==
  ASSUME IInv, TypeOK', NEW m \in Mods, UnloadModule(m)
  PROVE  IInv'
<1> USE DEF IInv
<1>1. modulehash' = modulehash \ {m} /\ m \in modulehash /\ modnum' = modnum
  BY DEF UnloadModule
<1>2. \A h \in Holders, j \in Slots :
        modvalue'[h][j] = IF h \in Cleans(m) /\ j = modnum[m] THEN None ELSE modvalue[h][j]
  BY DEF UnloadModule, CleanupModdata, TypeOK
<1>3. \A n \in Mods \ {m} : datacnt'[n] = datacnt[n]
  BY DEF UnloadModule, CleanupModdata, TypeOK
<1>4. ASSUME NEW h \in ChanRecs \cup ServerRecs, modvalue[h][modnum[m]] = m
      PROVE  h \in Cleans(m)
  <2>1. Covered(m, ChanRecs, "channel") /\ Covered(m, ServerRecs, "server")
    BY <1>1, DataCountedSplit
  <2>2. CASE h \in ChanRecs
    BY <1>4, <2>1, <2>2, CountsNothing DEF Kept, Cleans
  <2>3. CASE h \in ServerRecs
    BY <1>4, <2>1, <2>3, CountsNothing DEF Kept, Cleans
  <2> QED
    BY <2>2, <2>3
<1>5. DataOwned'
  <2> SUFFICES ASSUME NEW h \in ChanRecs \cup ServerRecs, NEW j \in Slots, modvalue'[h][j] # None
               PROVE  modvalue'[h][j] \in modulehash' /\ modnum'[modvalue'[h][j]] = j
    BY DEF DataOwned
  <2>1. modvalue'[h][j] = modvalue[h][j] /\ ~(h \in Cleans(m) /\ j = modnum[m])
    BY <1>2 DEF Holders
  <2>2. modvalue[h][j] \in modulehash /\ modnum[modvalue[h][j]] = j
    BY <2>1 DEF DataOwned
  <2>3. modvalue[h][j] # m
    BY <1>4, <2>1, <2>2
  <2> QED
    BY <1>1, <2>1, <2>2, <2>3
<1>6. ASSUME NEW n \in modulehash', NEW K, NEW k, Kept(K, k)
      PROVE  Covered(n, K, k)'
  <2>1. n \in modulehash /\ n \in Mods /\ n # m /\ modnum[n] \in Slots
    BY <1>1, <1>6 DEF TypeOK
  <2>2. Covered(n, K, k)
    BY <1>6, <2>1, DataCountedSplit DEF Kept
  <2>3. ASSUME NEW h \in K, modvalue'[h][modnum'[n]] = n PROVE modvalue[h][modnum[n]] = n
    BY <1>1, <1>2, <1>6, <2>1, <2>3, ModulesAssumption DEF Kept, Holders
  <2> QED
    BY <1>3, <1>6, <2>1, <2>2, <2>3, LosesData
<1>7. DataCounted'
  BY <1>6 DEF DataCounted, Covered, Kept
<1> QED
  BY <1>1, <1>5, <1>7

LEMMA SetKeeps ==
  ASSUME IInv, TypeOK', NEW m \in Mods, NEW h \in Holders, SetModValue(m, h)
  PROVE  IInv'
<1> USE DEF IInv
<1>1. m \in modulehash /\ modulehash' = modulehash /\ modnum' = modnum /\ modnum[m] \in Slots
  BY DEF SetModValue, TypeOK
<1>2. \A g \in Holders, j \in Slots :
        modvalue'[g][j] = IF g = h /\ j = modnum[m] THEN m ELSE modvalue[g][j]
  BY <1>1 DEF SetModValue, TypeOK
<1>3. \A n \in Mods, k \in Kinds :
        datacnt'[n][k] = IF n = m /\ k = Kind(h) THEN datacnt[n][k] + 1 ELSE datacnt[n][k]
  BY DEF SetModValue, TypeOK, Kind, Kinds
<1>4. DataOwned'
  BY <1>1, <1>2 DEF DataOwned, Holders
<1>5. ASSUME NEW n \in modulehash', NEW K, NEW k, Kept(K, k)
      PROVE  Covered(n, K, k)'
  <2>1. n \in modulehash /\ n \in Mods /\ modnum[n] \in Slots
    BY <1>1 DEF TypeOK
  <2>2. Covered(n, K, k)
    BY <1>5, <2>1, DataCountedSplit DEF Kept
  <2>3. CASE ~(n = m /\ h \in K)
    <3>1. datacnt'[n][k] = datacnt[n][k]
      BY <1>3, <1>5, <2>1, <2>3, KindOfKept
    <3>2. ASSUME NEW g \in K, modvalue'[g][modnum'[n]] = n PROVE modvalue[g][modnum[n]] = n
      BY <1>1, <1>2, <1>5, <2>1, <2>3, <3>2, KindOfKept
    <3> QED
      BY <1>5, <2>1, <2>2, <3>1, <3>2, LosesData
  <2>4. CASE n = m /\ h \in K
    <3>1. Holding(m, K) \in SUBSET K /\ Holding(m, K) \cup {h} \in SUBSET K
      BY <2>4 DEF Holding
    <3>2. Holding(m, K)' \in SUBSET (Holding(m, K) \cup {h})
      BY <1>1, <1>2, <1>5, KindOfKept DEF Holding
    <3>3. /\ Cardinality(Holding(m, K)') <= Cardinality(Holding(m, K) \cup {h})
          /\ Cardinality(Holding(m, K)') \in Nat
          /\ Cardinality(Holding(m, K) \cup {h}) \in Nat
      BY <1>5, <3>1, <3>2, Sizes
    <3>4. IsFiniteSet(Holding(m, K)) /\ Cardinality(Holding(m, K)) \in Nat
      BY <1>5, <3>1, Sizes
    <3>5. Cardinality(Holding(m, K) \cup {h}) <= Cardinality(Holding(m, K)) + 1
      <4>1. Cardinality(Holding(m, K) \cup {h}) =
              IF h \in Holding(m, K) THEN Cardinality(Holding(m, K)) ELSE Cardinality(Holding(m, K)) + 1
        BY <3>4, FS_AddElement, Zenon
      <4> QED
        BY <3>4, <4>1
    <3>6. datacnt'[m][k] = datacnt[m][k] + 1 /\ datacnt[m][k] \in Nat
      BY <1>3, <1>5, <2>4, KindOfKept DEF TypeOK
    <3> QED
      BY <2>2, <2>4, <3>3, <3>4, <3>5, <3>6 DEF Covered
  <2> QED
    BY <2>3, <2>4
<1>6. DataCounted'
  BY <1>5 DEF DataCounted, Covered, Kept
<1> QED
  BY <1>1, <1>4, <1>6

LEMMA ClearKeeps ==
  ASSUME IInv, TypeOK', NEW m \in Mods, NEW h \in Holders, ClearModValue(m, h)
  PROVE  IInv'
<1> USE DEF IInv
<1>1. /\ m \in modulehash /\ modulehash' = modulehash /\ modnum' = modnum
      /\ modnum[m] \in Slots /\ modvalue[h][modnum[m]] = m
  BY DEF ClearModValue, TypeOK
<1>2. \A g \in Holders, j \in Slots :
        modvalue'[g][j] = IF g = h /\ j = modnum[m] THEN None ELSE modvalue[g][j]
  BY <1>1 DEF ClearModValue, TypeOK
<1>3. \A n \in Mods, k \in Kinds :
        datacnt'[n][k] = IF n = m /\ k = Kind(h) THEN datacnt[n][k] - 1 ELSE datacnt[n][k]
  BY DEF ClearModValue, TypeOK, Kind, Kinds
<1>4. DataOwned'
  BY <1>1, <1>2 DEF DataOwned, Holders
<1>5. ASSUME NEW n \in modulehash', NEW K, NEW k, Kept(K, k)
      PROVE  Covered(n, K, k)'
  <2>1. n \in modulehash /\ n \in Mods /\ modnum[n] \in Slots
    BY <1>1 DEF TypeOK
  <2>2. Covered(n, K, k)
    BY <1>5, <2>1, DataCountedSplit DEF Kept
  <2>3. ASSUME NEW g \in K, modvalue'[g][modnum'[n]] = n
        PROVE  modvalue[g][modnum[n]] = n /\ (n = m => g # h)
    BY <1>1, <1>2, <1>5, <2>1, <2>3, KindOfKept, ModulesAssumption
  <2>4. CASE ~(n = m /\ h \in K)
    <3>1. datacnt'[n][k] = datacnt[n][k]
      BY <1>3, <1>5, <2>1, <2>4, KindOfKept
    <3> QED
      BY <1>5, <2>1, <2>2, <2>3, <3>1, LosesData
  <2>5. CASE n = m /\ h \in K
    <3>1. Holding(m, K) \in SUBSET K /\ Holding(m, K) \ {h} \in SUBSET K /\ h \in Holding(m, K)
      BY <1>1, <2>5 DEF Holding
    <3>2. Holding(m, K)' \in SUBSET (Holding(m, K) \ {h})
      BY <2>3, <2>5 DEF Holding
    <3>3. /\ Cardinality(Holding(m, K)') <= Cardinality(Holding(m, K) \ {h})
          /\ Cardinality(Holding(m, K)') \in Nat
          /\ Cardinality(Holding(m, K) \ {h}) \in Nat
      BY <1>5, <3>1, <3>2, Sizes
    <3>4. IsFiniteSet(Holding(m, K)) /\ Cardinality(Holding(m, K)) \in Nat
      BY <1>5, <3>1, Sizes
    <3>5. Cardinality(Holding(m, K) \ {h}) = Cardinality(Holding(m, K)) - 1
      <4>1. Cardinality(Holding(m, K) \ {h}) =
              IF h \in Holding(m, K) THEN Cardinality(Holding(m, K)) - 1 ELSE Cardinality(Holding(m, K))
        BY <3>4, FS_RemoveElement, Zenon
      <4> QED
        BY <3>1, <3>4, <4>1
    <3>6. datacnt'[m][k] = datacnt[m][k] - 1 /\ datacnt[m][k] \in Nat
      BY <1>3, <1>5, <2>5, KindOfKept DEF TypeOK
    <3> QED
      BY <2>2, <2>5, <3>3, <3>4, <3>5, <3>6 DEF Covered
  <2> QED
    BY <2>4, <2>5
<1>6. DataCounted'
  BY <1>5 DEF DataCounted, Covered, Kept
<1> QED
  BY <1>1, <1>4, <1>6

LEMMA ReplacedKeeps ==
  ASSUME IInv, TypeOK', NEW h \in Holders, Replaced(h)
  PROVE  IInv'
<1> USE DEF IInv
<1>1. modulehash' = modulehash /\ modnum' = modnum /\ datacnt' = datacnt
  BY DEF Replaced
<1>2. \A g \in Holders, j \in Slots :
        modvalue'[g][j] = IF g = h THEN None ELSE modvalue[g][j]
  BY DEF Replaced, TypeOK, Empty
<1>3. DataOwned'
  BY <1>1, <1>2 DEF DataOwned, Holders
<1>4. ASSUME NEW n \in modulehash', NEW K, NEW k, Kept(K, k)
      PROVE  Covered(n, K, k)'
  <2>1. n \in modulehash /\ n \in Mods /\ modnum[n] \in Slots
    BY <1>1 DEF TypeOK
  <2>2. Covered(n, K, k)
    BY <1>4, <2>1, DataCountedSplit DEF Kept
  <2>3. ASSUME NEW g \in K, modvalue'[g][modnum'[n]] = n PROVE modvalue[g][modnum[n]] = n
    BY <1>1, <1>2, <1>4, <2>1, <2>3, KindOfKept, ModulesAssumption
  <2> QED
    BY <1>1, <1>4, <2>1, <2>2, <2>3, LosesData
<1>5. DataCounted'
  BY <1>4 DEF DataCounted, Covered, Kept
<1> QED
  BY <1>1, <1>3, <1>5

-----------------------------------------------------------------------------
(* The theorems. *)

LEMMA InitIInv == Init => IInv
<1> SUFFICES ASSUME Init PROVE IInv
  OBVIOUS
<1>1. TypeOK
  BY InitTypeOK
<1>2. DataOwned /\ DataCounted
  BY DEF Init, DataOwned, DataCounted, Empty, Holders
<1> QED
  BY <1>1, <1>2 DEF IInv, Init

LEMMA NextIInv == IInv /\ [Next]_vars => IInv'
<1> SUFFICES ASSUME IInv, [Next]_vars PROVE IInv'
  OBVIOUS
<1>1. TypeOK'
  BY NextTypeOK DEF IInv
<1>2. CASE UNCHANGED vars
  BY <1>1, <1>2 DEF vars, IInv, DataOwned, DataCounted, Holding
<1>3. CASE Next
  BY <1>1, <1>3, LoadKeeps, LoadBrokenKeeps, UnloadKeeps, SetKeeps, ClearKeeps, ReplacedKeeps DEF Next
<1> QED
  BY <1>2, <1>3

\* SetChannelModValue, CleanupChannelModdata, unload_module and their likes for
\* servers: for every set of modules, numbers, channels and servers, data is
\* found only under the number of the loaded module that attached it, and the
\* counters that decide about the cleanup are never too low.
THEOREM DataIsOwned == Spec => [](TypeOK /\ DataOwned /\ DataCounted)
<1>1. IInv => TypeOK /\ DataOwned /\ DataCounted
  BY DEF IInv
<1> QED
  BY <1>1, InitIInv, NextIInv, PTL DEF Spec

\* assign_mod_number and unload_module: whatever is loaded and unloaded, only
\* the failed load of an auth module takes a number away from its owner.
THEOREM NumbersAreKept == Spec => NumbersKept
<1>1. ASSUME TypeOK, [Next]_vars, NumbersOwned
      PROVE  NumbersOwned' \/ \E m \in BrokenAuth : LoadBrokenAuth(m)
  <2> USE <1>1
  <2>1. ASSUME NEW m \in Mods, LoadModule(m) PROVE NumbersOwned'
    <3>1. PICK i \in FreeSlots :
            ModList' = [ModList EXCEPT ![i] = m] /\ modnum' = [modnum EXCEPT ![m] = i]
      BY <2>1 DEF LoadModule, assign_mod_number
    <3>2. ASSUME NEW n \in modulehash PROVE modnum[n] # i
      BY <3>1, ModulesAssumption DEF NumbersOwned, FreeSlots, TypeOK
    <3> QED
      BY <2>1, <3>1, <3>2 DEF LoadModule, NumbersOwned, FreeSlots, TypeOK
  <2>2. ASSUME NEW m \in Mods, UnloadModule(m) PROVE NumbersOwned'
    BY <2>2 DEF UnloadModule, NumbersOwned, TypeOK
  <2>3. ASSUME NEW m \in Mods, LoadBrokenAuth(m)
        PROVE  \E n \in BrokenAuth : LoadBrokenAuth(n)
    BY <2>3 DEF LoadBrokenAuth
  <2>4. ASSUME NEW m \in Mods, NEW h \in Holders, SetModValue(m, h) \/ ClearModValue(m, h)
        PROVE  NumbersOwned'
    BY <2>4 DEF SetModValue, ClearModValue, NumbersOwned
  <2>5. ASSUME NEW h \in Holders, Replaced(h) PROVE NumbersOwned'
    BY <2>5 DEF Replaced, NumbersOwned
  <2>6. CASE UNCHANGED vars
    BY <2>6 DEF vars, NumbersOwned
  <2> QED
    BY <2>1, <2>2, <2>3, <2>4, <2>5, <2>6 DEF Next
<1>2. Spec => []TypeOK
  BY InitTypeOK, NextTypeOK, PTL DEF Spec
<1>3. TypeOK /\ [Next]_vars =>
        [NumbersOwned => NumbersOwned' \/ \E m \in BrokenAuth : LoadBrokenAuth(m)]_vars
  BY <1>1
<1> QED
  BY <1>2, <1>3, PTL DEF Spec, NumbersKept

\* me.versionscan is the number of loaded modules that ask for version replies.
THEOREM VersionScanExact == Spec => []VersionScanCounted
<1> DEFINE Inv == TypeOK /\ modulehash \cap BrokenAuth = {} /\ VersionScanCounted
<1>1. Init => Inv
  BY InitTypeOK, FS_EmptySet DEF Init, VersionScanCounted
<1>2. Inv /\ [Next]_vars => Inv'
  <2> SUFFICES ASSUME Inv, [Next]_vars PROVE Inv'
    OBVIOUS
  <2>0. TypeOK'
    BY NextTypeOK
  <2>1. IsFiniteSet(modulehash \cap VersionMods)
    BY ModulesAssumption, FS_Subset
  <2>2. Cardinality(modulehash \cap VersionMods) \in Nat
    BY <2>1, FS_CardinalityType
  <2>3. ASSUME NEW m \in Mods, LoadModule(m) PROVE Inv'
    <3>1. m \notin modulehash /\ m \notin BrokenAuth /\ modulehash' = modulehash \cup {m}
      BY <2>3 DEF LoadModule
    <3>2. CASE m \in VersionMods
      <4>1. (modulehash \cap VersionMods)' = (modulehash \cap VersionMods) \cup {m}
        BY <3>1, <3>2
      <4>2. Cardinality((modulehash \cap VersionMods)') = Cardinality(modulehash \cap VersionMods) + 1
        BY <2>1, <3>1, <4>1, FS_AddElement
      <4> QED
        BY <2>0, <2>3, <3>1, <3>2, <4>2 DEF LoadModule, VersionScanCounted
    <3>3. CASE m \notin VersionMods
      <4>1. (modulehash \cap VersionMods)' = modulehash \cap VersionMods
        BY <3>1, <3>3
      <4> QED
        BY <2>0, <2>3, <3>1, <3>3, <4>1 DEF LoadModule, VersionScanCounted
    <3> QED
      BY <3>2, <3>3
  <2>4. ASSUME NEW m \in Mods, UnloadModule(m) PROVE Inv'
    <3>1. m \in modulehash /\ modulehash' = modulehash \ {m}
      BY <2>4 DEF UnloadModule
    <3>2. CASE m \in VersionMods
      <4>1. (modulehash \cap VersionMods)' = (modulehash \cap VersionMods) \ {m}
        BY <3>1, <3>2
      <4>2. Cardinality((modulehash \cap VersionMods)') = Cardinality(modulehash \cap VersionMods) - 1
        BY <2>1, <3>1, <3>2, <4>1, FS_RemoveElement
      <4> QED
        BY <2>0, <2>4, <3>1, <3>2, <4>2 DEF UnloadModule, VersionScanCounted
    <3>3. CASE m \notin VersionMods
      <4>1. (modulehash \cap VersionMods)' = modulehash \cap VersionMods
        BY <3>1, <3>3
      <4> QED
        BY <2>0, <2>4, <3>1, <3>3, <4>1 DEF UnloadModule, VersionScanCounted
    <3> QED
      BY <3>2, <3>3
  <2>5. CASE UNCHANGED <<modulehash, versionscan>>
    BY <2>0, <2>5 DEF VersionScanCounted
  <2> QED
    BY <2>3, <2>4, <2>5 DEF Next, vars, LoadBrokenAuth, SetModValue, ClearModValue, Replaced
<1>3. Inv => VersionScanCounted
  OBVIOUS
<1> QED
  BY <1>1, <1>2, <1>3, PTL DEF Spec

\* The types.
THEOREM TypeCorrect == Spec => []TypeOK
<1>1. IInv => TypeOK
  BY DEF IInv
<1> QED
  BY <1>1, InitIInv, NextIInv, PTL DEF Spec

\* The counters of attached data are at least what a module has attached, so
\* that an unload that looks at them leaves nothing behind.
THEOREM DataAlwaysCounted == Spec => []DataCounted
<1>1. IInv => DataCounted
  BY DEF IInv
<1> QED
  BY <1>1, InitIInv, NextIInv, PTL DEF Spec

-----------------------------------------------------------------------------
(* Data of users: UserDataOwned fails by the unload that skips it, and by    *)
(* nothing else.                                                           *)

\* Modules are unloaded with none of their data at a user.
UsersFreed ==
  \A m \in Mods : UnloadModule(m) => \A h \in UserRecs, i \in Slots : modvalue[h][i] # m

LEMMA UserDataKept ==
  ASSUME IInv, TypeOK', UserDataOwned, [Next]_vars, [UsersFreed]_vars
  PROVE  UserDataOwned'
<1> USE DEF IInv
<1>0. None \notin Mods /\ UserRecs \subseteq Holders
  BY ModulesAssumption DEF Holders
<1>1. ASSUME NEW m \in Mods, LoadModule(m) PROVE UserDataOwned'
  <2>1. m \notin modulehash /\ modulehash' = modulehash \cup {m} /\ modvalue' = modvalue
        /\ \A n \in modulehash : modnum'[n] = modnum[n]
    BY <1>1 DEF LoadModule, assign_mod_number, TypeOK
  <2> QED
    BY <2>1 DEF UserDataOwned
<1>2. ASSUME NEW m \in Mods, LoadBrokenAuth(m) PROVE UserDataOwned'
  <2>1. m \notin modulehash /\ modulehash' = modulehash /\ modvalue' = modvalue
        /\ \A n \in modulehash : modnum'[n] = modnum[n]
    BY <1>2 DEF LoadBrokenAuth, TypeOK
  <2> QED
    BY <2>1 DEF UserDataOwned
<1>3. ASSUME NEW m \in Mods, UnloadModule(m) PROVE UserDataOwned'
  <2>1. modulehash' = modulehash \ {m} /\ m \in modulehash /\ modnum' = modnum
    BY <1>3 DEF UnloadModule
  <2>2. \A h \in UserRecs, i \in Slots : modvalue[h][i] # m
    BY <1>3, <2>1 DEF UsersFreed, vars
  <2>3. \A h \in UserRecs : modvalue'[h] = modvalue[h]
    BY <1>0, <1>3, ModulesAssumption DEF UnloadModule, CleanupModdata, Cleans, TypeOK
  <2> QED
    BY <2>1, <2>2, <2>3 DEF UserDataOwned
<1>4. ASSUME NEW m \in Mods, NEW h \in Holders, SetModValue(m, h) PROVE UserDataOwned'
  <2>1. m \in modulehash /\ modulehash' = modulehash /\ modnum' = modnum
        /\ modvalue' = [modvalue EXCEPT ![h][modnum[m]] = m]
    BY <1>4 DEF SetModValue
  <2>2. \A g \in Holders, i \in Slots :
          modvalue'[g][i] = IF g = h /\ i = modnum[m] THEN m ELSE modvalue[g][i]
    BY <2>1 DEF TypeOK
  <2> QED
    BY <1>0, <2>1, <2>2 DEF UserDataOwned
<1>5. ASSUME NEW m \in Mods, NEW h \in Holders, ClearModValue(m, h) PROVE UserDataOwned'
  <2>1. modulehash' = modulehash /\ modnum' = modnum
        /\ modvalue' = [modvalue EXCEPT ![h][modnum[m]] = None]
    BY <1>5 DEF ClearModValue
  <2>2. \A g \in Holders, i \in Slots :
          modvalue'[g][i] = IF g = h /\ i = modnum[m] THEN None ELSE modvalue[g][i]
    BY <2>1 DEF TypeOK
  <2> QED
    BY <1>0, <2>1, <2>2 DEF UserDataOwned
<1>6. ASSUME NEW h \in Holders, Replaced(h) PROVE UserDataOwned'
  <2>1. modulehash' = modulehash /\ modnum' = modnum /\ modvalue' = [modvalue EXCEPT ![h] = Empty]
    BY <1>6 DEF Replaced
  <2>2. \A g \in Holders, i \in Slots :
          modvalue'[g][i] = IF g = h THEN None ELSE modvalue[g][i]
    BY <2>1 DEF TypeOK, Empty
  <2> QED
    BY <1>0, <2>1, <2>2 DEF UserDataOwned
<1>7. CASE UNCHANGED vars
  BY <1>7 DEF vars, UserDataOwned
<1> QED
  BY <1>1, <1>2, <1>3, <1>4, <1>5, <1>6, <1>7 DEF Next

\* UserDataOwned holds for as long as modules are unloaded with none of their data
\* at a user: what CleanupUserModdata walks is then all there is, and nobody finds
\* another module's data at a user, also where an auth module fails to load.
THEOREM UserDataIsOwned == Spec /\ [][UsersFreed]_vars => []UserDataOwned
<1>1. Init => UserDataOwned
  BY DEF Init, UserDataOwned, Empty, Holders
<1>2. IInv /\ TypeOK' /\ UserDataOwned /\ [Next]_vars /\ [UsersFreed]_vars => UserDataOwned'
  BY UserDataKept
<1> QED
  BY <1>1, <1>2, InitIInv, NextIInv, TypeCorrect, PTL DEF Spec

-----------------------------------------------------------------------------
(***************************************************************************)
(* LimitServ: its bot is on each managed channel that exists, also in the  *)
(* middle of handle_dead_channel; a limit it has just looked at leaves     *)
(* room for a user; and a channel handle_dead_channel returns from is left. *)
(***************************************************************************)

Bounds ==
  /\ members \in [Chans -> SUBSET Clients]
  /\ limit \in [Chans -> 0 .. UIntSize - 1]
  /\ qshash \subseteq Chans
  /\ lsjoin \in BOOLEAN
  /\ lsbuffer \in 1 .. MaxBuffer /\ lsgrace \in 0 .. MaxGrace /\ lsgrace < lsbuffer

\* Stronger than ListedIsWatched: the bot is there between the steps of
\* handle_dead_channel too, since the event of its own part makes it join.
OnItsChannels ==
  lsjoin => \A c \in qshash : members[c] # {} => LsBot \in members[c]

WInv == Bounds /\ OnItsChannels

-----------------------------------------------------------------------------
(* The limit. *)

\* The number of users, and with the buffer it stays below half the range of an
\* unsigned int, where abs() still tells an excess from a lack.
LEMMA UsersBound ==
  ASSUME NEW S \in SUBSET Clients
  PROVE  /\ Cardinality(S) \in Nat /\ UIntSize \in Nat /\ MaxBuffer \in Nat
         /\ Cardinality(S) + MaxBuffer < UIntSize \div 2
PROOF
  <1>1. IsFiniteSet(Clients)
    <2>1. IsFiniteSet(OtherBots \cup {LsBot})
      BY FS_AddElement, LimitServAssumption
    <2> QED BY <2>1, FS_Union, LimitServAssumption DEF Clients, Bots
  <1>2. IsFiniteSet(S) /\ Cardinality(S) <= Cardinality(Clients)
    BY <1>1, FS_Subset
  <1>3. Cardinality(S) \in Nat /\ Cardinality(Clients) \in Nat
    BY <1>1, <1>2, FS_CardinalityType
  <1>4. UIntSize \in Nat /\ MaxBuffer \in Nat
        /\ Cardinality(Clients) + MaxBuffer < UIntSize \div 2
    BY LimitServAssumption
  <1> QED BY <1>2, <1>3, <1>4

\* do_limit_set stays in the range of the field and above the number of users:
\* a limit is left alone only when it is above it, or off by less than GRACE,
\* which is less than BUFFER.
LEMMA LimitSetFacts ==
  ASSUME Bounds, NEW old \in 0 .. UIntSize - 1, NEW S \in SUBSET Clients
  PROVE  /\ do_limit_set(old, Cardinality(S)) \in 0 .. UIntSize - 1
         /\ do_limit_set(old, Cardinality(S)) > Cardinality(S)
PROOF
  <1> DEFINE n == Cardinality(S)
  <1> DEFINE half == UIntSize \div 2
  <1>1. /\ n \in Nat /\ UIntSize \in Nat /\ MaxBuffer \in Nat
        /\ n + MaxBuffer < half
    BY UsersBound
  <1>2. half \in Nat /\ half <= UIntSize /\ 2 * half <= UIntSize
    BY <1>1
  <1>3. /\ lsbuffer \in Nat /\ lsgrace \in Nat /\ MaxBuffer \in Nat
        /\ lsbuffer > 0 /\ lsbuffer <= MaxBuffer /\ lsgrace < lsbuffer
    BY <1>1, LimitServAssumption DEF Bounds
  <1>4. old \in Nat /\ old < UIntSize
    BY <1>1
  <1> HIDE DEF n, half
  <1>5. CASE n = Minus(old, lsbuffer)
    <2>1. old = n + lsbuffer
      BY <1>1, <1>2, <1>3, <1>4, <1>5 DEF Minus
    <2>2. do_limit_set(old, n) = old
      BY <1>5 DEF do_limit_set
    <2> QED BY <1>1, <1>3, <1>4, <2>1, <2>2 DEF n
  <1>6. CASE Abs(Minus(n + lsbuffer, old)) < lsgrace
    <2>1. old > n
      <3>1. CASE n + lsbuffer >= old
        <4>1. Minus(n + lsbuffer, old) = n + lsbuffer - old
          BY <1>1, <1>3, <1>4, <3>1 DEF Minus
        <4>2. n + lsbuffer - old < half
          BY <1>1, <1>2, <1>3, <1>4
        <4>3. Abs(n + lsbuffer - old) = n + lsbuffer - old
          BY <4>2 DEF Abs, half
        <4> QED BY <1>1, <1>3, <1>4, <1>6, <4>1, <4>3
      <3>2. CASE n + lsbuffer < old
        BY <1>1, <1>3, <1>4, <3>2
      <3> QED BY <1>1, <1>3, <1>4, <3>1, <3>2
    <2>2. do_limit_set(old, n) = old
      BY <1>6 DEF do_limit_set
    <2> QED BY <1>1, <1>4, <2>1, <2>2 DEF n
  <1>7. CASE ~(n = Minus(old, lsbuffer)) /\ ~(Abs(Minus(n + lsbuffer, old)) < lsgrace)
    <2>1. do_limit_set(old, n) = n + lsbuffer
      BY <1>7 DEF do_limit_set
    <2>2. n + lsbuffer \in Nat /\ n + lsbuffer < UIntSize /\ n + lsbuffer > n
      BY <1>1, <1>2, <1>3
    <2> QED BY <1>1, <2>1, <2>2 DEF n
  <1> QED BY <1>5, <1>6, <1>7

-----------------------------------------------------------------------------
(* The bot. *)

\* A record that has the bot if it has anyone keeps the invariant's half about
\* the members; a channel that does not exist changes nothing.
LEMMA BecomeKeeps ==
  ASSUME WInv, NEW c, NEW ch, Become(c, ch),
         c \in Chans => /\ ch.members \subseteq Clients
                        /\ Watches(c) /\ ch.members # {} => LsBot \in ch.members
  PROVE  /\ members' \in [Chans -> SUBSET Clients]
         /\ lsjoin => \A d \in qshash : members'[d] # {} => LsBot \in members'[d]
PROOF
  <1>1. members' = [members EXCEPT ![c] = ch.members]
    BY DEF Become
  <1>2. members \in [Chans -> SUBSET Clients] /\ qshash \subseteq Chans
    BY DEF WInv, Bounds
  <1>3. members' \in [Chans -> SUBSET Clients]
    BY <1>1, <1>2
  <1>4. ASSUME lsjoin, NEW d \in qshash, members'[d] # {}
        PROVE  LsBot \in members'[d]
    <2>1. CASE d = c
      BY <1>1, <1>2, <1>4, <2>1 DEF Watches
    <2>2. CASE d # c
      BY <1>1, <1>2, <1>4, <2>2 DEF WInv, OnItsChannels
    <2> QED BY <2>1, <2>2
  <1> QED BY <1>3, <1>4

\* Whoever leaves a managed channel, the bot is on it when the events are over.
LEMMA PartedFacts ==
  ASSUME WInv, NEW c \in Chans, NEW x
  PROVE  /\ Parted(Chan(c), c, x).members \subseteq Clients
         /\ Watches(c) => LsBot \in Parted(Chan(c), c, x).members
PROOF
  <1>1. members[c] \in SUBSET Clients /\ LsBot \in Clients
    BY DEF WInv, Bounds, Clients, Bots
  <1> QED BY <1>1 DEF Parted, Chan, EventJoinPartKick, Added

LEMMA JoinedFacts ==
  ASSUME WInv, NEW c \in Chans, NEW x \in Clients
  PROVE  /\ Joined(Chan(c), c, x).members \subseteq Clients
         /\ Watches(c) => LsBot \in Joined(Chan(c), c, x).members
PROOF
  <1>1. members[c] \in SUBSET Clients /\ LsBot \in Clients
    BY DEF WInv, Bounds, Clients, Bots
  <1> QED BY <1>1 DEF Joined, Chan, EventJoinPartKick, Added

\* PartChannel, from a call of the event loop or of handle_dead_channel.
LEMMA PartChannelKeeps ==
  ASSUME WInv, NEW c, NEW x, NEW s, PartChannel(x, c, s), UNCHANGED settings
  PROVE  WInv'
PROOF
  <1>1. /\ Become(c, Parted(Chan(c), c, x))
        /\ \/ limit' = [limit EXCEPT ![c] = 0]
           \/ limit' = limit
    <2>1. limit \in [Chans -> 0 .. UIntSize - 1]
      BY DEF WInv, Bounds
    <2> QED BY <2>1 DEF PartChannel
  <1>2. /\ members' \in [Chans -> SUBSET Clients]
        /\ lsjoin => \A d \in qshash : members'[d] # {} => LsBot \in members'[d]
    BY <1>1, BecomeKeeps, PartedFacts
  <1>3. limit' \in [Chans -> 0 .. UIntSize - 1]
    <2>1. UIntSize \in Nat \ {0}
      BY UsersBound DEF WInv
    <2> QED BY <1>1, <2>1 DEF WInv, Bounds
  <1> QED BY <1>2, <1>3, LimitServAssumption DEF WInv, Bounds, OnItsChannels, settings

\* What touches neither members nor settings, with limits in range.
LEMMA LimitKeeps ==
  ASSUME WInv, limit' \in [Chans -> 0 .. UIntSize - 1], UNCHANGED <<members, settings>>
  PROVE  WInv'
PROOF
  BY LimitServAssumption DEF WInv, Bounds, OnItsChannels, settings

-----------------------------------------------------------------------------
LEMMA WInit ==
  ASSUME LsInit
  PROVE  WInv
PROOF
  <1>0. {} \in SUBSET Clients
    OBVIOUS
  <1>1. UIntSize \in Nat \ {0}
    <2>1. /\ Cardinality({}) \in Nat /\ UIntSize \in Nat /\ MaxBuffer \in Nat
          /\ Cardinality({}) + MaxBuffer < UIntSize \div 2
      BY <1>0, UsersBound
    <2> QED BY <2>1
  <1> QED BY <1>1, LimitServAssumption DEF LsInit, WInv, Bounds, OnItsChannels

\* The invariant is inductive.
LEMMA WStep ==
  ASSUME WInv, [LsNext]_lsvars
  PROVE  WInv'
PROOF
  <1> USE LimitServAssumption
  <1>0. /\ UIntSize \in Nat \ {0}
        /\ limit \in [Chans -> 0 .. UIntSize - 1]
        /\ members \in [Chans -> SUBSET Clients]
        /\ \A l \in Limits : l \in 0 .. UIntSize - 1
    BY UsersBound DEF WInv, Bounds
  <1>1. ASSUME NEW x \in Clients, NEW c \in Chans, JoinChannel(x, c)
        PROVE  WInv'
    <2>1. Become(c, Joined(Chan(c), c, x)) /\ UNCHANGED <<limit, settings>>
      BY <1>1 DEF JoinChannel
    <2>2. /\ members' \in [Chans -> SUBSET Clients]
          /\ lsjoin => \A d \in qshash : members'[d] # {} => LsBot \in members'[d]
      BY <2>1, BecomeKeeps, JoinedFacts
    <2> QED BY <2>1, <2>2 DEF WInv, Bounds, OnItsChannels, settings
  <1>2. ASSUME NEW x \in Clients, NEW c \in Chans, DoPart(x, c)
        PROVE  WInv'
    BY <1>2, PartChannelKeeps DEF DoPart
  <1>3. CASE ForceOut
    BY <1>3, PartChannelKeeps DEF ForceOut
  <1>4. CASE PassBy \/ DeadReturns
    BY <1>4, LimitKeeps, <1>0 DEF PassBy, DeadReturns
  <1>5. CASE limitservtimer
    <2>1. \A c \in Chans : do_limit_set(limit[c], users(c)) \in 0 .. UIntSize - 1
      BY <1>0, LimitSetFacts DEF WInv, users
    <2>2. limit' \in [Chans -> 0 .. UIntSize - 1]
      BY <1>0, <1>5, <2>1 DEF limitservtimer
    <2> QED BY <1>5, <2>2, LimitKeeps DEF limitservtimer
  <1>6. ASSUME NEW c \in Chans, NEW l \in Limits, ChanMode(c, l)
        PROVE  WInv'
    <2>1. do_limit_set(0, users(c)) \in 0 .. UIntSize - 1
      BY <1>0, LimitSetFacts, SMTT(60) DEF WInv, users
    <2>2. limit' \in [Chans -> 0 .. UIntSize - 1]
      BY <1>0, <1>6, <2>1 DEF ChanMode
    <2> QED BY <1>6, <2>2, LimitKeeps DEF ChanMode
  <1>7. ASSUME NEW c \in Chans, cmd_add(c)
        PROVE  WInv'
    <2> DEFINE ch == IF lsjoin /\ LsBot \notin members[c] THEN Added(Chan(c), LsBot) ELSE Chan(c)
    <2>0. LsBot \in Clients /\ lsjoin \in BOOLEAN
      BY DEF Clients, Bots, WInv, Bounds
    <2>1. ch.members \subseteq Clients /\ (lsjoin => LsBot \in ch.members)
      BY <1>0, <2>0 DEF Chan, Added
    <2>2. /\ qshash' = qshash \cup {c}
          /\ UNCHANGED <<lsjoin, lsbuffer, lsgrace>>
      BY <1>7 DEF cmd_add
    <2>3. CASE c \in channelhash
      <3>1. /\ Become(c, ch)
            /\ limit' = [limit EXCEPT ![c] = do_limit_set(limit[c], Cardinality(ch.members))]
        BY <1>7, <2>3 DEF cmd_add
      <3>2. limit' \in [Chans -> 0 .. UIntSize - 1]
        BY <1>0, <2>1, <3>1, LimitSetFacts DEF WInv
      <3> HIDE DEF ch
      <3>3. /\ members' \in [Chans -> SUBSET Clients]
            /\ lsjoin => \A d \in qshash : members'[d] # {} => LsBot \in members'[d]
        BY <2>1, <3>1, BecomeKeeps DEF Watches
      <3>4. members'[c] = ch.members
        BY <1>0, <3>1 DEF Become
      <3>5. lsjoin => \A d \in qshash' : members'[d] # {} => LsBot \in members'[d]
        BY <2>1, <2>2, <3>3, <3>4
      <3> QED BY <2>2, <3>2, <3>3, <3>5 DEF WInv, Bounds, OnItsChannels
    <2>4. CASE c \notin channelhash
      <3>1. UNCHANGED <<members, limit>> /\ members[c] = {}
        BY <1>7, <2>4 DEF cmd_add, channelhash
      <3> QED BY <2>2, <3>1 DEF WInv, Bounds, OnItsChannels
    <2> QED BY <2>3, <2>4
  <1>8. ASSUME NEW c \in Chans, cmd_del(c)
        PROVE  WInv'
    <2>1. /\ limit' = [limit EXCEPT ![c] = 0]
          /\ qshash' \subseteq qshash
          /\ UNCHANGED <<lsjoin, lsbuffer, lsgrace>>
      BY <1>8 DEF cmd_del
    <2>2. Become(c, Parted(Chan(c), c, LsBot)) \/ members' = members
      BY <1>8 DEF cmd_del
    <2>3. /\ members' \in [Chans -> SUBSET Clients]
          /\ lsjoin => \A d \in qshash : members'[d] # {} => LsBot \in members'[d]
      <3>1. CASE Become(c, Parted(Chan(c), c, LsBot))
        BY <3>1, BecomeKeeps, PartedFacts
      <3>2. CASE members' = members
        BY <3>2 DEF WInv, Bounds, OnItsChannels
      <3> QED BY <2>2, <3>1, <3>2
    <2>4. limit' \in [Chans -> 0 .. UIntSize - 1]
      BY <1>0, <2>1
    <2> QED BY <2>1, <2>3, <2>4 DEF WInv, Bounds, OnItsChannels
  <1>9. CASE SetJoinOn
    <2> DEFINE joins == {c \in qshash \cap channelhash : LsBot \notin members[c]}
    <2>1. /\ lsjoin' = TRUE /\ UNCHANGED <<qshash, lsbuffer, lsgrace>>
          /\ limit' = [c \in Chans |-> IF c \in qshash \cap channelhash
                                       THEN do_limit_set(limit[c], users(c)) ELSE limit[c]]
          /\ members' = [c \in Chans |-> members[c] \cup IF c \in joins THEN {LsBot} ELSE {}]
      BY <1>9 DEF SetJoinOn
    <2>2. \A c \in Chans : do_limit_set(limit[c], users(c)) \in 0 .. UIntSize - 1
      BY <1>0, LimitSetFacts DEF WInv, users
    <2>3. limit' \in [Chans -> 0 .. UIntSize - 1]
      BY <1>0, <2>1, <2>2
    <2>4. members' \in [Chans -> SUBSET Clients]
      BY <1>0, <2>1 DEF Clients, Bots
    <2>5. qshash \subseteq Chans
      BY DEF WInv, Bounds
    <2>6. ASSUME NEW c \in qshash, members'[c] # {}
          PROVE  LsBot \in members'[c]
      <3>1. c \in Chans /\ members'[c] = members[c] \cup IF c \in joins THEN {LsBot} ELSE {}
        BY <2>1, <2>5
      <3>2. CASE c \in joins
        BY <3>1, <3>2
      <3>3. CASE c \notin joins
        BY <2>6, <3>1, <3>3 DEF channelhash
      <3> QED BY <3>2, <3>3
    <2> QED BY <2>1, <2>3, <2>4, <2>5, <2>6 DEF WInv, Bounds, OnItsChannels
  <1>10. CASE SetJoinOff
    BY <1>10 DEF SetJoinOff, WInv, Bounds, OnItsChannels
  <1>11. ASSUME NEW c \in Chans, PartChannels(c)
         PROVE  WInv'
    <2>1. CASE LsBot \in members[c]
      BY <1>11, <2>1, PartChannelKeeps DEF PartChannels
    <2>2. CASE LsBot \notin members[c]
      BY <1>11, <2>2, <1>0, LimitKeeps DEF PartChannels
    <2> QED BY <2>1, <2>2
  <1>12. ASSUME NEW n \in 0 .. MaxBuffer, SetBuffer(n)
         PROVE  WInv'
    <2>1. lsbuffer' = n /\ n > lsgrace /\ UNCHANGED <<members, limit, qshash, lsjoin, lsgrace>>
      BY <1>12 DEF SetBuffer
    <2>2. lsgrace \in Nat /\ MaxBuffer \in Nat
      BY DEF WInv, Bounds
    <2>3. lsbuffer' \in 1 .. MaxBuffer /\ lsgrace' < lsbuffer'
      BY <2>1, <2>2
    <2> QED BY <2>1, <2>3 DEF WInv, Bounds, OnItsChannels
  <1>13. ASSUME NEW n \in 0 .. MaxGrace, SetGrace(n)
         PROVE  WInv'
    BY <1>13 DEF SetGrace, WInv, Bounds, OnItsChannels
  <1>14. CASE UNCHANGED lsvars
    BY <1>14 DEF lsvars, settings, WInv, Bounds, OnItsChannels
  <1> QED BY <1>1, <1>2, <1>3, <1>4, <1>5, <1>6, <1>7, <1>8, <1>9, <1>10, <1>11,
             <1>12, <1>13, <1>14 DEF LsNext, handle_dead_channel

-----------------------------------------------------------------------------
\* With JOIN on, LimitServ's bot is on every managed channel that exists,
\* whoever kicked it and whatever handle_dead_channel did (event_join_part_kick).
THEOREM BotIsOnItsChannels == LsSpec => []ListedIsWatched
PROOF
  <1>1. LsInit => WInv
    BY WInit
  <1>2. WInv /\ [LsNext]_lsvars => WInv'
    BY WStep
  <1>3. WInv => ListedIsWatched
    BY DEF WInv, Bounds, OnItsChannels, ListedIsWatched, channelhash
  <1> QED BY <1>1, <1>2, <1>3, PTL DEF LsSpec

\* do_limit_set never leaves a managed channel without room for a user, whatever
\* the limit was: for every BUFFER, GRACE and width of an unsigned int that holds
\* the clients twice (do_limit_set, set_buffer_cb, set_grace_cb).
THEOREM LimitsLeaveRoom == LsSpec => []LimitLeavesRoom
PROOF
  <1>1. LsInit => WInv
    BY WInit
  <1>2. WInv /\ [LsNext]_lsvars => WInv'
    BY WStep
  <1>3. WInv => LimitLeavesRoom
    <2> SUFFICES ASSUME WInv, NEW c \in qshash \cap channelhash
                 PROVE  do_limit_set(limit[c], users(c)) > users(c)
      BY DEF LimitLeavesRoom
    <2>1. limit[c] \in 0 .. UIntSize - 1 /\ members[c] \in SUBSET Clients
      BY DEF WInv, Bounds
    <2> QED BY <2>1, LimitSetFacts DEF WInv, users
  <1> QED BY <1>1, <1>2, <1>3, PTL DEF LsSpec

-----------------------------------------------------------------------------
(* Dead channels.  neousers is exact between the steps, so that the test of   *)
(* CheckEmptyChannel holds whenever bots are all that is left; and the        *)
(* innermost call of handle_dead_channel has everyone who is left ahead of it. *)

BotsIn(S) == Cardinality(S \cap Bots)

Exact == neousers \in [Chans -> Nat] /\ \A c \in Chans : neousers[c] = BotsIn(members[c])

\* The bots a scan of bothash finds from its nth node on.
From(n) == {BotOrder[i] : i \in n .. Len(BotOrder)}

Ahead ==
  /\ calls \in Seq(DeadCall)
  /\ \A i, j \in 1 .. Len(calls) : calls[i].chan = calls[j].chan
  /\ calls # <<>> => members[Dead.chan] \subseteq From(Dead.next)

DInv == WInv /\ Exact /\ Ahead

ChanOK(ch) ==
  /\ ch.members \subseteq Clients
  /\ ch.neousers = BotsIn(ch.members)

LEMMA FiniteClients ==
  IsFiniteSet(Clients)
PROOF
  <1>1. IsFiniteSet(OtherBots \cup {LsBot})
    BY FS_AddElement, LimitServAssumption
  <1> QED BY <1>1, FS_Union, LimitServAssumption DEF Clients, Bots

\* Counting bots while a set of members gains or loses one.
LEMMA BotsInFacts ==
  ASSUME NEW S \in SUBSET Clients
  PROVE  /\ BotsIn(S) \in Nat
         /\ BotsIn({}) = 0
         /\ \A x : BotsIn(S \cup {x}) = BotsIn(S) + IF x \in Bots /\ x \notin S THEN 1 ELSE 0
         /\ \A x : BotsIn(S \ {x}) = BotsIn(S) - IF x \in Bots /\ x \in S THEN 1 ELSE 0
PROOF
  <1>1. IsFiniteSet(S \cap Bots)
    BY FiniteClients, FS_Subset
  <1>2. BotsIn(S) \in Nat
    BY <1>1, FS_CardinalityType DEF BotsIn
  <1>3. BotsIn({}) = 0
    <2>1. {} \cap Bots = {}
      OBVIOUS
    <2> QED BY <2>1, FS_EmptySet DEF BotsIn
  <1>4. ASSUME NEW x
        PROVE  BotsIn(S \cup {x}) = BotsIn(S) + IF x \in Bots /\ x \notin S THEN 1 ELSE 0
    <2>1. CASE x \in Bots
      <3>1. (S \cup {x}) \cap Bots = (S \cap Bots) \cup {x}
        BY <2>1
      <3>2. Cardinality((S \cap Bots) \cup {x})
              = IF x \in S \cap Bots THEN Cardinality(S \cap Bots) ELSE Cardinality(S \cap Bots) + 1
        BY <1>1, FS_AddElement
      <3> QED BY <1>2, <2>1, <3>1, <3>2 DEF BotsIn
    <2>2. CASE x \notin Bots
      <3>1. (S \cup {x}) \cap Bots = S \cap Bots
        BY <2>2
      <3> QED BY <1>2, <2>2, <3>1 DEF BotsIn
    <2> QED BY <2>1, <2>2
  <1>5. ASSUME NEW x
        PROVE  BotsIn(S \ {x}) = BotsIn(S) - IF x \in Bots /\ x \in S THEN 1 ELSE 0
    <2>1. CASE x \in Bots
      <3>1. (S \ {x}) \cap Bots = (S \cap Bots) \ {x}
        OBVIOUS
      <3>2. Cardinality((S \cap Bots) \ {x})
              = IF x \in S \cap Bots THEN Cardinality(S \cap Bots) - 1 ELSE Cardinality(S \cap Bots)
        BY <1>1, FS_RemoveElement
      <3>3. x \in S \cap Bots <=> x \in S
        BY <2>1
      <3>4. BotsIn(S \ {x}) = IF x \in S THEN BotsIn(S) - 1 ELSE BotsIn(S)
        BY <3>1, <3>2, <3>3 DEF BotsIn
      <3> QED BY <1>2, <2>1, <3>4
    <2>2. CASE x \notin Bots
      <3>1. (S \ {x}) \cap Bots = S \cap Bots
        BY <2>2
      <3> QED BY <1>2, <2>2, <3>1 DEF BotsIn
    <2> QED BY <2>1, <2>2
  <1> QED BY <1>2, <1>3, <1>4, <1>5

\* A count of bots that is the size of the set: only bots are in it.
LEMMA AllAreBots ==
  ASSUME NEW S \in SUBSET Clients, BotsIn(S) = Cardinality(S)
  PROVE  S \subseteq Bots
PROOF
  <1>1. IsFiniteSet(S)
    BY FiniteClients, FS_Subset
  <1>2. S \cap Bots = S
    BY <1>1, FS_Subset DEF BotsIn
  <1> QED BY <1>2

\* Bots that the event adds and the member that leaves are all counted.
LEMMA PartedCounts ==
  ASSUME DInv, NEW c \in Chans, NEW x \in members[c]
  PROVE  ChanOK(Parted(Chan(c), c, x))
PROOF
  <1> DEFINE M == members[c]
  <1> DEFINE left == [members |-> M \ {x}, neousers |-> neousers[c]]
  <1> DEFINE told == EventJoinPartKick(left, c)
  <1>1. /\ M \in SUBSET Clients /\ LsBot \in Bots /\ Bots \subseteq Clients
        /\ neousers[c] = BotsIn(M) /\ neousers[c] \in Nat
    BY DEF DInv, WInv, Bounds, Exact, Clients, Bots
  <1>2. M \ {x} \in SUBSET Clients
    BY <1>1
  <1>3. BotsIn(M \ {x}) = neousers[c] - IF x \in Bots THEN 1 ELSE 0
    BY <1>1, BotsInFacts
  <1>4. BotsIn((M \ {x}) \cup {LsBot})
          = BotsIn(M \ {x}) + IF LsBot \notin M \ {x} THEN 1 ELSE 0
    BY <1>1, <1>2, BotsInFacts
  <1>5. /\ Parted(Chan(c), c, x).members = told.members
        /\ Parted(Chan(c), c, x).neousers = told.neousers - IF x \in Bots THEN 1 ELSE 0
    BY DEF Parted, Chan, EventJoinPartKick, Added
  <1>6. CASE Watches(c) /\ LsBot \notin M \ {x}
    <2>1. told.members = (M \ {x}) \cup {LsBot} /\ told.neousers = neousers[c] + 1
      BY <1>1, <1>6 DEF EventJoinPartKick, Added
    <2> HIDE DEF told, M
    <2>2. BotsIn((M \ {x}) \cup {LsBot}) = neousers[c] + 1 - IF x \in Bots THEN 1 ELSE 0
      BY <1>1, <1>3, <1>4, <1>6
    <2> QED BY <1>1, <1>5, <2>1, <2>2 DEF ChanOK
  <1>7. CASE ~(Watches(c) /\ LsBot \notin M \ {x})
    <2>1. told.members = M \ {x} /\ told.neousers = neousers[c]
      BY <1>7 DEF EventJoinPartKick
    <2> HIDE DEF told, M
    <2> QED BY <1>1, <1>2, <1>3, <1>5, <2>1 DEF ChanOK
  <1> QED BY <1>6, <1>7

\* The same of a member that joins.
LEMMA AddedCounts ==
  ASSUME NEW ch, ChanOK(ch), NEW x \in Clients, x \notin ch.members
  PROVE  ChanOK(Added(ch, x))
PROOF
  BY BotsInFacts DEF ChanOK, Added

LEMMA JoinedCounts ==
  ASSUME DInv, NEW c \in Chans, NEW x \in Clients, x \notin members[c]
  PROVE  ChanOK(Joined(Chan(c), c, x))
PROOF
  <1>1. ChanOK(Chan(c)) /\ LsBot \in Clients
    BY DEF DInv, WInv, Bounds, Exact, ChanOK, Chan, Clients, Bots
  <1>2. ChanOK(Added(Chan(c), x))
    BY <1>1, AddedCounts DEF Chan
  <1>3. CASE Watches(c) /\ LsBot \notin Added(Chan(c), x).members
    <2>1. ChanOK(Added(Added(Chan(c), x), LsBot))
      BY <1>1, <1>2, <1>3, AddedCounts
    <2> QED BY <1>3, <2>1 DEF Joined, EventJoinPartKick
  <1>4. CASE ~(Watches(c) /\ LsBot \notin Added(Chan(c), x).members)
    BY <1>2, <1>4 DEF Joined, EventJoinPartKick
  <1> QED BY <1>3, <1>4

LEMMA BecomeCounts ==
  ASSUME DInv, NEW c \in Chans, NEW ch, ChanOK(ch), Become(c, ch)
  PROVE  Exact'
PROOF
  <1>1. /\ members' = [members EXCEPT ![c] = ch.members]
        /\ neousers' = [neousers EXCEPT ![c] = IF ch.members = {} THEN 0 ELSE ch.neousers]
    BY DEF Become
  <1>2. /\ members \in [Chans -> SUBSET Clients]
        /\ neousers \in [Chans -> Nat] /\ \A d \in Chans : neousers[d] = BotsIn(members[d])
    BY DEF DInv, WInv, Bounds, Exact
  <1>3. ch.members \in SUBSET Clients
    BY DEF DInv, WInv, ChanOK
  <1>4. BotsIn(ch.members) \in Nat /\ BotsIn({}) = 0
    BY <1>3, BotsInFacts
  <1>5. (IF ch.members = {} THEN 0 ELSE ch.neousers) = BotsIn(ch.members)
    BY <1>4 DEF ChanOK
  <1>6. neousers' \in [Chans -> Nat]
    BY <1>1, <1>2, <1>4, <1>5
  <1>7. ASSUME NEW d \in Chans
        PROVE  neousers'[d] = BotsIn(members'[d])
    <2>1. CASE d = c
      BY <1>1, <1>2, <1>5, <2>1
    <2>2. CASE d # c
      BY <1>1, <1>2, <2>2
    <2> QED BY <2>1, <2>2
  <1>8. \A d \in Chans : (neousers[d] = BotsIn(members[d]))'
    BY <1>7 DEF BotsIn
  <1> QED BY <1>6, <1>8 DEF Exact

\* What cmd_del and the callers from the event loop have in common.
PartsFrom(c, x) ==
  LET ch == Parted(Chan(c), c, x)
  IN  /\ Become(c, ch)
      /\ calls' = IF OnlyBots(ch) THEN <<[chan |-> c, next |-> 1]>> ELSE <<>>

\* From the event loop: if a part leaves bots only, the call of
\* handle_dead_channel has all of them ahead of it.
LEMMA PartCovers ==
  ASSUME DInv, NEW c \in Chans, NEW x \in members[c], PartsFrom(c, x)
  PROVE  Exact' /\ Ahead'
PROOF
  <1> DEFINE ch == Parted(Chan(c), c, x)
  <1>1. ChanOK(ch)
    BY PartedCounts
  <1>2. Become(c, ch)
    BY DEF PartsFrom
  <1>3. Exact'
    BY <1>1, <1>2, BecomeCounts
  <1>4. CASE OnlyBots(ch)
    <2>1. calls' = <<[chan |-> c, next |-> 1]>>
      BY <1>4 DEF PartsFrom
    <2>3. ch.members \subseteq Bots
      BY <1>1, <1>4, AllAreBots DEF OnlyBots, ChanOK
    <2>4. Bots \subseteq From(1) /\ Len(BotOrder) \in Nat
      BY LimitServAssumption DEF From
    <2>5. members'[c] = ch.members
      BY <1>2 DEF Become, DInv, WInv, Bounds
    <2>6. members'[c] \subseteq From(1)
      BY <2>3, <2>4, <2>5
    <2>7. [chan |-> c, next |-> 1] \in DeadCall
      BY <2>4 DEF DeadCall
    <2> HIDE DEF ch
    <2>8. /\ calls' \in Seq(DeadCall) /\ Len(calls') = 1
          /\ calls'[1].chan = c /\ calls'[1].next = 1
      BY <2>1, <2>7
    <2> QED BY <1>3, <2>6, <2>8 DEF Ahead, Dead, From
  <1>5. CASE ~OnlyBots(ch)
    <2>1. calls' = <<>>
      BY <1>5 DEF PartsFrom
    <2> QED BY <1>3, <2>1 DEF Ahead
  <1> QED BY <1>4, <1>5

\* The stack without its innermost call.
LEMMA CallersFacts ==
  ASSUME calls \in Seq(DeadCall), calls # <<>>
  PROVE  /\ Len(calls) \in Nat \ {0}
         /\ Callers \in Seq(DeadCall) /\ Len(Callers) = Len(calls) - 1
         /\ \A i \in 1 .. Len(calls) - 1 : Callers[i] = calls[i]
PROOF
  <1>1. Len(calls) \in Nat \ {0}
    BY LenProperties, EmptySeq
  <1>2. Len(calls) - 1 \in Int /\ \A i \in 1 .. Len(calls) - 1 : calls[i] \in DeadCall
    BY <1>1, ElementOfSeq
  <1>3. /\ Callers \in Seq(DeadCall)
        /\ Len(Callers) = IF 1 <= Len(calls) - 1 THEN (Len(calls) - 1) - 1 + 1 ELSE 0
        /\ \A i \in 1 .. (Len(calls) - 1) - 1 + 1 : Callers[i] = calls[1 + i - 1]
    BY <1>2, SubSeqProperties DEF Callers
  <1>4. ASSUME NEW i \in 1 .. Len(calls) - 1
        PROVE  Callers[i] = calls[i]
    <2>1. i \in 1 .. (Len(calls) - 1) - 1 + 1 /\ 1 + i - 1 = i
      BY <1>1
    <2>2. Callers[i] = calls[1 + i - 1]
      BY <1>3, <2>1
    <2> QED BY <2>1, <2>2
  <1>5. Len(Callers) = Len(calls) - 1
    <2> DEFINE n == Len(calls)
    <2> DEFINE l == Len(Callers)
    <2>1. n \in Nat \ {0} /\ l = IF 1 <= n - 1 THEN (n - 1) - 1 + 1 ELSE 0
      BY <1>1, <1>3
    <2> HIDE DEF n, l
    <2>2. l = n - 1
      BY <2>1
    <2> QED BY <2>2 DEF n, l
  <1>6. Callers \in Seq(DeadCall)
    BY <1>3
  <1> QED BY <1>1, <1>4, <1>5, <1>6, Zenon

\* The stack of a call that goes on to the next bot.
LEMMA AdvancedFacts ==
  ASSUME Ahead, calls # <<>>, Dead.next <= Len(BotOrder)
  PROVE  /\ Advanced \in Seq(DeadCall) /\ Len(Advanced) = Len(calls)
         /\ Advanced # <<>> /\ Advanced # Callers
         /\ Advanced[Len(Advanced)] = [chan |-> Dead.chan, next |-> Dead.next + 1]
         /\ \A i \in 1 .. Len(Advanced) : Advanced[i].chan = Dead.chan
         /\ Dead \in DeadCall
PROOF
  <1>1. /\ calls \in Seq(DeadCall) /\ Len(calls) \in Nat \ {0}
        /\ BotOrder \in Seq(Bots) /\ Len(BotOrder) \in Nat
        /\ \A i \in 1 .. Len(calls) : calls[i].chan = Dead.chan
    BY LimitServAssumption DEF Ahead, Dead
  <1>2. Dead \in DeadCall
    BY <1>1 DEF Dead
  <1>3. Callers \in Seq(DeadCall) /\ Len(Callers) = Len(calls) - 1
        /\ \A i \in 1 .. Len(calls) - 1 : Callers[i] = calls[i]
    BY <1>1, CallersFacts
  <1>4. /\ Dead.chan \in Chans /\ Dead.next \in 1 .. Len(BotOrder) + 1
        /\ [Dead EXCEPT !.next = @ + 1] = [chan |-> Dead.chan, next |-> Dead.next + 1]
    BY <1>2 DEF DeadCall
  <1>5. [chan |-> Dead.chan, next |-> Dead.next + 1] \in DeadCall
    BY <1>1, <1>4 DEF DeadCall
  <1>6. Advanced = Append(Callers, [chan |-> Dead.chan, next |-> Dead.next + 1])
    BY <1>4 DEF Advanced
  <1>7. /\ Advanced \in Seq(DeadCall) /\ Len(Advanced) = Len(calls)
        /\ Advanced[Len(Advanced)] = [chan |-> Dead.chan, next |-> Dead.next + 1]
        /\ \A i \in 1 .. Len(calls) - 1 : Advanced[i] = Callers[i]
    BY <1>1, <1>3, <1>5, <1>6
  <1>8. ASSUME NEW i \in 1 .. Len(Advanced)
        PROVE  Advanced[i].chan = Dead.chan
    <2>1. CASE i = Len(Advanced)
      BY <1>7, <2>1
    <2>2. CASE i # Len(Advanced)
      <3>1. i \in 1 .. Len(calls) - 1 /\ i \in 1 .. Len(calls)
        BY <1>1, <1>7, <2>2
      <3>2. Advanced[i] = calls[i]
        BY <1>3, <1>7, <3>1
      <3> QED BY <1>1, <3>1, <3>2
    <2> QED BY <2>1, <2>2
  <1>9. Advanced # <<>> /\ Advanced # Callers
    BY <1>1, <1>3, <1>7
  <1> QED BY <1>2, <1>7, <1>8, <1>9

\* One bot is parted.  Whoever is left are bots, so that either nobody is left
\* or a nested call has them ahead of it.
LEMMA ForceOutCovers ==
  ASSUME DInv, ForceOut
  PROVE  Exact' /\ Ahead' /\ calls' # Callers
PROOF
  <1> DEFINE c == Dead.chan
  <1> DEFINE x == BotOrder[Dead.next]
  <1> DEFINE ch == Parted(Chan(c), c, x)
  <1> DEFINE call == [chan |-> c, next |-> 1]
  <1>1. /\ Ahead /\ calls # <<>> /\ Dead.next <= Len(BotOrder)
        /\ x \in members[c] /\ PartChannel(x, c, Advanced)
    BY DEF DInv, WInv, ForceOut, InDead
  <1>2. /\ Advanced \in Seq(DeadCall) /\ Len(Advanced) = Len(calls)
        /\ Advanced # <<>> /\ Advanced # Callers
        /\ \A i \in 1 .. Len(Advanced) : Advanced[i].chan = c
        /\ Advanced[Len(Advanced)].chan = c
        /\ Dead \in DeadCall
    BY <1>1, AdvancedFacts
  <1>3. c \in Chans /\ Dead.next \in Nat \ {0} /\ Len(BotOrder) \in Nat
    BY <1>1, <1>2, LimitServAssumption DEF DeadCall
  <1>4. ChanOK(ch)
    BY <1>1, <1>3, PartedCounts
  <1>5. Become(c, ch)
    BY <1>1 DEF PartChannel
  <1>6. Exact'
    BY <1>3, <1>4, <1>5, BecomeCounts
  <1>7. members'[c] = ch.members
    BY <1>3, <1>5 DEF Become, DInv, WInv, Bounds
  <1>8. /\ ch.members \subseteq Bots
        /\ Bots \subseteq From(1)
    <2>1. /\ members[c] \subseteq From(Dead.next)
          /\ BotOrder \in Seq(Bots) /\ LsBot \in Bots
          /\ \A b \in Bots : \E i \in DOMAIN BotOrder : BotOrder[i] = b
      BY <1>1, LimitServAssumption DEF Ahead, Bots
    <2>2. From(Dead.next) \subseteq Bots /\ Bots \subseteq From(1)
      BY <1>3, <2>1 DEF From
    <2> QED BY <2>1, <2>2 DEF Parted, Chan, EventJoinPartKick, Added
  <1>9. CASE OnlyBots(ch)
    <2>1. calls' = Append(Advanced, call)
      BY <1>1, <1>9 DEF PartChannel
    <2>2. call \in DeadCall
      BY <1>3 DEF DeadCall
    <2>3. members'[c] \subseteq From(1)
      BY <1>7, <1>8
    <2>4. Len(calls) \in Nat \ {0} /\ Len(Callers) = Len(calls) - 1
      <3>1. calls \in Seq(DeadCall) /\ calls # <<>>
        BY <1>1 DEF Ahead
      <3> QED BY <3>1, CallersFacts
    <2> HIDE DEF c, ch, call
    <2>5. /\ calls' \in Seq(DeadCall) /\ Len(calls') = Len(Advanced) + 1
          /\ calls'[Len(calls')] = call /\ calls' # <<>>
          /\ \A i \in 1 .. Len(Advanced) : calls'[i] = Advanced[i]
      BY <1>2, <2>1, <2>2
    <2>6. ASSUME NEW i \in 1 .. Len(calls')
          PROVE  calls'[i].chan = c
      <3>1. CASE i = Len(calls')
        BY <2>5, <3>1 DEF call
      <3>2. CASE i # Len(calls')
        BY <1>2, <2>4, <2>5, <3>2
      <3> QED BY <3>1, <3>2
    <2>7. calls' # Callers
      BY <1>2, <2>4, <2>5
    <2>8. Dead'.chan = c /\ Dead'.next = 1
      BY <2>5 DEF Dead, call
    <2>9. members'[Dead'.chan] \subseteq From(Dead'.next)
      BY <2>3, <2>8
    <2> QED BY <1>6, <2>5, <2>6, <2>7, <2>9 DEF Ahead, From
  <1>10. CASE ~OnlyBots(ch)
    <2>1. calls' = Advanced
      BY <1>1, <1>10 DEF PartChannel
    <2>2. members'[c] = {}
      <3>1. BotsIn(ch.members) = Cardinality(ch.members)
        <4>1. ch.members \cap Bots = ch.members
          BY <1>8
        <4> QED BY <4>1 DEF BotsIn
      <3>2. IsFiniteSet(ch.members)
        BY <1>1, <1>4, FiniteClients, FS_Subset DEF ChanOK
      <3>3. Cardinality(ch.members) \in Nat /\ ~(Cardinality(ch.members) > 0)
        BY <1>4, <1>10, <3>1, <3>2, FS_CardinalityType DEF OnlyBots, ChanOK
      <3>4. ch.members = {}
        BY <3>2, <3>3, FS_EmptySet
      <3> QED BY <1>7, <3>4
    <2>3. Dead'.chan = c
      BY <1>2, <2>1 DEF Dead
    <2>4. members'[Dead'.chan] \subseteq From(Dead'.next)
      BY <2>2, <2>3
    <2> HIDE DEF c
    <2> QED BY <1>2, <1>6, <2>1, <2>4 DEF Ahead, From
  <1> QED BY <1>9, <1>10

\* A bot that is not on the channel is passed by.
LEMMA PassByCovers ==
  ASSUME DInv, PassBy
  PROVE  Exact' /\ Ahead' /\ calls' # Callers
PROOF
  <1>1. /\ Ahead /\ calls # <<>> /\ Dead.next <= Len(BotOrder)
        /\ BotOrder[Dead.next] \notin members[Dead.chan]
        /\ calls' = Advanced /\ UNCHANGED <<members, neousers>>
    BY DEF DInv, WInv, PassBy, InDead
  <1>2. /\ Advanced \in Seq(DeadCall) /\ Len(Advanced) = Len(calls)
        /\ Advanced # <<>> /\ Advanced # Callers
        /\ \A i \in 1 .. Len(Advanced) : Advanced[i].chan = Dead.chan
        /\ Advanced[Len(Advanced)] = [chan |-> Dead.chan, next |-> Dead.next + 1]
        /\ Dead \in DeadCall
    BY <1>1, AdvancedFacts
  <1>3. Dead'.chan = Dead.chan /\ Dead'.next = Dead.next + 1
    BY <1>1, <1>2 DEF Dead
  <1>4. members[Dead.chan] \subseteq From(Dead.next + 1)
    <2>1. Dead.next \in Nat /\ Len(BotOrder) \in Nat
      BY <1>1, <1>2, LimitServAssumption DEF DeadCall
    <2> QED BY <1>1, <2>1 DEF Ahead, From
  <1>5. members'[Dead'.chan] \subseteq From(Dead'.next)
    BY <1>1, <1>3, <1>4
  <1>6. Exact'
    BY <1>1 DEF DInv, Exact, BotsIn
  <1> QED BY <1>1, <1>2, <1>5, <1>6 DEF Ahead, From

\* A call returns: it has passed the last bot, so that nobody is left.
LEMMA DeadReturnsCovers ==
  ASSUME DInv, DeadReturns
  PROVE  Exact' /\ Ahead' /\ members'[Dead.chan] = {}
PROOF
  <1>1. /\ Ahead /\ calls # <<>> /\ Dead.next > Len(BotOrder)
        /\ calls' = Callers /\ UNCHANGED <<members, neousers>>
    BY DEF DInv, WInv, DeadReturns, InDead
  <1>2. /\ calls \in Seq(DeadCall) /\ Len(calls) \in Nat \ {0}
        /\ Len(BotOrder) \in Nat /\ Dead \in DeadCall
        /\ \A i \in 1 .. Len(calls) : calls[i].chan = Dead.chan
    BY <1>1, LimitServAssumption DEF Ahead, Dead
  <1>3. members[Dead.chan] = {}
    BY <1>1, <1>2 DEF Ahead, From, DeadCall
  <1>4. /\ Callers \in Seq(DeadCall) /\ Len(Callers) = Len(calls) - 1
        /\ \A i \in 1 .. Len(Callers) : Callers[i] = calls[i]
    BY <1>1, <1>2, CallersFacts
  <1>5. calls' # <<>> => Dead'.chan = Dead.chan
    BY <1>1, <1>2, <1>4 DEF Dead
  <1>6. calls' # <<>> => members'[Dead'.chan] \subseteq From(Dead'.next)
    BY <1>1, <1>3, <1>5
  <1>7. Exact'
    BY <1>1 DEF DInv, Exact, BotsIn
  <1> QED BY <1>1, <1>2, <1>3, <1>4, <1>6, <1>7 DEF Ahead, From

LEMMA DInit ==
  ASSUME LsInit
  PROVE  DInv
PROOF
  <1>1. WInv
    BY WInit
  <1>2. BotsIn({}) = 0
    <2>1. {} \in SUBSET Clients
      OBVIOUS
    <2> QED BY <2>1, BotsInFacts
  <1> QED BY <1>1, <1>2 DEF DInv, LsInit, Exact, Ahead

\* The strengthened invariant is inductive, and only a call of
\* handle_dead_channel that returns shortens the stack.
LEMMA DStep ==
  ASSUME DInv, [LsNext]_lsvars
  PROVE  DInv' /\ (calls # <<>> /\ calls' = Callers => members'[Dead.chan] = {})
PROOF
  <1>0. WInv' /\ WInv
    BY WStep DEF DInv, WInv
  <1>a. ASSUME Ahead, calls = <<>>, calls' = <<>>
        PROVE  Ahead'
    BY <1>a DEF Ahead
  <1>b. ASSUME UNCHANGED <<members, neousers>>
        PROVE  Exact'
    BY <1>b DEF DInv, Exact, BotsIn
  <1>1. ASSUME NEW x \in Clients, NEW c \in Chans, JoinChannel(x, c)
        PROVE  calls = <<>> /\ Exact' /\ Ahead'
    <2>1. calls = <<>> /\ calls' = calls /\ x \notin members[c] /\ Become(c, Joined(Chan(c), c, x))
      BY <1>1 DEF JoinChannel, Idle
    <2>2. Exact'
      BY <2>1, JoinedCounts, BecomeCounts
    <2> QED BY <1>a, <2>1, <2>2 DEF DInv
  <1>2. ASSUME NEW x \in Clients, NEW c \in Chans, DoPart(x, c)
        PROVE  calls = <<>> /\ Exact' /\ Ahead'
    <2>1. calls = <<>> /\ x \in members[c] /\ PartsFrom(c, x)
      BY <1>2 DEF DoPart, Idle, PartChannel, PartsFrom
    <2> QED BY <2>1, PartCovers
  <1>3. CASE ForceOut
    BY <1>0, <1>3, ForceOutCovers DEF DInv
  <1>4. CASE PassBy
    BY <1>0, <1>4, PassByCovers DEF DInv
  <1>5. CASE DeadReturns
    BY <1>0, <1>5, DeadReturnsCovers DEF DInv
  <1>6. ASSUME \/ limitservtimer
               \/ \E c \in Chans, l \in Limits : ChanMode(c, l)
               \/ \E n \in 0 .. MaxBuffer : SetBuffer(n)
               \/ \E n \in 0 .. MaxGrace : SetGrace(n)
               \/ SetJoinOff
        PROVE  calls = <<>> /\ Exact' /\ Ahead'
    <2>1. calls = <<>> /\ calls' = calls /\ UNCHANGED <<members, neousers>>
      BY <1>6 DEF limitservtimer, ChanMode, SetBuffer, SetGrace, SetJoinOff, Idle
    <2> QED BY <1>a, <1>b, <2>1 DEF DInv
  <1>7. ASSUME NEW c \in Chans, cmd_add(c)
        PROVE  calls = <<>> /\ Exact' /\ Ahead'
    <2> DEFINE ch == IF lsjoin /\ LsBot \notin members[c] THEN Added(Chan(c), LsBot) ELSE Chan(c)
    <2>1. calls = <<>> /\ calls' = calls
      BY <1>7 DEF cmd_add, Idle
    <2>2. CASE c \in channelhash
      <3>1. ChanOK(Chan(c)) /\ LsBot \in Clients
        BY DEF DInv, WInv, Bounds, Exact, ChanOK, Chan, Clients, Bots
      <3>2. ChanOK(ch)
        BY <1>0, <3>1, AddedCounts DEF Chan
      <3>3. Become(c, ch)
        BY <1>7, <2>2 DEF cmd_add
      <3>4. Exact'
        BY <3>2, <3>3, BecomeCounts
      <3> QED BY <1>a, <2>1, <3>4 DEF DInv
    <2>3. CASE c \notin channelhash
      <3>1. UNCHANGED <<members, neousers>>
        BY <1>7, <2>3 DEF cmd_add
      <3> QED BY <1>a, <1>b, <2>1, <3>1 DEF DInv
    <2> QED BY <2>2, <2>3
  <1>8. ASSUME NEW c \in Chans, cmd_del(c)
        PROVE  calls = <<>> /\ Exact' /\ Ahead'
    <2>1. calls = <<>>
      BY <1>8 DEF cmd_del, Idle
    <2>2. CASE lsjoin /\ LsBot \in members[c]
      <3>1. PartsFrom(c, LsBot)
        BY <1>8, <2>2 DEF cmd_del, PartsFrom
      <3> QED BY <2>1, <2>2, <3>1, PartCovers
    <2>3. CASE ~(lsjoin /\ LsBot \in members[c])
      <3>1. UNCHANGED <<members, neousers, calls>>
        BY <1>8, <2>3 DEF cmd_del
      <3> QED BY <1>a, <1>b, <2>1, <3>1 DEF DInv
    <2> QED BY <2>2, <2>3
  <1>9. ASSUME SetJoinOn
        PROVE  calls = <<>> /\ Exact' /\ Ahead'
    <2> DEFINE joins == {c \in qshash \cap channelhash : LsBot \notin members[c]}
    <2>1. /\ calls = <<>> /\ calls' = calls
          /\ members' = [c \in Chans |-> members[c] \cup IF c \in joins THEN {LsBot} ELSE {}]
          /\ neousers' = [c \in Chans |-> neousers[c] + IF c \in joins THEN 1 ELSE 0]
      BY <1>9 DEF SetJoinOn, Idle
    <2>2. ASSUME NEW c \in Chans
          PROVE  neousers'[c] \in Nat /\ neousers'[c] = BotsIn(members'[c])
      <3>1. /\ members[c] \in SUBSET Clients /\ neousers[c] = BotsIn(members[c])
            /\ neousers[c] \in Nat /\ LsBot \in Bots
        BY DEF DInv, WInv, Bounds, Exact, Bots
      <3>2. CASE c \in joins
        <4>1. members'[c] = members[c] \cup {LsBot} /\ neousers'[c] = neousers[c] + 1
          BY <2>1, <3>2
        <4>2. BotsIn(members[c] \cup {LsBot}) = BotsIn(members[c]) + 1
          BY <1>0, <3>1, <3>2, BotsInFacts
        <4> QED BY <3>1, <4>1, <4>2
      <3>3. CASE c \notin joins
        <4>1. members'[c] = members[c] /\ neousers'[c] = neousers[c]
          BY <2>1, <3>1, <3>3
        <4> QED BY <3>1, <4>1
      <3> QED BY <3>2, <3>3
    <2>3. neousers' \in [Chans -> Nat]
      BY <2>1, <2>2
    <2>4. Exact'
      BY <2>2, <2>3 DEF Exact, BotsIn
    <2> QED BY <1>a, <2>1, <2>4 DEF DInv
  <1>10. ASSUME NEW c \in Chans, PartChannels(c)
         PROVE  calls = <<>> /\ Exact' /\ Ahead'
    <2>1. CASE LsBot \in members[c]
      <3>1. calls = <<>> /\ PartsFrom(c, LsBot)
        BY <1>10, <2>1 DEF PartChannels, PartChannel, PartsFrom
      <3> QED BY <2>1, <3>1, PartCovers
    <2>2. CASE LsBot \notin members[c]
      <3>1. calls = <<>> /\ UNCHANGED <<members, neousers, calls>>
        BY <1>10, <2>2 DEF PartChannels
      <3> QED BY <1>a, <1>b, <3>1 DEF DInv
    <2> QED BY <2>1, <2>2
  <1>11. CASE UNCHANGED lsvars
    <2>1. UNCHANGED <<members, neousers, calls>>
      BY <1>11 DEF lsvars
    <2>2. Ahead'
      BY <2>1 DEF DInv, Ahead, Dead, From
    <2>3. calls # <<>> => calls' # Callers
      <3> SUFFICES ASSUME calls # <<>> PROVE Len(calls) # Len(Callers)
        BY <2>1
      <3>1. calls \in Seq(DeadCall)
        BY DEF DInv, Ahead
      <3> QED BY <3>1 DEF Callers
    <2> QED BY <1>0, <1>b, <2>1, <2>2, <2>3 DEF DInv
  <1> QED BY <1>0, <1>1, <1>2, <1>3, <1>4, <1>5, <1>6, <1>7, <1>8, <1>9, <1>10, <1>11
          DEF LsNext, handle_dead_channel, DInv

\* However its calls nest, and though handlers join again between them, a call of
\* handle_dead_channel (src/bots.c) that returns leaves its channel empty.
THEOREM DeadChannelsAreLeft == LsSpec => DeadChannelIsLeft
PROOF
  <1>1. LsInit => DInv
    BY DInit
  <1>2. DInv /\ [LsNext]_lsvars => DInv'
    BY DStep
  <1>3. DInv /\ [LsNext]_lsvars =>
          [calls # <<>> /\ calls' = Callers => members'[Dead.chan] = {}]_lsvars
    BY DStep
  <1> QED BY <1>1, <1>2, <1>3, PTL DEF LsSpec, DeadChannelIsLeft

-----------------------------------------------------------------------------
(* Channels on which LimitServ's bot does not join again: there the promise   *)
(* NoBotPartsTwice breaks holds, and the recursion ends.                      *)

\* Calls in progress on a channel that LimitServ does not manage with JOIN on.
Undisturbed == calls # <<>> /\ ~Watches(Dead.chan)

\* What a scan has passed is off the channel, and an inner one is further on.
InTurn ==
  Undisturbed =>
    /\ \A i \in 1 .. Len(calls), k \in DOMAIN BotOrder :
         k < calls[i].next => BotOrder[k] \notin members[Dead.chan]
    /\ \A i, j \in 1 .. Len(calls) - 1 : i < j => calls[i].next < calls[j].next
    /\ \A i \in 1 .. Len(calls) - 1 : calls[i].next > i

\* The bot to be parted is none that an outer call has passed.
LEMMA InTurnAdvanced ==
  ASSUME Ahead, calls # <<>>, Dead.next <= Len(BotOrder), InTurn, Undisturbed,
         BotOrder[Dead.next] \in members[Dead.chan]
  PROVE  \A i \in 1 .. Len(calls) - 1 : calls[i].next <= Dead.next
PROOF
  <1>1. Dead \in DeadCall /\ BotOrder \in Seq(Bots)
    BY AdvancedFacts, LimitServAssumption
  <1>2. Dead.next \in DOMAIN BotOrder /\ Dead.next \in Nat /\ Len(calls) \in Nat
    BY <1>1, LenProperties DEF DeadCall, Ahead
  <1>3. \A i \in 1 .. Len(calls) - 1 : i \in 1 .. Len(calls) /\ calls[i].next \in Nat
    <2>1. calls \in Seq(DeadCall) /\ \A i \in 1 .. Len(calls) - 1 : i \in 1 .. Len(calls)
      BY <1>2 DEF Ahead
    <2>2. \A i \in 1 .. Len(calls) : calls[i] \in DeadCall
      BY <2>1, ElementOfSeq
    <2>3. \A d \in DeadCall : d.next \in Nat
      BY <1>1, LenProperties DEF DeadCall
    <2> QED BY <2>1, <2>2, <2>3
  <1> QED BY <1>2, <1>3 DEF InTurn

\* The innermost call goes on to the next bot, which it may have parted.
LEMMA AdvancedInTurn ==
  ASSUME Ahead, calls # <<>>, Dead.next <= Len(BotOrder), InTurn, Undisturbed
  PROVE  /\ \A i \in 1 .. Len(calls), k \in DOMAIN BotOrder :
              k < Advanced[i].next =>
                BotOrder[k] \notin members[Dead.chan] \ {BotOrder[Dead.next]}
         /\ \A i, j \in 1 .. Len(calls) - 1 :
              i < j => Advanced[i].next < Advanced[j].next
         /\ \A i \in 1 .. Len(calls) - 1 : Advanced[i].next > i
         /\ BotOrder[Dead.next] \in members[Dead.chan] =>
              /\ \A i, j \in 1 .. Len(calls) : i < j => Advanced[i].next < Advanced[j].next
              /\ \A i \in 1 .. Len(calls) : Advanced[i].next > i
PROOF
  <1> DEFINE n == Len(calls)
  <1>1. /\ Advanced \in Seq(DeadCall) /\ Len(Advanced) = n /\ Dead \in DeadCall
        /\ Advanced[n] = [chan |-> Dead.chan, next |-> Dead.next + 1]
        /\ calls \in Seq(DeadCall) /\ n \in Nat \ {0} /\ Dead = calls[n]
    BY AdvancedFacts, LenProperties, EmptySeq DEF Ahead, Dead
  <1>2. ASSUME NEW i \in 1 .. n - 1 PROVE Advanced[i] = calls[i] /\ i \in 1 .. n
    <2>1. /\ Callers \in Seq(DeadCall) /\ Len(Callers) = n - 1 /\ Callers[i] = calls[i]
      BY <1>1, CallersFacts
    <2>2. Advanced[i] = Callers[i]
      BY <1>1, <2>1, AppendProperties DEF Advanced, DeadCall
    <2> QED BY <1>1, <2>1, <2>2
  <1>3. Dead.next \in 1 .. Len(BotOrder) /\ Len(BotOrder) \in Nat
        /\ DOMAIN BotOrder = 1 .. Len(BotOrder)
    BY <1>1, LimitServAssumption, LenProperties DEF DeadCall
  <1>4. \A i \in 1 .. n : calls[i].next \in Nat
    <2>1. \A i \in 1 .. n : calls[i] \in DeadCall
      BY <1>1, ElementOfSeq
    <2>2. \A d \in DeadCall : d.next \in Nat
      BY <1>3 DEF DeadCall
    <2> QED BY <2>1, <2>2
  <1>5. ASSUME NEW i \in 1 .. n, NEW k \in DOMAIN BotOrder, k < Advanced[i].next
        PROVE  BotOrder[k] \notin members[Dead.chan] \ {BotOrder[Dead.next]}
    <2>1. CASE i # n
      <3>1. i \in 1 .. n - 1
        BY <1>1, <2>1
      <3> QED BY <1>2, <1>5, <3>1 DEF InTurn
    <2>2. CASE i = n
      <3>1. k < Dead.next \/ k = Dead.next
        BY <1>1, <1>3, <1>5, <2>2
      <3>2. CASE k < Dead.next
        BY <1>1, <3>2 DEF InTurn
      <3> QED BY <3>1, <3>2
    <2> QED BY <2>1, <2>2
  <1>6. /\ \A i, j \in 1 .. n - 1 : i < j => Advanced[i].next < Advanced[j].next
        /\ \A i \in 1 .. n - 1 : Advanced[i].next > i
    BY <1>2 DEF InTurn
  <1>7. ASSUME BotOrder[Dead.next] \in members[Dead.chan]
        PROVE  /\ \A i, j \in 1 .. n : i < j => Advanced[i].next < Advanced[j].next
               /\ \A i \in 1 .. n : Advanced[i].next > i
    <2>1. \A i \in 1 .. n - 1 : Advanced[i].next <= Dead.next /\ Advanced[i].next \in Nat
      BY <1>2, <1>4, <1>7, InTurnAdvanced
    <2>2. Advanced[n].next = Dead.next + 1
      BY <1>1
    <2>3. Advanced[n].next > n
      <3>1. CASE n = 1
        BY <1>3, <2>2, <3>1
      <3>2. CASE n # 1
        <4>1. n - 1 \in 1 .. n - 1
          BY <1>1, <3>2
        <4>2. Advanced[n - 1].next > n - 1 /\ Advanced[n - 1].next <= Dead.next
              /\ Advanced[n - 1].next \in Nat
          BY <1>6, <2>1, <4>1
        <4> QED BY <1>1, <1>3, <2>2, <4>2
      <3> QED BY <3>1, <3>2
    <2>4. ASSUME NEW i \in 1 .. n, NEW j \in 1 .. n, i < j
          PROVE  Advanced[i].next < Advanced[j].next
      <3>1. i \in 1 .. n - 1 /\ (j = n \/ j \in 1 .. n - 1)
        BY <1>1, <2>4
      <3>2. CASE j = n
        <4>1. Advanced[i].next <= Dead.next /\ Advanced[i].next \in Nat
          BY <2>1, <3>1
        <4> QED BY <1>3, <2>2, <3>2, <4>1
      <3> QED BY <1>6, <2>4, <3>1, <3>2
    <2>5. ASSUME NEW i \in 1 .. n PROVE Advanced[i].next > i
      <3>1. i = n \/ i \in 1 .. n - 1
        BY <1>1
      <3> QED BY <1>6, <2>3, <3>1
    <2> QED BY <2>4, <2>5
  <1> QED BY <1>5, <1>6, <1>7

LEMMA InTurnStep ==
  ASSUME DInv, InTurn, [LsNext]_lsvars
  PROVE  InTurn'
PROOF
  <1> DEFINE c == Dead.chan
  <1> DEFINE n == Len(calls)
  <1>0. Ahead /\ Ahead' /\ calls \in Seq(DeadCall) /\ Len(calls) \in Nat
    BY DStep, LenProperties DEF DInv, Ahead
  <1>1. CASE UNCHANGED lsvars
    BY <1>1 DEF lsvars, settings, InTurn, Undisturbed, Dead, Watches
  <1>2. CASE LsNext /\ calls = <<>>
    <2>1. calls' = <<>> \/ \E d \in Chans : calls' = <<[chan |-> d, next |-> 1]>>
      BY <1>2 DEF LsNext, handle_dead_channel, JoinChannel, DoPart, PartChannel, ForceOut, PassBy,
             DeadReturns, InDead, limitservtimer, ChanMode, cmd_add, cmd_del, SetJoinOn,
             SetJoinOff, PartChannels, SetBuffer, SetGrace
    <2>2. CASE calls' = <<>>
      BY <2>2 DEF InTurn, Undisturbed
    <2>3. ASSUME NEW d \in Chans, calls' = <<[chan |-> d, next |-> 1]>>
          PROVE  InTurn'
      <3>1. Len(calls') = 1 /\ calls'[1].next = 1
        BY <2>3
      <3>2. DOMAIN BotOrder = 1 .. Len(BotOrder) /\ Len(BotOrder) \in Nat
        BY LimitServAssumption, LenProperties
      <3> QED BY <3>1, <3>2 DEF InTurn
    <2> QED BY <2>1, <2>2, <2>3
  <1>3. CASE LsNext /\ calls # <<>>
    <2>1. (ForceOut \/ PassBy \/ DeadReturns) /\ UNCHANGED settings
      BY <1>3 DEF LsNext, handle_dead_channel, JoinChannel, DoPart, ForceOut, PassBy,
             DeadReturns, Idle, limitservtimer, ChanMode, cmd_add, cmd_del, SetJoinOn,
             SetJoinOff, PartChannels, SetBuffer, SetGrace, settings
    <2>2. \A d : Watches(d)' <=> Watches(d)
      BY <2>1 DEF Watches, settings
    <2>3. CASE PassBy
      <3>1. /\ calls' = Advanced /\ members' = members /\ Dead.next <= Len(BotOrder)
            /\ BotOrder[Dead.next] \notin members[c]
        BY <2>3 DEF PassBy
      <3>2. Len(Advanced) = n /\ Dead' = Advanced[n] /\ Advanced[n].chan = c
        BY <1>0, <1>3, <3>1, AdvancedFacts DEF Dead
      <3>3. SUFFICES ASSUME Undisturbed
                     PROVE  InTurn'
        BY <1>3, <2>2, <3>2 DEF InTurn, Undisturbed
      <3>4. /\ \A i \in 1 .. n, k \in DOMAIN BotOrder :
                 k < Advanced[i].next => BotOrder[k] \notin members[c] \ {BotOrder[Dead.next]}
            /\ \A i, j \in 1 .. n - 1 : i < j => Advanced[i].next < Advanced[j].next
            /\ \A i \in 1 .. n - 1 : Advanced[i].next > i
        BY <1>0, <1>3, <3>1, <3>3, AdvancedInTurn
      <3> QED BY <3>1, <3>2, <3>4 DEF InTurn
    <2>4. CASE ForceOut
      <3> DEFINE x == BotOrder[Dead.next]
      <3> DEFINE ch == Parted(Chan(c), c, x)
      <3> DEFINE call == [chan |-> c, next |-> 1]
      <3>1. /\ Dead.next <= Len(BotOrder) /\ x \in members[c]
            /\ PartChannel(x, c, Advanced)
        BY <2>4 DEF ForceOut
      <3>2. /\ Advanced \in Seq(DeadCall) /\ Len(Advanced) = n /\ Advanced # <<>>
            /\ Advanced[n].chan = c /\ Dead \in DeadCall
        BY <1>0, <1>3, <3>1, AdvancedFacts
      <3>3. /\ members' = [members EXCEPT ![c] = ch.members]
            /\ calls' = Advanced \/ calls' = Append(Advanced, call)
        BY <3>1 DEF PartChannel, Become
      <3>4. c \in Chans /\ members[c] = Chan(c).members /\ DOMAIN members = Chans
        BY <3>2 DEF DeadCall, Chan, DInv, WInv, Bounds
      <3>5. Dead'.chan = c
        <4>1. CASE calls' = Advanced
          BY <3>2, <4>1 DEF Dead
        <4>2. CASE calls' = Append(Advanced, call)
          BY <3>2, <4>2 DEF Dead
        <4> QED BY <3>3, <4>1, <4>2
      <3>6. SUFFICES ASSUME Undisturbed
                     PROVE  InTurn'
        BY <1>3, <2>2, <3>5 DEF InTurn, Undisturbed
      <3>7. members'[c] = members[c] \ {x}
        BY <3>3, <3>4, <3>6 DEF Parted, EventJoinPartKick, Undisturbed
      <3>8. /\ \A i \in 1 .. n, k \in DOMAIN BotOrder :
                 k < Advanced[i].next => BotOrder[k] \notin members[c] \ {x}
            /\ \A i, j \in 1 .. n : i < j => Advanced[i].next < Advanced[j].next
            /\ \A i \in 1 .. n : Advanced[i].next > i
        BY <1>0, <1>3, <3>1, <3>6, AdvancedInTurn
      <3> HIDE DEF x, ch
      <3>9. CASE calls' = Advanced
        <4>1. \A i \in 1 .. n - 1 : i \in 1 .. n
          BY <1>0
        <4> QED BY <3>2, <3>5, <3>7, <3>8, <3>9, <4>1 DEF InTurn
      <3>10. CASE calls' = Append(Advanced, call)
        <4>1. call \in DeadCall
          BY <3>4, LimitServAssumption, LenProperties DEF DeadCall
        <4>2. /\ Len(calls') = n + 1 /\ calls'[n + 1] = call
              /\ \A i \in 1 .. n : calls'[i] = Advanced[i]
          BY <3>2, <3>10, <4>1, AppendProperties
        <4>3. \A i \in 1 .. Len(calls') : i \in 1 .. n \/ i = n + 1
          BY <1>0, <4>2
        <4>4. \A i \in 1 .. Len(calls') - 1 : i \in 1 .. n
          BY <1>0, <4>2
        <4>5. \A k \in DOMAIN BotOrder : ~(k < 1)
          BY LimitServAssumption, LenProperties
        <4>6. calls'[n + 1].next = 1
          BY <4>2
        <4>7. \A i \in 1 .. Len(calls'), k \in DOMAIN BotOrder :
                k < calls'[i].next => BotOrder[k] \notin members'[c]
          BY <3>7, <3>8, <4>2, <4>3, <4>5, <4>6
        <4>8. /\ \A i, j \in 1 .. Len(calls') - 1 : i < j => calls'[i].next < calls'[j].next
              /\ \A i \in 1 .. Len(calls') - 1 : calls'[i].next > i
          BY <3>8, <4>2, <4>4
        <4> HIDE DEF c, call
        <4> QED BY <3>5, <4>7, <4>8 DEF InTurn
      <3> QED BY <3>3, <3>9, <3>10
    <2>5. CASE DeadReturns
      <3>1. calls' = Callers /\ members' = members
        BY <2>5 DEF DeadReturns
      <3>2. /\ n \in Nat \ {0}
            /\ Len(Callers) = n - 1 /\ \A i \in 1 .. n - 1 : Callers[i] = calls[i]
        BY <1>0, <1>3, CallersFacts, LenProperties, EmptySeq
      <3>3. SUFFICES ASSUME calls' # <<>>, Undisturbed'
                     PROVE  InTurn'
        BY DEF InTurn, Undisturbed
      <3>4. n - 1 \in 1 .. n - 1 /\ n - 1 \in 1 .. n /\ n \in 1 .. n
        <4>1. n # 1
          BY <1>0, <3>1, <3>2, <3>3, EmptySeq DEF Ahead
        <4> QED BY <3>2, <4>1
      <3>5. Dead' = calls[n - 1] /\ Dead'.chan = c
        BY <1>0, <3>1, <3>2, <3>4 DEF Dead, Ahead
      <3>6. Undisturbed
        BY <1>3, <2>2, <3>3, <3>5 DEF Undisturbed
      <3>7. /\ \A i \in 1 .. n - 1 : i \in 1 .. n
            /\ \A i \in 1 .. (n - 1) - 1 : i \in 1 .. n - 1
        BY <3>2
      <3> QED BY <3>1, <3>2, <3>5, <3>6, <3>7 DEF InTurn
    <2> QED BY <2>1, <2>3, <2>4, <2>5
  <1> QED BY <1>1, <1>2, <1>3

\* NoBotPartsTwice on a channel that LimitServ does not manage with JOIN on: no bot is
\* parted again while its first part is in progress, so that handle_dead_channel
\* nests at most once for each bot and the promise of EVENT_EMPTYCHAN holds.
THEOREM BotsPartOnce ==
  LsSpec => [](Undisturbed => NoBotPartsTwice /\ Len(calls) <= Len(BotOrder) + 1)
PROOF
  <1>1. LsInit => DInv /\ InTurn
    BY DInit DEF LsInit, InTurn, Undisturbed
  <1>2. DInv /\ InTurn /\ [LsNext]_lsvars => (DInv /\ InTurn)'
    BY DStep, InTurnStep
  <1>3. ASSUME DInv, InTurn, Undisturbed
        PROVE  NoBotPartsTwice /\ Len(calls) <= Len(BotOrder) + 1
    <2>1. /\ calls \in Seq(DeadCall) /\ Len(calls) \in Nat /\ Len(BotOrder) \in Nat
          /\ \A i \in 1 .. Len(calls) - 1 : calls[i].next \in 1 .. Len(BotOrder) + 1
      <3>1. calls \in Seq(DeadCall) /\ Len(calls) \in Nat
        BY <1>3, LenProperties DEF DInv, Ahead
      <3>2. \A i \in 1 .. Len(calls) - 1 : calls[i] \in DeadCall
        BY <3>1, ElementOfSeq
      <3> QED BY <3>1, <3>2, LimitServAssumption, LenProperties DEF DeadCall
    <2>2. NoBotPartsTwice
      <3> SUFFICES ASSUME NEW i \in 1 .. Len(calls) - 1, NEW j \in 1 .. Len(calls) - 1, i # j
                   PROVE  calls[i].next # calls[j].next
        BY DEF NoBotPartsTwice
      <3>1. i < j \/ j < i
        BY <2>1
      <3> QED BY <1>3, <2>1, <3>1 DEF InTurn
    <2>3. CASE Len(calls) - 1 \in 1 .. Len(calls) - 1
      <3>1. calls[Len(calls) - 1].next > Len(calls) - 1
        BY <1>3, <2>3 DEF InTurn
      <3> QED BY <2>1, <2>2, <2>3, <3>1
    <2>4. CASE Len(calls) - 1 \notin 1 .. Len(calls) - 1
      BY <2>1, <2>2, <2>4
    <2> QED BY <2>3, <2>4
  <1>4. DInv /\ InTurn => (Undisturbed => NoBotPartsTwice /\ Len(calls) <= Len(BotOrder) + 1)
    BY <1>3
  <1> QED BY <1>1, <1>2, <1>4, PTL DEF LsSpec

\* Which channels PartChannels has still to look at.
LEMMA LeavingStep ==
  ASSUME WInv, leaving \subseteq Chans, [LsNext]_lsvars
  PROVE  leaving' \subseteq Chans
PROOF
  <1>1. \/ leaving' = leaving \/ leaving' = qshash
        \/ \E c \in Chans : leaving' = leaving \ {c}
    BY DEF LsNext, lsvars, handle_dead_channel, JoinChannel, DoPart, ForceOut, PassBy,
           DeadReturns, limitservtimer, ChanMode, cmd_add, cmd_del, SetJoinOn, SetJoinOff,
           PartChannels, SetBuffer, SetGrace
  <1> QED BY <1>1 DEF WInv, Bounds

\* LsTypeOK: GRACE stays below BUFFER though either is set at any time, and the
\* unsigned counter of bots never wraps below 0 nor exceeds the bots there are.
THEOREM LimitServTyped == LsSpec => []LsTypeOK
PROOF
  <1>1. LsInit => DInv /\ leaving \subseteq Chans
    BY DInit DEF LsInit
  <1>2. DInv /\ leaving \subseteq Chans /\ [LsNext]_lsvars => (DInv /\ leaving \subseteq Chans)'
    BY DStep, LeavingStep DEF DInv
  <1>3. DInv /\ leaving \subseteq Chans => LsTypeOK
    <2> SUFFICES ASSUME DInv, leaving \subseteq Chans
                 PROVE  LsTypeOK
      OBVIOUS
    <2>1. ASSUME NEW c \in Chans
          PROVE  neousers[c] \in 0 .. Cardinality(Bots)
      <3>1. /\ members[c] \subseteq Clients
            /\ neousers[c] = Cardinality(members[c] \cap Bots)
        BY <2>1 DEF DInv, WInv, Bounds, Exact, BotsIn
      <3>2. IsFiniteSet(Bots)
        BY FiniteClients, FS_Subset DEF Clients
      <3>3. IsFiniteSet(members[c] \cap Bots)
            /\ Cardinality(members[c] \cap Bots) <= Cardinality(Bots)
        BY <3>2, FS_Subset
      <3>4. Cardinality(members[c] \cap Bots) \in Nat /\ Cardinality(Bots) \in Nat
        BY <3>2, <3>3, FS_CardinalityType
      <3> QED BY <3>1, <3>3, <3>4
    <2>2. neousers \in [Chans -> 0 .. Cardinality(Bots)]
      BY <2>1 DEF DInv, Exact
    <2> QED BY <2>2 DEF DInv, WInv, Bounds, Ahead, LsTypeOK
  <1> QED BY <1>1, <1>2, <1>3, PTL DEF LsSpec

=============================================================================
