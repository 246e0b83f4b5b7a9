---------------------------- MODULE Modes_proofs -----------------------------
(***************************************************************************)
(* Modes, for every table of modes, every mode line and every channel: the  *)
(* copy follows the network.                                                *)
(*                                                                         *)
(* A line is followed change by change: after the characters of the first   *)
(* n changes ChanModeHandler has the channel that follows what the network   *)
(* has after n changes, the sign of the last one, and the parameters of      *)
(* those that are left.                                                      *)
(***************************************************************************)
EXTENDS Modes, LinkedLists_proofs

-----------------------------------------------------------------------------
(* The three recursions, of which only the existence has to be shown. *)

\* f has the network after each of the first n changes.
Applied(f, net, gs, n) ==
  /\ DOMAIN f = 0 .. n /\ f[0] = net
  /\ \A k \in 1 .. n : f[k] = Changed(f[k - 1], gs[k])

LEMMA AppliedExists ==
  ASSUME NEW net, NEW gs, NEW m \in Nat
  PROVE  \E f : f = [k \in 0 .. m |-> f[k]] /\ Applied(f, net, gs, m)
PROOF
  <1> DEFINE Bad == {n \in Nat : ~\E f : f = [k \in 0 .. n |-> f[k]] /\ Applied(f, net, gs, n)}
  <1> SUFFICES Bad = {}
    OBVIOUS
  <1> SUFFICES ASSUME Bad # {} PROVE FALSE
    OBVIOUS
  <1>1. PICK n \in Bad : \A k \in Bad : n <= k
    <2>1. Bad \in SUBSET Nat
      OBVIOUS
    <2> HIDE DEF Bad
    <2> QED BY <2>1, LeastNumber
  <1>2. n # 0
    <2> SUFFICES \E f : f = [k \in 0 .. 0 |-> f[k]] /\ Applied(f, net, gs, 0)
      OBVIOUS
    <2> DEFINE f == [k \in 0 .. 0 |-> net]
    <2>1. f = [k \in 0 .. 0 |-> f[k]] /\ Applied(f, net, gs, 0)
      BY DEF Applied
    <2> QED BY <2>1
  <1>3. n - 1 \in Nat /\ n - 1 \notin Bad
    <2>1. n \in Nat
      OBVIOUS
    <2> HIDE DEF Bad
    <2> QED BY <1>1, <1>2, <2>1
  <1>4. PICK g : Applied(g, net, gs, n - 1)
    BY <1>3
  <1> DEFINE f == [k \in 0 .. n |-> IF k = n THEN Changed(g[n - 1], gs[n]) ELSE g[k]]
  <1>5. f = [k \in 0 .. n |-> f[k]]
    OBVIOUS
  <1>6. Applied(f, net, gs, n)
    <2>1. DOMAIN f = 0 .. n /\ f[0] = net
      BY <1>2, <1>3, <1>4 DEF Applied
    <2>2. ASSUME NEW k \in 1 .. n PROVE f[k] = Changed(f[k - 1], gs[k])
      <3>1. CASE k = n
        BY <3>1, <1>3
      <3>2. CASE k # n
        <4>1. k \in 1 .. n - 1
          BY <3>2, <1>3
        <4> QED BY <4>1, <1>3, <1>4 DEF Applied
      <3> QED BY <3>1, <3>2
    <2> HIDE DEF f
    <2> QED BY <2>1, <2>2 DEF Applied
  <1> HIDE DEF f
  <1> QED BY <1>5, <1>6

LEMMA StagesApplied ==
  ASSUME NEW net, NEW gs \in Seq(Change)
  PROVE  \E f : Applied(f, net, gs, Len(gs)) /\ Stages(net, gs) = f
PROOF
  <1> DEFINE m == Len(gs)
             after == CHOOSE f : f = [n \in 0 .. m |->
                                        IF n = 0 THEN net ELSE Changed(f[n - 1], gs[n])]
  <1>1. m \in Nat
    BY LenProperties
  <1>2. PICK g : g = [k \in 0 .. m |-> g[k]] /\ Applied(g, net, gs, m)
    BY <1>1, AppliedExists
  <1>3. g = [n \in 0 .. m |-> IF n = 0 THEN net ELSE Changed(g[n - 1], gs[n])]
    <2>1. ASSUME NEW n \in 0 .. m
          PROVE  g[n] = IF n = 0 THEN net ELSE Changed(g[n - 1], gs[n])
      BY <1>1, <1>2 DEF Applied
    <2> HIDE DEF m
    <2> QED BY <1>2, <2>1
  <1>4. after = [n \in 0 .. m |-> IF n = 0 THEN net ELSE Changed(after[n - 1], gs[n])]
    BY <1>3
  <1>5. Stages(net, gs) = after
    BY DEF Stages
  <1> HIDE DEF after
  <1>6. Applied(after, net, gs, m)
    BY <1>1, <1>4 DEF Applied
  <1> QED BY <1>5, <1>6

Written(line, gs, n) ==
  [modes |-> line.modes \o Characters(gs, n), args |-> line.args \o Arguments(gs[n])]

Nothing == [modes |-> <<>>, args |-> <<>>]

\* f has the line of each of the first n changes.
Writes(f, gs, n) ==
  /\ DOMAIN f = 0 .. n /\ f[0] = Nothing
  /\ \A k \in 1 .. n : f[k] = Written(f[k - 1], gs, k)

LEMMA WritesExists ==
  ASSUME NEW gs, NEW m \in Nat
  PROVE  \E f : f = [k \in 0 .. m |-> f[k]] /\ Writes(f, gs, m)
PROOF
  <1> DEFINE Bad == {n \in Nat : ~\E f : f = [k \in 0 .. n |-> f[k]] /\ Writes(f, gs, n)}
  <1> SUFFICES Bad = {}
    OBVIOUS
  <1> SUFFICES ASSUME Bad # {} PROVE FALSE
    OBVIOUS
  <1>1. PICK n \in Bad : \A k \in Bad : n <= k
    <2>1. Bad \in SUBSET Nat
      OBVIOUS
    <2> HIDE DEF Bad
    <2> QED BY <2>1, LeastNumber
  <1>2. n # 0
    <2> SUFFICES \E f : f = [k \in 0 .. 0 |-> f[k]] /\ Writes(f, gs, 0)
      OBVIOUS
    <2> DEFINE f == [k \in 0 .. 0 |-> Nothing]
    <2>1. f = [k \in 0 .. 0 |-> f[k]] /\ Writes(f, gs, 0)
      BY DEF Writes
    <2> QED BY <2>1
  <1>3. n - 1 \in Nat /\ n - 1 \notin Bad
    <2>1. n \in Nat
      OBVIOUS
    <2> HIDE DEF Bad
    <2> QED BY <1>1, <1>2, <2>1
  <1>4. PICK g : Writes(g, gs, n - 1)
    BY <1>3
  <1> DEFINE f == [k \in 0 .. n |-> IF k = n THEN Written(g[n - 1], gs, n) ELSE g[k]]
  <1>5. f = [k \in 0 .. n |-> f[k]]
    OBVIOUS
  <1>6. Writes(f, gs, n)
    <2>1. DOMAIN f = 0 .. n /\ f[0] = Nothing
      BY <1>2, <1>3, <1>4 DEF Writes
    <2>2. ASSUME NEW k \in 1 .. n PROVE f[k] = Written(f[k - 1], gs, k)
      <3>1. CASE k = n
        BY <3>1, <1>3
      <3>2. CASE k # n
        <4>1. k \in 1 .. n - 1
          BY <3>2, <1>3
        <4> QED BY <4>1, <1>3, <1>4 DEF Writes
      <3> QED BY <3>1, <3>2
    <2> HIDE DEF f
    <2> QED BY <2>1, <2>2 DEF Writes
  <1> HIDE DEF f
  <1> QED BY <1>5, <1>6

LEMMA LineWritten ==
  ASSUME NEW gs \in Seq(Change)
  PROVE  \E f : Writes(f, gs, Len(gs)) /\ Line(gs) = f[Len(gs)]
PROOF
  <1> DEFINE m == Len(gs)
             after == CHOOSE f : f = [n \in 0 .. m |->
                                        IF n = 0 THEN Nothing ELSE Written(f[n - 1], gs, n)]
  <1>1. m \in Nat
    BY LenProperties
  <1>2. PICK g : g = [k \in 0 .. m |-> g[k]] /\ Writes(g, gs, m)
    BY <1>1, WritesExists
  <1>3. g = [n \in 0 .. m |-> IF n = 0 THEN Nothing ELSE Written(g[n - 1], gs, n)]
    <2>1. ASSUME NEW n \in 0 .. m
          PROVE  g[n] = IF n = 0 THEN Nothing ELSE Written(g[n - 1], gs, n)
      BY <1>1, <1>2 DEF Writes
    <2> HIDE DEF m
    <2> QED BY <1>2, <2>1
  <1>4. after = [n \in 0 .. m |-> IF n = 0 THEN Nothing ELSE Written(after[n - 1], gs, n)]
    BY <1>3
  <1>5. Line(gs) = after[m]
    BY DEF Line, Written, Nothing
  <1> HIDE DEF after
  <1>6. Writes(after, gs, m)
    BY <1>1, <1>4 DEF Writes
  <1> QED BY <1>5, <1>6

Reader(ch, args) == [ch |-> ch, add |-> TRUE, args |-> args]

\* f has what the loop of ChanModeHandler knows after each of the first n characters.
Reads(f, ch, modes, args, n) ==
  /\ DOMAIN f = 0 .. n /\ f[0] = Reader(ch, args)
  /\ \A k \in 1 .. n : f[k] = Read(f[k - 1], modes[k])

LEMMA ReadsExists ==
  ASSUME NEW ch, NEW modes, NEW args, NEW m \in Nat
  PROVE  \E f : f = [k \in 0 .. m |-> f[k]] /\ Reads(f, ch, modes, args, m)
PROOF
  <1> DEFINE Bad == {n \in Nat : ~\E f : f = [k \in 0 .. n |-> f[k]] /\ Reads(f, ch, modes, args, n)}
  <1> SUFFICES Bad = {}
    OBVIOUS
  <1> SUFFICES ASSUME Bad # {} PROVE FALSE
    OBVIOUS
  <1>1. PICK n \in Bad : \A k \in Bad : n <= k
    <2>1. Bad \in SUBSET Nat
      OBVIOUS
    <2> HIDE DEF Bad
    <2> QED BY <2>1, LeastNumber
  <1>2. n # 0
    <2> SUFFICES \E f : f = [k \in 0 .. 0 |-> f[k]] /\ Reads(f, ch, modes, args, 0)
      OBVIOUS
    <2> DEFINE f == [k \in 0 .. 0 |-> Reader(ch, args)]
    <2>1. f = [k \in 0 .. 0 |-> f[k]] /\ Reads(f, ch, modes, args, 0)
      BY DEF Reads
    <2> QED BY <2>1
  <1>3. n - 1 \in Nat /\ n - 1 \notin Bad
    <2>1. n \in Nat
      OBVIOUS
    <2> HIDE DEF Bad
    <2> QED BY <1>1, <1>2, <2>1
  <1>4. PICK g : Reads(g, ch, modes, args, n - 1)
    BY <1>3
  <1> DEFINE f == [k \in 0 .. n |-> IF k = n THEN Read(g[n - 1], modes[n]) ELSE g[k]]
  <1>5. f = [k \in 0 .. n |-> f[k]]
    OBVIOUS
  <1>6. Reads(f, ch, modes, args, n)
    <2>1. DOMAIN f = 0 .. n /\ f[0] = Reader(ch, args)
      BY <1>2, <1>3, <1>4 DEF Reads
    <2>2. ASSUME NEW k \in 1 .. n PROVE f[k] = Read(f[k - 1], modes[k])
      <3>1. CASE k = n
        BY <3>1, <1>3
      <3>2. CASE k # n
        <4>1. k \in 1 .. n - 1
          BY <3>2, <1>3
        <4> QED BY <4>1, <1>3, <1>4 DEF Reads
      <3> QED BY <3>1, <3>2
    <2> HIDE DEF f
    <2> QED BY <2>1, <2>2 DEF Reads
  <1> HIDE DEF f
  <1> QED BY <1>5, <1>6

LEMMA HandlerReads ==
  ASSUME NEW ch, NEW args, NEW T, NEW modes \in Seq(T)
  PROVE  \E f : Reads(f, ch, modes, args, Len(modes)) /\ ChanModeHandler(ch, modes, args) = f[Len(modes)].ch
PROOF
  <1> DEFINE m == Len(modes)
             after == CHOOSE f : f = [n \in 0 .. m |->
                                        IF n = 0 THEN Reader(ch, args) ELSE Read(f[n - 1], modes[n])]
  <1>1. m \in Nat
    BY LenProperties
  <1>2. PICK g : g = [k \in 0 .. m |-> g[k]] /\ Reads(g, ch, modes, args, m)
    BY <1>1, ReadsExists
  <1>3. g = [n \in 0 .. m |-> IF n = 0 THEN Reader(ch, args) ELSE Read(g[n - 1], modes[n])]
    <2>1. ASSUME NEW n \in 0 .. m
          PROVE  g[n] = IF n = 0 THEN Reader(ch, args) ELSE Read(g[n - 1], modes[n])
      BY <1>1, <1>2, SMTT(60) DEF Reads
    <2> HIDE DEF m
    <2> QED BY <1>2, <2>1
  <1>4. after = [n \in 0 .. m |-> IF n = 0 THEN Reader(ch, args) ELSE Read(after[n - 1], modes[n])]
    BY <1>3
  <1>5. ChanModeHandler(ch, modes, args) = after[m].ch
    BY DEF ChanModeHandler, Reader
  <1> HIDE DEF after
  <1>6. Reads(after, ch, modes, args, m)
    BY <1>1, <1>4 DEF Reads
  <1> QED BY <1>5, <1>6

-----------------------------------------------------------------------------
(* One change. *)

Modes == Status \cup Lists \cup Flags \cup {"l", "k"}

\* A change has a parameter where its mode takes one.
LEMMA ChangeFacts ==
  ASSUME NEW g \in Change
  PROVE  /\ g.add \in BOOLEAN /\ g.mode \in Modes /\ g.mode \notin {"+", "-"}
         /\ g.mode \in Status => g.arg \in Members
         /\ g.mode \in Lists => g.arg \in Masks
         /\ g.mode = "k" => g.arg \in Keys
         /\ g.mode = "l" /\ g.add => g.arg \in Limits
         /\ TakesParam(g.mode, g.add) <=> g.arg # NULL
PROOF
  <1>1. CASE g \in [add : BOOLEAN, mode : Status, arg : Members]
    BY <1>1, ModesAssumption DEF Modes, TakesParam
  <1>2. CASE g \in [add : BOOLEAN, mode : Lists, arg : Masks]
    BY <1>2, ModesAssumption DEF Modes, TakesParam
  <1>3. CASE g \in [add : BOOLEAN, mode : Flags, arg : {NULL}]
    BY <1>3, ModesAssumption DEF Modes, TakesParam
  <1>4. CASE g \in [add : {TRUE}, mode : {"l"}, arg : Limits]
    BY <1>4, ModesAssumption DEF Modes, TakesParam
  <1>5. CASE g \in [add : {FALSE}, mode : {"l"}, arg : {NULL}]
    BY <1>5, ModesAssumption DEF Modes, TakesParam
  <1>6. CASE g \in [add : BOOLEAN, mode : {"k"}, arg : Keys]
    BY <1>6, ModesAssumption DEF Modes, TakesParam
  <1> QED BY <1>1, <1>2, <1>3, <1>4, <1>5, <1>6 DEF Change

\* The parameters of m among those of params.
Of(params, m) == {p \in params : p.mask = m}

\* What ModesFollow says of a channel that exists.
Follows(ch, net) ==
  /\ ch \in Known /\ net \in Actual
  /\ ch.members = net.members /\ ch.modes = net.modes
  /\ ch.limit = net.limit /\ ch.key = net.key
  /\ IsInjective(ch.modeparams)
  /\ \A m \in Lists :
       Cardinality(Of(Range(ch.modeparams), m)) <= Cardinality(Of(net.modeparams, m))

LEMMA FiniteParams ==
  ASSUME NEW S, S \subseteq Param
  PROVE  IsFiniteSet(S) /\ \A m : IsFiniteSet(Of(S, m)) /\ Cardinality(Of(S, m)) \in Nat
PROOF
  <1>1. IsFiniteSet(Lists \X Masks)
    BY ModesAssumption, FS_Product
  <1> DEFINE f == [p \in Param |-> <<p.mask, p.param>>]
  <1>2. f \in Injection(Param, Lists \X Masks)
    BY DEF Param, Injection, IsInjective
  <1>3. IsFiniteSet(Param)
    BY <1>1, <1>2, FS_Injection
  <1>4. IsFiniteSet(S)
    BY <1>3, FS_Subset
  <1>5. ASSUME NEW m PROVE IsFiniteSet(Of(S, m)) /\ Cardinality(Of(S, m)) \in Nat
    <2>1. Of(S, m) \in SUBSET S
      BY DEF Of
    <2>2. IsFiniteSet(Of(S, m))
      BY <1>4, <2>1, FS_Subset
    <2> QED BY <2>2, FS_CardinalityType
  <1> QED BY <1>4, <1>5

\* One parameter more or less is one more or less of its mode.
LEMMA OfFacts ==
  ASSUME NEW S, S \subseteq Param, NEW x \in Param, NEW m
  PROVE  /\ x \notin S => Cardinality(Of(S \cup {x}, m))
                            = Cardinality(Of(S, m)) + IF x.mask = m THEN 1 ELSE 0
         /\ x \in S => Cardinality(Of(S \ {x}, m))
                         = Cardinality(Of(S, m)) - IF x.mask = m THEN 1 ELSE 0
PROOF
  <1>1. IsFiniteSet(Of(S, m)) /\ Cardinality(Of(S, m)) \in Nat
    BY FiniteParams
  <1>2. CASE x.mask = m
    <2>1. Of(S \cup {x}, m) = Of(S, m) \cup {x} /\ Of(S \ {x}, m) = Of(S, m) \ {x}
      BY <1>2 DEF Of
    <2>2. x \in S <=> x \in Of(S, m)
      BY <1>2 DEF Of
    <2>3. Cardinality(Of(S, m) \cup {x})
            = IF x \in Of(S, m) THEN Cardinality(Of(S, m)) ELSE Cardinality(Of(S, m)) + 1
      BY <1>1, FS_AddElement
    <2>4. Cardinality(Of(S, m) \ {x})
            = IF x \in Of(S, m) THEN Cardinality(Of(S, m)) - 1 ELSE Cardinality(Of(S, m))
      BY <1>1, FS_RemoveElement
    <2> QED BY <1>2, <2>1, <2>2, <2>3, <2>4
  <1>3. CASE x.mask # m
    <2>1. Of(S \cup {x}, m) = Of(S, m) /\ Of(S \ {x}, m) = Of(S, m)
      BY <1>3 DEF Of
    <2> QED BY <1>1, <1>3, <2>1
  <1> QED BY <1>2, <1>3

\* A parameter that is added, and the first one of its mode that is removed.
LEMMA WithParamFacts ==
  ASSUME NEW s \in Seq(Param), IsInjective(s), NEW m \in Lists, NEW p \in Masks
  PROVE  /\ WithParam(s, m, p) \in Seq(Param) /\ IsInjective(WithParam(s, m, p))
         /\ Range(WithParam(s, m, p)) = Range(s) \cup {[mask |-> m, param |-> p]}
PROOF
  <1> DEFINE x == [mask |-> m, param |-> p]
  <1>1. x \in Param
    BY DEF Param
  <1>2. Contains(s, x) <=> x \in Range(s)
    BY LenProperties DEF Contains, Range
  <1>3. CASE Contains(s, x)
    BY <1>2, <1>3 DEF WithParam
  <1>4. CASE ~Contains(s, x)
    <2>1. WithParam(s, m, p) = Append(s, x)
      BY <1>4 DEF WithParam
    <2> HIDE DEF x
    <2>2. x \notin Range(s)
      BY <1>2, <1>4
    <2>3. /\ Append(s, x) \in Seq(Param) /\ IsInjective(Append(s, x))
          /\ Range(Append(s, x)) = Range(s) \cup {x}
      BY <1>1, <2>2, AppendFacts
    <2> QED BY <2>1, <2>3 DEF x
  <1> QED BY <1>3, <1>4

LEMMA WithoutParamFacts ==
  ASSUME NEW s \in Seq(Param), IsInjective(s), NEW m \in Lists
  PROVE  /\ WithoutParam(s, m) \in Seq(Param) /\ IsInjective(WithoutParam(s, m))
         /\ \/ Of(Range(s), m) = {} /\ WithoutParam(s, m) = s
            \/ \E x \in Range(s) : x.mask = m /\ Range(WithoutParam(s, m)) = Range(s) \ {x}
PROOF
  <1> DEFINE I == {i \in DOMAIN s : s[i].mask = m}
  <1>0. Len(s) \in Nat /\ DOMAIN s = 1 .. Len(s)
    BY LenProperties
  <1>1. CASE I = {}
    <2>1. WithoutParam(s, m) = s
      BY <1>1 DEF WithoutParam
    <2>2. Of(Range(s), m) = {}
      BY <1>1 DEF Of, Range
    <2> QED BY <2>1, <2>2
  <1>2. CASE I # {}
    <2>1. WithoutParam(s, m) = RemoveAt(s, Min(I))
      BY <1>2 DEF WithoutParam
    <2>2. Min(I) \in I
      <3>1. I \subseteq Nat
        BY <1>0
      <3> HIDE DEF I
      <3>2. \E i \in I : \A j \in I : i <= j
        BY <1>2, <3>1, LeastNumber
      <3> QED BY <3>2 DEF Min
    <2>3. Min(I) \in DOMAIN s /\ s[Min(I)].mask = m
      BY <2>2
    <2> HIDE DEF I
    <2>4. /\ RemoveAt(s, Min(I)) \in Seq(Param) /\ IsInjective(RemoveAt(s, Min(I)))
          /\ Range(RemoveAt(s, Min(I))) = Range(s) \ {s[Min(I)]}
      BY <2>3, RemoveAtFacts
    <2>5. s[Min(I)] \in Range(s)
      BY <2>3 DEF Range
    <2> QED BY <2>1, <2>3, <2>4, <2>5
  <1> QED BY <1>1, <1>2
\* What has no business in modeparams leaves the lists alone.
LEMMA SameParams ==
  ASSUME NEW ch, NEW net, Follows(ch, net), NEW ch2 \in Known, NEW net2 \in Actual,
         ch2.members = net2.members, ch2.modes = net2.modes,
         ch2.limit = net2.limit, ch2.key = net2.key,
         ch2.modeparams = ch.modeparams, net2.modeparams = net.modeparams
  PROVE  Follows(ch2, net2)
PROOF
  BY DEF Follows

\* The handler of a mode follows the network, when it has the parameter of the
\* change.  What changes nothing is not passed on: only so is a parameter that is
\* removed one that the network had.
LEMMA OneChange ==
  ASSUME NEW ch, NEW net, Follows(ch, net), NEW g \in Change,
         g.mode \in Lists => Effective(net, g),
         NEW arg, g.arg # NULL => arg = g.arg
  PROVE  Follows(Processed(ch, g.mode, g.add, arg), Changed(net, g))
PROOF
  <1> DEFINE m == g.mode
  <1> DEFINE ch2 == Processed(ch, m, g.add, arg)
  <1> DEFINE net2 == Changed(net, g)
  <1>0. /\ ch \in Known /\ net \in Actual
        /\ ch.members = net.members /\ ch.modes = net.modes
        /\ ch.limit = net.limit /\ ch.key = net.key
    BY DEF Follows
  <1>1. CASE m \in Status
    <2>1. m \notin Lists \cup Flags \cup {"l", "k"} /\ arg \in Members /\ arg = g.arg
      BY <1>1, ChangeFacts, ModesAssumption
    <2>2. ch2 = ChanUserMode(ch, arg, g.add, m) /\ net2 = ChanUserMode(net, arg, g.add, m)
      BY <1>1, <2>1 DEF Processed, Changed
    <2> DEFINE now == [y \in DOMAIN ch.members |->
                        IF y = arg THEN Toggled(ch.members[y], g.add, m) ELSE ch.members[y]]
    <2>3. ch2 = [ch EXCEPT !.members = now] /\ net2 = [net EXCEPT !.members = now]
      BY <1>0, <2>2 DEF ChanUserMode
    <2>4. now \in UNION {[xs -> SUBSET Status] : xs \in SUBSET Members}
      <3>1. PICK xs \in SUBSET Members : ch.members \in [xs -> SUBSET Status]
        BY <1>0 DEF Known, Settings
      <3>2. now \in [xs -> SUBSET Status]
        BY <1>1, <3>1 DEF Toggled
      <3> QED BY <3>2
    <2> HIDE DEF now, ch2, net2, m
    <2>5. ch2 \in Known /\ net2 \in Actual
      BY <1>0, <2>3, <2>4 DEF Known, Actual, Settings
    <2>6. /\ ch2.members = net2.members /\ ch2.modes = net2.modes
          /\ ch2.limit = net2.limit /\ ch2.key = net2.key
          /\ ch2.modeparams = ch.modeparams /\ net2.modeparams = net.modeparams
      BY <1>0, <2>3 DEF Known, Actual, Settings
    <2> QED BY <2>5, <2>6, SameParams DEF ch2, net2, m
  <1>2. CASE m = "l"
    <2>1. m \notin Status \cup Lists \cup Flags \cup {"k"} /\ (g.add => arg \in Limits /\ arg = g.arg)
      BY <1>2, ChangeFacts, ModesAssumption
    <2> DEFINE now == IF g.add THEN arg ELSE 0
    <2>2. ch2 = [ch EXCEPT !.limit = now] /\ net2 = [net EXCEPT !.limit = now]
      BY <1>2, <2>1 DEF Processed, Changed
    <2>3. now \in Limits \cup {0}
      BY <2>1
    <2> HIDE DEF now, ch2, net2, m
    <2>5. ch2 \in Known /\ net2 \in Actual
      BY <1>0, <2>2, <2>3 DEF Known, Actual, Settings
    <2>6. /\ ch2.members = net2.members /\ ch2.modes = net2.modes
          /\ ch2.limit = net2.limit /\ ch2.key = net2.key
          /\ ch2.modeparams = ch.modeparams /\ net2.modeparams = net.modeparams
      BY <1>0, <2>2 DEF Known, Actual, Settings
    <2> QED BY <2>5, <2>6, SameParams DEF ch2, net2, m
  <1>3. CASE m = "k"
    <2>1. m \notin Status \cup Lists \cup Flags \cup {"l"} /\ arg \in Keys /\ arg = g.arg
      BY <1>3, ChangeFacts, ModesAssumption
    <2> DEFINE now == IF g.add THEN arg ELSE NULL
    <2>2. ch2 = [ch EXCEPT !.key = now] /\ net2 = [net EXCEPT !.key = now]
      BY <1>3, <2>1 DEF Processed, Changed
    <2>3. now \in Keys \cup {NULL}
      BY <2>1
    <2> HIDE DEF now, ch2, net2, m
    <2>5. ch2 \in Known /\ net2 \in Actual
      BY <1>0, <2>2, <2>3 DEF Known, Actual, Settings
    <2>6. /\ ch2.members = net2.members /\ ch2.modes = net2.modes
          /\ ch2.limit = net2.limit /\ ch2.key = net2.key
          /\ ch2.modeparams = ch.modeparams /\ net2.modeparams = net.modeparams
      BY <1>0, <2>2 DEF Known, Actual, Settings
    <2> QED BY <2>5, <2>6, SameParams DEF ch2, net2, m
  <1>4. CASE m \in Flags
    <2>1. m \notin Status \cup Lists \cup {"l", "k"}
      BY <1>4, ModesAssumption
    <2> DEFINE now == Toggled(ch.modes, g.add, m)
    <2>2. ch2 = [ch EXCEPT !.modes = now] /\ net2 = [net EXCEPT !.modes = now]
      BY <1>0, <1>4, <2>1 DEF Processed, Changed
    <2>3. now \in SUBSET Flags
      BY <1>0, <1>4 DEF Toggled, Known, Settings
    <2> HIDE DEF now, ch2, net2, m
    <2>5. ch2 \in Known /\ net2 \in Actual
      BY <1>0, <2>2, <2>3 DEF Known, Actual, Settings
    <2>6. /\ ch2.members = net2.members /\ ch2.modes = net2.modes
          /\ ch2.limit = net2.limit /\ ch2.key = net2.key
          /\ ch2.modeparams = ch.modeparams /\ net2.modeparams = net.modeparams
      BY <1>0, <2>2 DEF Known, Actual, Settings
    <2> QED BY <2>5, <2>6, SameParams DEF ch2, net2, m
  <1>5. CASE m \in Lists
    <2>1. m \notin Status \cup Flags \cup {"l", "k"} /\ arg \in Masks /\ arg = g.arg
      BY <1>5, ChangeFacts, ModesAssumption
    <2> DEFINE x == [mask |-> m, param |-> arg]
    <2> DEFINE old == ch.modeparams
    <2> DEFINE had == net.modeparams
    <2> DEFINE now == IF g.add THEN WithParam(old, m, arg) ELSE WithoutParam(old, m)
    <2> DEFINE has == Toggled(had, g.add, x)
    <2>2. ch2 = [ch EXCEPT !.modeparams = now] /\ net2 = [net EXCEPT !.modeparams = has]
      BY <1>5, <2>1 DEF Processed, Changed
    <2>3. /\ old \in Seq(Param) /\ IsInjective(old) /\ Range(old) \subseteq Param
          /\ had \subseteq Param /\ x \in Param
          /\ \A l \in Lists : Cardinality(Of(Range(old), l)) <= Cardinality(Of(had, l))
      <3>1. old \in Seq(Param) /\ IsInjective(old) /\ had \subseteq Param
        BY <1>0 DEF Known, Actual, Settings, Follows
      <3>2. Range(old) \subseteq Param
        BY <3>1, LenProperties DEF Range
      <3> QED BY <1>5, <2>1, <3>1, <3>2 DEF Param, Follows
    <2>4. IF g.add THEN x \notin had ELSE x \in had
      <3>1. net2 # net
        BY <1>5 DEF Effective
      <3>2. has # had
        <4> SUFFICES ASSUME has = had PROVE net2 = net
          BY <3>1
        <4> HIDE DEF has, had, x
        <4>1. net = [net EXCEPT !.modeparams = had]
          BY <1>0 DEF had, Actual, Settings
        <4> QED BY <2>2, <4>1
      <3> HIDE DEF x, had
      <3> QED BY <3>2 DEF Toggled
    <2>5. /\ now \in Seq(Param) /\ IsInjective(now) /\ has \subseteq Param
          /\ \A l \in Lists : Cardinality(Of(Range(now), l)) <= Cardinality(Of(has, l))
      <3>1. CASE g.add
        <4>1. now = WithParam(old, m, arg) /\ has = had \cup {x} /\ x \notin had
          BY <2>4, <3>1 DEF Toggled
        <4>2. now \in Seq(Param) /\ IsInjective(now) /\ Range(now) = Range(old) \cup {x}
          BY <1>5, <2>1, <2>3, <4>1, WithParamFacts
        <4> HIDE DEF x, old, had, now, has
        <4>3. ASSUME NEW l \in Lists
              PROVE  Cardinality(Of(Range(now), l)) <= Cardinality(Of(has, l))
          <5> DEFINE a == Cardinality(Of(Range(old), l))
          <5> DEFINE b == Cardinality(Of(had, l))
          <5> DEFINE one == IF x.mask = l THEN 1 ELSE 0
          <5>1. a \in Nat /\ b \in Nat /\ a <= b
            BY <2>3, FiniteParams
          <5>2. Cardinality(Of(has, l)) = b + one
            BY <2>3, <4>1, OfFacts
          <5>3. CASE x \in Range(old)
            <6>1. Range(now) = Range(old)
              BY <4>2, <5>3
            <6> HIDE DEF a, b
            <6> QED BY <5>1, <5>2, <6>1 DEF a
          <5>4. CASE x \notin Range(old)
            <6>1. Cardinality(Of(Range(now), l)) = a + one
              BY <2>3, <4>2, <5>4, OfFacts
            <6> HIDE DEF a, b
            <6> QED BY <5>1, <5>2, <6>1
          <5> QED BY <5>3, <5>4
        <4> QED BY <2>3, <4>1, <4>2, <4>3
      <3>2. CASE ~g.add
        <4>1. now = WithoutParam(old, m) /\ has = had \ {x} /\ x \in had /\ x.mask = m
          BY <2>4, <3>2 DEF Toggled
        <4>2. /\ now \in Seq(Param) /\ IsInjective(now)
              /\ \/ Of(Range(old), m) = {} /\ now = old
                 \/ \E y \in Range(old) : y.mask = m /\ Range(now) = Range(old) \ {y}
          BY <1>5, <2>3, <4>1, WithoutParamFacts
        <4> HIDE DEF x, old, had, now, has, m
        <4>3. ASSUME NEW l \in Lists
              PROVE  Cardinality(Of(Range(now), l)) <= Cardinality(Of(has, l))
          <5> DEFINE a == Cardinality(Of(Range(old), l))
          <5> DEFINE b == Cardinality(Of(had, l))
          <5> DEFINE one == IF m = l THEN 1 ELSE 0
          <5>1. a \in Nat /\ b \in Nat /\ a <= b
            BY <2>3, FiniteParams
          <5>2. Cardinality(Of(has, l)) = b - one
            BY <2>3, <4>1, OfFacts
          <5>3. Cardinality(Of(has, l)) \in Nat
            BY <2>3, <4>1, FiniteParams
          <5>4. CASE Of(Range(old), m) = {} /\ now = old
            <6>1. m = l => Cardinality(Of(Range(now), l)) = 0
              BY <5>4, FS_EmptySet
            <6>2. Cardinality(Of(Range(now), l)) = a
              BY <5>4
            <6> HIDE DEF a, b
            <6> QED BY <5>1, <5>2, <5>3, <6>1, <6>2
          <5>5. ASSUME NEW y \in Range(old), y.mask = m, Range(now) = Range(old) \ {y}
                PROVE  Cardinality(Of(Range(now), l)) <= Cardinality(Of(has, l))
            <6>1. Cardinality(Of(Range(now), l)) = a - one
              BY <2>3, <5>5, OfFacts
            <6> HIDE DEF a, b
            <6> QED BY <5>1, <5>2, <6>1
          <5> QED BY <4>2, <5>4, <5>5
        <4> QED BY <2>3, <4>1, <4>2, <4>3
      <3> QED BY <3>1, <3>2
    <2> HIDE DEF x, old, had, now, has, ch2, net2, m
    <2>6. /\ ch2 \in Known /\ net2 \in Actual
          /\ ch2.members = net2.members /\ ch2.modes = net2.modes
          /\ ch2.limit = net2.limit /\ ch2.key = net2.key
          /\ ch2.modeparams = now /\ net2.modeparams = has
      BY <1>0, <2>2, <2>5 DEF Known, Actual, Settings
    <2>7. Follows(ch2, net2)
      BY <2>5, <2>6 DEF Follows
    <2> QED BY <2>7 DEF ch2, net2, m
  <1> QED BY <1>1, <1>2, <1>3, <1>4, <1>5, ChangeFacts DEF Modes
-----------------------------------------------------------------------------
(* A line. *)

Text == Modes \cup {"+", "-"}
Params == Members \cup Masks \cup Keys \cup Limits

Prefix(a, b) == Len(a) <= Len(b) /\ \A k \in 1 .. Len(a) : a[k] = b[k]

LEMMA ConcatPrefix ==
  ASSUME NEW T, NEW a \in Seq(T), NEW b \in Seq(T)
  PROVE  Prefix(a, a \o b)
PROOF
  <1>1. Len(a) \in Nat /\ Len(b) \in Nat /\ Len(a \o b) = Len(a) + Len(b)
    BY ConcatProperties, LenProperties
  <1>2. \A k \in 1 .. Len(a) : (a \o b)[k] = a[k]
    BY <1>1, ConcatProperties
  <1> QED BY <1>1, <1>2 DEF Prefix

LEMMA LongerPrefix ==
  ASSUME NEW a, NEW b, NEW c, Prefix(a, b), Prefix(b, c),
         Len(a) \in Nat, Len(b) \in Nat, Len(c) \in Nat
  PROVE  Prefix(a, c)
PROOF
  BY DEF Prefix

LEMMA WordFacts ==
  ASSUME NEW gs \in Seq(Change), NEW n \in 1 .. Len(gs)
  PROVE  Characters(gs, n) \in Seq(Text) /\ Arguments(gs[n]) \in Seq(Params)
PROOF
  <1>0. gs[n] \in Change
    BY ElementOfSeq
  <1>1. gs[n].mode \in Text
    BY <1>0, ChangeFacts DEF Text
  <1>2. "+" \in Text /\ "-" \in Text
    BY DEF Text
  <1>3. Characters(gs, n) \in Seq(Text)
    BY <1>1, <1>2 DEF Characters
  <1>4. gs[n].arg # NULL => gs[n].arg \in Params
    <2>1. /\ gs[n].mode \in Status => gs[n].arg \in Members
          /\ gs[n].mode \in Lists => gs[n].arg \in Masks
          /\ gs[n].mode = "k" => gs[n].arg \in Keys
          /\ gs[n].mode = "l" /\ gs[n].add => gs[n].arg \in Limits
          /\ TakesParam(gs[n].mode, gs[n].add) <=> gs[n].arg # NULL
      BY <1>0, ChangeFacts
    <2> QED BY <2>1 DEF TakesParam, Params
  <1>5. Arguments(gs[n]) \in Seq(Params)
    BY <1>4 DEF Arguments
  <1> QED BY <1>3, <1>5

\* What b adds to a is in what b is a beginning of, behind a.
LEMMA AfterPrefix ==
  ASSUME NEW T, NEW a \in Seq(T), NEW b \in Seq(T), NEW s \in Seq(T), Prefix(a \o b, s)
  PROVE  /\ Len(a) + Len(b) = Len(a \o b) /\ Len(a) + Len(b) <= Len(s)
         /\ \A k \in 1 .. Len(b) : s[Len(a) + k] = b[k]
PROOF
  <1>1. /\ Len(a) \in Nat /\ Len(b) \in Nat /\ Len(a \o b) = Len(a) + Len(b)
        /\ \A i \in 1 .. Len(a) + Len(b) :
             (a \o b)[i] = IF i <= Len(a) THEN a[i] ELSE b[i - Len(a)]
    BY ConcatProperties, LenProperties
  <1>2. ASSUME NEW k \in 1 .. Len(b)
        PROVE  s[Len(a) + k] = b[k]
    <2>1. /\ Len(a) + k \in 1 .. Len(a) + Len(b)
          /\ ~(Len(a) + k <= Len(a)) /\ Len(a) + k - Len(a) = k
      BY <1>1
    <2>2. (a \o b)[Len(a) + k] = b[k]
      BY <1>1, <2>1
    <2>3. s[Len(a) + k] = (a \o b)[Len(a) + k]
      BY <1>1, <2>1 DEF Prefix
    <2> QED BY <2>2, <2>3
  <1> QED BY <1>1, <1>2 DEF Prefix

\* The line of n changes: where the nth is, and that it goes on from the line of
\* the changes before.
LEMMA LineFacts ==
  ASSUME NEW gs \in Seq(Change), NEW f, Writes(f, gs, Len(gs)), NEW n \in 0 .. Len(gs)
  PROVE  /\ f[n].modes \in Seq(Text) /\ f[n].args \in Seq(Params)
         /\ \A k \in 0 .. n :
              Prefix(f[k].modes, f[n].modes) /\ Prefix(f[k].args, f[n].args)
PROOF
  <1> DEFINE Good(i) ==
        /\ f[i].modes \in Seq(Text) /\ f[i].args \in Seq(Params)
        /\ \A k \in 0 .. i : Prefix(f[k].modes, f[i].modes) /\ Prefix(f[k].args, f[i].args)
  <1> DEFINE Bad == {i \in 0 .. Len(gs) : ~Good(i)}
  <1>0. Len(gs) \in Nat
    BY LenProperties
  <1> SUFFICES ASSUME Bad # {} PROVE FALSE
    BY <1>0
  <1>1. PICK i \in Bad : \A k \in Bad : i <= k
    <2>1. Bad \subseteq Nat
      BY <1>0
    <2> HIDE DEF Bad
    <2> QED BY <2>1, LeastNumber
  <1>2. i \in 0 .. Len(gs) /\ ~Good(i)
    OBVIOUS
  <1>3. i # 0
    <2>1. f[0] = Nothing
      BY <1>0 DEF Writes
    <2>2. Good(0)
      <3>1. f[0].modes = <<>> /\ f[0].args = <<>>
        BY <2>1 DEF Nothing
      <3> QED BY <3>1 DEF Prefix
    <2> HIDE DEF Good
    <2> QED BY <1>2, <2>2
  <1>4. i - 1 \in 0 .. Len(gs) /\ i \in 1 .. Len(gs) /\ i - 1 \in Nat
    BY <1>0, <1>2, <1>3
  <1>5. Good(i - 1)
    <2>1. i - 1 \notin Bad
      <3> HIDE DEF Bad, Good
      <3> QED BY <1>0, <1>1, <1>2, <1>4
    <2> HIDE DEF Good
    <2> QED BY <1>4, <2>1
  <1> DEFINE ms == f[i - 1].modes
  <1> DEFINE as == f[i - 1].args
  <1> DEFINE c == Characters(gs, i)
  <1> DEFINE p == Arguments(gs[i])
  <1>6. f[i].modes = ms \o c /\ f[i].args = as \o p
    <2>1. f[i] = Written(f[i - 1], gs, i)
      BY <1>4 DEF Writes
    <2>2. Written(f[i - 1], gs, i).modes = ms \o c /\ Written(f[i - 1], gs, i).args = as \o p
      BY Zenon DEF Written
    <2> QED BY <2>1, <2>2, Zenon
  <1>7. c \in Seq(Text) /\ p \in Seq(Params)
    BY <1>4, WordFacts
  <1>8. ms \in Seq(Text) /\ as \in Seq(Params)
    BY <1>5
  <1> HIDE DEF c, p
  <1>9. f[i].modes \in Seq(Text) /\ f[i].args \in Seq(Params)
        /\ Prefix(ms, f[i].modes) /\ Prefix(as, f[i].args)
    <2> HIDE DEF ms, as
    <2>1. ms \o c \in Seq(Text) /\ as \o p \in Seq(Params)
      BY <1>7, <1>8, ConcatProperties
    <2>2. Prefix(ms, ms \o c) /\ Prefix(as, as \o p)
      BY <1>7, <1>8, ConcatPrefix
    <2> QED BY <1>6, <2>1, <2>2
  <1>10. ASSUME NEW k \in 0 .. i
         PROVE  Prefix(f[k].modes, f[i].modes) /\ Prefix(f[k].args, f[i].args)
    <2>1. CASE k = i
      BY <1>9, <2>1, LenProperties DEF Prefix
    <2>2. CASE k # i
      <3>1. k \in 0 .. i - 1
        BY <1>4, <2>2
      <3>2. Prefix(f[k].modes, ms) /\ Prefix(f[k].args, as)
        BY <1>5, <3>1
      <3> DEFINE a == f[k].modes
      <3> DEFINE b == f[k].args
      <3>3. Len(a) \in Nat /\ Len(b) \in Nat
        <4>1. k \in 0 .. Len(gs) /\ k \notin Bad
          <5> HIDE DEF Bad, Good
          <5> QED BY <1>0, <1>1, <1>2, <1>4, <3>1
        <4>2. Good(k)
          <5> HIDE DEF Good
          <5> QED BY <4>1
        <4>3. a \in Seq(Text) /\ b \in Seq(Params)
          BY <4>2
        <4> HIDE DEF a, b
        <4> QED BY <4>3, LenProperties
      <3>4. Len(ms) \in Nat /\ Len(as) \in Nat /\ Len(f[i].modes) \in Nat /\ Len(f[i].args) \in Nat
        BY <1>8, <1>9, LenProperties
      <3> DEFINE ms2 == f[i].modes
      <3> DEFINE as2 == f[i].args
      <3>5. Prefix(a, ms2) /\ Prefix(b, as2)
        <4>1. /\ Prefix(a, ms) /\ Prefix(ms, ms2) /\ Prefix(b, as) /\ Prefix(as, as2)
              /\ Len(ms2) \in Nat /\ Len(as2) \in Nat
          BY <1>9, <3>2, <3>4
        <4> HIDE DEF a, b, ms, as, ms2, as2
        <4> QED BY <3>3, <3>4, <4>1, LongerPrefix DEF ms, as
      <3> HIDE DEF a, b, ms2, as2
      <3> QED BY <3>5 DEF a, b, ms2, as2
    <2> QED BY <2>1, <2>2
  <1>11. Good(i)
    BY <1>9, <1>10
  <1> HIDE DEF Good
  <1> QED BY <1>2, <1>11
State(c, add, rest) == [ch |-> c, add |-> add, args |-> rest]
SignOf(g) == IF g.add THEN "+" ELSE "-"
LeftBy(g, rest) == IF g.arg # NULL THEN Tail(rest) ELSE rest

\* The character of a change, read where the sign is that of the change and its
\* parameter is the next one.
LEMMA ReadMode ==
  ASSUME NEW g \in Change, NEW c, NEW net, Follows(c, net), NEW rest \in Seq(Params),
         g.mode \in Lists => Effective(net, g),
         g.arg # NULL => rest # <<>> /\ Head(rest) = g.arg
  PROVE  \E c2 : /\ Follows(c2, Changed(net, g))
                 /\ Read(State(c, g.add, rest), g.mode) = State(c2, g.add, LeftBy(g, rest))
PROOF
  <1> DEFINE arg == IF rest = <<>> THEN NULL ELSE Head(rest)
  <1> DEFINE c2 == Processed(c, g.mode, g.add, arg)
  <1>1. /\ g.mode \notin {"+", "-"}
        /\ TakesParam(g.mode, g.add) <=> g.arg # NULL
    BY ChangeFacts
  <1>2. g.arg # NULL => arg = g.arg
    OBVIOUS
  <1>3. Follows(c2, Changed(net, g))
    <2> HIDE DEF arg
    <2> QED BY <1>2, OneChange
  <1>4. Read(State(c, g.add, rest), g.mode) = State(c2, g.add, LeftBy(g, rest))
    BY <1>1 DEF Read, State, LeftBy
  <1> QED BY <1>3, <1>4

\* A sign sets the sign.
LEMMA ReadSign ==
  ASSUME NEW g \in Change, NEW c, NEW b, NEW rest
  PROVE  Read(State(c, b, rest), SignOf(g)) = State(c, g.add, rest)
PROOF
  <1>1. g.add \in BOOLEAN
    BY ChangeFacts
  <1> QED BY <1>1 DEF Read, State, SignOf

\* The parameters from the nth on.
From(args, n) == SubSeq(args, n, Len(args))

LEMMA FromFacts ==
  ASSUME NEW T, NEW args \in Seq(T), NEW n \in 1 .. Len(args) + 1
  PROVE  /\ From(args, n) \in Seq(T)
         /\ n <= Len(args) => /\ From(args, n) # <<>> /\ Head(From(args, n)) = args[n]
                              /\ Tail(From(args, n)) = From(args, n + 1)
PROOF
  <1>0. Len(args) \in Nat /\ n \in Nat
    BY LenProperties
  <1>1. /\ From(args, n) \in Seq(T)
        /\ Len(From(args, n)) = IF n <= Len(args) THEN Len(args) - n + 1 ELSE 0
    BY <1>0, SubSeqProperties, ElementOfSeq DEF From
  <1>2. ASSUME n <= Len(args)
        PROVE  /\ Head(From(args, n)) = args[n]
               /\ Tail(From(args, n)) = From(args, n + 1)
    <2>1. n \in 1 .. Len(args) /\ Len(args) \in n .. Len(args)
      BY <1>0, <1>2
    <2> QED BY <2>1, HeadTailOfSubSeq DEF From
  <1>3. n <= Len(args) => From(args, n) # <<>>
    BY <1>0, <1>1, EmptySeq
  <1> QED BY <1>1, <1>2, <1>3
\* The reader has done with n changes of the line: the channel, the sign and the
\* parameters that are left.
ReadUpTo(state, c, gs, n, args, from) ==
  state = State(c, IF n = 0 THEN TRUE ELSE gs[n].add, From(args, from))

\* From the end of one change in the line to the end of the next.
LEMMA NextChange ==
  ASSUME NEW gs \in Seq(Change), NEW n \in 1 .. Len(gs),
         NEW modes \in Seq(Text), NEW args \in Seq(Params), NEW p \in Nat, NEW q \in Nat,
         NEW r, \A k \in 1 .. Len(modes) : r[k] = Read(r[k - 1], modes[k]),
         NEW c, NEW net, Follows(c, net), gs[n].mode \in Lists => Effective(net, gs[n]),
         ReadUpTo(r[p], c, gs, n - 1, args, q + 1),
         p + Len(Characters(gs, n)) <= Len(modes),
         \A k \in 1 .. Len(Characters(gs, n)) : modes[p + k] = Characters(gs, n)[k],
         q + Len(Arguments(gs[n])) <= Len(args),
         \A k \in 1 .. Len(Arguments(gs[n])) : args[q + k] = Arguments(gs[n])[k]
  PROVE  \E c2 : /\ Follows(c2, Changed(net, gs[n]))
                 /\ ReadUpTo(r[p + Len(Characters(gs, n))], c2, gs, n, args,
                             q + Len(Arguments(gs[n])) + 1)
PROOF
  <1> DEFINE g == gs[n]
  <1> DEFINE rest == From(args, q + 1)
  <1> DEFINE state == State(c, g.add, rest)
  <1>0. /\ g \in Change /\ g.add \in BOOLEAN /\ Len(gs) \in Nat /\ n \in Nat
        /\ Len(modes) \in Nat /\ Len(args) \in Nat
    BY LenProperties, ElementOfSeq, ChangeFacts
  <1>1. PICK x : x = Characters(gs, n)
    OBVIOUS
  <1>2. PICK y : y = Arguments(g)
    OBVIOUS
  <1>3. \/ Len(x) = 1 /\ x[1] = g.mode /\ n > 1 /\ g.add = gs[n - 1].add
        \/ Len(x) = 2 /\ x[1] = SignOf(g) /\ x[2] = g.mode
    BY <1>1 DEF Characters, SignOf
  <1>4. \/ Len(y) = 0 /\ g.arg = NULL
        \/ Len(y) = 1 /\ g.arg # NULL /\ y[1] = g.arg
    BY <1>2 DEF Arguments
  <1>5. /\ p + Len(x) <= Len(modes) /\ \A k \in 1 .. Len(x) : modes[p + k] = x[k]
        /\ q + Len(y) <= Len(args) /\ \A k \in 1 .. Len(y) : args[q + k] = y[k]
    BY <1>1, <1>2
  \* The sign.
  <1>6. p + Len(x) \in 1 .. Len(modes) /\ r[p + Len(x) - 1] = state /\ modes[p + Len(x)] = g.mode
    <2> DEFINE before == IF n - 1 = 0 THEN TRUE ELSE gs[n - 1].add
    <2>1. r[p] = State(c, before, rest)
      BY DEF ReadUpTo
    <2>2. CASE Len(x) = 1 /\ x[1] = g.mode /\ n > 1 /\ g.add = gs[n - 1].add
      <3>1. p + 1 \in 1 .. Len(modes) /\ p + 1 - 1 = p
        <4>1. p \in Nat /\ p + 1 <= Len(modes) /\ Len(modes) \in Nat
          BY <1>0, <1>5, <2>2
        <4> HIDE DEF before, g, rest, state
        <4> QED BY <4>1, SMTT(60)
      <3>2. modes[p + 1] = g.mode
        BY <1>5, <2>2
      <3>3. before = g.add
        <4>1. n - 1 # 0
          BY <1>0, <2>2
        <4> QED BY <2>2, <4>1, Zenon
      <3>4. r[p] = state
        <4> HIDE DEF before, g, rest
        <4> QED BY <2>1, <3>3
      <3> QED BY <2>2, <3>1, <3>2, <3>4
    <2>3. CASE Len(x) = 2 /\ x[1] = SignOf(g) /\ x[2] = g.mode
      <3>1. p + 1 \in 1 .. Len(modes) /\ p + 2 \in 1 .. Len(modes) /\ p + 1 - 1 = p /\ p + 2 - 1 = p + 1
        <4>1. p + 2 <= Len(modes) /\ Len(modes) \in Nat
          BY <1>0, <1>5, <2>3
        <4> HIDE DEF before, g, rest, state
        <4> QED BY <4>1, SMTT(60)
      <3>2. modes[p + 1] = SignOf(g) /\ modes[p + 2] = g.mode
        <4>1. 1 \in 1 .. Len(x) /\ 2 \in 1 .. Len(x)
          BY <2>3
        <4>2. modes[p + 1] = x[1] /\ modes[p + 2] = x[2]
          BY <1>5, <4>1, Zenon
        <4> QED BY <2>3, <4>2, Zenon
      <3>3. r[p + 1] = Read(r[p], SignOf(g))
        <4>1. r[p + 1] = Read(r[p + 1 - 1], modes[p + 1])
          BY <3>1
        <4> QED BY <3>1, <3>2, <4>1, Zenon
      <3>4. r[p + 1] = state
        <4>1. Read(State(c, before, rest), SignOf(g)) = state
          <5> HIDE DEF rest, before, g
          <5> QED BY <1>0, ReadSign, ZenonT(60)
        <4> QED BY <2>1, <3>3, <4>1, Zenon
      <3> QED BY <2>3, <3>1, <3>2, <3>4
    <2> QED BY <1>3, <2>2, <2>3
  \* The character of the mode, with its parameter.
  <1>7. rest \in Seq(Params) /\ (g.arg # NULL => rest # <<>> /\ Head(rest) = g.arg)
    <2>1. q + 1 \in 1 .. Len(args) + 1
      BY <1>0, <1>4, <1>5
    <2>2. g.arg # NULL => q + 1 <= Len(args) /\ args[q + 1] = g.arg
      BY <1>0, <1>4, <1>5
    <2> QED BY <2>1, <2>2, FromFacts
  <1>8. LeftBy(g, rest) = From(args, q + Len(y) + 1)
    <2>1. CASE Len(y) = 0 /\ g.arg = NULL
      <3>1. q + Len(y) + 1 = q + 1
        BY <2>1
      <3> QED BY <2>1, <3>1 DEF LeftBy
    <2>2. CASE Len(y) = 1 /\ g.arg # NULL
      <3>1. q + 1 \in 1 .. Len(args) + 1 /\ q + 1 <= Len(args) /\ q + Len(y) + 1 = (q + 1) + 1
        BY <1>0, <1>5, <2>2
      <3>2. Tail(rest) = From(args, (q + 1) + 1)
        BY <3>1, FromFacts
      <3> QED BY <2>2, <3>1, <3>2 DEF LeftBy
    <2> QED BY <1>4, <2>1, <2>2
  <1>9. PICK c2 : /\ Follows(c2, Changed(net, g))
                  /\ Read(state, g.mode) = State(c2, g.add, LeftBy(g, rest))
    <2>1. g.mode \in Lists => Effective(net, g)
      OBVIOUS
    <2> HIDE DEF g, rest
    <2> QED BY <1>0, <1>7, <2>1, ReadMode, ZenonT(60)
  <1>10. r[p + Len(x)] = Read(state, g.mode)
    <2> HIDE DEF state, g
    <2> QED BY <1>6
  <1>11. ReadUpTo(r[p + Len(x)], c2, gs, n, args, q + Len(y) + 1)
    <2>1. n # 0
      BY <1>0
    <2>2. r[p + Len(x)] = State(c2, g.add, From(args, q + Len(y) + 1))
      <3> HIDE DEF g, rest, state
      <3> QED BY <1>8, <1>9, <1>10
    <2> QED BY <2>1, <2>2 DEF ReadUpTo
  <1> QED BY <1>1, <1>2, <1>9, <1>11
\* A line that the network has obeyed, read from beginning to end.
LEMMA HandlerFollows ==
  ASSUME NEW gs \in Seq(Change), NEW ch, NEW net, Follows(ch, net),
         \A i \in 1 .. Len(gs) : gs[i].mode \in Lists => Effective(Stages(net, gs)[i - 1], gs[i])
  PROVE  Follows(ChanModeHandler(ch, Line(gs).modes, Line(gs).args), Stages(net, gs)[Len(gs)])
PROOF
  <1>0. Len(gs) \in Nat
    BY LenProperties
  <1>1. PICK f : Writes(f, gs, Len(gs)) /\ Line(gs) = f[Len(gs)]
    BY LineWritten
  <1>2. PICK nets : Applied(nets, net, gs, Len(gs)) /\ Stages(net, gs) = nets
    BY StagesApplied
  <1>3. PICK modes : modes = f[Len(gs)].modes
    OBVIOUS
  <1>4. PICK args : args = f[Len(gs)].args
    OBVIOUS
  <1>5. /\ modes \in Seq(Text) /\ args \in Seq(Params)
        /\ \A k \in 0 .. Len(gs) : /\ f[k].modes \in Seq(Text) /\ f[k].args \in Seq(Params)
                                   /\ Prefix(f[k].modes, modes) /\ Prefix(f[k].args, args)
    <2>1. Len(gs) \in 0 .. Len(gs)
      BY <1>0
    <2> QED BY <1>1, <1>3, <1>4, <2>1, LineFacts
  <1>6. PICK r : /\ Reads(r, ch, modes, args, Len(modes))
                 /\ ChanModeHandler(ch, modes, args) = r[Len(modes)].ch
    BY <1>5, HandlerReads
  <1> DEFINE Good(i) == \E c : /\ Follows(c, nets[i])
                               /\ ReadUpTo(r[Len(f[i].modes)], c, gs, i, args, Len(f[i].args) + 1)
  <1> DEFINE Bad == {i \in 0 .. Len(gs) : ~Good(i)}
  <1>7. Good(Len(gs))
    <2> SUFFICES ASSUME Bad # {} PROVE FALSE
      BY <1>0
    <2>1. PICK i \in Bad : \A k \in Bad : i <= k
      <3>1. Bad \subseteq Nat
        BY <1>0
      <3> HIDE DEF Bad
      <3> QED BY <3>1, LeastNumber
    <2>2. i \in 0 .. Len(gs) /\ ~Good(i)
      OBVIOUS
    <2>3. i # 0
      <3>1. f[0] = Nothing /\ nets[0] = net /\ r[0] = Reader(ch, args)
        BY <1>0, <1>1, <1>2, <1>5, <1>6, LenProperties DEF Writes, Applied, Reads
      <3>2. Len(f[0].modes) = 0 /\ Len(f[0].args) = 0
        BY <3>1 DEF Nothing
      <3>3. From(args, 1) = args
        BY <1>5, SubSeqFull DEF From
      <3>4. ReadUpTo(r[Len(f[0].modes)], ch, gs, 0, args, Len(f[0].args) + 1)
        <4>1. Len(f[0].args) + 1 = 1
          BY <3>2
        <4>2. r[0] = State(ch, TRUE, args)
          BY <3>1, Zenon DEF Reader, State
        <4>3. ReadUpTo(r[0], ch, gs, 0, args, 1)
          BY <3>3, <4>2, Zenon DEF ReadUpTo
        <4> QED BY <3>2, <4>1, <4>3, Zenon
      <3>5. Good(0)
        BY <3>1, <3>4
      <3> HIDE DEF Good
      <3> QED BY <2>2, <3>5
    <2>4. i - 1 \in 0 .. Len(gs) /\ i \in 1 .. Len(gs)
      BY <1>0, <2>2, <2>3
    <2>5. Good(i - 1)
      <3>1. i - 1 \notin Bad
        <4> HIDE DEF Bad, Good
        <4> QED BY <1>0, <2>1, <2>2, <2>4
      <3> HIDE DEF Good
      <3> QED BY <2>4, <3>1
    <2>6. PICK c : /\ Follows(c, nets[i - 1])
                   /\ ReadUpTo(r[Len(f[i - 1].modes)], c, gs, i - 1, args, Len(f[i - 1].args) + 1)
      BY <2>5
    <2>7. PICK p : p = Len(f[i - 1].modes)
      OBVIOUS
    <2>8. PICK q : q = Len(f[i - 1].args)
      OBVIOUS
    <2>9. p \in Nat /\ q \in Nat
      BY <1>5, <2>4, <2>7, <2>8, LenProperties
    <2>10. /\ p + Len(Characters(gs, i)) = Len(f[i].modes)
           /\ q + Len(Arguments(gs[i])) = Len(f[i].args)
           /\ p + Len(Characters(gs, i)) <= Len(modes)
           /\ \A k \in 1 .. Len(Characters(gs, i)) : modes[p + k] = Characters(gs, i)[k]
           /\ q + Len(Arguments(gs[i])) <= Len(args)
           /\ \A k \in 1 .. Len(Arguments(gs[i])) : args[q + k] = Arguments(gs[i])[k]
      <3>1. /\ f[i].modes = f[i - 1].modes \o Characters(gs, i)
            /\ f[i].args = f[i - 1].args \o Arguments(gs[i])
        <4>1. f[i] = Written(f[i - 1], gs, i)
          BY <1>1, <2>4 DEF Writes
        <4>2. /\ Written(f[i - 1], gs, i).modes = f[i - 1].modes \o Characters(gs, i)
              /\ Written(f[i - 1], gs, i).args = f[i - 1].args \o Arguments(gs[i])
          BY Zenon DEF Written
        <4> QED BY <4>1, <4>2, Zenon
      <3>2. Characters(gs, i) \in Seq(Text) /\ Arguments(gs[i]) \in Seq(Params)
        BY <2>4, WordFacts
      <3>3. Prefix(f[i].modes, modes) /\ Prefix(f[i].args, args)
        BY <1>5, <2>4
      <3>4. /\ f[i - 1].modes \in Seq(Text) /\ f[i - 1].args \in Seq(Params)
        BY <1>5, <2>4
      <3>5. PICK x : x = Characters(gs, i)
        OBVIOUS
      <3>6. PICK y : y = Arguments(gs[i])
        OBVIOUS
      <3>7. PICK a : a = f[i - 1].modes
        OBVIOUS
      <3>8. PICK b : b = f[i - 1].args
        OBVIOUS
      <3>9. /\ a \in Seq(Text) /\ x \in Seq(Text) /\ modes \in Seq(Text)
            /\ b \in Seq(Params) /\ y \in Seq(Params) /\ args \in Seq(Params)
        BY <1>5, <3>2, <3>4, <3>5, <3>6, <3>7, <3>8, Zenon
      <3>10. Prefix(a \o x, modes) /\ Prefix(b \o y, args)
        BY <3>1, <3>3, <3>5, <3>6, <3>7, <3>8, Zenon
      <3>11. /\ Len(a) + Len(x) = Len(a \o x) /\ Len(a) + Len(x) <= Len(modes)
             /\ \A k \in 1 .. Len(x) : modes[Len(a) + k] = x[k]
        BY <3>9, <3>10, AfterPrefix, Zenon
      <3>12. /\ Len(b) + Len(y) = Len(b \o y) /\ Len(b) + Len(y) <= Len(args)
             /\ \A k \in 1 .. Len(y) : args[Len(b) + k] = y[k]
        BY <3>9, <3>10, AfterPrefix, Zenon
      <3>13. f[i].modes = a \o x /\ f[i].args = b \o y
        BY <3>1, <3>5, <3>6, <3>7, <3>8, Zenon
      <3>14. p = Len(a) /\ q = Len(b)
        BY <2>7, <2>8, <3>7, <3>8, Zenon
      <3> QED BY <3>5, <3>6, <3>11, <3>12, <3>13, <3>14, Zenon
    <2>11. nets[i] = Changed(nets[i - 1], gs[i])
      BY <1>2, <2>4 DEF Applied
    <2>12. \A k \in 1 .. Len(modes) : r[k] = Read(r[k - 1], modes[k])
      BY <1>6 DEF Reads
    <2>13. gs[i].mode \in Lists => Effective(nets[i - 1], gs[i])
      BY <1>2, <2>4
    <2>14. ReadUpTo(r[p], c, gs, i - 1, args, q + 1)
      BY <2>6, <2>7, <2>8
    <2>15. \E c2 : /\ Follows(c2, Changed(nets[i - 1], gs[i]))
                   /\ ReadUpTo(r[p + Len(Characters(gs, i))], c2, gs, i, args,
                               q + Len(Arguments(gs[i])) + 1)
      BY <1>5, <2>4, <2>6, <2>9, <2>10, <2>12, <2>13, <2>14, NextChange
    <2>16. Good(i)
      BY <2>10, <2>11, <2>15
    <2> HIDE DEF Good
    <2> QED BY <2>2, <2>16
  <1>8. PICK c : /\ Follows(c, nets[Len(gs)])
                 /\ ReadUpTo(r[Len(modes)], c, gs, Len(gs), args, Len(args) + 1)
    BY <1>3, <1>4, <1>7
  <1>9. r[Len(modes)].ch = c
    BY <1>8 DEF ReadUpTo, State
  <1> QED BY <1>1, <1>2, <1>3, <1>4, <1>6, <1>8, <1>9
-----------------------------------------------------------------------------
(* The channel. *)

ModesInv ==
  /\ channel = NULL <=> network = NULL
  /\ channel # NULL => Follows(channel, network)

\* Members of a channel of either kind, replaced by others.
LEMMA OtherMembers ==
  ASSUME NEW ch, NEW net, Follows(ch, net), NEW xs \in SUBSET Members, NEW ms \in [xs -> SUBSET Status]
  PROVE  Follows([ch EXCEPT !.members = ms], [net EXCEPT !.members = ms])
PROOF
  <1> DEFINE all == UNION {[ys -> SUBSET Status] : ys \in SUBSET Members}
  <1> DEFINE ch2 == [ch EXCEPT !.members = ms]
  <1> DEFINE net2 == [net EXCEPT !.members = ms]
  <1>1. ms \in all
    OBVIOUS
  <1>2. ch \in Known /\ net \in Actual
    BY DEF Follows
  <1>3. /\ ch2 \in Known /\ ch2.members = ms /\ ch2.modes = ch.modes /\ ch2.limit = ch.limit
        /\ ch2.key = ch.key /\ ch2.modeparams = ch.modeparams
    <2> HIDE DEF all
    <2> QED BY <1>1, <1>2 DEF Known, Settings, all
  <1>4. /\ net2 \in Actual /\ net2.members = ms /\ net2.modes = net.modes /\ net2.limit = net.limit
        /\ net2.key = net.key /\ net2.modeparams = net.modeparams
    <2> HIDE DEF all
    <2> QED BY <1>1, <1>2 DEF Actual, Settings, all
  <1> HIDE DEF ch2, net2
  <1> QED BY <1>3, <1>4 DEF Follows, ch2, net2

\* The members of a channel.
LEMMA MembersOf ==
  ASSUME NEW ch, NEW net, Follows(ch, net)
  PROVE  /\ DOMAIN ch.members \subseteq Members
         /\ ch.members \in [DOMAIN ch.members -> SUBSET Status]
         /\ ch.members = net.members
PROOF
  <1>1. ch \in Known /\ ch.members = net.members
    BY DEF Follows
  <1>2. ch.members \in UNION {[xs -> SUBSET Status] : xs \in SUBSET Members}
    BY <1>1 DEF Known, Settings
  <1>3. PICK xs \in SUBSET Members : ch.members \in [xs -> SUBSET Status]
    BY <1>2
  <1> QED BY <1>1, <1>3

\* A new channel, whose list modes NeoStats does not know.
LEMMA NewChannel ==
  ASSUME NEW xs \in SUBSET Members, NEW ms \in [xs -> SUBSET Status], NEW bans \in SUBSET Param
  PROVE  Follows([new_chan EXCEPT !.members = ms],
                 [[new_chan EXCEPT !.members = ms] EXCEPT !.modeparams = bans])
PROOF
  <1> DEFINE all == UNION {[ys -> SUBSET Status] : ys \in SUBSET Members}
  <1> DEFINE ch == [new_chan EXCEPT !.members = ms]
  <1> DEFINE net == [ch EXCEPT !.modeparams = bans]
  <1>1. ms \in all
    OBVIOUS
  <1>2. /\ new_chan \in Known /\ new_chan.modeparams = <<>>
    <2>1. [x \in {} |-> {}] \in all
      OBVIOUS
    <2>2. <<>> \in Seq(Param)
      OBVIOUS
    <2>3. PICK e : e = [x \in {} |-> {}]
      OBVIOUS
    <2>4. new_chan = [modes |-> {}, modeparams |-> <<>>, limit |-> 0, key |-> NULL, members |-> e]
      BY <2>3 DEF new_chan
    <2>5. e \in all
      BY <2>1, <2>3
    <2> HIDE DEF all
    <2> QED BY <2>2, <2>4, <2>5 DEF Known, Settings, all
  <1>3. /\ ch \in Known /\ ch.members = ms /\ ch.modeparams = <<>>
    <2> HIDE DEF all
    <2> QED BY <1>1, <1>2 DEF Known, Settings, all
  <1>4. /\ net \in Actual /\ net.members = ch.members /\ net.modes = ch.modes
        /\ net.limit = ch.limit /\ net.key = ch.key /\ net.modeparams = bans
    <2> HIDE DEF ch, all
    <2> QED BY <1>3 DEF Known, Actual, Settings
  <1> DEFINE none == ch.modeparams
  <1>6. none = <<>> /\ Range(none) = {} /\ IsInjective(none)
    <2>1. none = <<>>
      BY <1>3
    <2> HIDE DEF none
    <2> QED BY <2>1 DEF Range, IsInjective
  <1>7. ASSUME NEW m \in Lists
        PROVE  Cardinality(Of(Range(none), m)) <= Cardinality(Of(net.modeparams, m))
    <2>1. Of(Range(none), m) = {}
      BY <1>6 DEF Of
    <2>2. net.modeparams = bans
      BY <1>4
    <2>3. Cardinality(Of(bans, m)) \in Nat
      BY FiniteParams
    <2>4. Cardinality({}) = 0
      BY FS_EmptySet
    <2> HIDE DEF none, net
    <2> QED BY <2>1, <2>2, <2>3, <2>4
  <1> HIDE DEF ch, net
  <1> QED BY <1>3, <1>4, <1>6, <1>7 DEF Follows, ch, net
\* One more member.
LEMMA OneMore ==
  ASSUME NEW x \in Members, NEW status \in SUBSET Status, NEW ch, NEW net,
         ch = NULL <=> net = NULL, ch # NULL => Follows(ch, net)
  PROVE  Follows(Join(ch, x, status),
                 IF net = NULL THEN [Join(NULL, x, status) EXCEPT !.modeparams = {}]
                 ELSE Join(net, x, status))
PROOF
  <1> DEFINE with(old) == [y \in DOMAIN old \cup {x} |-> IF y = x THEN status ELSE old[y]]
  <1>1. CASE net = NULL
    <2>1. ch = NULL
      BY <1>1
    <2> DEFINE ms == with(new_chan.members)
    <2>2. ms \in [{x} -> SUBSET Status]
      <3>1. new_chan.members = [y \in {} |-> {}]
        BY DEF new_chan
      <3>2. DOMAIN new_chan.members = {}
        BY <3>1
      <3> QED BY <3>2
    <2>3. Join(NULL, x, status) = [new_chan EXCEPT !.members = ms]
      BY DEF Join
    <2>4. Follows([new_chan EXCEPT !.members = ms],
                  [[new_chan EXCEPT !.members = ms] EXCEPT !.modeparams = {}])
      <3>1. {x} \in SUBSET Members /\ {} \in SUBSET Param
        OBVIOUS
      <3> HIDE DEF ms
      <3> QED BY <2>2, <3>1, NewChannel
    <2> HIDE DEF ms
    <2> QED BY <1>1, <2>1, <2>3, <2>4
  <1>2. CASE net # NULL
    <2>1. ch # NULL /\ Follows(ch, net)
      BY <1>2
    <2>2. /\ DOMAIN ch.members \subseteq Members /\ ch.members \in [DOMAIN ch.members -> SUBSET Status]
          /\ ch.members = net.members
      BY <2>1, MembersOf
    <2> DEFINE ms == with(ch.members)
    <2>3. ms \in [DOMAIN ch.members \cup {x} -> SUBSET Status]
      BY <2>2
    <2>4. Join(ch, x, status) = [ch EXCEPT !.members = ms]
      BY <2>1 DEF Join
    <2>5. Join(net, x, status) = [net EXCEPT !.members = with(net.members)]
      BY <1>2 DEF Join
    <2>6. with(net.members) = ms
      BY <2>2
    <2>7. Follows([ch EXCEPT !.members = ms], [net EXCEPT !.members = ms])
      <3>1. DOMAIN ch.members \cup {x} \in SUBSET Members
        BY <2>2
      <3> HIDE DEF ms
      <3> QED BY <2>1, <2>3, <3>1, OtherMembers
    <2>8. Follows(Join(ch, x, status), Join(net, x, status))
      <3> HIDE DEF ms, with
      <3> QED BY <2>4, <2>5, <2>6, <2>7
    <2> QED BY <1>2, <2>8
  <1> QED BY <1>1, <1>2

\* One member less, or none left.
LEMMA OneLess ==
  ASSUME NEW x, NEW ch, NEW net, Follows(ch, net)
  PROVE  /\ Left(ch, x) = NULL <=> Left(net, x) = NULL
         /\ Left(ch, x) # NULL => Follows(Left(ch, x), Left(net, x))
PROOF
  <1>1. /\ DOMAIN ch.members \subseteq Members /\ ch.members \in [DOMAIN ch.members -> SUBSET Status]
        /\ ch.members = net.members
    BY MembersOf
  <1> DEFINE ms == [y \in DOMAIN ch.members \ {x} |-> ch.members[y]]
  <1>2. CASE DOMAIN ch.members = {x}
    <2>1. Left(ch, x) = NULL /\ Left(net, x) = NULL
      BY <1>1, <1>2 DEF Left
    <2> QED BY <2>1
  <1>3. CASE DOMAIN ch.members # {x}
    <2>1. ms \in [DOMAIN ch.members \ {x} -> SUBSET Status] /\ DOMAIN ch.members \ {x} \in SUBSET Members
      BY <1>1
    <2>2. Left(ch, x) = [ch EXCEPT !.members = ms] /\ Left(net, x) = [net EXCEPT !.members = ms]
      BY <1>1, <1>3 DEF Left
    <2>3. Follows([ch EXCEPT !.members = ms], [net EXCEPT !.members = ms])
      <3> HIDE DEF ms
      <3> QED BY <2>1, OtherMembers
    <2>4. Follows(Left(ch, x), Left(net, x))
      <3> HIDE DEF ms
      <3> QED BY <2>2, <2>3
    <2>5. Left(ch, x) # NULL /\ Left(net, x) # NULL
      BY <2>4, ModesAssumption DEF Follows
    <2> QED BY <2>4, <2>5
  <1> QED BY <1>2, <1>3

\* The changes of a line are a sequence of changes.
LEMMA LinesAreSequences ==
  ASSUME NEW n \in Nat, NEW gs \in [1 .. n -> Change]
  PROVE  gs \in Seq(Change) /\ Len(gs) = n
PROOF
  OBVIOUS

\* What follows is there.
LEMMA FollowsExists ==
  ASSUME NEW ch, NEW net, Follows(ch, net)
  PROVE  ch # NULL /\ net # NULL
PROOF
  BY ModesAssumption DEF Follows

-----------------------------------------------------------------------------
(* The messages. *)

LEMMA SjoinFollows == ModesInv /\ do_sjoin => ModesInv'
PROOF
  <1> SUFFICES ASSUME ModesInv, do_sjoin PROVE ModesInv'
    OBVIOUS
  <1>1. PICK xs \in (SUBSET Users) \ {{}}, gs \in UNION {[1 .. n -> Change] : n \in 0 .. MaxChanges},
             status \in [Users -> SUBSET Status], bans \in SUBSET Param :
          /\ channel = NULL /\ network = NULL
          /\ \A x \in Users \ xs : status[x] = {}
          /\ \A i \in DOMAIN gs : gs[i].add /\ gs[i].mode \notin Status \cup Lists
          /\ \A i, j \in DOMAIN gs : i < j => gs[i].mode # gs[j].mode
          /\ LET joined == [new_chan EXCEPT !.members = [x \in xs |-> status[x]]]
             IN  /\ channel' = ChanModeHandler(joined, Line(gs).modes, Line(gs).args)
                 /\ network' = Stages([joined EXCEPT !.modeparams = bans], gs)[Len(gs)]
          /\ ParamsFit(network')
    BY Zenon DEF do_sjoin
  <1>2. PICK n \in Nat : gs \in [1 .. n -> Change]
    BY ModesAssumption
  <1>3. gs \in Seq(Change) /\ Len(gs) = n
    BY <1>2, LinesAreSequences
  <1> DEFINE ms == [x \in xs |-> status[x]]
  <1> DEFINE joined == [new_chan EXCEPT !.members = ms]
  <1> DEFINE net == [joined EXCEPT !.modeparams = bans]
  <1>4. Follows(joined, net)
    <2>1. xs \in SUBSET Members /\ ms \in [xs -> SUBSET Status]
      BY DEF Members
    <2> HIDE DEF ms
    <2> QED BY <2>1, NewChannel
  <1>5. \A i \in 1 .. Len(gs) : gs[i].mode \notin Lists
    BY <1>1, <1>2, <1>3
  <1>6. /\ channel' = ChanModeHandler(joined, Line(gs).modes, Line(gs).args)
        /\ network' = Stages(net, gs)[Len(gs)]
    BY <1>1
  <1>7. Follows(channel', network')
    <2> HIDE DEF joined, net
    <2> QED BY <1>3, <1>4, <1>5, <1>6, HandlerFollows
  <1>8. channel' # NULL /\ network' # NULL
    BY <1>7, FollowsExists
  <1> QED BY <1>7, <1>8 DEF ModesInv, Follows

LEMMA JoinFollows == ModesInv /\ (JoinChannel \/ irc_join) => ModesInv'
PROOF
  <1> SUFFICES ASSUME ModesInv, JoinChannel \/ irc_join PROVE ModesInv'
    OBVIOUS
  <1>1. PICK x \in Members, status \in SUBSET Status :
          /\ channel' = Join(channel, x, status)
          /\ network' = IF network = NULL
                        THEN [Join(NULL, x, status) EXCEPT !.modeparams = {}]
                        ELSE Join(network, x, status)
    BY DEF JoinChannel, irc_join, Members
  <1>2. Follows(channel', network')
    BY <1>1, OneMore DEF ModesInv
  <1>3. channel' # NULL /\ network' # NULL
    BY <1>2, FollowsExists
  <1> QED BY <1>2, <1>3 DEF ModesInv, Follows

LEMMA PartFollows == ModesInv /\ PartChannel => ModesInv'
PROOF
  <1> SUFFICES ASSUME ModesInv, PartChannel PROVE ModesInv'
    OBVIOUS
  <1>1. PICK x \in Members :
          network # NULL /\ channel' = Left(channel, x) /\ network' = Left(network, x)
    BY DEF PartChannel
  <1>2. Follows(channel, network)
    BY <1>1 DEF ModesInv
  <1>3. /\ Left(channel, x) = NULL <=> Left(network, x) = NULL
        /\ Left(channel, x) # NULL => Follows(Left(channel, x), Left(network, x))
    BY <1>2, OneLess
  <1>4. /\ channel' = NULL <=> network' = NULL
        /\ channel' # NULL => Follows(channel', network')
    BY <1>1, <1>3
  <1> QED BY <1>4 DEF ModesInv, Follows

LEMMA ModeLineFollows == ModesInv /\ ChanMode => ModesInv'
PROOF
  <1> SUFFICES ASSUME ModesInv, ChanMode PROVE ModesInv'
    OBVIOUS
  <1>1. PICK gs \in UNION {[1 .. n -> Change] : n \in 1 .. MaxChanges} :
          /\ network # NULL
          /\ \A i \in DOMAIN gs : Effective(Stages(network, gs)[i - 1], gs[i])
          /\ network' = Stages(network, gs)[Len(gs)]
          /\ channel' = ChanModeHandler(channel, Line(gs).modes, Line(gs).args)
    BY DEF ChanMode
  <1>2. PICK n \in Nat : gs \in [1 .. n -> Change]
    BY ModesAssumption
  <1>3. gs \in Seq(Change) /\ Len(gs) = n /\ DOMAIN gs = 1 .. Len(gs)
    BY <1>2, LinesAreSequences
  <1>4. Follows(channel, network)
    BY <1>1 DEF ModesInv
  <1>5. Follows(channel', network')
    BY <1>1, <1>3, <1>4, HandlerFollows
  <1>6. channel' # NULL /\ network' # NULL
    BY <1>5, FollowsExists
  <1> QED BY <1>5, <1>6 DEF ModesInv, Follows

-----------------------------------------------------------------------------
(* What it says of test_cmode. *)

LEMMA InvFollows == ModesInv => ModesFollow
PROOF
  <1> SUFFICES ASSUME ModesInv PROVE ModesFollow
    OBVIOUS
  <1>1. channel = NULL <=> network = NULL
    BY DEF ModesInv
  <1>2. ModesTypeOK
    BY DEF ModesInv, ModesTypeOK, Follows
  <1>3. ASSUME channel # NULL
        PROVE  /\ SettingsFollow /\ NoGhostParams
               /\ \A m \in Flags : test_cmode(channel, m) = (m \in network.modes)
               /\ \A m \in Lists : test_cmode(channel, m) => \E p \in network.modeparams : p.mask = m
    <2>1. Follows(channel, network)
      BY <1>3 DEF ModesInv
    <2>2. /\ channel \in Known /\ network \in Actual
          /\ channel.members = network.members /\ channel.modes = network.modes
          /\ channel.limit = network.limit /\ channel.key = network.key
          /\ IsInjective(channel.modeparams)
      BY <2>1 DEF Follows
    <2>3. channel.modeparams \in Seq(Param) /\ channel.modes \subseteq Flags /\ network.modeparams \subseteq Param
      BY <2>2 DEF Known, Actual, Settings
    <2> DEFINE ps == channel.modeparams
    <2>4. \A i \in DOMAIN ps : ps[i] \in Param /\ ps[i].mask \in Lists /\ ps[i] \in Range(ps)
      <3>1. \A i \in DOMAIN ps : ps[i] \in Param /\ ps[i] \in Range(ps)
        BY <2>3 DEF Range
      <3> QED BY <3>1 DEF Param
    <2>5. \A m \in Lists :
            Cardinality(Of(Range(ps), m)) <= Cardinality(Of(network.modeparams, m))
      BY <2>1 DEF Follows
    <2>6. SettingsFollow
      BY <2>2 DEF SettingsFollow
    <2>7. NoGhostParams
      BY <2>2, <2>5 DEF NoGhostParams, Of
    <2>8. ASSUME NEW m \in Flags
          PROVE  test_cmode(channel, m) = (m \in network.modes)
      <3>1. m \notin Lists
        BY ModesAssumption
      <3>2. test_cmode(channel, m) <=> m \in network.modes
        BY <2>2, <2>4, <3>1 DEF test_cmode
      <3>3. test_cmode(channel, m) \in BOOLEAN /\ (m \in network.modes) \in BOOLEAN
        BY DEF test_cmode
      <3> QED BY <3>2, <3>3
    <2>9. ASSUME NEW m \in Lists, test_cmode(channel, m)
          PROVE  \E p \in network.modeparams : p.mask = m
      <3>1. m \notin channel.modes
        BY <2>3, ModesAssumption
      <3>2. PICK i \in DOMAIN ps : ps[i].mask = m
        BY <2>9, <3>1 DEF test_cmode
      <3>3. ps[i] \in Of(Range(ps), m)
        BY <2>4, <3>2 DEF Of
      <3>4. Range(ps) \subseteq Param
        BY <2>4 DEF Range
      <3>5. /\ IsFiniteSet(Of(Range(ps), m)) /\ Cardinality(Of(Range(ps), m)) \in Nat
            /\ IsFiniteSet(Of(network.modeparams, m)) /\ Cardinality(Of(network.modeparams, m)) \in Nat
        BY <2>3, <3>4, FiniteParams, FS_CardinalityType
      <3>6. Cardinality(Of(Range(ps), m)) # 0
        BY <3>3, <3>5, FS_EmptySet
      <3>7. Cardinality(Of(network.modeparams, m)) # 0
        BY <2>5, <3>5, <3>6
      <3>8. Of(network.modeparams, m) # {}
        BY <3>7, FS_EmptySet
      <3> QED BY <3>8 DEF Of
    <2> QED BY <2>6, <2>7, <2>8, <2>9
  <1> QED BY <1>1, <1>2, <1>3 DEF ModesFollow

(***************************************************************************)
(* For any modes, members, lines of any length and any number of them: the   *)
(* channel of NeoStats has the members, flags, limit and key of the network's, *)
(* and no mode is set in it that the network has cleared (ModesFollow).  Every *)
(* mode of the line is read with the parameter that was written for it       *)
(* (HandlerFollows), because the reader and the writer agree on which modes   *)
(* take one.                                                               *)
(***************************************************************************)
THEOREM CopyFollowsNetwork == ModesSpec => []ModesFollow
PROOF
  <1>1. ModesInit => ModesInv
    BY DEF ModesInit, ModesInv
  <1>2. ModesInv /\ [ModesNext]_modevars => ModesInv'
    <2> SUFFICES ASSUME ModesInv, [ModesNext]_modevars PROVE ModesInv'
      OBVIOUS
    <2>1. CASE do_sjoin
      BY <2>1, SjoinFollows
    <2>2. CASE JoinChannel \/ irc_join
      BY <2>2, JoinFollows
    <2>3. CASE PartChannel
      BY <2>3, PartFollows
    <2>4. CASE ChanMode
      BY <2>4, ModeLineFollows
    <2>5. CASE UNCHANGED modevars
      BY <2>5 DEF modevars, ModesInv, Follows
    <2> QED BY <2>1, <2>2, <2>3, <2>4, <2>5 DEF ModesNext
  <1> QED BY <1>1, <1>2, InvFollows, PTL DEF ModesSpec
================================================================================
