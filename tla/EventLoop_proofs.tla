--------------------------- MODULE EventLoop_proofs ---------------------------
(***************************************************************************)
(* Proofs about what the event loop calls, for every value of the           *)
(* constants: RunLevel, Timers and LineMode.                                *)
(***************************************************************************)
EXTENDS RunLevel, Timers, LineMode, LinkedLists_proofs

-----------------------------------------------------------------------------
(***************************************************************************)
(* Proofs about module RunLevel, for every value of its constants.          *)
(*                                                                         *)
(* Until a crash was handled or the array overrun, RunLevel is the number   *)
(* of calls in progress.  What makes this inductive is the shape of the     *)
(* stack: the level of a frame counts those below it, so that entries of    *)
(* RunModule under it are never written while it is there.  The rest holds  *)
(* after a crash as well: RunLevel is then at most that number, and, while  *)
(* the signal handler is in progress, that of the calls made since.         *)
(*                                                                         *)
(* Every step first changes the innermost frame, or what scans have ahead   *)
(* of them, in a way the invariant does not see (Alike), and then pushes a   *)
(* frame or removes some.                                                  *)
(***************************************************************************)

(* The inductive invariant, as predicates of a stack s, a buffer b, a call h *)
(* of the signal handler and a level r.                                      *)

One(kind) == IF kind \in Counting THEN 1 ELSE 0

Stack(s) ==
  /\ s \in Seq(Frame)
  /\ \A i \in 1 .. Len(s) :
       s[i].level = (IF i = 1 THEN 0 ELSE s[i - 1].level) + One(s[i].kind)
  /\ \A i, j \in 1 .. Len(s) : i <= j => s[i].level <= s[j].level
  /\ \A i \in 1 .. Len(s) : s[i].kind = "command" => i = 1

BufferOK(s, b) == b \in 0 .. Len(s) /\ (b # 0 => s[b].kind \in Guarded)

\* Under the handler is the frame of the code that crashed.
HandlerOK(s, h, r) ==
  /\ h \in 0 .. Len(s)
  /\ h # 0 => h > 1 /\ s[h].kind \in Unloading /\ r + s[h - 1].level <= s[Len(s)].level

Tracks(s, r, rm) ==
  /\ r = Levels(s)
  /\ \A i \in 1 .. Len(s) : s[i].kind \in Counting => rm[s[i].level] = s[i].mod

\* From the buffer on the frames are of one module, or of the core.
OneModule(s, b) == b # 0 => \E m \in Mods : \A i \in b .. Len(s) : s[i].mod \in {m, Core}

Sound(s, b, h, r) == Stack(s) /\ BufferOK(s, b) /\ HandlerOK(s, h, r) /\ r <= Levels(s)

\* All of it, with RunModule rm, after a crash (run) or an overrun (ov) or not.
Good(s, b, h, r, rm, run, ov) ==
  /\ Sound(s, b, h, r)
  /\ ~run /\ ~ov => Tracks(s, r, rm)
  /\ ~ov => OneModule(s, b)
  /\ r \in 0 .. MaxLevel
  /\ rm \in [0 .. MaxLevel -> Owners]

IInv ==
  /\ Good(frames, sigvbuf, handler, RunLevel, RunModule, running, overrun)
  /\ handler # 0 => running
  /\ modulehash \subseteq Mods
  /\ running \in BOOLEAN /\ overrun \in BOOLEAN /\ ended \in BOOLEAN

-----------------------------------------------------------------------------
(* Changes of a stack. *)

\* The kinds of frame unload_module goes through before it counts.
Silent == {"fini", "quit", "tell"}

\* t is s but for what scans have ahead, and for how far an unload has come.
Alike(s, t) ==
  /\ t \in Seq(Frame) /\ Len(t) = Len(s)
  /\ \A i \in 1 .. Len(s) :
       /\ t[i].mod = s[i].mod /\ t[i].level = s[i].level
       /\ t[i].kind = s[i].kind \/ (t[i].kind \in Silent /\ s[i].kind \in Silent)

Above(s, f, t) ==
  /\ t \in Seq(Frame) /\ Len(t) = Len(s) + 1
  /\ t[Len(t)] = f /\ \A i \in 1 .. Len(s) : t[i] = s[i]

Below(s, n, t) ==
  /\ t \in Seq(Frame) /\ Len(t) = n
  /\ \A i \in 1 .. n : t[i] = s[i]

LEMMA OneType ==
  ASSUME NEW kind
  PROVE  /\ One(kind) \in {0, 1}
         /\ kind \in Counting => One(kind) = 1
         /\ kind \notin Counting => One(kind) = 0
  BY DEF One

\* Frames are records with natural levels.
LEMMA FrameFields ==
  ASSUME NEW f \in Frame
  PROVE  /\ f.level \in Nat /\ f.mod \in Owners
         /\ f.kind \in Handlers \cup Unloading \cup {"scan"}
  BY DEF Frame

\* The level of a stack is that of its innermost frame.
LEMMA LevelsType ==
  ASSUME NEW s \in Seq(Frame)
  PROVE  /\ Len(s) \in Nat /\ DOMAIN s = 1 .. Len(s)
         /\ \A i \in 1 .. Len(s) : s[i] \in Frame /\ s[i].level \in Nat
         /\ Levels(s) \in Nat
         /\ Levels(s) = IF Len(s) = 0 THEN 0 ELSE s[Len(s)].level
<1>1. Len(s) \in Nat /\ DOMAIN s = 1 .. Len(s) /\ (s = <<>> <=> Len(s) = 0)
  BY LenProperties, EmptySeq
<1>2. \A i \in 1 .. Len(s) : s[i] \in Frame
  BY ElementOfSeq
<1>3. \A i \in 1 .. Len(s) : s[i].level \in Nat
  BY <1>2, FrameFields
<1> QED
  BY <1>1, <1>2, <1>3 DEF Levels

\* What is alike is sound alike.
LEMMA AlikeSound ==
  ASSUME NEW s, NEW t, NEW b, NEW h, NEW r \in Nat, Sound(s, b, h, r), Alike(s, t)
  PROVE  Sound(t, b, h, r) /\ Levels(t) = Levels(s)
<1>1. s \in Seq(Frame) /\ t \in Seq(Frame) /\ Len(t) = Len(s)
  BY DEF Sound, Stack, Alike
<1>2. Levels(t) = Levels(s)
  BY <1>1, LevelsType DEF Alike
<1>3. \A i \in 1 .. Len(s) : /\ t[i].kind \in Counting <=> s[i].kind \in Counting
                             /\ t[i].kind \in Guarded <=> s[i].kind \in Guarded
                             /\ t[i].kind \in Unloading <=> s[i].kind \in Unloading
                             /\ t[i].kind = "command" <=> s[i].kind = "command"
  BY DEF Alike, Silent, Counting, Guarded, Handlers, Unloading
<1>4. Stack(t)
  <2>1. \A i \in 1 .. Len(t) :
          t[i].level = (IF i = 1 THEN 0 ELSE t[i - 1].level) + One(t[i].kind)
    BY <1>1, <1>3, LevelsType DEF Alike, Sound, Stack, One
  <2>2. \A i, j \in 1 .. Len(t) : i <= j => t[i].level <= t[j].level
    BY <1>1 DEF Alike, Sound, Stack
  <2> QED
    BY <1>1, <1>3, <2>1, <2>2 DEF Sound, Stack
<1>5. BufferOK(t, b)
  BY <1>1, <1>3, LevelsType DEF Sound, BufferOK
<1>6. HandlerOK(t, h, r)
  BY <1>1, <1>3, LevelsType DEF Alike, Sound, HandlerOK
<1> QED
  BY <1>2, <1>4, <1>5, <1>6 DEF Sound

LEMMA AlikeTracks ==
  ASSUME NEW s \in Seq(Frame), NEW t, NEW r, NEW rm, Tracks(s, r, rm), Alike(s, t)
  PROVE  Tracks(t, r, rm)
<1>1. t \in Seq(Frame) /\ Len(t) = Len(s) /\ Levels(t) = Levels(s)
  BY LevelsType DEF Alike
<1>2. \A i \in 1 .. Len(s) : t[i].kind \in Counting <=> s[i].kind \in Counting
  BY DEF Alike, Silent, Counting, Guarded, Handlers
<1> QED
  BY <1>1, <1>2 DEF Tracks, Alike

LEMMA AlikeOneModule ==
  ASSUME NEW s \in Seq(Frame), NEW t, NEW b \in Nat, OneModule(s, b), Alike(s, t)
  PROVE  OneModule(t, b)
<1>1. Len(t) = Len(s) /\ Len(s) \in Nat
  BY LevelsType DEF Alike
<1>2. CASE b # 0
  <2>1. PICK m \in Mods : \A i \in b .. Len(s) : s[i].mod \in {m, Core}
    BY <1>2 DEF OneModule
  <2>2. \A i \in b .. Len(t) : t[i].mod \in {m, Core}
    BY <1>1, <1>2, <2>1 DEF Alike
  <2> QED
    BY <2>2 DEF OneModule
<1> QED
  BY <1>2 DEF OneModule

LEMMA AlikeGood ==
  ASSUME NEW s, NEW t, NEW b, NEW h, NEW r, NEW rm, NEW run, NEW ov,
         MaxLevel \in Nat, Good(s, b, h, r, rm, run, ov), Alike(s, t)
  PROVE  Good(t, b, h, r, rm, run, ov) /\ Levels(t) = Levels(s)
<1>1. s \in Seq(Frame) /\ r \in Nat /\ b \in Nat
  BY LenProperties DEF Good, Sound, Stack, BufferOK
<1>2. Sound(t, b, h, r) /\ Levels(t) = Levels(s)
  BY <1>1, AlikeSound DEF Good
<1> QED
  BY <1>1, <1>2, AlikeTracks, AlikeOneModule DEF Good

-----------------------------------------------------------------------------
(* Pushing a frame. *)

\* A frame on top: the level is that of the stack, and one more if it counts.
Tops(s, f) == f \in Frame /\ f.level = Levels(s) + One(f.kind)

\* Nothing above the buffer becomes code of another module.
Kin(s, b, m) ==
  \/ b = 0
  \/ m = Core
  \/ s # <<>> /\ m = s[Len(s)].mod
  \/ Len(s) = 1 /\ s[1].mod = Core

LEMMA AppendAbove ==
  ASSUME NEW s \in Seq(Frame), NEW f \in Frame
  PROVE  Above(s, f, Append(s, f)) /\ Len(s) \in Nat /\ (s = <<>> <=> Len(s) = 0)
  BY AppendProperties, LenProperties, EmptySeq DEF Above

\* The levels go on as they should, and a call of the handler stays below.
LEMMA AboveSound ==
  ASSUME NEW s, NEW b, NEW h, NEW r \in Nat, NEW f, NEW t, NEW b2, NEW r2 \in Nat,
         Sound(s, b, h, r), Tops(s, f), Above(s, f, t),
         f.kind = "command" => Len(s) = 0,
         b2 = b \/ (b2 = Len(t) /\ f.kind \in Guarded),
         r2 <= r + One(f.kind)
  PROVE  Sound(t, b2, h, r2) /\ Levels(t) = f.level
<1>1. /\ s \in Seq(Frame) /\ t \in Seq(Frame) /\ f \in Frame
      /\ Len(s) \in Nat /\ Len(t) = Len(s) + 1
      /\ Levels(s) \in Nat /\ Levels(s) = IF Len(s) = 0 THEN 0 ELSE s[Len(s)].level
  BY LevelsType DEF Sound, Stack, Tops, Above
<1>2. /\ \A i \in 1 .. Len(s) : t[i] = s[i] /\ s[i].level \in Nat
      /\ t[Len(t)] = f /\ f.level \in Nat /\ f.level >= Levels(s)
  BY <1>1, LevelsType, FrameFields, OneType DEF Above, Tops
<1>3. Levels(t) = f.level
  BY <1>1, <1>2, LevelsType
<1>4. Stack(t)
  <2>1. \A i \in 1 .. Len(t) :
          t[i].level = (IF i = 1 THEN 0 ELSE t[i - 1].level) + One(t[i].kind)
    <3> SUFFICES ASSUME NEW i \in 1 .. Len(t)
                 PROVE  t[i].level = (IF i = 1 THEN 0 ELSE t[i - 1].level) + One(t[i].kind)
      OBVIOUS
    <3>1. CASE i = Len(t)
      <4>1. (IF i = 1 THEN 0 ELSE t[i - 1].level) = Levels(s)
        BY <1>1, <1>2, <3>1
      <4> QED
        BY <1>2, <3>1, <4>1 DEF Tops
    <3>2. CASE i # Len(t)
      <4>1. i \in 1 .. Len(s) /\ t[i] = s[i] /\ (i # 1 => t[i - 1] = s[i - 1])
        BY <1>1, <1>2, <3>2
      <4>2. s[i].level = (IF i = 1 THEN 0 ELSE s[i - 1].level) + One(s[i].kind)
        BY <4>1 DEF Sound, Stack
      <4> QED
        BY <4>1, <4>2
    <3> QED
      BY <3>1, <3>2
  <2>2. \A i \in 1 .. Len(s) : s[i].level <= Levels(s)
    BY <1>1 DEF Sound, Stack
  <2>3. \A i, j \in 1 .. Len(t) : i <= j => t[i].level <= t[j].level
    <3> SUFFICES ASSUME NEW i \in 1 .. Len(t), NEW j \in 1 .. Len(t), i <= j
                 PROVE  t[i].level <= t[j].level
      OBVIOUS
    <3>1. CASE j = Len(t)
      BY <1>1, <1>2, <2>2, <3>1
    <3>2. CASE j # Len(t)
      <4>1. i \in 1 .. Len(s) /\ j \in 1 .. Len(s) /\ t[i] = s[i] /\ t[j] = s[j]
        BY <1>1, <1>2, <3>2
      <4> QED
        BY <4>1 DEF Sound, Stack
    <3> QED
      BY <3>1, <3>2
  <2>4. \A i \in 1 .. Len(t) : t[i].kind = "command" => i = 1
    BY <1>1, <1>2 DEF Sound, Stack
  <2> QED
    BY <1>1, <2>1, <2>3, <2>4 DEF Stack
<1>5. BufferOK(t, b2)
  BY <1>1, <1>2 DEF Sound, BufferOK
<1>6. HandlerOK(t, h, r2)
  <2>1. CASE h = 0
    BY <1>1, <2>1 DEF HandlerOK
  <2>2. CASE h # 0
    <3>1. /\ h \in 2 .. Len(s) /\ s[h].kind \in Unloading
          /\ r + s[h - 1].level <= s[Len(s)].level
      BY <1>1, <2>2 DEF Sound, HandlerOK
    <3>2. t[h] = s[h] /\ t[h - 1] = s[h - 1] /\ s[h - 1].level \in Nat
          /\ f.level = s[Len(s)].level + One(f.kind) /\ s[Len(s)].level \in Nat
      BY <1>1, <1>2, <3>1 DEF Tops
    <3>3. r2 + t[h - 1].level <= t[Len(t)].level
      <4> DEFINE x == s[h - 1].level
                 y == s[Len(s)].level
                 one == One(f.kind)
      <4>1. x \in Nat /\ y \in Nat /\ one \in {0, 1} /\ r + x <= y /\ r2 <= r + one
        BY <3>1, <3>2, OneType
      <4>2. t[h - 1].level = x /\ t[Len(t)].level = y + one
        BY <1>2, <3>2
      <4> HIDE DEF x, y, one
      <4> QED
        BY <4>1, <4>2
    <3> QED
      BY <1>1, <3>1, <3>2, <3>3 DEF HandlerOK
  <2> QED
    BY <2>1, <2>2
<1>7. r2 <= Levels(t)
  BY <1>1, <1>2, <1>3, OneType DEF Sound, Tops
<1> QED
  BY <1>3, <1>4, <1>5, <1>6, <1>7 DEF Sound

\* A call writes the entry above all those in use.
LEMMA CallTracks ==
  ASSUME NEW s, NEW f, NEW t, NEW r, NEW rm,
         MaxLevel \in Nat, r \in 0 .. MaxLevel, rm \in [0 .. MaxLevel -> Owners],
         Stack(s), Tracks(s, r, rm), Tops(s, f), f.kind \in Counting, Above(s, f, t),
         r < MaxLevel
  PROVE  Tracks(t, r + 1, [rm EXCEPT ![r + 1] = f.mod])
<1>1. /\ s \in Seq(Frame) /\ t \in Seq(Frame) /\ Len(s) \in Nat /\ Len(t) = Len(s) + 1
      /\ t[Len(t)] = f /\ \A i \in 1 .. Len(s) : t[i] = s[i] /\ s[i].level \in Nat
      /\ Levels(s) \in Nat /\ Levels(s) = IF Len(s) = 0 THEN 0 ELSE s[Len(s)].level
  BY LevelsType DEF Stack, Above
<1>2. f.level = r + 1 /\ Levels(t) = r + 1
  BY <1>1, LevelsType, OneType DEF Tops, Tracks
<1>3. \A i \in 1 .. Len(s) : s[i].level \in 0 .. r
  BY <1>1 DEF Stack, Tracks
<1>4. r + 1 \in 0 .. MaxLevel /\ \A l \in 0 .. r : l \in 0 .. MaxLevel /\ l # r + 1
  OBVIOUS
<1>5. SUFFICES ASSUME NEW i \in 1 .. Len(t), t[i].kind \in Counting
               PROVE  [rm EXCEPT ![r + 1] = f.mod][t[i].level] = t[i].mod
  BY <1>2 DEF Tracks
<1>6. CASE i = Len(t)
  BY <1>1, <1>2, <1>4, <1>6
<1>7. CASE i # Len(t)
  <2>1. i \in 1 .. Len(s)
    BY <1>1, <1>7
  <2>2. rm[s[i].level] = s[i].mod /\ t[i] = s[i]
    BY <1>1, <1>5, <2>1 DEF Tracks
  <2> QED
    BY <1>3, <1>4, <2>1, <2>2
<1> QED
  BY <1>6, <1>7

\* A frame that does not count leaves RunModule as it is.
LEMMA QuietTracks ==
  ASSUME NEW s, NEW f, NEW t, NEW r, NEW rm,
         Stack(s), Tracks(s, r, rm), Tops(s, f), f.kind \notin Counting, Above(s, f, t)
  PROVE  Tracks(t, r, rm)
<1>1. /\ s \in Seq(Frame) /\ t \in Seq(Frame) /\ Len(s) \in Nat /\ Len(t) = Len(s) + 1
      /\ t[Len(t)] = f /\ \A i \in 1 .. Len(s) : t[i] = s[i]
      /\ Levels(s) \in Nat
  BY LevelsType DEF Stack, Above
<1>2. Levels(t) = r
  BY <1>1, LevelsType, OneType DEF Tops, Tracks
<1>3. ASSUME NEW i \in 1 .. Len(t), t[i].kind \in Counting
      PROVE  rm[t[i].level] = t[i].mod
  <2>1. i \in 1 .. Len(s)
    BY <1>1, <1>3
  <2> QED
    BY <1>1, <1>3, <2>1 DEF Tracks
<1> QED
  BY <1>2, <1>3 DEF Tracks

\* A new buffer is that of the frame on top, an old one has its kin above it.
LEMMA AboveOneModule ==
  ASSUME NEW s \in Seq(Frame), NEW b, NEW f \in Frame, NEW t, NEW b2,
         Mods # {}, BufferOK(s, b), OneModule(s, b), Above(s, f, t),
         b2 = Len(t) \/ (b2 = b /\ Kin(s, b, f.mod))
  PROVE  OneModule(t, b2)
<1>1. /\ Len(s) \in Nat /\ Len(t) = Len(s) + 1 /\ f.mod \in Owners
      /\ t[Len(t)] = f /\ \A i \in 1 .. Len(s) : t[i] = s[i]
      /\ b \in 0 .. Len(s) /\ (s = <<>> <=> Len(s) = 0)
  BY LenProperties, EmptySeq, FrameFields DEF Above, BufferOK
<1>2. CASE b2 = Len(t)
  <2>1. PICK m \in Mods : f.mod \in {m, Core}
    BY <1>1 DEF Owners
  <2> QED
    BY <1>1, <1>2, <2>1 DEF OneModule
<1>3. CASE b2 = b /\ b # 0 /\ Len(s) = 1 /\ s[1].mod = Core
  <2>1. PICK m \in Mods : f.mod \in {m, Core}
    BY <1>1 DEF Owners
  <2>2. \A i \in b .. Len(t) : t[i].mod \in {m, Core}
    BY <1>1, <1>3, <2>1
  <2> QED
    BY <1>3, <2>2 DEF OneModule
<1>4. CASE b2 = b /\ b # 0 /\ (f.mod = Core \/ (s # <<>> /\ f.mod = s[Len(s)].mod))
  <2>1. PICK m \in Mods : \A i \in b .. Len(s) : s[i].mod \in {m, Core}
    BY <1>4 DEF OneModule
  <2>2. f.mod \in {m, Core}
    BY <1>1, <1>4, <2>1
  <2>3. ASSUME NEW i \in b .. Len(t) PROVE t[i].mod \in {m, Core}
    <3>1. i = Len(t) \/ (i \in b .. Len(s) /\ i \in 1 .. Len(s))
      BY <1>1, <1>4
    <3> QED
      BY <1>1, <2>1, <2>2, <3>1
  <2> QED
    BY <1>4, <2>3 DEF OneModule
<1>5. CASE b2 = 0
  BY <1>5 DEF OneModule
<1> QED
  BY <1>2, <1>3, <1>4, <1>5 DEF Kin

\* A call of a handler.
LEMMA CallGood ==
  ASSUME NEW s, NEW b, NEW h, NEW r, NEW rm, NEW run, NEW ov, NEW f, NEW t, NEW b2,
         NEW r2, NEW rm2, NEW ov2,
         MaxLevel \in Nat, Mods # {}, Good(s, b, h, r, rm, run, ov),
         Tops(s, f), f.kind \in Counting, Above(s, f, t),
         f.kind = "command" => Len(s) = 0,
         IF f.kind \in Guarded THEN b2 = Len(t) ELSE b2 = b /\ Kin(s, b, f.mod),
         r2 = Up(r), ~ov2 => ~ov /\ r2 # MaxLevel,
         rm2 = IF r < MaxLevel THEN [rm EXCEPT ![r + 1] = f.mod] ELSE rm
  PROVE  Good(t, b2, h, r2, rm2, run, ov2)
<1>1. s \in Seq(Frame) /\ f \in Frame /\ Stack(s) /\ BufferOK(s, b) /\ r \in 0 .. MaxLevel
  BY DEF Good, Sound, Stack, Tops
<1>2. One(f.kind) = 1 /\ r \in Nat /\ r2 \in 0 .. MaxLevel /\ r2 <= r + 1
  BY <1>1, OneType DEF Up
<1>3. Sound(t, b2, h, r2)
  BY <1>1, <1>2, AboveSound DEF Good
<1>4. ~run /\ ~ov2 => Tracks(t, r2, rm2)
  <2>1. ASSUME ~ov2 PROVE r < MaxLevel /\ r2 = r + 1 /\ ~ov
    BY <1>1, <2>1 DEF Up
  <2> QED
    BY <1>1, <2>1, CallTracks DEF Good
<1>5. ~ov2 => OneModule(t, b2)
  BY <1>1, AboveOneModule DEF Good
<1>6. rm2 \in [0 .. MaxLevel -> Owners]
  BY <1>1, FrameFields DEF Good
<1> QED
  BY <1>2, <1>3, <1>4, <1>5, <1>6 DEF Good

\* A call that does not count.
LEMMA QuietGood ==
  ASSUME NEW s, NEW b, NEW h, NEW r, NEW rm, NEW run, NEW ov, NEW f, NEW t,
         MaxLevel \in Nat, Mods # {}, Good(s, b, h, r, rm, run, ov),
         Tops(s, f), f.kind \notin Counting, Above(s, f, t), ~ov => Kin(s, b, f.mod)
  PROVE  Good(t, b, h, r, rm, run, ov)
<1>1. s \in Seq(Frame) /\ f \in Frame /\ Stack(s) /\ BufferOK(s, b) /\ r \in 0 .. MaxLevel
  BY DEF Good, Sound, Stack, Tops
<1>2. One(f.kind) = 0 /\ r \in Nat /\ f.kind # "command"
  BY <1>1, OneType DEF Counting, Handlers, Guarded
<1>3. Sound(t, b, h, r)
  BY <1>1, <1>2, AboveSound DEF Good
<1>4. ~run /\ ~ov => Tracks(t, r, rm)
  BY <1>1, QuietTracks DEF Good
<1>5. ~ov => OneModule(t, b)
  BY <1>1, AboveOneModule DEF Good
<1> QED
  BY <1>3, <1>4, <1>5 DEF Good

-----------------------------------------------------------------------------
(* The innermost frame begins to count, and frames are removed. *)

Over(s, f, t) ==
  /\ t \in Seq(Frame) /\ Len(t) = Len(s)
  /\ t[Len(t)] = f /\ \A i \in 1 .. Len(s) - 1 : t[i] = s[i]

LEMMA OverGood ==
  ASSUME NEW s, NEW b, NEW h, NEW r, NEW rm, NEW run, NEW ov, NEW f, NEW t,
         NEW r2, NEW rm2, NEW ov2,
         MaxLevel \in Nat, Good(s, b, h, r, rm, run, ov), s # <<>>, f \in Frame, Over(s, f, t),
         s[Len(s)].kind = "tell", f.kind = "free", f.mod = s[Len(s)].mod,
         f.level = s[Len(s)].level + 1,
         r2 = Up(r), ~ov2 => ~ov /\ r2 # MaxLevel,
         rm2 = IF r < MaxLevel THEN [rm EXCEPT ![r + 1] = f.mod] ELSE rm
  PROVE  Good(t, b, h, r2, rm2, run, ov2)
<1>1. /\ s \in Seq(Frame) /\ t \in Seq(Frame) /\ Len(s) \in Nat \ {0} /\ Len(t) = Len(s)
      /\ Stack(s) /\ r \in 0 .. MaxLevel /\ r <= Levels(s)
      /\ Levels(s) = s[Len(s)].level /\ Levels(t) = f.level /\ f.level \in Nat
      /\ \A i \in 1 .. Len(s) : s[i].level \in Nat
  BY LevelsType, EmptySeq DEF Good, Sound, Stack, Over
<1>2. /\ \A i \in 1 .. Len(s) - 1 : t[i] = s[i]
      /\ t[Len(s)] = f
      /\ \A i \in 1 .. Len(s) : t[i].mod = s[i].mod
  BY <1>1 DEF Over
<1>3. r2 \in 0 .. MaxLevel /\ r2 <= r + 1
  BY <1>1 DEF Up
<1>4. Stack(t)
  <2>1. \A i \in 1 .. Len(t) :
          t[i].level = (IF i = 1 THEN 0 ELSE t[i - 1].level) + One(t[i].kind)
    <3> SUFFICES ASSUME NEW i \in 1 .. Len(t)
                 PROVE  t[i].level = (IF i = 1 THEN 0 ELSE t[i - 1].level) + One(t[i].kind)
      OBVIOUS
    <3>1. /\ i # 1 => t[i - 1] = s[i - 1] /\ s[i - 1].level \in Nat
          /\ s[i].level = (IF i = 1 THEN 0 ELSE s[i - 1].level) + One(s[i].kind)
      BY <1>1, <1>2 DEF Stack
    <3>2. CASE i = Len(t)
      <4> DEFINE below == IF i = 1 THEN 0 ELSE s[i - 1].level
      <4>1. One(t[i].kind) = 1 /\ One(s[i].kind) = 0
        BY <1>1, <1>2, <3>2, OneType DEF Counting, Handlers, Guarded
      <4>2. below \in Nat /\ below = IF i = 1 THEN 0 ELSE t[i - 1].level
        BY <1>1, <3>1
      <4>3. s[i].level = below + 0
        BY <3>1, <4>1
      <4>4. t[i].level = s[i].level + 1
        BY <1>1, <1>2, <3>2
      <4> HIDE DEF below
      <4> QED
        BY <4>1, <4>2, <4>3, <4>4
    <3>3. CASE i # Len(t)
      BY <1>1, <1>2, <3>1, <3>3
    <3> QED
      BY <3>2, <3>3
  <2>2. \A i, j \in 1 .. Len(t) : i <= j => t[i].level <= t[j].level
    <3> SUFFICES ASSUME NEW i \in 1 .. Len(t), NEW j \in 1 .. Len(t), i <= j
                 PROVE  t[i].level <= t[j].level
      OBVIOUS
    <3>1. s[i].level <= s[j].level /\ s[i].level \in Nat /\ s[j].level \in Nat
      BY <1>1 DEF Stack
    <3>2. i # Len(t) => t[i] = s[i]
      BY <1>1, <1>2
    <3>3. j # Len(t) => t[j] = s[j] /\ i # Len(t)
      BY <1>1, <1>2
    <3>4. CASE j # Len(t)
      BY <3>1, <3>2, <3>3, <3>4
    <3>5. CASE j = Len(t)
      BY <1>1, <1>2, <3>1, <3>2, <3>5
    <3> QED
      BY <3>4, <3>5
  <2>3. ASSUME NEW i \in 1 .. Len(t), t[i].kind = "command" PROVE i = 1
    <3>1. i # Len(s) /\ i \in 1 .. Len(s) /\ t[i] = s[i]
      BY <1>1, <1>2, <2>3
    <3> QED
      BY <1>1, <2>3, <3>1 DEF Stack
  <2> QED
    BY <1>1, <2>1, <2>2, <2>3 DEF Stack
<1>5. BufferOK(t, b)
  <2>1. b \in 0 .. Len(s) /\ (b # 0 => s[b].kind \in Guarded)
    BY DEF Good, Sound, BufferOK
  <2>2. b # 0 => b \in 1 .. Len(s) /\ b # Len(s)
    BY <1>1, <2>1 DEF Guarded
  <2> QED
    BY <1>1, <1>2, <2>1, <2>2 DEF BufferOK
<1>6. HandlerOK(t, h, r2)
  <2>1. CASE h # 0
    <3>1. h \in 2 .. Len(s) /\ s[h].kind \in Unloading /\ r + s[h - 1].level <= s[Len(s)].level
      BY <1>1, <2>1 DEF Good, Sound, HandlerOK
    <3>2. t[h - 1] = s[h - 1] /\ s[h - 1].level \in Nat
      BY <1>1, <1>2, <3>1
    <3>3. t[h].kind \in Unloading
      <4>1. CASE h = Len(s)
        BY <1>2, <4>1 DEF Unloading
      <4>2. CASE h # Len(s)
        <5>1. h \in 1 .. Len(s) - 1
          BY <1>1, <3>1, <4>2
        <5>2. t[h] = s[h]
          BY <1>2, <5>1
        <5> QED
          BY <3>1, <5>2
      <4> QED
        BY <4>1, <4>2
    <3>4. r2 + t[h - 1].level <= t[Len(t)].level
      <4> DEFINE x == s[h - 1].level
                 y == s[Len(s)].level
      <4>1. x \in Nat /\ y \in Nat /\ r + x <= y /\ r2 <= r + 1 /\ r \in Nat /\ r2 \in Nat
        BY <1>1, <1>3, <3>1, <3>2
      <4>2. t[h - 1].level = x /\ t[Len(t)].level = y + 1
        BY <1>1, <1>2, <3>2
      <4> HIDE DEF x, y
      <4> QED
        BY <4>1, <4>2
    <3> QED
      BY <1>1, <3>1, <3>3, <3>4 DEF HandlerOK
  <2>2. CASE h = 0
    BY <1>1, <2>2 DEF HandlerOK
  <2> QED
    BY <2>1, <2>2
<1>7. ~run /\ ~ov2 => Tracks(t, r2, rm2)
  <2>1. SUFFICES ASSUME ~run, ~ov2 PROVE Tracks(t, r2, rm2)
    OBVIOUS
  <2>2. r < MaxLevel /\ r2 = r + 1 /\ r2 \in 0 .. MaxLevel /\ Tracks(s, r, rm)
        /\ rm \in [0 .. MaxLevel -> Owners] /\ rm2 = [rm EXCEPT ![r + 1] = f.mod]
    BY <1>1, <2>1 DEF Up, Good
  <2>3. Levels(t) = r2 /\ s[Len(s)].level = r
    BY <1>1, <2>2 DEF Tracks
  <2>4. ASSUME NEW i \in 1 .. Len(t), t[i].kind \in Counting
        PROVE  rm2[t[i].level] = t[i].mod
    <3>1. CASE i = Len(t)
      BY <1>1, <1>2, <2>2, <2>3, <3>1
    <3>2. CASE i # Len(t)
      <4>1. i \in 1 .. Len(s) /\ t[i] = s[i]
        BY <1>1, <1>2, <3>2
      <4>2. s[i].level \in Nat /\ s[i].level <= r
        BY <1>1, <2>3, <4>1 DEF Stack
      <4>3. rm[s[i].level] = s[i].mod
        BY <2>2, <2>4, <4>1 DEF Tracks
      <4>4. s[i].level \in 0 .. MaxLevel /\ s[i].level # r + 1
        BY <1>1, <2>2, <4>2
      <4> QED
        BY <2>2, <4>1, <4>3, <4>4
    <3> QED
      BY <3>1, <3>2
  <2> QED
    BY <2>3, <2>4 DEF Tracks
<1>8. ~ov2 => OneModule(t, b)
  <2>1. SUFFICES ASSUME ~ov, b # 0 PROVE OneModule(t, b)
    BY DEF OneModule
  <2>2. b \in 1 .. Len(s) /\ OneModule(s, b)
    BY <1>1, <2>1 DEF Good, Sound, BufferOK
  <2>3. \A i \in b .. Len(t) : t[i].mod = s[i].mod /\ i \in b .. Len(s)
    BY <1>1, <1>2, <2>2
  <2> QED
    BY <2>1, <2>2, <2>3 DEF OneModule
<1>9. rm2 \in [0 .. MaxLevel -> Owners]
  BY <1>1, FrameFields DEF Good
<1>10. r2 <= Levels(t)
  BY <1>1, <1>3
<1> QED
  BY <1>3, <1>4, <1>5, <1>6, <1>7, <1>8, <1>9, <1>10 DEF Good, Sound

LEMMA PrefixBelow ==
  ASSUME NEW s \in Seq(Frame), NEW n \in 0 .. Len(s)
  PROVE  Below(s, n, SubSeq(s, 1, n))
<1>1. Len(s) \in Nat /\ \A i \in 1 .. n : i \in 1 .. Len(s) /\ s[i] \in Frame
  BY LenProperties, ElementOfSeq
<1> QED
  BY <1>1, SubSeqProperties DEF Below

LEMMA BelowStack ==
  ASSUME NEW s, NEW n, NEW t, Stack(s), n \in 0 .. Len(s), Below(s, n, t)
  PROVE  Stack(t) /\ Levels(t) \in Nat
<1>1. s \in Seq(Frame) /\ t \in Seq(Frame) /\ Len(s) \in Nat /\ Len(t) = n
      /\ \A i \in 1 .. n : t[i] = s[i] /\ i \in 1 .. Len(s)
  BY LenProperties DEF Stack, Below
<1>2. \A i \in 1 .. Len(t) :
        t[i].level = (IF i = 1 THEN 0 ELSE t[i - 1].level) + One(t[i].kind)
  <2> SUFFICES ASSUME NEW i \in 1 .. n
               PROVE  t[i].level = (IF i = 1 THEN 0 ELSE t[i - 1].level) + One(t[i].kind)
    BY <1>1
  <2>1. t[i] = s[i] /\ (i # 1 => t[i - 1] = s[i - 1])
    BY <1>1
  <2> QED
    BY <1>1, <2>1 DEF Stack
<1>3. \A i, j \in 1 .. Len(t) : i <= j => t[i].level <= t[j].level
  BY <1>1 DEF Stack
<1>4. \A i \in 1 .. Len(t) : t[i].kind = "command" => i = 1
  BY <1>1 DEF Stack
<1>5. Levels(t) \in Nat
  BY <1>1, LevelsType
<1> QED
  BY <1>1, <1>2, <1>3, <1>4, <1>5 DEF Stack

\* A frame other than that of the signal handler returns.
LEMMA ReturnGood ==
  ASSUME NEW s, NEW b, NEW h, NEW r, NEW rm, NEW run, NEW ov, NEW t, NEW r2, NEW rm2,
         MaxLevel \in Nat, Good(s, b, h, r, rm, run, ov), s # <<>>, Below(s, Len(s) - 1, t),
         h # Len(s), ~run /\ ~ov => rm2 = rm, rm2 \in [0 .. MaxLevel -> Owners],
         r2 = IF s[Len(s)].kind \in Counting THEN Down(r) ELSE r
  PROVE  Good(t, IF b <= Len(t) THEN b ELSE 0, h, r2, rm2, run, ov)
<1>1. /\ s \in Seq(Frame) /\ t \in Seq(Frame) /\ Len(s) \in Nat \ {0} /\ Len(t) = Len(s) - 1
      /\ Stack(s) /\ r \in 0 .. MaxLevel /\ r <= Levels(s)
      /\ \A i \in 1 .. Len(t) : t[i] = s[i] /\ i \in 1 .. Len(s)
      /\ Levels(s) = s[Len(s)].level
      /\ \A i \in 1 .. Len(s) : s[i].level \in Nat
  BY LevelsType, EmptySeq DEF Good, Sound, Stack, Below
<1>2. Stack(t) /\ Levels(t) \in Nat
  <2>1. Len(s) - 1 \in 0 .. Len(s) /\ Stack(s)
    BY <1>1
  <2> QED
    BY <2>1, BelowStack
<1>3. Levels(s) = Levels(t) + One(s[Len(s)].kind)
  <2>1. s[Len(s)].level = (IF Len(s) = 1 THEN 0 ELSE s[Len(s) - 1].level) + One(s[Len(s)].kind)
    <3>1. Len(s) \in 1 .. Len(s) /\ Stack(s)
      BY <1>1
    <3> QED
      BY <3>1 DEF Stack
  <2>2. Levels(t) = IF Len(t) = 0 THEN 0 ELSE t[Len(t)].level
    BY <1>1, LevelsType
  <2>3. Levels(t) = IF Len(s) = 1 THEN 0 ELSE s[Len(s) - 1].level
    <3>1. CASE Len(s) = 1
      BY <1>1, <2>2, <3>1
    <3>2. CASE Len(s) # 1
      <4>1. Len(t) # 0 /\ Len(t) \in 1 .. Len(t)
        BY <1>1, <3>2
      <4> QED
        BY <1>1, <2>2, <3>2, <4>1
    <3> QED
      BY <3>1, <3>2
  <2> QED
    BY <1>1, <2>1, <2>3
<1>4. r2 \in 0 .. MaxLevel /\ r2 <= Levels(t)
  <2>1. r \in 0 .. MaxLevel /\ MaxLevel \in Nat /\ Levels(t) \in Nat
    BY <1>1, <1>2
  <2>2. CASE s[Len(s)].kind \in Counting
    <3>1. r <= Levels(t) + 1 /\ r2 = Down(r)
      BY <1>1, <1>3, <2>2, OneType
    <3> QED
      BY <2>1, <3>1 DEF Down
  <2>3. CASE s[Len(s)].kind \notin Counting
    <3>1. r <= Levels(t) + 0 /\ r2 = r
      BY <1>1, <1>3, <2>3, OneType
    <3> QED
      BY <2>1, <3>1
  <2> QED
    BY <2>2, <2>3
<1>5. BufferOK(t, IF b <= Len(t) THEN b ELSE 0)
  BY <1>1 DEF Good, Sound, BufferOK
<1>6. HandlerOK(t, h, r2)
  <2>1. CASE h # 0
    <3>1. /\ h \in 2 .. Len(t) /\ s[h].kind \in Unloading /\ s[h] = t[h]
          /\ r + s[h - 1].level <= s[Len(s)].level
      BY <1>1, <2>1 DEF Good, Sound, HandlerOK
    <3>2. t[h - 1] = s[h - 1] /\ t[h - 1].level \in Nat /\ t[h - 1].level <= t[Len(t)].level
      <4>1. h - 1 \in 1 .. Len(t) /\ Len(t) \in 1 .. Len(t) /\ h - 1 <= Len(t)
        BY <1>1, <3>1
      <4>2. t[h - 1] = s[h - 1] /\ s[h - 1].level \in Nat
        BY <1>1, <4>1
      <4>3. t[h - 1].level <= t[Len(t)].level
        BY <1>2, <4>1 DEF Stack
      <4> QED
        BY <4>2, <4>3
    <3>3. Levels(t) = t[Len(t)].level /\ r \in Nat /\ r + t[h - 1].level <= Levels(s)
      BY <1>1, <3>1, <3>2, LevelsType
    <3>4. r2 + t[h - 1].level <= t[Len(t)].level
      <4>1. CASE s[Len(s)].kind \in Counting
        <5> DEFINE x == t[h - 1].level
                   y == Levels(t)
        <5>1. Levels(s) = y + 1 /\ r2 = Down(r)
          BY <1>3, <4>1, OneType
        <5>2. x \in Nat /\ y \in Nat /\ r \in Nat /\ x <= y /\ r + x <= y + 1
          BY <1>2, <3>2, <3>3, <5>1
        <5> HIDE DEF x, y
        <5>3. Down(r) + x <= y
          BY <5>2 DEF Down
        <5> QED
          BY <3>3, <5>1, <5>3 DEF x, y
      <4>2. CASE s[Len(s)].kind \notin Counting
        BY <1>2, <1>3, <3>2, <3>3, <4>2, OneType
      <4> QED
        BY <4>1, <4>2
    <3> QED
      BY <1>1, <3>1, <3>4 DEF HandlerOK
  <2>2. CASE h = 0
    BY <1>1, <2>2 DEF HandlerOK
  <2> QED
    BY <2>1, <2>2
<1>7. ~run /\ ~ov => Tracks(t, r2, rm2)
  <2>1. SUFFICES ASSUME ~run, ~ov PROVE Tracks(t, r2, rm)
    OBVIOUS
  <2>2. Tracks(s, r, rm)
    BY <2>1 DEF Good
  <2>3. r2 = Levels(t)
    BY <1>1, <1>2, <1>3, <2>2, OneType DEF Tracks, Down
  <2> QED
    BY <1>1, <2>2, <2>3 DEF Tracks
<1>8. ~ov => OneModule(t, IF b <= Len(t) THEN b ELSE 0)
  <2>1. SUFFICES ASSUME ~ov, b <= Len(t), b # 0 PROVE OneModule(t, b)
    BY DEF OneModule
  <2>2. b \in 1 .. Len(s) /\ OneModule(s, b)
    BY <2>1 DEF Good, Sound, BufferOK
  <2>3. \A i \in b .. Len(t) : i \in b .. Len(s) /\ t[i] = s[i]
    BY <1>1, <2>1, <2>2
  <2> QED
    BY <2>1, <2>2, <2>3 DEF OneModule
<1> QED
  BY <1>2, <1>4, <1>5, <1>6, <1>7, <1>8 DEF Good, Sound

\* A jump leaves the stack below the buffer, at level 0.
LEMMA JumpGood ==
  ASSUME NEW s, NEW b, NEW h, NEW r, NEW rm, NEW run, NEW ov, NEW n, NEW t,
         MaxLevel \in Nat, Good(s, b, h, r, rm, run, ov), n \in 0 .. Len(s), Below(s, n, t)
  PROVE  Good(t, 0, 0, 0, rm, TRUE, ov)
<1>1. Stack(t) /\ Levels(t) \in Nat /\ Len(t) \in Nat
  BY BelowStack, LenProperties DEF Good, Sound, Stack
<1> QED
  BY <1>1 DEF Good, Sound, BufferOK, HandlerOK, OneModule

-----------------------------------------------------------------------------
(* The changes of the stack that the actions make. *)

Kinds == Handlers \cup Unloading \cup {"scan"}

LEMMA PushedAbove ==
  ASSUME NEW s \in Seq(Frame), NEW kind \in Kinds, NEW m \in Owners
  PROVE  \E f \in Frame : /\ f.kind = kind /\ f.mod = m
                          /\ Tops(s, f) /\ Above(s, f, Pushed(s, kind, m))
<1> DEFINE top == [kind |-> kind, mod |-> m, fetched |-> {}, ahead |-> {},
                   level |-> Levels(s) + IF kind \in Counting THEN 1 ELSE 0]
<1>0. Levels(s) + (IF kind \in Counting THEN 1 ELSE 0) \in Nat
  BY LevelsType
<1>1. top \in Frame
  BY <1>0 DEF Frame, Kinds
<1>2. top.kind = kind /\ top.mod = m /\ Tops(s, top)
  BY <1>1 DEF Tops, One
<1>3. Above(s, top, Pushed(s, kind, m))
  BY <1>1, AppendAbove DEF Pushed
<1> QED
  BY <1>1, <1>2, <1>3

LEMMA ScanAbove ==
  ASSUME NEW s \in Seq(Frame), modulehash \subseteq Mods, NEW n \in Fetches(modulehash)
  PROVE  \E f \in Frame : /\ f.kind = "scan" /\ f.mod = Core
                          /\ Tops(s, f) /\ Above(s, f, Scan(s, n))
<1> DEFINE top == [kind |-> "scan", mod |-> Core, fetched |-> n, ahead |-> modulehash \ n,
                   level |-> Levels(s)]
<1>1. n \subseteq Mods /\ Core \in Owners /\ "scan" \notin Counting
  BY DEF Fetches, Owners, Counting, Handlers, Guarded
<1>2. top \in Frame
  BY <1>1, LevelsType DEF Frame
<1>3. top.kind = "scan" /\ top.mod = Core /\ Tops(s, top)
  BY <1>1, <1>2, LevelsType DEF Tops, One
<1>4. Above(s, top, Scan(s, n))
  BY <1>2, AppendAbove DEF Scan
<1> QED
  BY <1>2, <1>3, <1>4

\* The innermost frame replaced.
LEMMA ReplacedOver ==
  ASSUME NEW s \in Seq(Frame), s # <<>>, NEW f \in Frame
  PROVE  Over(s, f, [s EXCEPT ![Len(s)] = f])
<1>1. Len(s) \in 1 .. Len(s) /\ Len(s) \in Nat
  BY LenProperties, EmptySeq
<1> QED
  BY <1>1, ExceptSeq DEF Over

LEMMA OverAlike ==
  ASSUME NEW s \in Seq(Frame), s # <<>>, NEW f, NEW t, Over(s, f, t),
         f.mod = s[Len(s)].mod, f.level = s[Len(s)].level,
         f.kind = s[Len(s)].kind \/ (f.kind \in Silent /\ s[Len(s)].kind \in Silent)
  PROVE  Alike(s, t)
<1>1. Len(s) \in Nat \ {0}
  BY LenProperties, EmptySeq
<1>2. \A i \in 1 .. Len(s) : t[i] = IF i = Len(s) THEN f ELSE s[i]
  BY <1>1 DEF Over
<1> QED
  BY <1>1, <1>2 DEF Over, Alike

LEMMA InnerType ==
  ASSUME frames \in Seq(Frame), frames # <<>>
  PROVE  Inner \in Frame /\ Inner.mod \in Owners /\ Inner.level \in Nat
  BY LevelsType, FrameFields, EmptySeq DEF Inner

LEMMA SteppedAlike ==
  ASSUME frames \in Seq(Frame), frames # <<>>, NEW n \in Fetches(Inner.ahead)
  PROVE  Alike(frames, Stepped(n))
<1> DEFINE top == [Inner EXCEPT !.fetched = n, !.ahead = Inner.ahead \ n]
<1>1. Inner \in Frame
  BY InnerType
<1>2. top \in Frame /\ top.mod = Inner.mod /\ top.level = Inner.level /\ top.kind = Inner.kind
  BY <1>1 DEF Frame, Fetches
<1>3. Stepped(n) = [frames EXCEPT ![Len(frames)] = top]
  BY DEF Stepped
<1> HIDE DEF top
<1>4. Over(frames, top, [frames EXCEPT ![Len(frames)] = top])
  BY <1>2, ReplacedOver
<1> QED
  BY <1>2, <1>3, <1>4, OverAlike DEF Inner

LEMMA PurgedAlike ==
  ASSUME frames \in Seq(Frame), NEW m
  PROVE  Alike(frames, Purged(frames, m))
<1> DEFINE e(i) == [frames[i] EXCEPT !.ahead = frames[i].ahead \ {m}]
<1>1. Len(frames) \in Nat /\ DOMAIN frames = 1 .. Len(frames)
  BY LenProperties
<1>2. \A i \in 1 .. Len(frames) : /\ e(i) \in Frame /\ e(i).mod = frames[i].mod
                                 /\ e(i).level = frames[i].level /\ e(i).kind = frames[i].kind
  <2> SUFFICES ASSUME NEW f \in Frame
               PROVE  LET g == [f EXCEPT !.ahead = f.ahead \ {m}]
                      IN  g \in Frame /\ g.mod = f.mod /\ g.level = f.level /\ g.kind = f.kind
    BY ElementOfSeq
  <2> QED
    BY DEF Frame
<1>3. Purged(frames, m) = [i \in 1 .. Len(frames) |-> e(i)]
  BY <1>1 DEF Purged
<1>4. /\ Purged(frames, m) \in Seq(Frame) /\ Len(Purged(frames, m)) = Len(frames)
      /\ \A i \in 1 .. Len(frames) : Purged(frames, m)[i] = e(i)
  <2> HIDE DEF e
  <2>1. [i \in 1 .. Len(frames) |-> e(i)] \in [1 .. Len(frames) -> Frame]
    BY <1>2
  <2> QED
    BY <1>1, <1>3, <2>1, SeqDef
<1> QED
  BY <1>2, <1>4 DEF Alike

LEMMA BecameAlike ==
  ASSUME frames \in Seq(Frame), frames # <<>>, Inner.kind \in Silent, NEW kind \in Silent
  PROVE  Alike(frames, Became(frames, kind))
<1> DEFINE top == [Inner EXCEPT !.kind = kind, !.level = Inner.level]
<1>1. Inner \in Frame /\ kind \notin Counting /\ kind \in Unloading
  BY InnerType DEF Silent, Counting, Handlers, Guarded, Unloading
<1>2. top \in Frame /\ top.mod = Inner.mod /\ top.level = Inner.level /\ top.kind = kind
  BY <1>1 DEF Frame
<1>3. Became(frames, kind) = [frames EXCEPT ![Len(frames)] = top]
  BY <1>1 DEF Became, Inner
<1> HIDE DEF top
<1>4. Over(frames, top, [frames EXCEPT ![Len(frames)] = top])
  BY <1>2, ReplacedOver
<1> QED
  BY <1>2, <1>3, <1>4, OverAlike DEF Inner

LEMMA BecameOver ==
  ASSUME frames \in Seq(Frame), frames # <<>>
  PROVE  \E f \in Frame : /\ f.kind = "free" /\ f.mod = Inner.mod /\ f.level = Inner.level + 1
                          /\ Over(frames, f, Became(frames, "free"))
<1> DEFINE top == [Inner EXCEPT !.kind = "free", !.level = Inner.level + 1]
<1>1. Inner \in Frame /\ Inner.level + 1 \in Nat /\ "free" \in Counting
  BY InnerType DEF Counting
<1>2. top \in Frame /\ top.kind = "free" /\ top.mod = Inner.mod /\ top.level = Inner.level + 1
  BY <1>1 DEF Frame, Unloading
<1>3. Became(frames, "free") = [frames EXCEPT ![Len(frames)] = top]
  BY <1>1 DEF Became, Inner
<1> HIDE DEF top
<1> QED
  BY <1>2, <1>3, ReplacedOver

-----------------------------------------------------------------------------
(* The actions. *)

Now == Good(frames, sigvbuf, handler, RunLevel, RunModule, running, overrun)

\* Call, from a stack that is as sound as frames.
LEMMA CallStep ==
  ASSUME overrun \in BOOLEAN,
         NEW s, NEW kind \in Handlers, NEW m \in Owners,
         Good(s, sigvbuf, handler, RunLevel, RunModule, running, overrun),
         Call(s, kind, m), UNCHANGED <<running, handler>>,
         kind = "command" => s = <<>>,
         kind \notin Guarded => Kin(s, sigvbuf, m)
  PROVE  Now' /\ overrun' \in BOOLEAN
<1>1. s \in Seq(Frame) /\ Len(s) \in Nat /\ (s = <<>> <=> Len(s) = 0)
  BY LenProperties, EmptySeq DEF Good, Sound, Stack
<1>2. PICK f \in Frame : /\ f.kind = kind /\ f.mod = m
                         /\ Tops(s, f) /\ Above(s, f, Pushed(s, kind, m))
  BY <1>1, PushedAbove DEF Kinds
<1>3. frames' = Pushed(s, kind, m) /\ Len(frames') = Len(s) + 1
      /\ sigvbuf' = (IF kind \in Guarded THEN Len(frames') ELSE sigvbuf)
  BY <1>2 DEF Call, Above
<1>4. /\ RunLevel' = Up(RunLevel)
      /\ overrun' \in BOOLEAN /\ (~overrun' => ~overrun /\ RunLevel' # MaxLevel)
      /\ RunModule' = IF RunLevel < MaxLevel THEN [RunModule EXCEPT ![RunLevel + 1] = f.mod]
                                             ELSE RunModule
  BY <1>2 DEF Call, SET_RUN_LEVEL
<1>5. MaxLevel \in Nat /\ Mods # {} /\ kind \in Counting
  BY RunLevelAssumption DEF Counting
<1>6. Good(frames', sigvbuf', handler, RunLevel', RunModule', running, overrun')
  BY <1>1, <1>2, <1>3, <1>4, <1>5, CallGood
<1> QED
  BY <1>4, <1>6 DEF Now

\* Parts of the invariant that the actions need of the innermost frame.
LEMMA InnerNow ==
  ASSUME IInv
  PROVE  /\ MaxLevel \in Nat \ {0} /\ Mods # {} /\ Core \in Owners /\ Now
         /\ frames \in Seq(Frame) /\ Len(frames) \in Nat /\ DOMAIN frames = 1 .. Len(frames)
         /\ RunLevel \in 0 .. MaxLevel /\ RunLevel <= Levels(frames)
         /\ sigvbuf \in 0 .. Len(frames)
         /\ frames = <<>> => Len(frames) = 0 /\ sigvbuf = 0
         /\ frames # <<>> =>
              /\ Len(frames) \in 1 .. Len(frames) /\ Inner = frames[Len(frames)]
              /\ Inner \in Frame /\ Inner.mod \in Owners /\ Inner.level \in Nat
              /\ Inner.kind = "command" => Len(frames) = 1
              /\ Inner.kind \notin Guarded => sigvbuf # Len(frames)
              /\ handler = Len(frames) => Inner.kind \in Unloading
<1>1. /\ Now /\ Stack(frames) /\ BufferOK(frames, sigvbuf)
      /\ HandlerOK(frames, handler, RunLevel)
      /\ RunLevel \in 0 .. MaxLevel /\ RunLevel <= Levels(frames)
  BY DEF IInv, Now, Good, Sound
<1>2. /\ frames \in Seq(Frame) /\ Len(frames) \in Nat /\ DOMAIN frames = 1 .. Len(frames)
      /\ frames # <<>> => Len(frames) \in 1 .. Len(frames)
      /\ frames = <<>> => Len(frames) = 0
  BY <1>1, LenProperties, EmptySeq DEF Stack
<1>3. sigvbuf \in 0 .. Len(frames) /\ (sigvbuf # 0 => frames[sigvbuf].kind \in Guarded)
  BY <1>1 DEF BufferOK
<1>4. ASSUME frames # <<>>
      PROVE  /\ Inner \in Frame /\ Inner.mod \in Owners /\ Inner.level \in Nat
             /\ Inner = frames[Len(frames)]
             /\ Inner.kind = "command" => Len(frames) = 1
             /\ Inner.kind \notin Guarded => sigvbuf # Len(frames)
             /\ handler = Len(frames) => Inner.kind \in Unloading
  <2>1. Inner = frames[Len(frames)] /\ Len(frames) \in 1 .. Len(frames)
    BY <1>2, <1>4 DEF Inner
  <2>2. Inner.kind = "command" => Len(frames) = 1
    BY <1>1, <2>1 DEF Stack
  <2>3. handler = Len(frames) => Inner.kind \in Unloading
    BY <1>1, <2>1 DEF HandlerOK
  <2>4. Inner.kind \notin Guarded => sigvbuf # Len(frames)
    BY <1>3, <2>1
  <2> QED
    BY <1>2, <1>4, <2>1, <2>2, <2>3, <2>4, InnerType
<1>5. MaxLevel \in Nat \ {0} /\ Mods # {} /\ Core \in Owners
  BY RunLevelAssumption DEF Owners
<1>6. frames = <<>> => Len(frames) = 0 /\ sigvbuf = 0
  BY <1>2, <1>3
<1>7. RunLevel \in 0 .. MaxLevel /\ RunLevel <= Levels(frames) /\ Now
  BY <1>1
<1> QED
  BY <1>2, <1>3, <1>4, <1>5, <1>6, <1>7, Zenon

LEMMA InitIInv == Init => IInv
<1> SUFFICES ASSUME Init PROVE IInv
  OBVIOUS
<1>1. <<>> \in Seq(Frame) /\ Len(<<>>) = 0
  BY EmptySeq
<1>2. Levels(<<>>) = 0
  BY DEF Levels
<1>3. MaxLevel \in Nat /\ Core \in Owners
  BY RunLevelAssumption DEF Owners
<1>4. Stack(<<>>) /\ BufferOK(<<>>, 0) /\ HandlerOK(<<>>, 0, 0)
  BY <1>1 DEF Stack, BufferOK, HandlerOK
<1>5. Tracks(<<>>, 0, RunModule) /\ OneModule(<<>>, 0)
  BY <1>1, <1>2 DEF Tracks, OneModule
<1>6. RunModule \in [0 .. MaxLevel -> Owners] /\ 0 \in 0 .. MaxLevel
  BY <1>3 DEF Init
<1>7. Sound(<<>>, 0, 0, 0)
  BY <1>2, <1>4 DEF Sound
<1> QED
  BY <1>5, <1>6, <1>7 DEF Init, IInv, Good

LEMMA CallFromLoopStep ==
  ASSUME IInv, NEW kind \in {"timer", "command", "plain"}, NEW m \in Owners,
         CallFromLoop(kind, m)
  PROVE  IInv'
<1>1. Now' /\ overrun' \in BOOLEAN
  BY InnerNow, CallStep DEF CallFromLoop, Kin, Handlers, Guarded, IInv, Now
<1> QED
  BY <1>1 DEF CallFromLoop, IInv, Now

LEMMA SendEventStep ==
  ASSUME IInv, NEW m \in Mods, SendEvent(m)
  PROVE  IInv'
<1>1. PICK n \in Fetches(Inner.ahead) : Call(Stepped(n), "event", m)
  BY DEF SendEvent
<1>2. Good(Stepped(n), sigvbuf, handler, RunLevel, RunModule, running, overrun)
  BY InnerNow, SteppedAlike, AlikeGood DEF SendEvent, Scanning, Running, Now
<1>3. Now' /\ overrun' \in BOOLEAN
  BY <1>1, <1>2, CallStep DEF SendEvent, Handlers, Guarded, Owners, IInv
<1> QED
  BY <1>3 DEF SendEvent, IInv, Now

LEMMA SkipModuleStep ==
  ASSUME IInv, SkipModule
  PROVE  IInv'
<1>1. PICK n \in Fetches(Inner.ahead) : frames' = Stepped(n)
  BY DEF SkipModule
<1>2. Good(Stepped(n), sigvbuf, handler, RunLevel, RunModule, running, overrun)
  BY InnerNow, SteppedAlike, AlikeGood DEF SkipModule, Scanning, Running, Now
<1> QED
  BY <1>1, <1>2 DEF SkipModule, SameLevel, IInv

LEMMA SendAllModuleEventStep ==
  ASSUME IInv, SendAllModuleEvent
  PROVE  IInv'
<1>1. PICK n \in Fetches(modulehash) : frames' = Scan(frames, n)
  BY DEF SendAllModuleEvent
<1>2. PICK f \in Frame : /\ f.kind = "scan" /\ f.mod = Core
                         /\ Tops(frames, f) /\ Above(frames, f, frames')
  BY <1>1, InnerNow, ScanAbove DEF IInv
<1>3. Good(frames', sigvbuf, handler, RunLevel, RunModule, running, overrun)
  BY <1>2, InnerNow, QuietGood DEF Now, Kin, Counting, Handlers, Guarded
<1> QED
  BY <1>3 DEF SendAllModuleEvent, SameLevel, IInv

LEMMA ScanEndsStep ==
  ASSUME IInv, ScanEnds
  PROVE  IInv'
<1>1. frames # <<>> /\ Inner.kind = "scan" /\ frames' = SubSeq(frames, 1, Len(frames) - 1)
  BY DEF ScanEnds, Scanning, Running, Returned
<1>2. Below(frames, Len(frames) - 1, frames')
  BY <1>1, InnerNow, PrefixBelow
<1>3. /\ "scan" \notin Counting /\ sigvbuf <= Len(frames') /\ handler # Len(frames)
      /\ RunModule \in [0 .. MaxLevel -> Owners]
  BY <1>1, <1>2, InnerNow DEF Below, Counting, Handlers, Guarded, Unloading, Now, Good
<1>4. Good(frames', sigvbuf, handler, RunLevel, RunModule, running, overrun)
  BY <1>1, <1>2, <1>3, InnerNow, ReturnGood DEF Now
<1> QED
  BY <1>4 DEF ScanEnds, SameLevel, IInv

LEMMA HandlerReturnsStep ==
  ASSUME IInv, HandlerReturns
  PROVE  IInv'
<1>1. /\ frames # <<>> /\ Inner.kind \in Handlers
      /\ frames' = SubSeq(frames, 1, Len(frames) - 1)
      /\ sigvbuf' = (IF sigvbuf <= Len(frames') THEN sigvbuf ELSE 0)
  BY DEF HandlerReturns, Running, Returned, Buffer
<1>2. Below(frames, Len(frames) - 1, frames')
  BY <1>1, InnerNow, PrefixBelow
<1>3. Inner.kind \in Counting /\ handler # Len(frames) /\ RunModule \in [0 .. MaxLevel -> Owners]
  BY <1>1, InnerNow DEF Counting, Handlers, Guarded, Unloading, Now, Good
<1>4. MaxLevel \in Nat /\ Now /\ Inner = frames[Len(frames)]
  BY <1>1, InnerNow
<1>5. Good(frames', sigvbuf', handler, Down(RunLevel), RunModule, running, overrun)
  <2>1. frames[Len(frames)].kind \in Counting
    BY <1>3, <1>4
  <2>2. Good(frames, sigvbuf, handler, RunLevel, RunModule, running, overrun)
    BY <1>4 DEF Now
  <2>3. /\ frames # <<>> /\ MaxLevel \in Nat /\ handler # Len(frames)
        /\ RunModule \in [0 .. MaxLevel -> Owners]
        /\ Down(RunLevel) = IF frames[Len(frames)].kind \in Counting THEN Down(RunLevel)
                                                                ELSE RunLevel
    BY <1>1, <1>3, <1>4, <2>1
  <2>4. Good(frames', IF sigvbuf <= Len(frames') THEN sigvbuf ELSE 0, handler, Down(RunLevel),
             RunModule, running, overrun)
    BY <1>2, <2>2, <2>3, ReturnGood
  <2> QED
    BY <1>1, <2>4
<1> QED
  BY <1>5 DEF HandlerReturns, RESET_RUN_LEVEL, IInv

\* A command of the core is the outermost call, so the module it loads or
\* unloads is the only one above the buffer.
LEMMA InCoreCommandKin ==
  ASSUME IInv, InCoreCommand
  PROVE  frames # <<>> /\ Len(frames) = 1 /\ frames[1].mod = Core
  BY InnerNow DEF InCoreCommand, Running

LEMMA LoadModuleStep ==
  ASSUME IInv, NEW m \in Mods, load_module(m)
  PROVE  IInv'
<1>1. Now' /\ overrun' \in BOOLEAN
  BY InCoreCommandKin, InnerNow, CallStep
     DEF load_module, Kin, Handlers, Guarded, Owners, IInv, Now
<1> QED
  BY <1>1 DEF load_module, IInv, Now

\* unload_module(m), entered from frames.
LEMMA UnloadPushedGood ==
  ASSUME IInv, frames # <<>>, NEW m \in Mods,
         ~overrun => Kin(frames, sigvbuf, m)
  PROVE  /\ Good(UnloadPushed(m), sigvbuf, handler, RunLevel, RunModule, running, overrun)
         /\ Len(UnloadPushed(m)) = Len(frames) + 1
         /\ UnloadPushed(m)[Len(frames) + 1].kind = "fini"
<1> DEFINE s == Purged(frames, m)
<1>1. /\ Alike(frames, s) /\ Good(s, sigvbuf, handler, RunLevel, RunModule, running, overrun)
      /\ s \in Seq(Frame) /\ Len(s) = Len(frames) /\ \A i \in 1 .. Len(s) : s[i].mod = frames[i].mod
  BY InnerNow, PurgedAlike, AlikeGood DEF Now, Alike
<1>2. s # <<>> /\ (~overrun => Kin(s, sigvbuf, m))
  BY <1>1, InnerNow, EmptySeq DEF Kin
<1>3. PICK f \in Frame : /\ f.kind = "fini" /\ f.mod = m
                         /\ Tops(s, f) /\ Above(s, f, UnloadPushed(m))
  BY <1>1, PushedAbove DEF UnloadPushed, Kinds, Unloading, Owners
<1> HIDE DEF s
<1>4. "fini" \notin Counting
  BY DEF Counting, Handlers, Guarded
<1>5. Good(UnloadPushed(m), sigvbuf, handler, RunLevel, RunModule, running, overrun)
  BY <1>1, <1>2, <1>3, <1>4, InnerNow, QuietGood
<1> QED
  BY <1>1, <1>3, <1>5 DEF Above

LEMMA NsCmdUnloadStep ==
  ASSUME IInv, NEW m \in Mods, ns_cmd_unload(m)
  PROVE  IInv'
<1>1. Good(frames', sigvbuf, handler, RunLevel, RunModule, running, overrun)
  BY InCoreCommandKin, UnloadPushedGood DEF ns_cmd_unload, Kin
<1> QED
  BY <1>1 DEF ns_cmd_unload, SameLevel, IInv

LEMMA CallModFiniStep ==
  ASSUME IInv, CallModFini
  PROVE  IInv'
<1> DEFINE s == Became(frames, "quit")
<1>1. frames # <<>> /\ Inner.kind = "fini" /\ Call(s, "plain", Inner.mod)
  BY DEF CallModFini, Running
<1>2. Alike(frames, s)
  BY <1>1, InnerNow, BecameAlike DEF Silent
<1>3. Good(s, sigvbuf, handler, RunLevel, RunModule, running, overrun)
  BY <1>2, InnerNow, AlikeGood DEF Now
<1>4. Kin(s, sigvbuf, Inner.mod)
  BY <1>1, <1>2, InnerNow, EmptySeq DEF Alike, Kin
<1> HIDE DEF s
<1>5. Now' /\ overrun' \in BOOLEAN
  BY <1>1, <1>3, <1>4, InnerNow, CallStep DEF CallModFini, Handlers, IInv
<1> QED
  BY <1>5 DEF CallModFini, IInv, Now

\* An event is sent from a stack as sound as frames.
LEMMA ScanGood ==
  ASSUME modulehash \subseteq Mods, NEW s, NEW r, NEW rm, NEW ov,
         NEW n \in Fetches(modulehash),
         Good(s, sigvbuf, handler, r, rm, running, ov)
  PROVE  Good(Scan(s, n), sigvbuf, handler, r, rm, running, ov)
<1>1. s \in Seq(Frame) /\ MaxLevel \in Nat /\ Mods # {}
  BY RunLevelAssumption DEF Good, Sound, Stack
<1>2. PICK f \in Frame : /\ f.kind = "scan" /\ f.mod = Core
                         /\ Tops(s, f) /\ Above(s, f, Scan(s, n))
  BY <1>1, ScanAbove
<1> QED
  BY <1>1, <1>2, QuietGood DEF Kin, Counting, Handlers, Guarded

LEMMA SendQuitsStep ==
  ASSUME IInv, SendQuits
  PROVE  IInv'
<1> DEFINE s == Became(frames, "tell")
<1>1. frames # <<>> /\ Inner.kind = "quit"
      /\ ((\E n \in Fetches(modulehash) : frames' = Scan(s, n)) \/ frames' = s)
  BY DEF SendQuits, Running
<1>2. Alike(frames, s)
  BY <1>1, InnerNow, BecameAlike DEF Silent
<1>3. Good(s, sigvbuf, handler, RunLevel, RunModule, running, overrun)
  BY <1>2, InnerNow, AlikeGood DEF Now
<1> HIDE DEF s
<1>4. Good(frames', sigvbuf, handler, RunLevel, RunModule, running, overrun)
  BY <1>1, <1>3, ScanGood DEF IInv
<1> QED
  BY <1>4 DEF SendQuits, SameLevel, IInv

LEMMA SendModuleUnloadStep ==
  ASSUME IInv, SendModuleUnload
  PROVE  IInv'
<1> DEFINE s == Became(frames, "free")
<1>1. /\ frames # <<>> /\ Inner.kind = "tell" /\ SET_RUN_LEVEL(Inner.mod)
      /\ \E n \in Fetches(modulehash) : frames' = Scan(s, n)
  BY DEF SendModuleUnload, Running
<1>2. PICK f \in Frame : /\ f.kind = "free" /\ f.mod = Inner.mod /\ f.level = Inner.level + 1
                         /\ Over(frames, f, s)
  BY <1>1, InnerNow, BecameOver
<1> HIDE DEF s
<1>3. /\ RunLevel' = Up(RunLevel)
      /\ overrun' \in BOOLEAN /\ (~overrun' => ~overrun /\ RunLevel' # MaxLevel)
      /\ RunModule' = IF RunLevel < MaxLevel THEN [RunModule EXCEPT ![RunLevel + 1] = f.mod]
                                             ELSE RunModule
  BY <1>1, <1>2 DEF SET_RUN_LEVEL, IInv
<1>4. Good(s, sigvbuf, handler, RunLevel', RunModule', running, overrun')
  BY <1>1, <1>2, <1>3, InnerNow, OverGood DEF Now
<1>5. Good(frames', sigvbuf, handler, RunLevel', RunModule', running, overrun')
  BY <1>1, <1>4, ScanGood DEF IInv
<1> QED
  BY <1>3, <1>5 DEF SendModuleUnload, IInv

\* The two resets of unload_module are one too many, but for the set between.
LEMMA UnloadReturnsStep ==
  ASSUME IInv, UnloadReturns
  PROVE  IInv'
<1>1. /\ frames # <<>> /\ Inner.kind = "free" /\ handler # Len(frames)
      /\ frames' = SubSeq(frames, 1, Len(frames) - 1)
      /\ RunLevel' = Down(Up(Down(RunLevel)))
      /\ RunModule' = [RunModule EXCEPT ![Up(Down(RunLevel))] = Inner.mod]
      /\ UNCHANGED <<modulehash, sigvbuf, running, handler, overrun, ended>>
  BY DEF UnloadReturns, Unloaded, Running, Returned
<1>2. Below(frames, Len(frames) - 1, frames')
  BY <1>1, InnerNow, PrefixBelow
<1>3. /\ RunLevel' = Down(RunLevel) /\ Up(Down(RunLevel)) \in 0 .. MaxLevel
      /\ RunLevel > 0 => Up(Down(RunLevel)) = RunLevel
  BY <1>1, InnerNow DEF Up, Down
<1>4. /\ Inner.kind \in Counting /\ sigvbuf <= Len(frames')
      /\ RunModule \in [0 .. MaxLevel -> Owners]
  BY <1>1, <1>2, InnerNow DEF Below, Counting, Guarded, Now, Good
<1>5. RunModule' \in [0 .. MaxLevel -> Owners]
  BY <1>1, <1>4, InnerNow
<1>6. ~running /\ ~overrun => RunModule' = RunModule
  <2>1. SUFFICES ASSUME ~running, ~overrun PROVE RunModule' = RunModule
    OBVIOUS
  <2>2. Tracks(frames, RunLevel, RunModule) /\ Stack(frames)
    BY <2>1 DEF IInv, Good, Sound
  <2>3. RunModule[Inner.level] = Inner.mod
    BY <1>1, <1>4, <2>2, InnerNow DEF Tracks
  <2>4. RunLevel = Inner.level /\ RunLevel > 0
    <3>1. RunLevel = Inner.level
      BY <1>1, <2>2, InnerNow, LevelsType DEF Tracks
    <3>2. Inner.level = (IF Len(frames) = 1 THEN 0 ELSE frames[Len(frames) - 1].level) + One(Inner.kind)
      BY <1>1, <2>2, InnerNow DEF Stack
    <3>3. Len(frames) # 1 => frames[Len(frames) - 1].level \in Nat
      BY <1>1, InnerNow, LevelsType
    <3> QED
      BY <1>4, <3>1, <3>2, <3>3, OneType
  <2> QED
    BY <1>1, <1>3, <1>4, <2>3, <2>4
<1>7. Good(frames', sigvbuf, handler, RunLevel', RunModule', running, overrun)
  BY <1>1, <1>2, <1>3, <1>4, <1>5, <1>6, InnerNow, ReturnGood DEF Now
<1> QED
  BY <1>1, <1>7 DEF IInv

\* Before a crash the culprit is the module whose handler is innermost.
LEMMA CulpritIsInner ==
  ASSUME IInv, Crashing, ~overrun
  PROVE  Culprit = Inner.mod
<1>1. Tracks(frames, RunLevel, RunModule) /\ frames # <<>> /\ Inner.kind \in Counting
  BY DEF Crashing, Running, Counting, IInv, Good
<1>2. RunModule[Inner.level] = Inner.mod /\ RunLevel = Inner.level
  BY <1>1, InnerNow, LevelsType DEF Tracks
<1> QED
  BY <1>2 DEF Culprit

LEMMA CrashUnloadsStep ==
  ASSUME IInv, CrashUnloads
  PROVE  IInv'
<1> DEFINE t == UnloadPushed(Culprit)
<1>1. /\ Crashing /\ frames # <<>> /\ Culprit \in Mods /\ frames' = t /\ RunLevel' = 0
      /\ handler' = Len(frames) + 1 /\ running' = TRUE /\ modulehash' \subseteq Mods
      /\ UNCHANGED <<RunModule, sigvbuf, overrun, ended>>
  BY DEF CrashUnloads, Crashing, Running, IInv
<1>2. ~overrun => Kin(frames, sigvbuf, Culprit)
  BY <1>1, CulpritIsInner, InnerNow DEF Kin
<1>3. /\ Good(t, sigvbuf, handler, RunLevel, RunModule, running, overrun)
      /\ Len(t) = Len(frames) + 1 /\ t[Len(frames) + 1].kind = "fini"
  BY <1>1, <1>2, UnloadPushedGood
<1> HIDE DEF t
<1>4. Len(frames) \in Nat \ {0} /\ t \in Seq(Frame)
  BY <1>1, <1>3, InnerNow DEF Good, Sound, Stack
<1>5. HandlerOK(t, Len(frames) + 1, 0)
  <2>1. t[Len(frames)].level <= t[Len(frames) + 1].level /\ t[Len(frames)].level \in Nat
    BY <1>3, <1>4, LevelsType DEF Good, Sound, Stack
  <2> QED
    BY <1>3, <1>4, <2>1 DEF HandlerOK, Unloading
<1>6. Good(t, sigvbuf, Len(frames) + 1, 0, RunModule, TRUE, overrun)
  BY <1>3, <1>4, <1>5, InnerNow, LevelsType DEF Good, Sound
<1> QED
  BY <1>1, <1>6 DEF IInv

LEMMA LandedGood ==
  ASSUME IInv, NEW level, Landed(level), level = 0,
         UNCHANGED <<RunModule, overrun>>
  PROVE  /\ RunLevel' = 0 /\ handler' = 0
         /\ Good(frames', sigvbuf', handler', RunLevel', RunModule', TRUE, overrun')
<1>1. /\ sigvbuf - 1 \in 0 .. Len(frames) /\ frames' = SubSeq(frames, 1, sigvbuf - 1)
      /\ sigvbuf' = 0 /\ handler' = 0 /\ RunLevel' = 0
  BY InnerNow DEF Landed, Down
<1>2. Below(frames, sigvbuf - 1, frames')
  BY <1>1, InnerNow, PrefixBelow
<1> QED
  BY <1>1, <1>2, InnerNow, JumpGood DEF Now

LEMMA CrashJumpsStep ==
  ASSUME IInv, CrashJumps
  PROVE  IInv'
<1>1. Landed(0) /\ running' = TRUE /\ UNCHANGED <<RunModule, modulehash, overrun, ended>>
  BY DEF CrashJumps
<1> QED
  BY <1>1, LandedGood DEF IInv

\* unload_module in the signal handler, begun at level 0, ends at 1 at most.
LEMMA HandlerDoneLevel ==
  ASSUME IInv, HandlerDone
  PROVE  Down(RunLevel) = 0 /\ running
<1>1. frames # <<>> /\ Inner.kind = "free" /\ handler = Len(frames)
  BY DEF HandlerDone, Unloaded, Running
<1>2. handler > 1 /\ RunLevel + frames[handler - 1].level <= Inner.level /\ running
  BY <1>1, InnerNow DEF IInv, Good, Sound, HandlerOK
<1>3. frames[handler - 1].level \in Nat
  BY <1>1, <1>2, InnerNow, LevelsType
<1>4. Inner.level = frames[handler - 1].level + One("free")
  <2>1. Stack(frames) /\ Len(frames) \in 1 .. Len(frames) /\ Inner = frames[Len(frames)]
    BY <1>1, InnerNow DEF IInv, Good, Sound
  <2>2. Inner.level = (IF Len(frames) = 1 THEN 0 ELSE frames[Len(frames) - 1].level) + One("free")
    BY <1>1, <2>1 DEF Stack
  <2> QED
    BY <1>1, <1>2, <2>2
<1> QED
  BY <1>2, <1>3, <1>4, OneType, InnerNow DEF Down

LEMMA UnloadJumpsStep ==
  ASSUME IInv, UnloadJumps
  PROVE  IInv'
<1>1. HandlerDone /\ Landed(Down(RunLevel)) /\ UNCHANGED <<RunModule, modulehash, running, overrun, ended>>
  BY DEF UnloadJumps
<1>2. Down(RunLevel) = 0 /\ running = TRUE
  BY <1>1, HandlerDoneLevel DEF IInv
<1>3. RunLevel' = 0 /\ handler' = 0
      /\ Good(frames', sigvbuf', handler', RunLevel', RunModule', TRUE, overrun')
  BY <1>1, <1>2, LandedGood
<1> QED
  BY <1>1, <1>2, <1>3 DEF IInv

LEMMA NextIInv == IInv /\ [Next]_vars => IInv'
<1> SUFFICES ASSUME IInv, [Next]_vars PROVE IInv'
  OBVIOUS
<1>1. CASE Stops
  BY <1>1 DEF Stops, IInv
<1>2. CASE UNCHANGED vars
  BY <1>2 DEF vars, IInv
<1>3. CASE Next
  BY <1>1, <1>3, CallFromLoopStep, SendAllModuleEventStep, SendEventStep, SkipModuleStep,
     ScanEndsStep, HandlerReturnsStep, LoadModuleStep, NsCmdUnloadStep, CallModFiniStep,
     SendQuitsStep, SendModuleUnloadStep, UnloadReturnsStep, CrashUnloadsStep, CrashJumpsStep,
     UnloadJumpsStep DEF Next, ScanFaults, CrashExits, JumpFaults, Stops
<1> QED
  BY <1>2, <1>3

-----------------------------------------------------------------------------
(* The theorems. *)

\* The inductive invariant holds in every reachable state.
THEOREM Invariance == Spec => []IInv
  BY InitIInv, NextIInv, PTL DEF Spec

\* The types: a jump lands on a frame that is there, if at all.
THEOREM TypeCorrect == Spec => []TypeOK
<1>1. IInv => TypeOK
  BY InnerNow DEF IInv, Good, Sound, BufferOK, HandlerOK, TypeOK
<1> QED
  BY <1>1, Invariance, PTL

\* The run level is the number of calls in progress, and GET_CUR_MODULE() the
\* module whose handler is innermost, at any depth the array has room for.
THEOREM CurrentIsInnermostAlways == Spec => []CurrentIsInnermost
<1>1. IInv => CurrentIsInnermost
  BY InnerNow DEF IInv, Good, Tracks, CurrentIsInnermost
<1> QED
  BY <1>1, Invariance, PTL

\* The event loop runs as the core, whatever was overrun or cut off.
THEOREM LoopAlwaysCore == Spec => []LoopRunsAsCore
<1>1. IInv => LoopRunsAsCore
  BY InnerNow DEF Levels, LoopRunsAsCore
<1> QED
  BY <1>1, Invariance, PTL

\* Only a jump removes more than the innermost frame.
LEMMA OneFrameOrJump ==
  ASSUME IInv, Next
  PROVE  \/ Len(frames') >= Len(frames) - 1
         \/ \E level : Landed(level)
<1> DEFINE Goal == Len(frames') >= Len(frames) - 1
<1>1. Len(frames) \in Nat /\ frames \in Seq(Frame)
  BY InnerNow
<1>2. ASSUME NEW s \in Seq(Frame), NEW e PROVE Len(Append(s, e)) = Len(s) + 1
  BY <1>2
<1>3. ASSUME NEW s \in Seq(Frame), NEW kind, NEW m, Len(s) = Len(frames), Call(s, kind, m)
      PROVE  Goal
  BY <1>1, <1>2, <1>3 DEF Call, Pushed
<1>4. ASSUME frames # <<>>, NEW n \in Fetches(Inner.ahead)
      PROVE  Stepped(n) \in Seq(Frame) /\ Len(Stepped(n)) = Len(frames)
  BY <1>1, <1>4, SteppedAlike DEF Alike
<1>5. ASSUME frames # <<>>, Inner.kind \in Silent, NEW kind \in Silent
      PROVE  Became(frames, kind) \in Seq(Frame) /\ Len(Became(frames, kind)) = Len(frames)
  BY <1>1, <1>5, BecameAlike DEF Alike
<1>6. ASSUME frames # <<>>
      PROVE  Became(frames, "free") \in Seq(Frame) /\ Len(Became(frames, "free")) = Len(frames)
  BY <1>1, <1>6, BecameOver DEF Over
<1>7. ASSUME NEW m PROVE Len(UnloadPushed(m)) = Len(frames) + 1
  BY <1>1, <1>2, PurgedAlike DEF UnloadPushed, Pushed, Alike
<1>8. ASSUME frames # <<>>, frames' = Returned(frames) PROVE Goal
  BY <1>1, <1>8, InnerNow, PrefixBelow DEF Returned, Below
<1>9. CASE \E kind \in {"timer", "command", "plain"}, m \in Owners : CallFromLoop(kind, m)
  BY <1>1, <1>3, <1>9 DEF CallFromLoop
<1>10. CASE SendAllModuleEvent
  BY <1>1, <1>2, <1>10 DEF SendAllModuleEvent, Scan
<1>11. CASE (\E m \in Mods : SendEvent(m)) \/ SkipModule
  BY <1>1, <1>3, <1>4, <1>11 DEF SendEvent, SkipModule, Scanning, Running
<1>12. CASE ScanEnds \/ HandlerReturns \/ UnloadReturns
  BY <1>8, <1>12 DEF ScanEnds, HandlerReturns, UnloadReturns, Scanning, Unloaded, Running
<1>13. CASE \E m \in Mods : load_module(m) \/ ns_cmd_unload(m)
  BY <1>1, <1>3, <1>7, <1>13 DEF load_module, ns_cmd_unload
<1>14. CASE CallModFini
  BY <1>3, <1>5, <1>14 DEF CallModFini, Running, Silent
<1>15. CASE SendQuits
  <2> DEFINE s == Became(frames, "tell")
  <2>1. s \in Seq(Frame) /\ Len(s) = Len(frames)
    BY <1>5, <1>15 DEF SendQuits, Running, Silent
  <2>2. (\E n \in Fetches(modulehash) : frames' = Scan(s, n)) \/ frames' = s
    BY <1>15 DEF SendQuits
  <2> HIDE DEF s
  <2>3. \A n : Len(Scan(s, n)) = Len(s) + 1
    BY <1>2, <2>1 DEF Scan
  <2>4. Len(frames') = Len(frames) + 1 \/ Len(frames') = Len(frames)
    BY <2>1, <2>2, <2>3
  <2> QED
    BY <1>1, <2>4
<1>16. CASE SendModuleUnload
  BY <1>1, <1>2, <1>6, <1>16 DEF SendModuleUnload, Running, Scan
<1>17. CASE CrashUnloads
  BY <1>1, <1>7, <1>17 DEF CrashUnloads
<1>18. CASE ScanFaults \/ CrashExits \/ JumpFaults
  BY <1>1, <1>18 DEF ScanFaults, CrashExits, JumpFaults, Stops
<1>19. CASE CrashJumps \/ UnloadJumps
  BY <1>19 DEF CrashJumps, UnloadJumps
<1> QED
  BY <1>9, <1>10, <1>11, <1>12, <1>13, <1>14, <1>15, <1>16, <1>17, <1>18, <1>19 DEF Next

\* What a jump abandons is code of the core and of one module, the culprit.
THEOREM JumpAbandonsOneModule == Spec => JumpAbandonsCulpritOnly
<1> DEFINE A == ~overrun /\ Len(frames') < Len(frames) - 1 =>
                  \E m \in Mods : \A i \in Len(frames') + 1 .. Len(frames) :
                    frames[i].mod \in {m, Core}
<1>1. IInv /\ [Next]_vars => [A]_vars
  <2> SUFFICES ASSUME IInv, Next, ~overrun, Len(frames') < Len(frames) - 1
               PROVE  \E m \in Mods : \A i \in Len(frames') + 1 .. Len(frames) :
                        frames[i].mod \in {m, Core}
    OBVIOUS
  <2>1. Len(frames) \in Nat /\ sigvbuf \in 0 .. Len(frames) /\ frames \in Seq(Frame)
    BY InnerNow
  <2>2. frames' \in Seq(Frame) /\ Len(frames') \in Nat
    BY NextIInv, LenProperties DEF IInv, Good, Sound, Stack
  <2>3. sigvbuf # 0 /\ frames' = SubSeq(frames, 1, sigvbuf - 1)
    BY <2>1, <2>2, OneFrameOrJump DEF Landed
  <2>4. Len(frames') + 1 = sigvbuf
    <3>1. sigvbuf - 1 \in 0 .. Len(frames)
      BY <2>1, <2>3
    <3>2. Below(frames, sigvbuf - 1, frames')
      BY <2>1, <2>3, <3>1, PrefixBelow
    <3>3. Len(frames') = sigvbuf - 1
      BY <3>2 DEF Below
    <3> QED
      BY <2>1, <3>3
  <2> QED
    BY <2>3, <2>4 DEF IInv, Good, OneModule
<1> QED
  BY <1>1, Invariance, PTL DEF Spec, JumpAbandonsCulpritOnly

-----------------------------------------------------------------------------
(***************************************************************************)
(* Timers, for every finite set of timers and every set of modules and      *)
(* intervals.  That no handler is called early does not depend on the list:  *)
(* whichever timer is first, it is called only when it is due, and due[t]   *)
(* accounts for the time since its last call.  That the list is sorted, and *)
(* that therefore a pending timeout is never later than the next run, is    *)
(* the second part; it needs that the list is never without the timers of   *)
(* the core.                                                               *)
(***************************************************************************)

\* The longest a model tells apart.
Cap == MaxInterval + MaxLate

ClocksOK ==
  /\ interval \in [Timers -> Intervals]
  /\ due \in [Timers -> Int]
  /\ age \in [Timers -> Nat]
  /\ since \in [Timers -> Nat]
  /\ \A t \in Timers : due[t] >= -MaxLate /\ age[t] <= since[t] /\ since[t] <= Cap

\* What is still to wait and what has passed make at least an interval.
Accounted == \A t \in Timers : due[t] + since[t] >= interval[t]

EInv == ClocksOK /\ Accounted

\* What a step may do to the time since a timer's last call: it keeps it above
\* zero, unless the timer is being added or its handler is called when due.
CalledWhenDue(t) == Ran(t) => due[t] <= 0

-----------------------------------------------------------------------------
\* MaxInterval, a CHOOSE, is an interval and the longest one.
LEMMA MaxIntervalFacts ==
  /\ MaxInterval \in Intervals
  /\ \A i \in Intervals : i <= MaxInterval
PROOF
  BY TimersAssumption DEF MaxInterval

LEMMA ConstantFacts ==
  /\ Intervals \subseteq Nat /\ MaxLate \in Nat /\ MaxInterval \in Nat /\ Cap \in Nat
  /\ \A i \in Intervals : i <= Cap
PROOF
  <1>1. MaxInterval \in Nat /\ MaxLate \in Nat /\ Intervals \subseteq Nat
    BY MaxIntervalFacts, TimersAssumption
  <1>2. Cap \in Nat /\ \A i \in Intervals : i <= Cap
    BY <1>1, MaxIntervalFacts DEF Cap
  <1> QED BY <1>1, <1>2

\* TimerCalcNextRun of a timer whose age is given keeps the account of every
\* timer: lastrun is never older than the last call.
LEMMA CalcKeeps ==
  ASSUME EInv, NEW t \in Timers, NEW i \in Intervals, NEW a \in Nat, NEW s \in Nat,
         a <= s, s <= Cap, TimerCalcNextRun(t, a, i), since' = [since EXCEPT ![t] = s]
  PROVE  EInv'
PROOF
  <1>0. i \in Nat /\ MaxLate \in Nat /\ Cap \in Nat
    BY ConstantFacts DEF EInv
  <1>1. /\ due' = [due EXCEPT ![t] = Most(i - a, -MaxLate)]
        /\ age' = [age EXCEPT ![t] = a]
        /\ interval' = [interval EXCEPT ![t] = i]
    BY Zenon DEF TimerCalcNextRun
  <1>2. /\ Most(i - a, -MaxLate) \in Int
        /\ Most(i - a, -MaxLate) >= -MaxLate
        /\ Most(i - a, -MaxLate) + s >= i
    BY <1>0 DEF Most
  <1>3. ClocksOK'
    <2> USE DEF EInv, ClocksOK
    <2>1. interval' \in [Timers -> Intervals] /\ age' \in [Timers -> Nat]
      BY <1>1
    <2>2. due' \in [Timers -> Int] /\ since' \in [Timers -> Nat]
      BY <1>1, <1>2
    <2>3. ASSUME NEW u \in Timers
          PROVE  due'[u] >= -MaxLate /\ age'[u] <= since'[u] /\ since'[u] <= Cap
      <3>1. CASE u = t
        BY <1>1, <1>2, <3>1
      <3>2. CASE u # t
        BY <1>1, <3>2
      <3> QED BY <3>1, <3>2
    <2>4. Cap' = Cap
      BY DEF Cap, MaxInterval
    <2> QED BY <2>1, <2>2, <2>3, <2>4
  <1>4. ASSUME NEW u \in Timers
        PROVE  due'[u] + since'[u] >= interval'[u]
    <2>1. CASE u = t
      BY <1>1, <1>2, <2>1 DEF EInv, ClocksOK
    <2>2. CASE u # t
      BY <1>1, <2>2 DEF EInv, ClocksOK, Accounted
    <2> QED BY <2>1, <2>2
  <1> QED BY <1>3, <1>4 DEF EInv, Accounted

\* Time passes for what is still to wait and for what has passed alike; the
\* bounds of the model never break the account.
LEMMA TickKeeps ==
  ASSUME EInv, Tick
  PROVE  EInv' /\ \A t \in Timers : since[t] > 0 => since'[t] > 0
PROOF
  <1>0. MaxLate \in Nat /\ Cap \in Nat /\ MaxInterval \in Nat /\ Intervals \subseteq Nat
    BY ConstantFacts DEF EInv
  <1>1. /\ due' = [t \in Timers |-> Most(due[t] - 1, -MaxLate)]
        /\ age' = [t \in Timers |-> Least(age[t] + 1, Cap)]
        /\ since' = [t \in Timers |-> Least(since[t] + 1, Cap)]
        /\ interval' = interval
    BY DEF Tick, Cap
  <1>2. ASSUME NEW t \in Timers
        PROVE  /\ due'[t] \in Int /\ age'[t] \in Nat /\ since'[t] \in Nat
               /\ due'[t] >= -MaxLate /\ age'[t] <= since'[t] /\ since'[t] <= Cap
               /\ due'[t] + since'[t] >= interval'[t]
               /\ since[t] > 0 => since'[t] > 0
    <2>1. /\ due[t] \in Int /\ age[t] \in Nat /\ since[t] \in Nat /\ interval[t] \in Nat
          /\ due[t] >= -MaxLate /\ age[t] <= since[t] /\ since[t] <= Cap
          /\ due[t] + since[t] >= interval[t] /\ interval[t] <= MaxInterval
      BY <1>0, MaxIntervalFacts DEF EInv, ClocksOK, Accounted
    <2>2. /\ due'[t] = Most(due[t] - 1, -MaxLate)
          /\ age'[t] = Least(age[t] + 1, Cap)
          /\ since'[t] = Least(since[t] + 1, Cap)
          /\ interval'[t] = interval[t]
      BY <1>1
    <2>3. Cap = MaxInterval + MaxLate
      BY DEF Cap
    <2> QED BY <1>0, <2>1, <2>2, <2>3 DEF Most, Least
  <1>3. Cap' = Cap
    BY DEF Cap, MaxInterval
  <1>4. ClocksOK'
    <2>1. due' \in [Timers -> Int] /\ age' \in [Timers -> Nat] /\ since' \in [Timers -> Nat]
      BY <1>1, <1>2
    <2> QED BY <1>1, <1>2, <1>3, <2>1 DEF EInv, ClocksOK
  <1> QED BY <1>2, <1>4 DEF EInv, Accounted

\* An exit of CheckTimers_cb that runs no handler to its end leaves the account
\* of every timer alone, but for a lastrun of now.
LEMMA QuietKeeps ==
  ASSUME EInv, UNCHANGED <<interval, due, since>>,
         age' \in [Timers -> Nat], \A t \in Timers : age'[t] <= age[t]
  PROVE  EInv' /\ \A t \in Timers : CalledWhenDue(t)
PROOF
  <1>1. Cap' = Cap
    BY DEF Cap, MaxInterval
  <1>2. \A u \in Timers : age'[u] <= since'[u]
    BY DEF EInv, ClocksOK
  <1>3. EInv'
    BY <1>1, <1>2 DEF EInv, ClocksOK, Accounted
  <1> QED BY <1>3 DEF CalledWhenDue, Ran, EInv, ClocksOK

-----------------------------------------------------------------------------
LEMMA EInit ==
  ASSUME TimersInit
  PROVE  EInv
PROOF
  <1>0. Intervals \subseteq Nat /\ MaxLate \in Nat /\ Cap \in Nat
    BY ConstantFacts DEF EInv
  <1>1. /\ interval \in [Timers -> Intervals] /\ due = interval
        /\ age = [t \in Timers |-> 0] /\ since = [t \in Timers |-> 0]
    BY DEF TimersInit
  <1>2. due \in [Timers -> Int] /\ age \in [Timers -> Nat] /\ since \in [Timers -> Nat]
    <2>1. ASSUME NEW t \in Timers PROVE interval[t] \in Int
      <3>1. interval[t] \in Intervals
        BY <1>1
      <3>2. interval[t] \in Nat
        BY <1>0, <3>1
      <3> QED BY <3>2
    <2>2. due \in [Timers -> Int]
      BY <1>1, <2>1
    <2> QED BY <1>1, <2>2
  <1>3. ASSUME NEW t \in Timers
        PROVE  /\ interval[t] \in Nat /\ due[t] = interval[t]
               /\ age[t] = 0 /\ since[t] = 0
    BY <1>0, <1>1
  <1>4. ASSUME NEW t \in Timers
        PROVE  /\ due[t] >= -MaxLate /\ age[t] <= since[t] /\ since[t] <= Cap
               /\ due[t] + since[t] >= interval[t]
    BY <1>0, <1>3
  <1> QED BY <1>1, <1>2, <1>4 DEF EInv, ClocksOK, Accounted

\* The invariant is inductive, and no step calls a handler that is not due.
LEMMA EStep ==
  ASSUME EInv, [TimersNext]_timervars
  PROVE  EInv' /\ \A t \in Timers : CalledWhenDue(t)
PROOF
  <1>0. /\ Intervals \subseteq Nat /\ MaxLate \in Nat /\ Cap \in Nat
        /\ \A i \in Intervals : i <= Cap
    BY ConstantFacts DEF EInv
  <1>1. ASSUME NEW t \in Timers, AddTimer(t)
        PROVE  EInv' /\ \A u \in Timers : CalledWhenDue(u)
    <2>1. PICK i \in Intervals : TimerCalcNextRun(t, 0, i)
      BY <1>1 DEF AddTimer
    <2>2. since' = [since EXCEPT ![t] = 0] /\ t \notin Listed
      BY <1>1 DEF AddTimer
    <2>3. EInv'
      <3>1. 0 \in Nat /\ 0 <= 0 /\ 0 <= Cap
        BY <1>0
      <3> QED BY <2>1, <2>2, <3>1, CalcKeeps, Zenon
    <2>4. \A u \in Timers : CalledWhenDue(u)
      BY <2>2 DEF CalledWhenDue, Ran, EInv, ClocksOK
    <2> QED BY <2>3, <2>4
  <1>2. ASSUME NEW t \in Timers, DelTimer(t)
        PROVE  EInv' /\ \A u \in Timers : CalledWhenDue(u)
    <2>1. UNCHANGED <<interval, due, since, age>>
      BY <1>2 DEF DelTimer
    <2> QED BY <2>1, QuietKeeps DEF EInv, ClocksOK
  <1>3. ASSUME NEW t \in Timers, SetTimerInterval(t)
        PROVE  EInv' /\ \A u \in Timers : CalledWhenDue(u)
    <2>1. PICK i \in Intervals : TimerCalcNextRun(t, age[t], i)
      BY <1>3 DEF SetTimerInterval
    <2>2. since' = since
      BY <1>3 DEF SetTimerInterval
    <2>3. since' = [since EXCEPT ![t] = since[t]]
      BY <2>2 DEF EInv, ClocksOK
    <2>4. /\ age[t] \in Nat /\ since[t] \in Nat
          /\ age[t] <= since[t] /\ since[t] <= Cap
      BY DEF EInv, ClocksOK
    <2>5. EInv'
      BY <2>1, <2>3, <2>4, CalcKeeps
    <2> QED BY <2>2, <2>5 DEF CalledWhenDue, Ran
  <1>4. ASSUME NEW m \in Modules, LoadModule(m) \/ UnloadModule(m)
        PROVE  EInv' /\ \A u \in Timers : CalledWhenDue(u)
    <2>1. UNCHANGED <<interval, due, since, age>>
      BY <1>4 DEF LoadModule, UnloadModule
    <2> QED BY <2>1, QuietKeeps DEF EInv, ClocksOK
  <1>5. ASSUME SynchAllModules
        PROVE  EInv' /\ \A u \in Timers : CalledWhenDue(u)
    <2>1. UNCHANGED <<interval, due, since, age>>
      BY <1>5 DEF SynchAllModules
    <2> QED BY <2>1, QuietKeeps DEF EInv, ClocksOK
  <1>6. ASSUME CheckTimers
        PROVE  EInv' /\ \A u \in Timers : CalledWhenDue(u)
    <2> DEFINE h == Head(timerlist)
    <2>1. CASE WakeUnsynched(h)
      <3>1. UNCHANGED <<interval, due, since>> /\ age' = [age EXCEPT ![h] = 0]
        BY <2>1 DEF WakeUnsynched
      <3>2. age \in [Timers -> Nat]
        BY DEF EInv, ClocksOK
      <3>3. age' \in [Timers -> Nat]
        BY <3>1, <3>2
      <3>4. \A u \in Timers : age'[u] <= age[u]
        BY <3>1, <3>2
      <3> QED BY <3>1, <3>3, <3>4, QuietKeeps
    <2>2. CASE WakeEarly(h)
      <3>1. UNCHANGED <<interval, due, since, age>>
        BY <2>2 DEF WakeEarly
      <3> QED BY <3>1, QuietKeeps DEF EInv, ClocksOK
    <2>3. CASE RunTimer(h)
      <3>1. PICK i \in (IF h \in Adjusting THEN Intervals ELSE {interval[h]}) :
              TimerCalcNextRun(h, 0, i)
        BY <2>3 DEF RunTimer
      <3>2. since' = [since EXCEPT ![h] = 0] /\ due[h] <= 0
        BY <2>3 DEF RunTimer, IsDue
      <3>3. \A u \in Timers : CalledWhenDue(u)
        BY <3>2 DEF CalledWhenDue, Ran, EInv, ClocksOK
      <3>4. CASE h \in Timers
        <4>1. i \in Intervals
          BY <3>4 DEF EInv, ClocksOK
        <4>2. 0 \in Nat /\ 0 <= 0 /\ 0 <= Cap
          BY <1>0
        <4>3. EInv'
          BY <3>1, <3>2, <3>4, <4>1, <4>2, CalcKeeps, Zenon
        <4> QED BY <3>3, <4>3
      <3>5. CASE h \notin Timers
        <4>1. UNCHANGED <<interval, due, since>> /\ age' = age
          BY <3>1, <3>2, <3>5 DEF TimerCalcNextRun, EInv, ClocksOK
        <4> QED BY <4>1, QuietKeeps DEF EInv, ClocksOK
      <3> QED BY <3>4, <3>5
    <2>4. CASE RunLast(h) \/ RunCrash(h)
      <3>1. UNCHANGED <<interval, due, since, age>>
        BY <2>4 DEF RunLast, RunCrash
      <3> QED BY <3>1, QuietKeeps DEF EInv, ClocksOK
    <2> QED BY <1>6, <2>1, <2>2, <2>3, <2>4 DEF CheckTimers
  <1>7. ASSUME Tick
        PROVE  EInv' /\ \A u \in Timers : CalledWhenDue(u)
    BY <1>7, TickKeeps DEF CalledWhenDue, Ran, EInv, ClocksOK
  <1>8. CASE UNCHANGED timervars
    <2>1. UNCHANGED <<interval, due, since, age>>
      BY <1>8 DEF timervars
    <2> QED BY <2>1, QuietKeeps DEF EInv, ClocksOK
  <1> QED BY <1>1, <1>2, <1>3, <1>4, <1>5, <1>6, <1>7, <1>8 DEF TimersNext

\* Whatever is due and has been accounted for has waited its interval.
LEMMA NoneEarly ==
  ASSUME EInv, \A t \in Timers : CalledWhenDue(t)
  PROVE  \A t \in Timers : Ran(t) => since[t] >= interval[t]
PROOF
  <1> SUFFICES ASSUME NEW t \in Timers, Ran(t) PROVE since[t] >= interval[t]
    OBVIOUS
  <1>1. due[t] <= 0
    BY DEF CalledWhenDue
  <1>2. /\ due[t] \in Int /\ since[t] \in Nat /\ interval[t] \in Nat
        /\ due[t] + since[t] >= interval[t]
    BY ConstantFacts DEF EInv, ClocksOK, Accounted
  <1> QED BY <1>1, <1>2

\* No timer handler is called before its interval has passed since it was added
\* or called last, whatever happens to the list, the timeout, its interval or
\* the modules in between (CheckTimers_cb, SetTimerInterval).
THEOREM HandlersAreNeverEarly == TimersSpec => NeverEarly
PROOF
  <1>1. TimersInit => EInv
    BY EInit
  <1>2. EInv /\ [TimersNext]_timervars => EInv'
    BY EStep
  <1>3. EInv /\ [TimersNext]_timervars => [\A t \in Timers : Ran(t) => since[t] >= interval[t]]_timervars
    BY EStep, NoneEarly
  <1> QED BY <1>1, <1>2, <1>3, PTL DEF TimersSpec, NeverEarly

-----------------------------------------------------------------------------
(* The list. *)

\* The timers of s are in the order of d.
InOrder(s, d) == \A i, j \in DOMAIN s : i < j => d[s[i]] <= d[s[j]]

LInv == TimersTypeOK /\ Sorted /\ NeverSleepsOver /\ CoreTimers \subseteq Listed

\* Between what is due before t and what is not, t keeps a list in order.
LEMMA PlacedFacts ==
  ASSUME NEW s \in Seq(Timers), IsInjective(s), NEW t \in Timers, t \notin Range(s),
         NEW d \in [Timers -> Int], InOrder(s, d), NEW n \in 0 .. Len(s),
         \A i \in 1 .. n : d[s[i]] <= d[t],
         \A i \in n + 1 .. Len(s) : d[t] <= d[s[i]]
  PROVE  LET r == InsertAt(s, n + 1, t)
         IN  /\ r \in Seq(Timers) /\ IsInjective(r)
             /\ Range(r) = Range(s) \cup {t}
             /\ InOrder(r, d)
PROOF
  <1> DEFINE r == InsertAt(s, n + 1, t)
  <1>1. /\ r \in Seq(Timers) /\ IsInjective(r)
        /\ Range(r) = Range(s) \cup {t}
        /\ Len(r) = Len(s) + 1
        /\ \A i \in 1 .. n : r[i] = s[i]
        /\ r[n + 1] = t
        /\ \A i \in n + 2 .. Len(s) + 1 : r[i] = s[i - 1]
    BY InsertAtFacts
  <1>h. HIDE DEF r
  <1>2. /\ Len(s) \in Nat /\ n \in Nat /\ n <= Len(s)
        /\ DOMAIN s = 1 .. Len(s) /\ DOMAIN r = 1 .. Len(s) + 1
    BY <1>1, LenProperties
  <1>3. \A k, l \in 1 .. Len(s) : k < l => d[s[k]] <= d[s[l]]
    BY <1>2 DEF InOrder
  <1>4. ASSUME NEW i \in 1 .. Len(s) + 1, NEW j \in 1 .. Len(s) + 1, i < j
        PROVE  d[r[i]] <= d[r[j]]
    <2>0. i \in Int /\ j \in Int
      OBVIOUS
    <2>1. CASE j <= n
      <3>1. i \in 1 .. n /\ j \in 1 .. n /\ i \in 1 .. Len(s) /\ j \in 1 .. Len(s)
        BY <2>1, <1>2, <1>4
      <3> QED BY <3>1, <1>1, <1>3, <1>4
    <2>2. CASE j = n + 1
      <3>1. i \in 1 .. n
        BY <2>2, <1>2, <1>4
      <3> QED BY <2>2, <3>1, <1>1
    <2>3. CASE j > n + 1 /\ i = n + 1
      <3>1. j \in n + 2 .. Len(s) + 1 /\ j - 1 \in n + 1 .. Len(s)
        BY <2>3, <1>2
      <3> QED BY <2>3, <3>1, <1>1
    <2>4. CASE j > n + 1 /\ i <= n
      <3>1. /\ j \in n + 2 .. Len(s) + 1 /\ i \in 1 .. n
            /\ j - 1 \in 1 .. Len(s) /\ i \in 1 .. Len(s) /\ i < j - 1
        BY <2>4, <1>2
      <3> QED BY <3>1, <1>1, <1>3
    <2>5. CASE j > n + 1 /\ i > n + 1
      <3>1. j \in n + 2 .. Len(s) + 1 /\ i \in n + 2 .. Len(s) + 1
        BY <2>5, <2>0, <1>2
      <3>2. j - 1 \in 1 .. Len(s) /\ i - 1 \in 1 .. Len(s) /\ i - 1 < j - 1
        BY <2>5, <2>0, <1>2, <1>4
      <3> QED BY <3>1, <3>2, <1>1, <1>3
    <2> QED BY <2>0, <2>1, <2>2, <2>3, <2>4, <2>5, <1>2
  <1>5. InOrder(r, d)
    BY <1>2, <1>4 DEF InOrder
  <1> QED BY <1>1, <1>5 DEF r

\* The least of some numbers is one of them.
LEMMA MinFacts ==
  ASSUME NEW S, S \subseteq Nat, S # {}
  PROVE  Min(S) \in S /\ \A k \in S : Min(S) <= k
PROOF
  <1>1. \E k \in S : \A j \in S : k <= j
    BY LeastNumber
  <1> QED BY <1>1 DEF Min

\* What is left when timers are deleted is in order if it was in order.
LEMMA LeftInOrder ==
  ASSUME NEW s \in Seq(Timers), IsInjective(s), NEW qs, NEW d \in [Timers -> Int],
         \A i, j \in DOMAIN s :
           i < j /\ s[i] \notin qs /\ s[j] \notin qs => d[s[i]] <= d[s[j]]
  PROVE  InOrder(Without(s, qs), d)
PROOF
  <1>0. s \in Seq(Timers) /\ IsInjective(s)
    OBVIOUS
  <1>1. /\ Without(s, qs) \in Seq(Timers)
        /\ Range(Without(s, qs)) = Range(s) \ qs
        /\ \A k, l \in DOMAIN Without(s, qs) : k < l =>
             \E i, j \in DOMAIN s :
               i < j /\ Without(s, qs)[k] = s[i] /\ Without(s, qs)[l] = s[j]
    BY <1>0, WithoutFacts
  <1> DEFINE r == Without(s, qs)
  <1>h. HIDE DEF r
  <1>2. ASSUME NEW k \in DOMAIN r, NEW l \in DOMAIN r, k < l
        PROVE  d[r[k]] <= d[r[l]]
    <2>1. PICK i \in DOMAIN s, j \in DOMAIN s : i < j /\ r[k] = s[i] /\ r[l] = s[j]
      BY <1>1, <1>2 DEF r
    <2>2. r[k] \in Range(r) /\ r[l] \in Range(r)
      BY DEF Range
    <2>3. r[k] \notin qs /\ r[l] \notin qs
      BY <1>1, <2>2 DEF r
    <2> QED BY <2>1, <2>3
  <1> QED BY <1>2 DEF r, InOrder

\* Where Insert puts a timer, the list stays in order.
LEMMA InsertFacts ==
  ASSUME NEW s \in Seq(Timers), IsInjective(s), NEW t \in Timers, NEW d \in [Timers -> Int],
         \A i, j \in DOMAIN s : i < j /\ s[i] # t /\ s[j] # t => d[s[i]] <= d[s[j]]
  PROVE  /\ Insert(s, t, d) \in Seq(Timers) /\ IsInjective(Insert(s, t, d))
         /\ Range(Insert(s, t, d)) = Range(s) \cup {t}
         /\ InOrder(Insert(s, t, d), d)
PROOF
  <1> DEFINE rest == Without(s, {t})
  <1> DEFINE places == {n \in 0 .. Len(rest) : n = Len(rest) \/ d[rest[n + 1]] >= d[t]}
  <1> DEFINE n == Min(places)
  <1>0. Insert(s, t, d) = InsertAt(rest, n + 1, t)
    BY DEF Insert
  <1>1. rest \in Seq(Timers) /\ IsInjective(rest) /\ Range(rest) = Range(s) \ {t}
    BY WithoutFacts, Zenon
  <1>2. InOrder(rest, d)
    <2>1. \A i, j \in DOMAIN s :
            i < j /\ s[i] \notin {t} /\ s[j] \notin {t} => d[s[i]] <= d[s[j]]
      OBVIOUS
    <2> QED BY <2>1, LeftInOrder, Zenon
  <1>h1. HIDE DEF rest
  <1>3. /\ Len(rest) \in Nat /\ DOMAIN rest = 1 .. Len(rest)
        /\ \A i \in 1 .. Len(rest) : d[rest[i]] \in Int
    BY <1>1, LenProperties, ElementOfSeq
  <1>4. n \in places /\ \A k \in places : n <= k
    <2>1. places \subseteq Nat /\ places # {}
      <3>1. Len(rest) \in places
        BY <1>3
      <3> QED BY <3>1
    <2>h. HIDE DEF places
    <2> QED BY <2>1, MinFacts, Zenon
  <1>h2. HIDE DEF n
  <1>5. /\ n \in 0 .. Len(rest) /\ (n = Len(rest) \/ d[rest[n + 1]] >= d[t])
        /\ \A k \in 0 .. Len(rest) :
             (k = Len(rest) \/ d[rest[k + 1]] >= d[t]) => n <= k
    BY <1>4, Zenon
  <1>h3. HIDE DEF places
  <1>6. d[t] \in Int /\ n \in Nat /\ n <= Len(rest)
    <2>1. n \in 0 .. Len(rest)
      BY <1>5, Zenon
    <2>2. n \in Nat /\ n <= Len(rest)
      BY <2>1, <1>3
    <2> QED BY <2>2
  <1>7. \A i \in 1 .. n : d[rest[i]] <= d[t]
    <2> SUFFICES ASSUME NEW i \in 1 .. n PROVE d[rest[i]] <= d[t]
      OBVIOUS
    <2>1. /\ i \in 1 .. Len(rest) /\ i - 1 \in 0 .. Len(rest) /\ i - 1 # Len(rest)
          /\ ~(n <= i - 1) /\ (i - 1) + 1 = i
      BY <1>3, <1>6
    <2>2. ~(d[rest[(i - 1) + 1]] >= d[t])
      BY <2>1, <1>5, Zenon
    <2>3. ~(d[rest[i]] >= d[t]) /\ d[rest[i]] \in Int
      BY <2>1, <2>2, <1>3
    <2> QED BY <2>3, <1>6
  <1>8. \A i \in n + 1 .. Len(rest) : d[t] <= d[rest[i]]
    <2> SUFFICES ASSUME NEW i \in n + 1 .. Len(rest) PROVE d[t] <= d[rest[i]]
      OBVIOUS
    <2>1. n + 1 \in 1 .. Len(rest) /\ i \in 1 .. Len(rest) /\ n # Len(rest)
          /\ (n + 1 = i \/ n + 1 < i)
      <3>1. i \in Int /\ n + 1 <= i /\ i <= Len(rest)
        BY <1>3, <1>6
      <3>2. Len(rest) \in Nat /\ n \in Nat
        BY <1>3, <1>6
      <3>3. n + 1 \in 1 .. Len(rest) /\ n # Len(rest)
        BY <3>1, <3>2
      <3>4. i \in 1 .. Len(rest) /\ (n + 1 = i \/ n + 1 < i)
        BY <3>1, <3>2
      <3> QED BY <3>3, <3>4
    <2>2. d[rest[n + 1]] <= d[rest[i]]
      BY <2>1, <1>2, <1>3 DEF InOrder
    <2>3. d[rest[n + 1]] >= d[t] /\ d[rest[n + 1]] \in Int /\ d[rest[i]] \in Int
      BY <2>1, <1>3, <1>5
    <2> QED BY <2>2, <2>3, <1>6
  <1>9. t \notin Range(rest) /\ Range(rest) \cup {t} = Range(s) \cup {t}
    BY <1>1
  <1>10. LET r == InsertAt(rest, n + 1, t)
        IN  /\ r \in Seq(Timers) /\ IsInjective(r)
            /\ Range(r) = Range(rest) \cup {t}
            /\ InOrder(r, d)
    BY <1>1, <1>2, <1>5, <1>7, <1>8, <1>9, PlacedFacts
  <1> QED BY <1>0, <1>9, <1>10

-----------------------------------------------------------------------------
LEMMA ListedIsRange ==
  Listed = Range(timerlist) /\ Listed' = Range(timerlist')
PROOF
  BY DEF Listed, Range

\* The head of a list that is not empty is its first element.
LEMMA HeadFacts ==
  ASSUME NEW s \in Seq(Timers), NEW t \in Range(s)
  PROVE  /\ s # <<>> /\ Head(s) = s[1] /\ 1 \in DOMAIN s /\ Head(s) \in Timers
         /\ Head(s) \in Range(s)
         /\ \A d \in [Timers -> Int] : InOrder(s, d) => d[Head(s)] <= d[t]
PROOF
  <1>1. Len(s) \in Nat /\ DOMAIN s = 1 .. Len(s)
    BY LenProperties
  <1>2. PICK i \in DOMAIN s : t = s[i]
    BY DEF Range
  <1>3. Len(s) >= 1 /\ 1 \in DOMAIN s /\ (i = 1 \/ 1 < i)
    BY <1>1
  <1>4. s # <<>> /\ Head(s) = s[1]
    BY <1>1, <1>3
  <1>5. s[1] \in Timers /\ s[1] \in Range(s) /\ t \in Timers
    BY <1>1, <1>2, <1>3, ElementOfSeq DEF Range
  <1>6. ASSUME NEW d \in [Timers -> Int], InOrder(s, d)
        PROVE  d[s[1]] <= d[t]
    <2>1. CASE i = 1
      BY <2>1, <1>2, <1>5
    <2>2. CASE 1 < i
      BY <2>2, <1>2, <1>3, <1>6 DEF InOrder
    <2> QED BY <2>1, <2>2, <1>3
  <1> QED BY <1>3, <1>4, <1>5, <1>6

\* A schedule is no later than the first timer, or the retry delay.
LEMMA ScheduleFacts ==
  ASSUME NEW s \in Seq(Timers), NEW t \in Range(s),
         NEW d \in [Timers -> -MaxLate .. MaxInterval]
  PROVE  /\ NextSchedule(s, d) \in Idle .. Most(MaxInterval, RetryDelay)
         /\ NextSchedule(s, d) <= Most(RetryDelay, d[Head(s)])
PROOF
  <1>1. MaxLate \in Nat /\ MaxInterval \in Nat /\ RetryDelay \in Nat
    BY ConstantFacts, TimersAssumption
  <1>2. s # <<>> /\ Head(s) \in Timers
    BY HeadFacts
  <1>3. d[Head(s)] \in -MaxLate .. MaxInterval
    BY <1>2
  <1>4. NextSchedule(s, d) = IF d[Head(s)] > 0 THEN d[Head(s)] ELSE RetryDelay
    BY <1>2 DEF NextSchedule
  <1> QED BY <1>1, <1>3, <1>4 DEF Most, Idle

\* What the invariant says of the list, in one place.
LEMMA LInvFacts ==
  ASSUME LInv
  PROVE  /\ timerlist \in Seq(Timers) /\ IsInjective(timerlist) /\ InOrder(timerlist, due)
         /\ due \in [Timers -> Int] /\ due \in [Timers -> -MaxLate .. MaxInterval]
         /\ CoreTimers \subseteq Range(timerlist)
         /\ timerlist # <<>> /\ Head(timerlist) \in Range(timerlist)
         /\ Head(timerlist) \in Timers
         /\ \E t \in Timers : t \in CoreTimers
PROOF
  <1>1. /\ timerlist \in Seq(Timers) /\ IsInjective(timerlist)
        /\ due \in [Timers -> -MaxLate .. MaxInterval]
    BY DEF LInv, TimersTypeOK
  <1>2. due \in [Timers -> Int]
    BY <1>1, ConstantFacts DEF LInv
  <1>3. InOrder(timerlist, due)
    BY DEF LInv, Sorted, InOrder
  <1>4. CoreTimers \subseteq Range(timerlist)
    BY ListedIsRange DEF LInv
  <1>5. \E t \in Timers : t \in CoreTimers
    BY TimersAssumption DEF LInv, CoreTimers
  <1>6. PICK t \in Timers : t \in Range(timerlist)
    BY <1>4, <1>5
  <1>7. timerlist # <<>> /\ Head(timerlist) \in Range(timerlist) /\ Head(timerlist) \in Timers
    BY <1>1, <1>6, HeadFacts
  <1> QED BY <1>1, <1>2, <1>3, <1>4, <1>5, <1>7

\* Deleting timers that are not the core's leaves the list in order, and its
\* first timer is due no earlier than the one that was first.
LEMMA DeletedFacts ==
  ASSUME LInv, NEW ts, ts \cap CoreTimers = {}, Deleted(ts)
  PROVE  /\ timerlist' \in Seq(Timers) /\ IsInjective(timerlist')
         /\ Range(timerlist') = Range(timerlist) \ ts
         /\ CoreTimers \subseteq Range(timerlist')
         /\ InOrder(timerlist', due)
         /\ due[Head(timerlist)] <= due[Head(timerlist')]
PROOF
  <1>0. timerlist \in Seq(Timers) /\ IsInjective(timerlist)
    BY LInvFacts
  <1>1. timerlist' = Without(timerlist, ts)
    BY DEF Deleted
  <1>2. /\ Without(timerlist, ts) \in Seq(Timers) /\ IsInjective(Without(timerlist, ts))
        /\ Range(Without(timerlist, ts)) = Range(timerlist) \ ts
    BY <1>0, WithoutFacts, Zenon
  <1>3. InOrder(Without(timerlist, ts), due)
    <2>1. /\ due \in [Timers -> Int]
          /\ \A i, j \in DOMAIN timerlist :
               i < j /\ timerlist[i] \notin ts /\ timerlist[j] \notin ts
                 => due[timerlist[i]] <= due[timerlist[j]]
      BY LInvFacts DEF InOrder
    <2> QED BY <1>0, <2>1, LeftInOrder, Zenon
  <1>4. CoreTimers \subseteq Range(timerlist')
    BY <1>1, <1>2, LInvFacts
  <1>5. due[Head(timerlist)] <= due[Head(timerlist')]
    <2>1. PICK t \in Timers : t \in CoreTimers
      BY LInvFacts
    <2>2. Head(timerlist') \in Range(timerlist')
      BY <1>1, <1>2, <1>4, <2>1, HeadFacts
    <2>3. Head(timerlist') \in Range(timerlist)
      BY <1>1, <1>2, <2>2
    <2> QED BY <2>3, LInvFacts, HeadFacts
  <1> QED BY <1>1, <1>2, <1>3, <1>4, <1>5

\* What TimerCalcNextRun leaves: the list in order, with the timer in it, and a
\* wake-up in time.
LEMMA CalcFacts ==
  ASSUME LInv, NEW t \in Timers, NEW i \in Intervals, NEW a \in 0 .. Cap,
         TimerCalcNextRun(t, a, i)
  PROVE  /\ timerlist' \in Seq(Timers) /\ IsInjective(timerlist')
         /\ Range(timerlist') = Range(timerlist) \cup {t}
         /\ InOrder(timerlist', due')
         /\ due' \in [Timers -> -MaxLate .. MaxInterval]
         /\ interval' \in [Timers -> Intervals]
         /\ age' \in [Timers -> 0 .. Cap]
         /\ armed' \in Idle .. Most(MaxInterval, RetryDelay)
         /\ armed' <= Most(RetryDelay, due'[Head(timerlist')])
PROOF
  <1> DEFINE d == [due EXCEPT ![t] = Most(i - a, -MaxLate)]
  <1>0. /\ MaxLate \in Nat /\ MaxInterval \in Nat /\ Cap \in Nat
        /\ i \in Nat /\ i <= MaxInterval
    BY ConstantFacts, MaxIntervalFacts DEF LInv
  <1>1. /\ due' = d /\ timerlist' = Insert(timerlist, t, d)
        /\ age' = [age EXCEPT ![t] = a] /\ interval' = [interval EXCEPT ![t] = i]
        /\ armed' = IF timerlist = <<>> THEN armed ELSE NextSchedule(timerlist', d)
    BY DEF TimerCalcNextRun
  <1>2. d \in [Timers -> -MaxLate .. MaxInterval] /\ d \in [Timers -> Int]
        /\ \A u \in Timers : u # t => d[u] = due[u]
    <2>1. Most(i - a, -MaxLate) \in -MaxLate .. MaxInterval
      BY <1>0 DEF Most
    <2>2. due \in [Timers -> -MaxLate .. MaxInterval]
      BY LInvFacts
    <2>3. d \in [Timers -> -MaxLate .. MaxInterval]
      BY <2>1, <2>2
    <2> QED BY <1>0, <2>2, <2>3
  <1>3. interval' \in [Timers -> Intervals] /\ age' \in [Timers -> 0 .. Cap]
    BY <1>1 DEF LInv, TimersTypeOK, Cap
  <1>h. HIDE DEF d
  <1>4. timerlist \in Seq(Timers) /\ IsInjective(timerlist) /\ timerlist # <<>>
    BY LInvFacts
  <1>5. \A k, l \in DOMAIN timerlist :
          k < l /\ timerlist[k] # t /\ timerlist[l] # t => d[timerlist[k]] <= d[timerlist[l]]
    <2>1. \A k \in DOMAIN timerlist : timerlist[k] \in Timers
      BY <1>4, LenProperties, ElementOfSeq
    <2> QED BY <2>1, <1>2, LInvFacts DEF InOrder
  <1>6. /\ timerlist' \in Seq(Timers) /\ IsInjective(timerlist')
        /\ Range(timerlist') = Range(timerlist) \cup {t}
        /\ InOrder(timerlist', d)
    BY <1>1, <1>2, <1>4, <1>5, InsertFacts
  <1>7. /\ armed' \in Idle .. Most(MaxInterval, RetryDelay)
        /\ armed' <= Most(RetryDelay, d[Head(timerlist')])
    BY <1>0, <1>1, <1>2, <1>4, <1>6, ScheduleFacts
  <1> QED BY <1>1, <1>2, <1>3, <1>6, <1>7

\* The parts of the invariant, as the steps establish them.
LEMMA LInvNext ==
  ASSUME LInv, timerlist' \in Seq(Timers), IsInjective(timerlist'),
         InOrder(timerlist', due'), CoreTimers \subseteq Range(timerlist'),
         interval' \in [Timers -> Intervals], due' \in [Timers -> -MaxLate .. MaxInterval],
         age' \in [Timers -> 0 .. Cap], since' \in [Timers -> 0 .. Cap],
         armed' \in Idle .. Most(MaxInterval, RetryDelay),
         armed' # Idle => armed' <= Most(RetryDelay, due'[Head(timerlist')]),
         synched' \subseteq loaded', loaded' \subseteq Modules,
         \A t \in Range(timerlist') : Owner[t] \in loaded'
  PROVE  LInv'
PROOF
  <1>1. /\ MaxInterval' = MaxInterval /\ CoreTimers' = CoreTimers
        /\ Listed' = Range(timerlist')
    BY ListedIsRange, TimersAssumption DEF LInv, MaxInterval, CoreTimers
  <1>2. TimersTypeOK'
    BY <1>1, Zenon DEF TimersTypeOK, Cap, Idle, Most
  <1>3. Sorted'
    BY DEF Sorted, InOrder
  <1>4. NeverSleepsOver'
    BY DEF NeverSleepsOver, Most, Idle
  <1> QED BY <1>1, <1>2, <1>3, <1>4 DEF LInv

\* A step that neither lists nor deletes a timer, lets no time pass and does
\* not set the timeout, or stops it.
LEMMA UntouchedFacts ==
  ASSUME LInv, UNCHANGED <<timerlist, interval, due, since>>,
         age' \in [Timers -> 0 .. Cap], armed' = armed \/ armed' = Idle,
         synched' \subseteq loaded', loaded \subseteq loaded', loaded' \subseteq Modules
  PROVE  LInv'
PROOF
  <1>1. /\ interval \in [Timers -> Intervals] /\ due \in [Timers -> -MaxLate .. MaxInterval]
        /\ since \in [Timers -> 0 .. Cap] /\ armed \in Idle .. Most(MaxInterval, RetryDelay)
        /\ \A t \in Range(timerlist) : Owner[t] \in loaded
    BY ListedIsRange DEF LInv, TimersTypeOK, Cap
  <1>2. armed # Idle => armed <= Most(RetryDelay, due[Head(timerlist)])
    BY LInvFacts DEF LInv, NeverSleepsOver
  <1>3. armed' \in Idle .. Most(MaxInterval, RetryDelay)
    <2>1. Idle \in Idle .. Most(MaxInterval, RetryDelay)
      BY ConstantFacts, TimersAssumption DEF LInv, Idle, Most
    <2> QED BY <1>1, <2>1
  <1>4. armed' # Idle => armed' <= Most(RetryDelay, due'[Head(timerlist')])
    BY <1>2
  <1>5. /\ timerlist' \in Seq(Timers) /\ IsInjective(timerlist')
        /\ InOrder(timerlist', due') /\ CoreTimers \subseteq Range(timerlist')
    BY LInvFacts
  <1> QED BY <1>1, <1>3, <1>4, <1>5, LInvNext

\* Timers of loadable modules go, and the timeout stays or is set anew.
LEMMA DeletedKeeps ==
  ASSUME LInv, NEW ts, ts \cap CoreTimers = {}, Deleted(ts),
         UNCHANGED <<interval, due, age, since>>,
         armed' = armed \/ armed' = NextSchedule(timerlist', due),
         synched' \subseteq loaded', loaded' \subseteq Modules,
         \A t \in Range(timerlist) \ ts : Owner[t] \in loaded'
  PROVE  LInv'
PROOF
  <1>1. /\ interval \in [Timers -> Intervals] /\ due \in [Timers -> -MaxLate .. MaxInterval]
        /\ age \in [Timers -> 0 .. Cap] /\ since \in [Timers -> 0 .. Cap]
        /\ armed \in Idle .. Most(MaxInterval, RetryDelay)
    BY DEF LInv, TimersTypeOK, Cap
  <1>2. /\ timerlist' \in Seq(Timers) /\ IsInjective(timerlist')
        /\ Range(timerlist') = Range(timerlist) \ ts
        /\ CoreTimers \subseteq Range(timerlist')
        /\ InOrder(timerlist', due)
        /\ due[Head(timerlist)] <= due[Head(timerlist')]
    BY DeletedFacts, Zenon
  <1>3. PICK t \in Timers : t \in Range(timerlist')
    BY <1>2, LInvFacts
  <1>4. CASE armed' = armed
    <2>1. armed # Idle => armed <= Most(RetryDelay, due[Head(timerlist)])
      BY LInvFacts DEF LInv, NeverSleepsOver
    <2>2. /\ due[Head(timerlist)] \in Int /\ due[Head(timerlist')] \in Int
          /\ RetryDelay \in Nat /\ armed \in Int
      <3>1. Head(timerlist') \in Timers /\ Head(timerlist) \in Timers
        BY <1>2, <1>3, HeadFacts, LInvFacts
      <3>2. MaxInterval \in Nat /\ RetryDelay \in Nat /\ armed \in Int
        BY <1>1, ConstantFacts, TimersAssumption DEF LInv, Idle, Most
      <3> QED BY <3>1, <3>2, LInvFacts
    <2>3. armed # Idle => armed <= Most(RetryDelay, due[Head(timerlist')])
      BY <1>2, <2>1, <2>2 DEF Most
    <2> QED BY <1>1, <1>2, <1>4, <2>3, LInvNext
  <1>5. CASE armed' = NextSchedule(timerlist', due)
    <2>1. /\ NextSchedule(timerlist', due) \in Idle .. Most(MaxInterval, RetryDelay)
          /\ NextSchedule(timerlist', due) <= Most(RetryDelay, due[Head(timerlist')])
      BY <1>1, <1>2, <1>3, ScheduleFacts DEF LInv
    <2> QED BY <1>1, <1>2, <1>5, <2>1, LInvNext
  <1> QED BY <1>4, <1>5

\* TimerCalcNextRun of a timer of a loaded module.
LEMMA CalcKeepsOrder ==
  ASSUME LInv, NEW t \in Timers, NEW i \in Intervals, NEW a \in 0 .. Cap,
         TimerCalcNextRun(t, a, i), Owner[t] \in loaded,
         since' \in [Timers -> 0 .. Cap], UNCHANGED <<loaded, synched>>
  PROVE  LInv'
PROOF
  <1>1. /\ timerlist' \in Seq(Timers) /\ IsInjective(timerlist')
        /\ Range(timerlist') = Range(timerlist) \cup {t}
        /\ InOrder(timerlist', due')
        /\ due' \in [Timers -> -MaxLate .. MaxInterval]
        /\ interval' \in [Timers -> Intervals]
        /\ age' \in [Timers -> 0 .. Cap]
        /\ armed' \in Idle .. Most(MaxInterval, RetryDelay)
        /\ armed' <= Most(RetryDelay, due'[Head(timerlist')])
    BY CalcFacts
  <1>2. /\ synched \subseteq loaded /\ loaded \subseteq Modules
        /\ \A u \in Range(timerlist) : Owner[u] \in loaded
    BY ListedIsRange DEF LInv, TimersTypeOK
  <1>3. CoreTimers \subseteq Range(timerlist')
    BY <1>1, LInvFacts
  <1>4. \A u \in Range(timerlist') : Owner[u] \in loaded'
    BY <1>1, <1>2
  <1> QED BY <1>1, <1>2, <1>3, <1>4, LInvNext

\* Time passes for all timers and for the timeout alike.
LEMMA TickKeepsOrder ==
  ASSUME LInv, Tick
  PROVE  LInv'
PROOF
  <1>0. /\ MaxLate \in Nat /\ MaxInterval \in Nat /\ Cap \in Nat /\ RetryDelay \in Nat
        /\ Cap = MaxInterval + MaxLate
    BY ConstantFacts, TimersAssumption DEF LInv, Cap
  <1>1. /\ interval \in [Timers -> Intervals] /\ due \in [Timers -> -MaxLate .. MaxInterval]
        /\ age \in [Timers -> 0 .. Cap] /\ since \in [Timers -> 0 .. Cap]
        /\ armed \in Idle .. Most(MaxInterval, RetryDelay)
        /\ synched \subseteq loaded /\ loaded \subseteq Modules
        /\ \A t \in Range(timerlist) : Owner[t] \in loaded
    BY ListedIsRange DEF LInv, TimersTypeOK, Cap
  <1>2. /\ due' = [t \in Timers |-> Most(due[t] - 1, -MaxLate)]
        /\ age' = [t \in Timers |-> Least(age[t] + 1, Cap)]
        /\ since' = [t \in Timers |-> Least(since[t] + 1, Cap)]
        /\ armed' = IF armed > 0 THEN armed - 1 ELSE armed
        /\ UNCHANGED <<timerlist, interval, loaded, synched>>
    BY DEF Tick, Cap
  <1>3. \A t \in Timers : due[t] \in -MaxLate .. MaxInterval /\ due'[t] = Most(due[t] - 1, -MaxLate)
    BY <1>1, <1>2
  <1>4. due' \in [Timers -> -MaxLate .. MaxInterval]
    <2>1. ASSUME NEW t \in Timers PROVE Most(due[t] - 1, -MaxLate) \in -MaxLate .. MaxInterval
      BY <1>0, <1>3 DEF Most
    <2> QED BY <2>1, <1>2
  <1>5. age' \in [Timers -> 0 .. Cap] /\ since' \in [Timers -> 0 .. Cap]
    <2>1. ASSUME NEW n \in 0 .. Cap PROVE Least(n + 1, Cap) \in 0 .. Cap
      BY <1>0 DEF Least
    <2> QED BY <2>1, <1>1, <1>2
  <1>6. timerlist' \in Seq(Timers) /\ IsInjective(timerlist') /\ CoreTimers \subseteq Range(timerlist')
    BY <1>2, LInvFacts
  <1>7. InOrder(timerlist', due')
    <2> SUFFICES ASSUME NEW i \in DOMAIN timerlist, NEW j \in DOMAIN timerlist, i < j
                 PROVE  due'[timerlist[i]] <= due'[timerlist[j]]
      BY <1>2 DEF InOrder
    <2>1. timerlist[i] \in Timers /\ timerlist[j] \in Timers
      BY LInvFacts, LenProperties, ElementOfSeq
    <2>2. due[timerlist[i]] <= due[timerlist[j]]
      BY LInvFacts DEF InOrder
    <2> QED BY <1>0, <1>3, <2>1, <2>2 DEF Most
  <1>8. armed' \in Idle .. Most(MaxInterval, RetryDelay)
    BY <1>0, <1>1, <1>2 DEF Idle, Most
  <1>9. armed' # Idle => armed' <= Most(RetryDelay, due'[Head(timerlist')])
    <2> DEFINE h == Head(timerlist)
    <2>1. h \in Timers /\ Head(timerlist') = h
      BY <1>2, LInvFacts
    <2>2. armed # Idle => armed <= Most(RetryDelay, due[h])
      BY LInvFacts DEF LInv, NeverSleepsOver
    <2>3. due[h] \in -MaxLate .. MaxInterval /\ due'[h] = Most(due[h] - 1, -MaxLate)
      BY <1>3, <2>1
    <2>4. armed \in Int
      BY <1>0, <1>1 DEF Idle, Most
    <2>h. HIDE DEF h
    <2> QED BY <1>0, <1>2, <2>1, <2>2, <2>3, <2>4 DEF Idle, Most
  <1> QED BY <1>1, <1>2, <1>4, <1>5, <1>6, <1>7, <1>8, <1>9, LInvNext

\* InitTimers: the core's timers, all of them, in the order of their intervals.
LEMMA LInit ==
  ASSUME TimersInit
  PROVE  LInv
PROOF
  <1>0. /\ MaxLate \in Nat /\ MaxInterval \in Nat /\ Cap \in Nat /\ RetryDelay \in Nat
        /\ Cap = MaxInterval + MaxLate
        /\ \A i \in Intervals : i \in Nat /\ i <= MaxInterval
    BY ConstantFacts, MaxIntervalFacts, TimersAssumption DEF Cap
  <1>1. /\ interval \in [Timers -> Intervals] /\ due = interval
        /\ age = [t \in Timers |-> 0] /\ since = [t \in Timers |-> 0]
        /\ armed = NextSchedule(timerlist, due)
        /\ loaded = {NsModule} /\ synched = {}
    BY DEF TimersInit
  <1>2. /\ timerlist \in [1 .. Cardinality(CoreTimers) -> CoreTimers]
        /\ IsInjective(timerlist)
        /\ \A i, j \in DOMAIN timerlist : i < j => interval[timerlist[i]] <= interval[timerlist[j]]
    BY DEF TimersInit
  <1>3. IsFiniteSet(CoreTimers) /\ Cardinality(CoreTimers) \in Nat
    BY FS_Subset, FS_CardinalityType, TimersAssumption DEF CoreTimers
  <1>4. timerlist \in Seq(CoreTimers) /\ Len(timerlist) = Cardinality(CoreTimers)
    BY <1>2, <1>3
  <1>5. Range(timerlist) = CoreTimers
    <2>1. Cardinality(Range(timerlist)) = Cardinality(CoreTimers)
      BY <1>2, <1>4, LenIsCardinality
    <2>2. Range(timerlist) \in SUBSET CoreTimers
      BY <1>2 DEF Range
    <2> QED BY <1>3, <2>1, <2>2, FS_Subset
  <1>6. timerlist \in Seq(Timers)
    BY <1>4 DEF CoreTimers
  <1>7. due \in [Timers -> -MaxLate .. MaxInterval]
    <2>1. ASSUME NEW t \in Timers PROVE interval[t] \in -MaxLate .. MaxInterval
      <3>1. interval[t] \in Intervals
        BY <1>1
      <3> QED BY <3>1, <1>0
    <2> QED BY <2>1, <1>1
  <1>8. PICK t \in Timers : t \in Range(timerlist)
    BY <1>5, TimersAssumption DEF CoreTimers
  <1>9. /\ armed \in Idle .. Most(MaxInterval, RetryDelay)
        /\ armed <= Most(RetryDelay, due[Head(timerlist)])
    BY <1>1, <1>6, <1>7, <1>8, ScheduleFacts
  <1>10. TimersTypeOK
    <2>1. age \in [Timers -> 0 .. Cap] /\ since \in [Timers -> 0 .. Cap]
      BY <1>0, <1>1
    <2>2. synched \subseteq loaded /\ loaded \subseteq Modules
      BY <1>1, TimersAssumption
    <2>3. \A u \in Listed : Owner[u] \in loaded
      BY <1>1, <1>5, ListedIsRange DEF CoreTimers
    <2> QED BY <1>1, <1>2, <1>6, <1>7, <1>9, <2>1, <2>2, <2>3, Zenon DEF TimersTypeOK, Cap
  <1>11. Sorted
    BY <1>1, <1>2 DEF Sorted
  <1>12. NeverSleepsOver
    BY <1>9 DEF NeverSleepsOver
  <1> QED BY <1>5, <1>10, <1>11, <1>12, ListedIsRange DEF LInv

\* CheckTimers_cb, exit by exit: the first timer of the list is the one it
\* looks at.
LEMMA CheckTimersKeepsOrder ==
  ASSUME LInv, CheckTimers
  PROVE  LInv'
PROOF
  <1> DEFINE h == Head(timerlist)
  <1>0. /\ h \in Timers /\ h \in Range(timerlist)
        /\ interval \in [Timers -> Intervals]
        /\ age \in [Timers -> 0 .. Cap] /\ since \in [Timers -> 0 .. Cap]
        /\ synched \subseteq loaded /\ loaded \subseteq Modules
        /\ \A t \in Range(timerlist) : Owner[t] \in loaded
        /\ 0 \in 0 .. Cap
    <2>1. h \in Timers /\ h \in Range(timerlist)
      BY LInvFacts
    <2> QED BY <2>1, ListedIsRange, ConstantFacts DEF LInv, TimersTypeOK, Cap
  <1>1. WakeUnsynched(h) \/ WakeEarly(h) \/ RunTimer(h) \/ RunLast(h) \/ RunCrash(h)
    BY DEF CheckTimers
  <1>h. HIDE DEF h
  <1>2. CASE WakeUnsynched(h)
    <2>1. age' \in [Timers -> 0 .. Cap]
      BY <1>0, <1>2 DEF WakeUnsynched
    <2> QED BY <1>0, <1>2, <2>1, UntouchedFacts DEF WakeUnsynched
  <1>3. CASE WakeEarly(h)
    BY <1>0, <1>3, UntouchedFacts DEF WakeEarly
  <1>4. CASE RunTimer(h)
    <2>1. PICK i \in (IF h \in Adjusting THEN Intervals ELSE {interval[h]}) :
            TimerCalcNextRun(h, 0, i)
      BY <1>4 DEF RunTimer
    <2>2. i \in Intervals
      BY <1>0, <2>1
    <2>3. since' \in [Timers -> 0 .. Cap] /\ UNCHANGED <<loaded, synched>>
      BY <1>0, <1>4 DEF RunTimer
    <2> QED BY <1>0, <2>1, <2>2, <2>3, CalcKeepsOrder
  <1>5. CASE RunLast(h)
    <2>1. /\ {h} \cap CoreTimers = {} /\ Deleted({h})
          /\ UNCHANGED <<interval, due, age, since, loaded, synched>>
          /\ armed' = NextSchedule(timerlist', due)
      BY <1>5 DEF RunLast
    <2> QED BY <1>0, <2>1, DeletedKeeps
  <1>6. CASE RunCrash(h)
    <2> DEFINE ts == {t \in Timers : Owner[t] = Owner[h]}
    <2>1. /\ ts \cap CoreTimers = {} /\ Deleted(ts)
          /\ loaded' = loaded \ {Owner[h]} /\ synched' = synched \ {Owner[h]}
          /\ UNCHANGED <<interval, due, age, since>>
          /\ armed' = NextSchedule(timerlist', due)
      BY <1>0, <1>6 DEF RunCrash, ModuleGone, CoreTimers
    <2>2. \A t \in Range(timerlist) \ ts : Owner[t] \in loaded'
      <3>1. \A t \in Range(timerlist) : t \in Timers
        BY LInvFacts, LenProperties, ElementOfSeq DEF Range
      <3> QED BY <1>0, <2>1, <3>1
    <2>h. HIDE DEF ts
    <2> QED BY <1>0, <2>1, <2>2, DeletedKeeps
  <1> QED BY <1>1, <1>2, <1>3, <1>4, <1>5, <1>6

\* The invariant is inductive.
LEMMA LStep ==
  ASSUME LInv, [TimersNext]_timervars
  PROVE  LInv'
PROOF
  <1>0. /\ interval \in [Timers -> Intervals]
        /\ age \in [Timers -> 0 .. Cap] /\ since \in [Timers -> 0 .. Cap]
        /\ synched \subseteq loaded /\ loaded \subseteq Modules
        /\ \A t \in Range(timerlist) : t \in Timers /\ Owner[t] \in loaded
        /\ 0 \in 0 .. Cap
    <2>1. \A t \in Range(timerlist) : t \in Timers
      BY LInvFacts, LenProperties, ElementOfSeq DEF Range
    <2> QED BY <2>1, ListedIsRange, ConstantFacts DEF LInv, TimersTypeOK, Cap
  <1>1. ASSUME NEW t \in Timers, AddTimer(t) PROVE LInv'
    <2>1. PICK i \in Intervals : TimerCalcNextRun(t, 0, i)
      BY <1>1 DEF AddTimer
    <2>2. /\ Owner[t] \in loaded /\ UNCHANGED <<loaded, synched>>
          /\ since' \in [Timers -> 0 .. Cap]
      BY <1>0, <1>1 DEF AddTimer
    <2> QED BY <1>0, <2>1, <2>2, CalcKeepsOrder
  <1>2. ASSUME NEW t \in Timers, DelTimer(t) PROVE LInv'
    <2>1. /\ {t} \cap CoreTimers = {} /\ Deleted({t})
          /\ UNCHANGED <<interval, due, age, since, armed, loaded, synched>>
      BY <1>2 DEF DelTimer
    <2> QED BY <1>0, <2>1, DeletedKeeps
  <1>3. ASSUME NEW t \in Timers, SetTimerInterval(t) PROVE LInv'
    <2>1. PICK i \in Intervals : TimerCalcNextRun(t, age[t], i)
      BY <1>3 DEF SetTimerInterval
    <2>2. /\ Owner[t] \in loaded /\ UNCHANGED <<loaded, synched, since>>
          /\ age[t] \in 0 .. Cap
      BY <1>0, <1>3, ListedIsRange DEF SetTimerInterval
    <2> QED BY <1>0, <2>1, <2>2, CalcKeepsOrder
  <1>4. ASSUME NEW m \in Modules, LoadModule(m) PROVE LInv'
    <2>1. /\ UNCHANGED <<timerlist, interval, due, age, since, armed>>
          /\ synched' \subseteq loaded' /\ loaded \subseteq loaded' /\ loaded' \subseteq Modules
      BY <1>0, <1>4 DEF LoadModule
    <2> QED BY <1>0, <2>1, UntouchedFacts
  <1>5. ASSUME NEW m \in Modules, UnloadModule(m) PROVE LInv'
    <2> DEFINE ts == {t \in Timers : Owner[t] = m}
    <2>1. /\ ts \cap CoreTimers = {} /\ Deleted(ts)
          /\ loaded' = loaded \ {m} /\ synched' = synched \ {m}
          /\ UNCHANGED <<interval, due, age, since, armed>>
      BY <1>5 DEF UnloadModule, ModuleGone, CoreTimers
    <2>2. \A t \in Range(timerlist) \ ts : Owner[t] \in loaded'
      BY <1>0, <2>1
    <2>h. HIDE DEF ts
    <2> QED BY <1>0, <2>1, <2>2, DeletedKeeps
  <1>6. ASSUME SynchAllModules PROVE LInv'
    <2>1. /\ UNCHANGED <<timerlist, interval, due, age, since, armed, loaded>>
          /\ synched' = loaded
      BY <1>6 DEF SynchAllModules
    <2> QED BY <1>0, <2>1, UntouchedFacts
  <1>7. CASE UNCHANGED timervars
    BY <1>0, <1>7, UntouchedFacts DEF timervars
  <1> QED BY <1>1, <1>2, <1>3, <1>4, <1>5, <1>6, <1>7,
             CheckTimersKeepsOrder, TickKeepsOrder DEF TimersNext

LEMMA LInvariant == TimersSpec => []LInv
PROOF
  <1>1. TimersInit => LInv
    BY LInit
  <1>2. LInv /\ [TimersNext]_timervars => LInv'
    BY LStep
  <1> QED BY <1>1, <1>2, PTL DEF TimersSpec

\* The timers, their clocks and the timeout have their types, and every listed
\* timer belongs to a loaded module (unload_module, RunTimer's crash).
THEOREM TimersTyped == TimersSpec => []TimersTypeOK
PROOF
  BY LInvariant, PTL DEF LInv

\* Whatever is added, changed, deleted or run, the first timer of the list is
\* the next to run, and the core's are always in it (TimerCalcNextRun).
THEOREM ListStaysSorted == TimersSpec => [](Sorted /\ CoreTimers \subseteq Listed)
PROOF
  BY LInvariant, PTL DEF LInv

\* A wake-up that is pending comes no later than the first timer is due, or the
\* retry delay, however timers come and go in between (NextSchedule).
THEOREM NoPendingWakeUpIsLate == TimersSpec => []NeverSleepsOver
PROOF
  BY LInvariant, PTL DEF LInv

-----------------------------------------------------------------------------
(***************************************************************************)
(* LineMode, for every alphabet, every RECVQ of at least two reads and      *)
(* every stream.  The reader is followed character by character: what the   *)
(* loop of linemode_read has after n characters of a read is a recursive     *)
(* function, of which only the existence has to be shown.                   *)
(***************************************************************************)

Ch == Chars \cup Newlines
Line == Seq(Chars) \ {<<>>}
Reader == [buf : Seq(Chars), lines : Seq(Line)]

LEMMA ReceiveType ==
  ASSUME NEW s \in Reader, NEW ch \in Ch
  PROVE  /\ Receive(s, ch) \in Reader
         /\ ch \in Newlines /\ s.buf = <<>> => Receive(s, ch) = s
         /\ ch \in Newlines /\ s.buf # <<>> =>
              Receive(s, ch).buf = <<>> /\ Receive(s, ch).lines = Append(s.lines, s.buf)
         /\ ch \notin Newlines =>
              Receive(s, ch).buf = Append(s.buf, ch) /\ Receive(s, ch).lines = s.lines
PROOF
  <1>1. CASE ch \in Newlines /\ s.buf = <<>>
    BY <1>1 DEF Receive
  <1>2. CASE ch \in Newlines /\ s.buf # <<>>
    <2>1. Receive(s, ch) = [buf |-> <<>>, lines |-> Append(s.lines, s.buf)]
      BY <1>2 DEF Receive
    <2>2. s.buf \in Line /\ s.lines \in Seq(Line)
      BY <1>2 DEF Reader, Line
    <2>3. Append(s.lines, s.buf) \in Seq(Line)
      BY <2>2, AppendProperties
    <2> QED BY <1>2, <2>1, <2>3 DEF Reader
  <1>3. CASE ch \notin Newlines
    <2>1. ch \in Chars
      BY <1>3 DEF Ch
    <2>2. Append(s.buf, ch) \in Seq(Chars)
      BY <2>1, AppendProperties DEF Reader
    <2>3. Receive(s, ch) = [s EXCEPT !.buf = Append(@, ch)]
      BY <1>3 DEF Receive
    <2> QED BY <1>3, <2>2, <2>3 DEF Reader
  <1> QED BY <1>1, <1>2, <1>3

\* f follows the loop from s on over the first n characters of read.
Follows(f, s, read, n) ==
  /\ DOMAIN f = 0 .. n /\ f[0] = s
  /\ \A k \in 1 .. n : f[k] = Receive(f[k - 1], read[k])

LEMMA FollowerExists ==
  ASSUME NEW s, NEW read, NEW m \in Nat
  PROVE  \E f : f = [k \in 0 .. m |-> f[k]] /\ Follows(f, s, read, m)
PROOF
  <1> DEFINE Bad == {n \in Nat : ~\E f : f = [k \in 0 .. n |-> f[k]] /\ Follows(f, s, read, n)}
  <1> SUFFICES Bad = {}
    OBVIOUS
  <1> SUFFICES ASSUME Bad # {} PROVE FALSE
    OBVIOUS
  <1>1. PICK n \in Bad : \A k \in Bad : n <= k
    <2>1. Bad \in SUBSET Nat
      OBVIOUS
    <2> HIDE DEF Bad
    <2> QED BY <2>1, LeastNumber
  <1>2. n # 0
    <2> SUFFICES \E f : f = [k \in 0 .. 0 |-> f[k]] /\ Follows(f, s, read, 0)
      OBVIOUS
    <2> DEFINE f == [k \in 0 .. 0 |-> s]
    <2>1. f = [k \in 0 .. 0 |-> f[k]] /\ Follows(f, s, read, 0)
      BY DEF Follows
    <2> QED BY <2>1
  <1>3. n - 1 \in Nat /\ n - 1 \notin Bad
    <2>1. n \in Nat
      OBVIOUS
    <2> HIDE DEF Bad
    <2> QED BY <1>1, <1>2, <2>1
  <1>4. PICK g : Follows(g, s, read, n - 1)
    BY <1>3
  <1> DEFINE f == [k \in 0 .. n |-> IF k = n THEN Receive(g[n - 1], read[n]) ELSE g[k]]
  <1>5. f = [k \in 0 .. n |-> f[k]]
    OBVIOUS
  <1>6. Follows(f, s, read, n)
    <2>1. DOMAIN f = 0 .. n /\ f[0] = s
      BY <1>2, <1>3, <1>4 DEF Follows
    <2>2. ASSUME NEW k \in 1 .. n PROVE f[k] = Receive(f[k - 1], read[k])
      <3>1. CASE k = n
        BY <3>1, <1>3
      <3>2. CASE k # n
        <4>1. k \in 1 .. n - 1
          BY <3>2, <1>3
        <4> QED BY <4>1, <1>3, <1>4 DEF Follows
      <3> QED BY <3>1, <3>2
    <2> HIDE DEF f
    <2> QED BY <2>1, <2>2 DEF Follows
  <1> HIDE DEF f
  <1> QED BY <1>5, <1>6

LEMMA ReceivedFollows ==
  ASSUME NEW s, NEW read \in Seq(Ch)
  PROVE  \E f : Follows(f, s, read, Len(read)) /\ Received(s, read) = f[Len(read)]
PROOF
  <1> DEFINE m == Len(read)
             after == CHOOSE f : f = [n \in 0 .. m |->
                                        IF n = 0 THEN s ELSE Receive(f[n - 1], read[n])]
  <1>1. m \in Nat
    BY LenProperties
  <1>2. PICK g : g = [k \in 0 .. m |-> g[k]] /\ Follows(g, s, read, m)
    BY <1>1, FollowerExists
  <1>3. g = [n \in 0 .. m |-> IF n = 0 THEN s ELSE Receive(g[n - 1], read[n])]
    <2>1. ASSUME NEW n \in 0 .. m
          PROVE  g[n] = IF n = 0 THEN s ELSE Receive(g[n - 1], read[n])
      BY <1>1, <1>2 DEF Follows
    <2> HIDE DEF m
    <2> QED BY <1>2, <2>1
  <1>4. after = [n \in 0 .. m |-> IF n = 0 THEN s ELSE Receive(after[n - 1], read[n])]
    BY <1>3
  <1>5. Received(s, read) = after[m]
    BY DEF Received
  <1> HIDE DEF after
  <1>6. Follows(after, s, read, m)
    BY <1>1, <1>4 DEF Follows
  <1> QED BY <1>5, <1>6
-----------------------------------------------------------------------------
(* The lines of a stream, and of one with a character more. *)

\* The line that begins at i, or what there is of it, goes up to j.
Ends(s, i, j) ==
  /\ j \in i .. Len(s)
  /\ \A k \in i .. j : s[k] \in Chars
  /\ j < Len(s) => s[j + 1] \in Newlines

LEMMA Disjoint == Chars \cap Newlines = {}
PROOF
  BY LineModeAssumption

\* A line has one end.
LEMMA OneEnd ==
  ASSUME NEW s \in Seq(Ch), NEW i \in DOMAIN s, NEW j, NEW k, Ends(s, i, j), Ends(s, i, k)
  PROVE  j = k
PROOF
  <1>1. Len(s) \in Nat /\ DOMAIN s = 1 .. Len(s)
    BY LenProperties
  <1>2. i \in Nat /\ j \in i .. Len(s) /\ k \in i .. Len(s) /\ j \in Int /\ k \in Int
    BY <1>1 DEF Ends
  <1>3. ASSUME NEW a, NEW c, Ends(s, i, a), Ends(s, i, c), a < c PROVE FALSE
    <2>1. a + 1 \in i .. c /\ a < Len(s)
      BY <1>1, <1>2, <1>3 DEF Ends
    <2>2. s[a + 1] \in Chars /\ s[a + 1] \in Newlines
      BY <2>1, <1>3 DEF Ends
    <2> QED BY <2>2, Disjoint
  <1>4. ~(j < k) /\ ~(k < j)
    BY <1>3
  <1> QED BY <1>2, <1>4

\* Where a line begins it also ends.
LEMMA EndFacts ==
  ASSUME NEW s \in Seq(Ch), NEW i \in DOMAIN s, s[i] \in Chars
  PROVE  Ends(s, i, EndOf(s, i))
PROOF
  <1>1. Len(s) \in Nat /\ DOMAIN s = 1 .. Len(s) /\ i \in Nat /\ i >= 1
    BY LenProperties
  <1>2. \A k \in DOMAIN s : s[k] \in Ch
    BY <1>1, ElementOfSeq
  <1> DEFINE After == {k \in i .. Len(s) : s[k] \in Newlines}
  <1>3. \E j \in i .. Len(s) : Ends(s, i, j)
    <2>1. CASE After = {}
      <3>1. \A k \in i .. Len(s) : s[k] \in Chars
        BY <2>1, <1>1, <1>2 DEF Ch
      <3>2. Ends(s, i, Len(s))
        BY <3>1, <1>1 DEF Ends
      <3> QED BY <3>2, <1>1
    <2>2. CASE After # {}
      <3>1. After \subseteq Nat
        BY <1>1
      <3>2. PICK n \in After : \A k \in After : n <= k
        <4> HIDE DEF After
        <4> QED BY <2>2, <3>1, LeastNumber
      <3>3. n \in i .. Len(s) /\ s[n] \in Newlines /\ n # i
        BY Disjoint
      <3>4. \A k \in i .. n - 1 : s[k] \in Chars
        <4> SUFFICES ASSUME NEW k \in i .. n - 1 PROVE s[k] \in Chars
          OBVIOUS
        <4>1. k \in DOMAIN s /\ k \notin After
          BY <1>1, <3>2, <3>3
        <4> QED BY <4>1, <1>1, <1>2, <3>3 DEF Ch
      <3>5. n - 1 \in i .. Len(s) /\ (n - 1) + 1 = n
        BY <1>1, <3>3
      <3>6. Ends(s, i, n - 1)
        BY <3>3, <3>4, <3>5 DEF Ends
      <3> QED BY <3>5, <3>6
    <2> QED BY <2>1, <2>2
  <1> QED BY <1>3 DEF EndOf, Ends

LEMMA EndIs ==
  ASSUME NEW s \in Seq(Ch), NEW i \in DOMAIN s, NEW j, Ends(s, i, j)
  PROVE  EndOf(s, i) = j
PROOF
  <1>1. i \in i .. j
    BY LenProperties DEF Ends
  <1>2. s[i] \in Chars
    BY <1>1 DEF Ends
  <1> QED BY <1>2, EndFacts, OneEnd

\* p is the place of the last end of a line in s, or 0.
Cut(s, p) ==
  /\ p \in 0 .. Len(s)
  /\ \A k \in p + 1 .. Len(s) : s[k] \in Chars
  /\ p # 0 => s[p] \in Newlines

\* What begins and has no end begins after it.
LEMMA UnfinishedFacts ==
  ASSUME NEW s \in Seq(Ch), NEW p, Cut(s, p), NEW i \in DOMAIN s, Begins(s, i)
  PROVE  /\ EndOf(s, i) = Len(s) <=> i = p + 1
         /\ EndOf(s, i) < Len(s) <=> i < p + 1
         /\ EndOf(s, i) \in i .. Len(s)
PROOF
  <1>1. Len(s) \in Nat /\ DOMAIN s = 1 .. Len(s) /\ i \in Nat /\ i >= 1 /\ p \in Nat /\ p <= Len(s)
    BY LenProperties DEF Cut
  <1>2. Ends(s, i, EndOf(s, i))
    BY EndFacts DEF Begins
  <1>3. EndOf(s, i) \in i .. Len(s)
    BY <1>2 DEF Ends
  <1>4. i <= p + 1
    <2> SUFFICES ASSUME i > p + 1 PROVE FALSE
      BY <1>1
    <2>1. i - 1 \in p + 1 .. Len(s) /\ i > 1
      BY <1>1
    <2>2. s[i - 1] \in Chars /\ s[i - 1] \in Newlines
      BY <2>1 DEF Cut, Begins
    <2> QED BY <2>2, Disjoint
  <1>5. ASSUME i = p + 1 PROVE EndOf(s, i) = Len(s)
    <2>1. Ends(s, i, Len(s))
      BY <1>1, <1>5 DEF Ends, Cut
    <2> QED BY <2>1, EndIs
  <1>6. ASSUME EndOf(s, i) = Len(s), i < p + 1 PROVE FALSE
    <2>1. p \in i .. Len(s) /\ p # 0
      BY <1>1, <1>6
    <2>2. s[p] \in Chars /\ s[p] \in Newlines
      BY <2>1, <1>2, <1>6 DEF Ends, Cut
    <2> QED BY <2>2, Disjoint
  <1> QED BY <1>1, <1>3, <1>4, <1>5, <1>6

\* One character more.
LEMMA OneMore ==
  ASSUME NEW s \in Seq(Ch), NEW ch \in Ch
  PROVE  LET t == Append(s, ch)
         IN  /\ t \in Seq(Ch) /\ Len(t) = Len(s) + 1 /\ Len(s) \in Nat
             /\ DOMAIN s = 1 .. Len(s) /\ DOMAIN t = 1 .. Len(s) + 1
             /\ t[Len(s) + 1] = ch /\ \A i \in DOMAIN s : t[i] = s[i]
             /\ \A i \in DOMAIN s : Begins(t, i) <=> Begins(s, i)
             /\ \A i \in DOMAIN s : Begins(s, i) =>
                  EndOf(t, i) = IF EndOf(s, i) < Len(s) \/ ch \in Newlines
                                THEN EndOf(s, i) ELSE Len(s) + 1
PROOF
  <1> DEFINE t == Append(s, ch)
  <1>1. /\ t \in Seq(Ch) /\ Len(t) = Len(s) + 1 /\ Len(s) \in Nat
        /\ DOMAIN s = 1 .. Len(s) /\ DOMAIN t = 1 .. Len(s) + 1
        /\ t[Len(s) + 1] = ch /\ \A i \in 1 .. Len(s) : t[i] = s[i]
    BY AppendProperties, LenProperties
  <1> HIDE DEF t
  <1>2. ASSUME NEW i \in DOMAIN s PROVE Begins(t, i) <=> Begins(s, i)
    <2>1. i > 1 => i - 1 \in 1 .. Len(s)
      BY <1>1
    <2> QED BY <2>1, <1>1 DEF Begins
  <1>3. ASSUME NEW i \in DOMAIN s, Begins(s, i)
        PROVE  EndOf(t, i) = IF EndOf(s, i) < Len(s) \/ ch \in Newlines
                             THEN EndOf(s, i) ELSE Len(s) + 1
    <2> DEFINE e == EndOf(s, i)
    <2>1. Ends(s, i, e)
      BY <1>3, EndFacts DEF Begins
    <2> HIDE DEF e
    <2>2. i \in Nat /\ i >= 1 /\ e \in i .. Len(s) /\ i \in DOMAIN t
      BY <1>1, <2>1 DEF Ends
    <2>3. \A k \in i .. e : t[k] \in Chars
      BY <1>1, <2>1, <2>2 DEF Ends
    <2>4. CASE e < Len(s)
      <3>1. t[e + 1] = s[e + 1] /\ s[e + 1] \in Newlines
        BY <2>1, <2>2, <2>4, <1>1 DEF Ends
      <3>2. Ends(t, i, e)
        BY <3>1, <2>2, <2>3, <1>1 DEF Ends
      <3> QED BY <3>2, <2>2, <2>4, <1>1, EndIs DEF e
    <2>5. CASE e = Len(s) /\ ch \in Newlines
      <3>1. Ends(t, i, e)
        BY <2>2, <2>3, <2>5, <1>1 DEF Ends
      <3> QED BY <3>1, <2>2, <2>5, <1>1, EndIs DEF e
    <2>6. CASE e = Len(s) /\ ch \notin Newlines
      <3>1. \A k \in i .. Len(s) + 1 : t[k] \in Chars
        BY <2>2, <2>3, <2>6, <1>1 DEF Ch
      <3>2. Ends(t, i, Len(s) + 1)
        BY <3>1, <2>2, <1>1 DEF Ends
      <3>3. EndOf(t, i) = Len(s) + 1
        BY <3>2, <2>2, <1>1, EndIs
      <3> QED BY <3>3, <2>6, <1>1 DEF e
    <2> QED BY <2>2, <2>4, <2>5, <2>6
  <1> QED BY <1>1, <1>2, <1>3 DEF t
\* b is what s has after p.
Rest(s, p, b) == b = SubSeq(s, p + 1, Len(s))

\* The reader has b unfinished and has passed the lines ls on, of the stream s.
Split(s, b, ls) ==
  /\ \E p : Cut(s, p) /\ Rest(s, p, b)
  /\ Len(ls) = Cardinality(Finished(s))
  /\ \A i \in Finished(s) : ls[Number(s, i)] = LineAt(s, i)

LEMMA NumberFacts ==
  ASSUME NEW s \in Seq(Ch)
  PROVE  /\ IsFiniteSet(Finished(s)) /\ Cardinality(Finished(s)) \in Nat
         /\ \A i \in Finished(s) : Number(s, i) \in 1 .. Cardinality(Finished(s))
PROOF
  <1>1. Len(s) \in Nat /\ DOMAIN s = 1 .. Len(s)
    BY LenProperties
  <1>2. IsFiniteSet(Finished(s)) /\ Cardinality(Finished(s)) \in Nat
    <2>1. IsFiniteSet(1 .. Len(s)) /\ Finished(s) \subseteq 1 .. Len(s)
      BY <1>1, FS_Interval DEF Finished
    <2> QED BY <2>1, FS_Subset, FS_CardinalityType
  <1>3. ASSUME NEW i \in Finished(s) PROVE Number(s, i) \in 1 .. Cardinality(Finished(s))
    <2> DEFINE upto == {j \in Finished(s) : j <= i}
    <2>1. /\ IsFiniteSet(upto) /\ Cardinality(upto) \in Nat
          /\ Cardinality(upto) <= Cardinality(Finished(s))
      BY <1>2, FS_Subset, FS_CardinalityType
    <2>2. i \in upto
      BY <1>1 DEF Finished
    <2>3. Cardinality(upto) # 0
      <3> HIDE DEF upto
      <3> QED BY <2>1, <2>2, FS_EmptySet
    <2>4. Number(s, i) = Cardinality(upto)
      BY DEF Number
    <2> HIDE DEF upto
    <2> QED BY <1>2, <2>1, <2>3, <2>4
  <1> QED BY <1>2, <1>3

\* A finished line stays the same when the stream goes on.
LEMMA LineStays ==
  ASSUME NEW s \in Seq(Ch), NEW ch \in Ch, NEW i \in DOMAIN s, Begins(s, i),
         EndOf(Append(s, ch), i) = EndOf(s, i)
  PROVE  LineAt(Append(s, ch), i) = LineAt(s, i)
PROOF
  <1> DEFINE t == Append(s, ch)
             e == EndOf(s, i)
  <1>1. /\ Len(t) = Len(s) + 1 /\ Len(s) \in Nat /\ DOMAIN s = 1 .. Len(s)
        /\ \A k \in DOMAIN s : t[k] = s[k]
    BY OneMore
  <1>2. e \in i .. Len(s) /\ i \in Nat /\ i >= 1
    <2>1. Ends(s, i, e)
      BY EndFacts DEF Begins
    <2> QED BY <2>1, <1>1 DEF Ends
  <1> HIDE DEF t, e
  <1>3. SubSeq(t, i, e) = SubSeq(s, i, e)
    <2>1. SubSeq(t, i, e) = [k \in 1 .. e - i + 1 |-> t[i + k - 1]]
      BY <1>2
    <2>2. SubSeq(s, i, e) = [k \in 1 .. e - i + 1 |-> s[i + k - 1]]
      BY <1>2
    <2>3. \A k \in 1 .. e - i + 1 : t[i + k - 1] = s[i + k - 1]
      BY <1>1, <1>2
    <2> QED BY <2>1, <2>2, <2>3
  <1> QED BY <1>3 DEF LineAt, t, e

\* Split, when no line is finished by the next character.
LEMMA NothingFinished ==
  ASSUME NEW s \in Seq(Ch), NEW ch \in Ch, NEW b, NEW ls, Split(s, b, ls),
         NEW p, Cut(s, p), ch \in Newlines => p = Len(s)
  PROVE  LET t == Append(s, ch)
         IN  /\ Len(ls) = Cardinality(Finished(t))
             /\ \A i \in Finished(t) : ls[Number(t, i)] = LineAt(t, i)
PROOF
  <1> DEFINE t == Append(s, ch)
  <1>1. /\ t \in Seq(Ch) /\ Len(t) = Len(s) + 1 /\ Len(s) \in Nat
        /\ DOMAIN s = 1 .. Len(s) /\ DOMAIN t = 1 .. Len(s) + 1
        /\ t[Len(s) + 1] = ch
        /\ \A i \in DOMAIN s : Begins(t, i) <=> Begins(s, i)
        /\ \A i \in DOMAIN s : Begins(s, i) =>
             EndOf(t, i) = IF EndOf(s, i) < Len(s) \/ ch \in Newlines
                           THEN EndOf(s, i) ELSE Len(s) + 1
    BY OneMore
  <1>2. \A i \in Finished(s) : LineAt(t, i) = LineAt(s, i)
    BY <1>1, LineStays DEF Finished
  <1> HIDE DEF t
  <1>3. ASSUME NEW i \in DOMAIN s, Begins(s, i)
        PROVE  EndOf(t, i) < Len(t) <=> EndOf(s, i) < Len(s)
    <2>1. /\ EndOf(s, i) = Len(s) <=> i = p + 1
          /\ EndOf(s, i) < Len(s) <=> i < p + 1
          /\ EndOf(s, i) \in i .. Len(s)
      BY <1>3, UnfinishedFacts
    <2>2. i \in Nat /\ i <= Len(s)
      BY <1>1
    <2>3. CASE ch \in Newlines
      BY <1>1, <1>3, <2>1, <2>2, <2>3
    <2>4. CASE ch \notin Newlines
      BY <1>1, <1>3, <2>1, <2>2, <2>4
    <2> QED BY <2>3, <2>4
  <1>4. ~(Begins(t, Len(t)) /\ EndOf(t, Len(t)) < Len(t))
    <2> SUFFICES ASSUME Begins(t, Len(t)), EndOf(t, Len(t)) < Len(t) PROVE FALSE
      OBVIOUS
    <2>1. Len(t) \in DOMAIN t /\ t[Len(t)] \in Chars
      BY <1>1 DEF Begins
    <2>2. EndOf(t, Len(t)) \in Len(t) .. Len(t)
      BY <2>1, <1>1, EndFacts DEF Ends
    <2> QED BY <2>2, <1>1
  <1>5. Finished(t) = Finished(s)
    <2>1. \A i \in DOMAIN t : i \in DOMAIN s \/ i = Len(t)
      BY <1>1
    <2>2. \A i \in DOMAIN s : i \in DOMAIN t
      BY <1>1
    <2> QED BY <2>1, <2>2, <1>1, <1>3, <1>4 DEF Finished
  <1>6. \A i \in Finished(t) : Number(t, i) = Number(s, i)
    BY <1>5 DEF Number
  <1> QED BY <1>2, <1>5, <1>6 DEF Split, t

LEMMA Appended ==
  ASSUME NEW T, NEW q \in Seq(T), NEW x \in T
  PROVE  /\ Append(q, x) \in Seq(T) /\ Len(Append(q, x)) = Len(q) + 1 /\ Len(q) \in Nat
         /\ Append(q, x)[Len(q) + 1] = x
         /\ \A k \in 1 .. Len(q) : Append(q, x)[k] = q[k]
PROOF
  BY AppendProperties, LenProperties

\* Split, when the next character ends the line that begins after p.
LEMMA LineFinished ==
  ASSUME NEW s \in Seq(Ch), NEW ch \in Newlines, NEW b, NEW ls \in Seq(Line), b \in Line,
         Split(s, b, ls), NEW p, Cut(s, p), Rest(s, p, b)
  PROVE  LET t == Append(s, ch)
         IN  /\ Len(Append(ls, b)) = Cardinality(Finished(t))
             /\ \A i \in Finished(t) : Append(ls, b)[Number(t, i)] = LineAt(t, i)
PROOF
  <1> DEFINE t == Append(s, ch)
             q == p + 1
             l2 == Append(ls, b)
  <1>0. ch \in Ch
    BY DEF Ch
  <1>1. /\ t \in Seq(Ch) /\ Len(t) = Len(s) + 1 /\ Len(s) \in Nat
        /\ DOMAIN s = 1 .. Len(s) /\ DOMAIN t = 1 .. Len(s) + 1
        /\ t[Len(s) + 1] = ch
        /\ \A i \in DOMAIN s : Begins(t, i) <=> Begins(s, i)
        /\ \A i \in DOMAIN s : Begins(s, i) => EndOf(t, i) = EndOf(s, i)
    BY <1>0, OneMore
  <1>2. \A i \in DOMAIN s : Begins(s, i) => LineAt(t, i) = LineAt(s, i)
    BY <1>0, <1>1, LineStays
  <1>3. /\ Len(l2) = Len(ls) + 1 /\ Len(ls) \in Nat /\ l2[Len(ls) + 1] = b
        /\ \A k \in 1 .. Len(ls) : l2[k] = ls[k]
    BY Appended
  <1> HIDE DEF t, l2
  <1>4. p \in Nat /\ p < Len(s)
    <2>1. p \in Nat /\ p <= Len(s)
      BY <1>1 DEF Cut
    <2>2. p # Len(s)
      <3> SUFFICES ASSUME p = Len(s) PROVE b = <<>>
        BY DEF Line
      <3>1. b = SubSeq(s, Len(s) + 1, Len(s))
        BY DEF Rest
      <3> QED BY <3>1, <1>1
    <2>3. Len(s) \in Nat
      BY <1>1
    <2> QED BY <2>1, <2>2, <2>3
  <1>5. q \in DOMAIN s /\ Begins(s, q) /\ EndOf(s, q) = Len(s)
    <2>1. q \in DOMAIN s /\ q - 1 = p /\ (q > 1 => p # 0)
      BY <1>1, <1>4
    <2>2. s[q] \in Chars
      BY <1>1, <1>4 DEF Cut
    <2>3. Begins(s, q)
      BY <2>1, <2>2 DEF Begins, Cut
    <2> QED BY <2>1, <2>3, UnfinishedFacts
  <1>6. \A i \in DOMAIN s : Begins(s, i) =>
          /\ EndOf(s, i) < Len(t)
          /\ EndOf(s, i) < Len(s) <=> i < q
          /\ i = q \/ i < q
    <2> SUFFICES ASSUME NEW i \in DOMAIN s, Begins(s, i)
                 PROVE  /\ EndOf(s, i) < Len(t)
                        /\ EndOf(s, i) < Len(s) <=> i < q
                        /\ i = q \/ i < q
      OBVIOUS
    <2>1. /\ EndOf(s, i) = Len(s) <=> i = p + 1
          /\ EndOf(s, i) < Len(s) <=> i < p + 1
          /\ EndOf(s, i) \in i .. Len(s)
      BY UnfinishedFacts
    <2>2. i \in Nat
      BY <1>1
    <2> QED BY <2>1, <2>2, <1>1
  <1>7. Finished(t) = Finished(s) \cup {q} /\ q \notin Finished(s)
    <2>1. ~Begins(t, Len(t))
      BY <1>1, Disjoint DEF Begins
    <2>2. \A i \in DOMAIN t : i \in DOMAIN s \/ i = Len(t)
      BY <1>1
    <2>3. \A i \in DOMAIN s : i \in DOMAIN t
      BY <1>1
    <2>4. ~(q < q)
      BY <1>4
    <2> QED BY <2>1, <2>2, <2>3, <2>4, <1>1, <1>5, <1>6 DEF Finished
  <1>8. \A i \in Finished(s) : i < q /\ i \in Nat
    BY <1>1, <1>6 DEF Finished
  <1> DEFINE F == Finished(s)
  <1>9. /\ IsFiniteSet(F) /\ Cardinality(F) \in Nat
        /\ \A i \in F : Number(s, i) \in 1 .. Cardinality(F)
        /\ Len(ls) = Cardinality(F)
    BY NumberFacts DEF Split
  <1>10. Cardinality(F \cup {q}) = Cardinality(F) + 1
    BY <1>7, <1>9, FS_AddElement
  <1> HIDE DEF q
  <1>11. Number(t, q) = Cardinality(F) + 1
    <2>1. {j \in Finished(t) : j <= q} = F \cup {q}
      BY <1>7, <1>8, <1>1, <1>5
    <2> QED BY <2>1, <1>10 DEF Number
  <1>12. \A i \in F : Number(t, i) = Number(s, i)
    <2> SUFFICES ASSUME NEW i \in F PROVE Number(t, i) = Number(s, i)
      OBVIOUS
    <2>1. {j \in Finished(t) : j <= i} = {j \in F : j <= i}
      BY <1>7, <1>8, <1>1, <1>5
    <2> QED BY <2>1 DEF Number
  <1>13. LineAt(t, q) = b
    BY <1>2, <1>5 DEF LineAt, Rest, q
  <1>14. ASSUME NEW i \in Finished(t) PROVE l2[Number(t, i)] = LineAt(t, i)
    <2>1. CASE i = q
      BY <2>1, <1>3, <1>9, <1>11, <1>13
    <2>2. CASE i \in F
      <3>1. l2[Number(t, i)] = ls[Number(s, i)]
        BY <2>2, <1>3, <1>9, <1>12
      <3>2. ls[Number(s, i)] = LineAt(s, i) /\ LineAt(t, i) = LineAt(s, i)
        BY <2>2, <1>2 DEF Split, Finished
      <3> QED BY <3>1, <3>2
    <2> QED BY <2>1, <2>2, <1>7
  <1>15. Len(l2) = Cardinality(Finished(t))
    BY <1>3, <1>7, <1>9, <1>10
  <1> QED BY <1>14, <1>15 DEF t, l2
LEMMA RestFacts ==
  ASSUME NEW T, NEW q \in Seq(T), NEW m \in Nat, m <= Len(q)
  PROVE  /\ SubSeq(q, m + 1, Len(q)) \in Seq(T) /\ Len(SubSeq(q, m + 1, Len(q))) = Len(q) - m
         /\ \A k \in 1 .. Len(q) - m : SubSeq(q, m + 1, Len(q))[k] = q[m + k]
PROOF
  <1>1. Len(q) \in Nat /\ DOMAIN q = 1 .. Len(q) /\ \A k \in 1 .. Len(q) : q[k] \in T
    BY LenProperties, ElementOfSeq
  <1>2. \A k \in m + 1 .. Len(q) : q[k] \in T
    BY <1>1
  <1>3. /\ SubSeq(q, m + 1, Len(q)) \in Seq(T)
        /\ Len(SubSeq(q, m + 1, Len(q))) =
             IF m + 1 <= Len(q) THEN Len(q) - (m + 1) + 1 ELSE 0
        /\ \A k \in 1 .. Len(q) - (m + 1) + 1 :
             SubSeq(q, m + 1, Len(q))[k] = q[(m + 1) + k - 1]
    <2>1. m + 1 \in Int /\ Len(q) \in Int
      BY <1>1
    <2> QED BY <1>2, <2>1, SubSeqProperties
  <1> DEFINE r == SubSeq(q, m + 1, Len(q))
  <1> HIDE DEF r
  <1>4. r \in Seq(T) /\ Len(r) = Len(q) - m
    <2>1. r \in Seq(T) /\ Len(r) = IF m + 1 <= Len(q) THEN Len(q) - (m + 1) + 1 ELSE 0
      BY <1>3 DEF r
    <2>2. m + 1 <= Len(q) => Len(q) - (m + 1) + 1 = Len(q) - m
      BY <1>1
    <2>3. ~(m + 1 <= Len(q)) => Len(q) - m = 0
      <3>1. Len(q) \in Nat
        BY <1>1
      <3>2. ~(m + 1 <= Len(q)) => m = Len(q)
        BY <3>1
      <3> QED BY <3>1, <3>2
    <2> QED BY <2>1, <2>2, <2>3, Zenon
  <1>5. ASSUME NEW k \in 1 .. Len(q) - m PROVE r[k] = q[m + k]
    <2>1. k \in 1 .. Len(q) - (m + 1) + 1 /\ (m + 1) + k - 1 = m + k
      BY <1>1
    <2>2. r[k] = q[(m + 1) + k - 1]
      BY <1>3, <2>1 DEF r
    <2> QED BY <2>1, <2>2
  <1> QED BY <1>4, <1>5 DEF r

\* One character: what the reader has is what it should have of the stream.
LEMMA OneCharacter ==
  ASSUME NEW s \in Seq(Ch), NEW ch \in Ch, NEW r \in Reader, Split(s, r.buf, r.lines)
  PROVE  Split(Append(s, ch), Receive(r, ch).buf, Receive(r, ch).lines)
PROOF
  <1> DEFINE t == Append(s, ch)
             r2 == Receive(r, ch)
  <1>1. /\ t \in Seq(Ch) /\ Len(t) = Len(s) + 1 /\ Len(s) \in Nat
        /\ DOMAIN s = 1 .. Len(s)
        /\ t[Len(s) + 1] = ch /\ \A i \in DOMAIN s : t[i] = s[i]
    BY OneMore
  <1>2. /\ ch \in Newlines /\ r.buf = <<>> => r2 = r
        /\ ch \in Newlines /\ r.buf # <<>> => r2.buf = <<>> /\ r2.lines = Append(r.lines, r.buf)
        /\ ch \notin Newlines => r2.buf = Append(r.buf, ch) /\ r2.lines = r.lines
    BY ReceiveType
  <1>3. PICK p : Cut(s, p) /\ Rest(s, p, r.buf)
    BY DEF Split
  <1>4. p \in Nat /\ p <= Len(s)
    BY <1>1, <1>3 DEF Cut
  <1>5. r.buf = <<>> => p = Len(s)
    <2>1. Len(SubSeq(s, p + 1, Len(s))) = Len(s) - p
      BY <1>1, <1>4, RestFacts
    <2>2. r.buf = SubSeq(s, p + 1, Len(s)) /\ Len(<<>>) = 0 /\ Len(s) \in Nat
      BY <1>1, <1>3 DEF Rest
    <2>3. r.buf = <<>> => Len(s) - p = 0
      BY <2>1, <2>2
    <2> QED BY <2>2, <2>3, <1>4
  <1>6. CASE ch \in Newlines
    <2>1. Cut(t, Len(t)) /\ Rest(t, Len(t), <<>>)
      <3>1. SubSeq(t, Len(t) + 1, Len(t)) = <<>>
        BY <1>1
      <3> QED BY <3>1, <1>1, <1>6 DEF Cut, Rest
    <2>2. CASE r.buf = <<>>
      <3>1. /\ Len(r.lines) = Cardinality(Finished(t))
            /\ \A i \in Finished(t) : r.lines[Number(t, i)] = LineAt(t, i)
        BY <2>2, <1>3, <1>5, NothingFinished
      <3>2. r2.buf = <<>> /\ r2.lines = r.lines
        BY <2>2, <1>2, <1>6
      <3> HIDE DEF t, r2
      <3>3. Split(t, r2.buf, r2.lines)
        BY <2>1, <3>1, <3>2 DEF Split
      <3> QED BY <3>3 DEF t, r2
    <2>3. CASE r.buf # <<>>
      <3>1. r.lines \in Seq(Line) /\ r.buf \in Line
        BY <2>3 DEF Reader, Line
      <3>2. /\ Len(Append(r.lines, r.buf)) = Cardinality(Finished(t))
            /\ \A i \in Finished(t) : Append(r.lines, r.buf)[Number(t, i)] = LineAt(t, i)
        BY <1>3, <1>6, <3>1, LineFinished
      <3>3. r2.buf = <<>> /\ r2.lines = Append(r.lines, r.buf)
        BY <2>3, <1>2, <1>6
      <3> HIDE DEF t, r2
      <3>4. Split(t, r2.buf, r2.lines)
        BY <2>1, <3>2, <3>3 DEF Split
      <3> QED BY <3>4 DEF t, r2
    <2> QED BY <2>2, <2>3
  <1>7. CASE ch \notin Newlines
    <2>1. ch \in Chars
      BY <1>7 DEF Ch
    <2>2. Cut(t, p)
      <3>1. \A k \in p + 1 .. Len(t) : t[k] \in Chars
        BY <2>1, <1>1, <1>3, <1>4 DEF Cut
      <3>2. p # 0 => t[p] \in Newlines
        BY <1>1, <1>3, <1>4 DEF Cut
      <3> QED BY <3>1, <3>2, <1>1, <1>4 DEF Cut
    <2>3. Rest(t, p, Append(r.buf, ch))
      <3> DEFINE b == SubSeq(s, p + 1, Len(s))
                 c == SubSeq(t, p + 1, Len(t))
                 d == Append(b, ch)
      <3>1. r.buf = b
        BY <1>3 DEF Rest
      <3>2. /\ b \in Seq(Ch) /\ Len(b) = Len(s) - p
            /\ \A k \in 1 .. Len(s) - p : b[k] = s[p + k]
        BY <1>1, <1>4, RestFacts
      <3>3. /\ c \in Seq(Ch) /\ Len(c) = Len(t) - p
            /\ \A k \in 1 .. Len(t) - p : c[k] = t[p + k]
        BY <1>1, <1>4, RestFacts
      <3> HIDE DEF b, c
      <3>4. /\ d \in Seq(Ch) /\ Len(d) = Len(b) + 1 /\ d[Len(b) + 1] = ch
            /\ \A k \in 1 .. Len(b) : d[k] = b[k]
        BY <3>2, Appended
      <3> HIDE DEF d, t
      <3>5. Len(d) = Len(c)
        BY <3>2, <3>3, <3>4, <1>1, <1>4
      <3>6. ASSUME NEW k \in 1 .. Len(c) PROVE c[k] = d[k]
        <4>1. CASE k = Len(b) + 1
          BY <4>1, <3>2, <3>3, <3>4, <1>1, <1>4
        <4>2. CASE k # Len(b) + 1
          <5>1. k \in 1 .. Len(b) /\ p + k \in DOMAIN s
            BY <4>2, <3>2, <3>3, <1>1, <1>4
          <5> QED BY <5>1, <3>2, <3>3, <3>4, <1>1, <1>4
        <4> QED BY <4>1, <4>2
      <3>7. c = d
        BY <3>3, <3>4, <3>5, <3>6, SeqEqual
      <3> QED BY <3>1, <3>7 DEF Rest, c, d, t
    <2>4. /\ Len(r.lines) = Cardinality(Finished(t))
          /\ \A i \in Finished(t) : r.lines[Number(t, i)] = LineAt(t, i)
      BY <1>3, <1>7, NothingFinished
    <2>5. r2.buf = Append(r.buf, ch) /\ r2.lines = r.lines
      BY <1>2, <1>7
    <2> HIDE DEF t, r2
    <2>6. Split(t, r2.buf, r2.lines)
      BY <2>2, <2>3, <2>4, <2>5 DEF Split
    <2> QED BY <2>6 DEF t, r2
  <1> QED BY <1>6, <1>7

\* The stream st and the first n characters of read.
Upto(st, read, n) ==
  [k \in 1 .. Len(st) + n |-> IF k <= Len(st) THEN st[k] ELSE read[k - Len(st)]]

LEMMA UptoFacts ==
  ASSUME NEW st \in Seq(Ch), NEW read \in Seq(Ch)
  PROVE  /\ Upto(st, read, 0) = st /\ Upto(st, read, Len(read)) = st \o read
         /\ \A n \in 1 .. Len(read) :
              /\ Upto(st, read, n - 1) \in Seq(Ch)
              /\ Upto(st, read, n) = Append(Upto(st, read, n - 1), read[n])
PROOF
  <1>1. /\ Len(st) \in Nat /\ DOMAIN st = 1 .. Len(st)
        /\ Len(read) \in Nat /\ DOMAIN read = 1 .. Len(read)
        /\ \A k \in 1 .. Len(st) : st[k] \in Ch
        /\ \A k \in 1 .. Len(read) : read[k] \in Ch
    BY LenProperties, ElementOfSeq
  <1>2. ASSUME NEW n \in 0 .. Len(read)
        PROVE  Upto(st, read, n) \in Seq(Ch) /\ Len(Upto(st, read, n)) = Len(st) + n
    <2>1. Upto(st, read, n) \in [1 .. Len(st) + n -> Ch]
      BY <1>1 DEF Upto
    <2> HIDE DEF Upto
    <2>2. Len(st) + n \in Nat
      BY <1>1
    <2> QED BY <2>1, <2>2, SeqDef, LenProperties
  <1>3. Upto(st, read, 0) = st
    <2>1. Upto(st, read, 0) \in Seq(Ch) /\ Len(Upto(st, read, 0)) = Len(st)
      BY <1>1, <1>2
    <2>2. \A k \in 1 .. Len(st) : Upto(st, read, 0)[k] = st[k]
      BY <1>1 DEF Upto
    <2> QED BY <2>1, <2>2, SeqEqual
  <1>4. Upto(st, read, Len(read)) = st \o read
    <2> DEFINE a == Upto(st, read, Len(read))
               c == st \o read
    <2>1. a \in Seq(Ch) /\ Len(a) = Len(st) + Len(read)
      BY <1>1, <1>2
    <2>2. /\ c \in Seq(Ch) /\ Len(c) = Len(st) + Len(read)
          /\ \A k \in 1 .. Len(st) + Len(read) :
               c[k] = IF k <= Len(st) THEN st[k] ELSE read[k - Len(st)]
      BY ConcatProperties
    <2>3. \A k \in 1 .. Len(st) + Len(read) :
               a[k] = IF k <= Len(st) THEN st[k] ELSE read[k - Len(st)]
      BY DEF Upto
    <2> HIDE DEF a, c
    <2>4. a = c
      BY <2>1, <2>2, <2>3, SeqEqual
    <2> QED BY <2>4 DEF a, c
  <1>5. ASSUME NEW n \in 1 .. Len(read)
        PROVE  /\ Upto(st, read, n - 1) \in Seq(Ch)
               /\ Upto(st, read, n) = Append(Upto(st, read, n - 1), read[n])
    <2> DEFINE a == Upto(st, read, n)
               b == Upto(st, read, n - 1)
               c == Append(b, read[n])
    <2>1. n \in 0 .. Len(read) /\ n - 1 \in 0 .. Len(read) /\ read[n] \in Ch
      BY <1>1
    <2>2. a \in Seq(Ch) /\ Len(a) = Len(st) + n /\ b \in Seq(Ch) /\ Len(b) = Len(st) + (n - 1)
      BY <2>1, <1>2
    <2>3. /\ \A k \in 1 .. Len(st) + n : a[k] = IF k <= Len(st) THEN st[k] ELSE read[k - Len(st)]
          /\ \A k \in 1 .. Len(st) + (n - 1) :
               b[k] = IF k <= Len(st) THEN st[k] ELSE read[k - Len(st)]
      BY DEF Upto
    <2> HIDE DEF a, b
    <2>4. /\ c \in Seq(Ch) /\ Len(c) = Len(b) + 1 /\ c[Len(b) + 1] = read[n]
          /\ \A k \in 1 .. Len(b) : c[k] = b[k]
      BY <2>1, <2>2, Appended
    <2> HIDE DEF c
    <2>5. ASSUME NEW k \in 1 .. Len(a) PROVE a[k] = c[k]
      <3>1. CASE k = Len(st) + n
        BY <3>1, <2>2, <2>3, <2>4, <1>1
      <3>2. CASE k # Len(st) + n
        <4>1. k \in 1 .. Len(st) + (n - 1)
          BY <3>2, <2>2, <1>1
        <4> QED BY <4>1, <2>2, <2>3, <2>4, <1>1
      <3> QED BY <3>1, <3>2
    <2>6. Len(a) = Len(c)
      BY <2>2, <2>4, <1>1
    <2>7. a = c
      BY <2>2, <2>4, <2>5, <2>6, SeqEqual
    <2> QED BY <2>2, <2>7 DEF a, b, c
  <1> QED BY <1>3, <1>4, <1>5
\* A whole read that fits: the reader has the lines of the longer stream, and
\* none that is new is as long as what it had and what it got.
LEMMA WholeRead ==
  ASSUME NEW st \in Seq(Ch), NEW r \in Reader, Split(st, r.buf, r.lines),
         NEW read \in Seq(Ch), NEW most \in Nat, Len(read) + Len(r.buf) <= most,
         \A i \in DOMAIN r.lines : Len(r.lines[i]) < most
  PROVE  /\ Received(r, read) \in Reader
         /\ Split(st \o read, Received(r, read).buf, Received(r, read).lines)
         /\ \A i \in DOMAIN Received(r, read).lines : Len(Received(r, read).lines[i]) < most
PROOF
  <1>1. PICK f : Follows(f, r, read, Len(read)) /\ Received(r, read) = f[Len(read)]
    BY ReceivedFollows
  <1>2. /\ Len(read) \in Nat /\ DOMAIN read = 1 .. Len(read)
        /\ \A n \in 1 .. Len(read) : read[n] \in Ch
    BY LenProperties, ElementOfSeq
  <1>3. r.buf \in Seq(Chars) /\ Len(r.buf) \in Nat
    BY LenProperties DEF Reader
  <1> DEFINE Fine(n) ==
        /\ f[n] \in Reader
        /\ Split(Upto(st, read, n), f[n].buf, f[n].lines)
        /\ Len(f[n].buf) <= Len(r.buf) + n
        /\ \A i \in DOMAIN f[n].lines : Len(f[n].lines[i]) < most
  <1>4. Fine(0)
    <2>1. f[0] = r
      BY <1>1 DEF Follows
    <2>2. Upto(st, read, 0) = st
      BY UptoFacts
    <2> QED BY <2>1, <2>2, <1>3
  <1>5. ASSUME NEW n \in 1 .. Len(read), Fine(n - 1) PROVE Fine(n)
    <2> DEFINE s == Upto(st, read, n - 1)
               q == f[n - 1]
               ch == read[n]
    <2>1. f[n] = Receive(q, ch) /\ ch \in Ch
      BY <1>1, <1>2 DEF Follows
    <2>2. s \in Seq(Ch) /\ Upto(st, read, n) = Append(s, ch)
      BY UptoFacts
    <2>3. q \in Reader /\ Split(s, q.buf, q.lines) /\ Len(q.buf) <= Len(r.buf) + (n - 1)
          /\ \A i \in DOMAIN q.lines : Len(q.lines[i]) < most
      BY <1>5
    <2> HIDE DEF s, q, ch
    <2>4. Split(Append(s, ch), Receive(q, ch).buf, Receive(q, ch).lines)
      BY <2>1, <2>2, <2>3, OneCharacter
    <2>5. /\ Receive(q, ch) \in Reader
          /\ ch \in Newlines /\ q.buf = <<>> => Receive(q, ch) = q
          /\ ch \in Newlines /\ q.buf # <<>> =>
               Receive(q, ch).buf = <<>> /\ Receive(q, ch).lines = Append(q.lines, q.buf)
          /\ ch \notin Newlines =>
               Receive(q, ch).buf = Append(q.buf, ch) /\ Receive(q, ch).lines = q.lines
      BY <2>1, <2>3, ReceiveType
    <2>6. Len(q.buf) < most /\ Len(q.buf) \in Nat /\ n \in Nat /\ n >= 1
      <3>1. Len(q.buf) \in Nat
        BY <2>3, LenProperties DEF Reader
      <3> QED BY <3>1, <2>3, <1>2, <1>3
    <2>7. /\ Len(Receive(q, ch).buf) <= Len(r.buf) + n
          /\ \A i \in DOMAIN Receive(q, ch).lines : Len(Receive(q, ch).lines[i]) < most
      <3>1. CASE ch \in Newlines /\ q.buf = <<>>
        BY <3>1, <2>3, <2>5, <2>6, <1>3
      <3>2. CASE ch \in Newlines /\ q.buf # <<>>
        <4>1. q.lines \in Seq(Line) /\ q.buf \in Line
          BY <3>2, <2>3 DEF Reader, Line
        <4> DEFINE ls == q.lines
                   b == q.buf
                   l2 == Append(ls, b)
        <4>2. Receive(q, ch).buf = <<>> /\ Receive(q, ch).lines = l2
          BY <3>2, <2>5
        <4>3. ls \in Seq(Line) /\ b \in Line
          BY <4>1
        <4>4. \A i \in DOMAIN ls : Len(ls[i]) < most
          BY <2>3
        <4>5. Len(b) < most
          BY <2>6
        <4> HIDE DEF ls, b
        <4>6. /\ l2 \in Seq(Line) /\ Len(l2) = Len(ls) + 1 /\ Len(ls) \in Nat
              /\ l2[Len(ls) + 1] = b /\ \A k \in 1 .. Len(ls) : l2[k] = ls[k]
          BY <4>3, Appended
        <4> HIDE DEF l2
        <4>7. DOMAIN l2 = 1 .. Len(ls) + 1 /\ DOMAIN ls = 1 .. Len(ls)
          BY <4>3, <4>6, LenProperties
        <4>8. ASSUME NEW i \in DOMAIN l2 PROVE Len(l2[i]) < most
          <5>1. CASE i = Len(ls) + 1
            BY <5>1, <4>5, <4>6
          <5>2. CASE i # Len(ls) + 1
            <6>1. i \in 1 .. Len(ls)
              BY <5>2, <4>6, <4>7
            <6> QED BY <6>1, <4>4, <4>6, <4>7
          <5> QED BY <5>1, <5>2
        <4>9. Len(<<>>) <= Len(r.buf) + n
          BY <2>6, <1>3
        <4> QED BY <4>2, <4>8, <4>9
      <3>3. CASE ch \notin Newlines
        <4>1. ch \in Chars /\ q.buf \in Seq(Chars)
          BY <3>3, <2>1, <2>3 DEF Ch, Reader
        <4>2. Len(Append(q.buf, ch)) = Len(q.buf) + 1
          BY <4>1, Appended
        <4>3. Len(Append(q.buf, ch)) <= Len(r.buf) + n
          BY <4>2, <2>3, <2>6, <1>3
        <4> QED BY <4>3, <3>3, <2>3, <2>5
      <3> QED BY <3>1, <3>2, <3>3
    <2> QED BY <2>1, <2>2, <2>4, <2>5, <2>7
  <1>6. \A n \in 0 .. Len(read) : Fine(n)
    <2> DEFINE Bad == {n \in 0 .. Len(read) : ~Fine(n)}
    <2> SUFFICES Bad = {}
      OBVIOUS
    <2> SUFFICES ASSUME Bad # {} PROVE FALSE
      OBVIOUS
    <2> HIDE DEF Fine
    <2>1. Bad \subseteq Nat
      BY <1>2
    <2>2. PICK n \in Bad : \A k \in Bad : n <= k
      <3> HIDE DEF Bad
      <3> QED BY <2>1, LeastNumber
    <2>3. n # 0
      BY <1>4
    <2>4. n \in 1 .. Len(read) /\ n - 1 \in 0 .. Len(read) /\ ~(n <= n - 1)
      BY <1>2, <2>3
    <2>5. Fine(n - 1)
      BY <2>2, <2>4
    <2> QED BY <1>5, <2>4, <2>5
  <1>7. Fine(Len(read))
    <2> HIDE DEF Fine
    <2> QED BY <1>2, <1>6
  <1>8. Upto(st, read, Len(read)) = st \o read
    BY UptoFacts
  <1> QED BY <1>1, <1>7, <1>8

\* What Split says is what LinesWhole says.
LEMMA SplitIsWhole ==
  ASSUME NEW s \in Seq(Ch), NEW b, NEW ls, Split(s, b, ls)
  PROVE  b = IF s = <<>> \/ Last(s) \in Newlines THEN <<>>
             ELSE LineAt(s, CHOOSE i \in DOMAIN s : Begins(s, i) /\ EndOf(s, i) = Len(s))
PROOF
  <1>1. Len(s) \in Nat /\ DOMAIN s = 1 .. Len(s)
    BY LenProperties
  <1>2. PICK p : Cut(s, p) /\ Rest(s, p, b)
    BY DEF Split
  <1>3. p \in Nat /\ p <= Len(s) /\ Last(s) = s[Len(s)]
    BY <1>1, <1>2 DEF Cut, Last
  <1>4. CASE p = Len(s)
    <2>1. s = <<>> \/ Last(s) \in Newlines
      <3>1. Len(s) = 0 => s = <<>>
        BY EmptySeq
      <3> QED BY <3>1, <1>2, <1>3, <1>4 DEF Cut
    <2>2. b = <<>>
      <3>1. SubSeq(s, Len(s) + 1, Len(s)) = <<>>
        BY <1>1
      <3> QED BY <3>1, <1>2, <1>4 DEF Rest
    <2> QED BY <2>1, <2>2
  <1>5. CASE p # Len(s)
    <2> DEFINE q == p + 1
    <2>1. q \in DOMAIN s /\ q - 1 = p /\ (q > 1 => p # 0) /\ Len(s) \in p + 1 .. Len(s)
      <3>1. Len(s) \in Nat /\ p \in Nat /\ p < Len(s)
        <4>1. Len(s) \in Nat /\ p \in Nat /\ p <= Len(s)
          BY <1>1, <1>3
        <4> QED BY <4>1, <1>5
      <3>2. q \in 1 .. Len(s) /\ q - 1 = p /\ (q > 1 => p # 0)
        BY <3>1
      <3>3. Len(s) \in p + 1 .. Len(s)
        BY <3>1
      <3> QED BY <3>2, <3>3, <1>1
    <2>2. s[q] \in Chars /\ s[Len(s)] \in Chars
      BY <1>2, <2>1 DEF Cut
    <2>3. Begins(s, q)
      BY <1>2, <2>1, <2>2 DEF Begins, Cut
    <2>4. \A i \in DOMAIN s : Begins(s, i) => (EndOf(s, i) = Len(s) <=> i = q)
      BY <1>2, UnfinishedFacts
    <2>5. s # <<>> /\ Last(s) \notin Newlines
      BY <2>1, <2>2, <1>3, Disjoint
    <2>6. b = LineAt(s, q)
      BY <1>2, <2>1, <2>3, <2>4 DEF LineAt, Rest
    <2> HIDE DEF q
    <2>7. (CHOOSE i \in DOMAIN s : Begins(s, i) /\ EndOf(s, i) = Len(s)) = q
      BY <2>1, <2>3, <2>4
    <2> DEFINE x == CHOOSE i \in DOMAIN s : Begins(s, i) /\ EndOf(s, i) = Len(s)
    <2>8. b = LineAt(s, x)
      BY <2>6, <2>7
    <2> SUFFICES b = IF s = <<>> \/ Last(s) \in Newlines THEN <<>> ELSE LineAt(s, x)
      OBVIOUS
    <2> HIDE DEF x
    <2> QED BY <2>5, <2>8
  <1> QED BY <1>4, <1>5

\* A line without an end that is longer than a read is one in the longer stream.
LEMMA LongLine ==
  ASSUME NEW s \in Seq(Ch), NEW b, NEW ls, Split(s, b, ls), NEW read \in Seq(Ch),
         NEW most \in Nat, Len(b) > most
  PROVE  \E i \in DOMAIN (s \o read) :
           Begins(s \o read, i) /\ Len(LineAt(s \o read, i)) > most
PROOF
  <1> DEFINE t == s \o read
  <1>1. Len(s) \in Nat /\ DOMAIN s = 1 .. Len(s) /\ Len(read) \in Nat
    BY LenProperties
  <1>2. t \in Seq(Ch) /\ Len(t) = Len(s) + Len(read) /\ \A k \in 1 .. Len(s) : t[k] = s[k]
    <2>1. /\ t \in Seq(Ch) /\ Len(t) = Len(s) + Len(read)
          /\ \A k \in 1 .. Len(s) + Len(read) :
               t[k] = IF k <= Len(s) THEN s[k] ELSE read[k - Len(s)]
      BY ConcatProperties
    <2> HIDE DEF t
    <2> QED BY <2>1, <1>1
  <1> HIDE DEF t
  <1>3. PICK p : Cut(s, p) /\ Rest(s, p, b)
    BY DEF Split
  <1>4. p \in Nat /\ p <= Len(s)
    BY <1>1, <1>3 DEF Cut
  <1>5. Len(b) = Len(s) - p
    BY <1>3, <1>4, RestFacts DEF Rest
  <1> DEFINE q == p + 1
             e == EndOf(t, q)
  <1>6. q \in 1 .. Len(s) /\ q \in 1 .. Len(t) /\ q - 1 = p /\ (q > 1 => p # 0 /\ p \in 1 .. Len(s))
    BY <1>1, <1>2, <1>4, <1>5
  <1>7. q \in DOMAIN t /\ t[q] \in Chars
    <2>1. s[q] \in Chars
      BY <1>3, <1>6 DEF Cut
    <2> QED BY <2>1, <1>2, <1>6, LenProperties
  <1>8. Begins(t, q)
    <2>1. q > 1 => t[q - 1] \in Newlines
      BY <1>2, <1>3, <1>6 DEF Cut
    <2> QED BY <2>1, <1>7 DEF Begins
  <1>9. Ends(t, q, e)
    BY <1>7, <1>2, EndFacts
  <1> HIDE DEF e
  <1>10. e \in q .. Len(t)
    BY <1>9 DEF Ends
  <1>11. e >= Len(s)
    <2> SUFFICES ASSUME e < Len(s) PROVE FALSE
      BY <1>1, <1>2, <1>6, <1>10
    <2>1. e + 1 \in p + 1 .. Len(s) /\ e + 1 \in 1 .. Len(s) /\ e < Len(t)
      BY <1>1, <1>2, <1>4, <1>6, <1>10
    <2>2. t[e + 1] \in Chars /\ t[e + 1] \in Newlines
      BY <2>1, <1>2, <1>3, <1>9 DEF Cut, Ends
    <2> QED BY <2>2, Disjoint
  <1>12. Len(LineAt(t, q)) = e - q + 1
    <2>1. \A k \in q .. e : t[k] \in Chars
      BY <1>9 DEF Ends
    <2>2. q \in Int /\ e \in Int /\ q <= e
      BY <1>1, <1>2, <1>4, <1>10
    <2>3. Len(SubSeq(t, q, e)) = e - q + 1
      <3> HIDE DEF q
      <3> QED BY <2>1, <2>2, SubSeqProperties
    <2> QED BY <2>3 DEF LineAt, e
  <1>13. Len(LineAt(t, q)) > most
    <2>1. e \in Int /\ q = p + 1
      BY <1>1, <1>2, <1>4, <1>10
    <2> QED BY <2>1, <1>1, <1>4, <1>5, <1>11, <1>12
  <1> QED BY <1>7, <1>8, <1>13 DEF t

-----------------------------------------------------------------------------
\* The inductive invariant.
LinesInv ==
  /\ LinesTypeOK
  /\ sockstate \in {"open", "closed"} => Split(stream, readbuf, lines)
  /\ OnlyLongLinesDrop

LEMMA LinesStart ==
  ASSUME LinesInit
  PROVE  LinesInv
PROOF
  <1>1. <<>> \in Seq(Ch) /\ DOMAIN <<>> = {} /\ Len(<<>>) = 0
    OBVIOUS
  <1>2. Finished(<<>>) = {}
    BY <1>1 DEF Finished
  <1>3. Split(<<>>, <<>>, <<>>)
    <2>1. Cut(<<>>, 0)
      BY <1>1 DEF Cut
    <2>2. Rest(<<>>, 0, <<>>)
      BY DEF Rest
    <2>3. Cardinality(Finished(<<>>)) = 0
      BY <1>2, FS_EmptySet
    <2> QED BY <1>1, <1>2, <2>1, <2>2, <2>3 DEF Split
  <1>4. LinesTypeOK
    BY DEF LinesInit, LinesTypeOK
  <1>5. OnlyLongLinesDrop
    BY DEF LinesInit, OnlyLongLinesDrop
  <1> QED BY <1>3, <1>4, <1>5 DEF LinesInv, LinesInit

LEMMA ReadStep ==
  ASSUME LinesInv, NEW n \in 1 .. ReadSize, NEW read \in [1 .. n -> Chars \cup Newlines],
         linemode_read(read)
  PROVE  LinesInv'
PROOF
  <1> DEFINE r == [buf |-> readbuf, lines |-> lines]
             s == Received(r, read)
  <1>1. /\ sockstate = "open" /\ stream' = stream \o read /\ recvq' = recvq
        /\ IF Exceeds(read)
             THEN sockstate' = "dropped" /\ readbuf' = readbuf /\ lines' = lines
             ELSE /\ readbuf' = s.buf /\ lines' = s.lines
                  /\ sockstate' \in {"freed", "open"}
    BY DEF linemode_read
  <1>2. /\ recvq \in RecvQs /\ recvq \in Nat /\ ReadSize \in Nat /\ recvq >= 2 * ReadSize
        /\ stream \in Seq(Ch) /\ readbuf \in Seq(Chars) /\ lines \in Seq(Line)
        /\ Len(readbuf) \in Nat
    BY LineModeAssumption, LenProperties DEF LinesInv, LinesTypeOK, Ch, Line
  <1>3. read \in Seq(Ch) /\ Len(read) = n /\ n \in Nat /\ n <= ReadSize
    <2>1. n \in Nat /\ n <= ReadSize
      BY <1>2
    <2> QED BY <2>1, SeqDef, LenProperties DEF Ch
  <1>4. Split(stream, readbuf, lines) /\ \A i \in DOMAIN lines : Len(lines[i]) < recvq
    BY <1>1 DEF LinesInv, OnlyLongLinesDrop
  <1>5. stream' \in Seq(Ch)
    BY <1>1, <1>2, <1>3, ConcatProperties
  <1>6. CASE Exceeds(read)
    <2>1. Len(readbuf) > ReadSize
      BY <1>2, <1>3, <1>6 DEF Exceeds
    <2>2. \E i \in DOMAIN (stream \o read) :
            Begins(stream \o read, i) /\ Len(LineAt(stream \o read, i)) > ReadSize
      BY <1>2, <1>3, <1>4, <2>1, LongLine
    <2>3. /\ recvq' = recvq /\ readbuf' = readbuf /\ lines' = lines /\ sockstate' = "dropped"
          /\ stream' = stream \o read
      BY <1>1, <1>6
    <2>4. OnlyLongLinesDrop'
      BY <2>2, <2>3, <1>4 DEF OnlyLongLinesDrop
    <2>5. LinesTypeOK'
      BY <2>3, <1>2, <1>5 DEF LinesTypeOK, Ch, Line
    <2> QED BY <2>3, <2>4, <2>5 DEF LinesInv
  <1>7. CASE ~Exceeds(read)
    <2>1. r \in Reader /\ r.buf = readbuf /\ r.lines = lines
      BY <1>2 DEF Reader
    <2>2. Len(read) + Len(readbuf) <= recvq
      BY <1>2, <1>3, <1>7 DEF Exceeds
    <2> HIDE DEF r
    <2>3. /\ s \in Reader /\ Split(stream \o read, s.buf, s.lines)
          /\ \A i \in DOMAIN s.lines : Len(s.lines[i]) < recvq
      <3>1. Split(stream, r.buf, r.lines) /\ Len(read) + Len(r.buf) <= recvq
            /\ \A i \in DOMAIN r.lines : Len(r.lines[i]) < recvq
        BY <2>1, <2>2, <1>4
      <3> QED BY <3>1, <2>1, <1>2, <1>3, WholeRead
    <2> HIDE DEF s
    <2>4. readbuf' = s.buf /\ lines' = s.lines /\ sockstate' \in {"freed", "open"}
      BY <1>1, <1>7 DEF r, s
    <2>5. readbuf' \in Seq(Chars) /\ lines' \in Seq(Line)
      BY <2>3, <2>4 DEF Reader
    <2>6. LinesTypeOK'
      BY <2>4, <2>5, <1>1, <1>2, <1>5 DEF LinesTypeOK, Ch, Line
    <2>7. OnlyLongLinesDrop'
      BY <2>3, <2>4, <1>1 DEF OnlyLongLinesDrop
    <2>8. Split(stream', readbuf', lines')
      BY <2>3, <2>4, <1>1
    <2> QED BY <2>6, <2>7, <2>8 DEF LinesInv
  <1> QED BY <1>6, <1>7

\* However the stream of a socket is cut into reads, linemode_read passes on
\* every line of it once, whole and in order, and drops a peer only for a line
\* that is longer than a read.
THEOREM LinesAreWhole == LinesSpec => []LinesFollow
PROOF
  <1>1. LinesInv /\ [LinesNext]_linevars => LinesInv'
    <2> SUFFICES ASSUME LinesInv, [LinesNext]_linevars PROVE LinesInv'
      OBVIOUS
    <2>1. CASE \E n \in 1 .. ReadSize : \E read \in [1 .. n -> Chars \cup Newlines] :
                 Len(stream) + n <= MaxStream /\ linemode_read(read)
      BY <2>1, ReadStep
    <2>2. CASE socket_linemode_error
      <3>1. /\ recvq' = recvq /\ readbuf' = readbuf /\ lines' = lines /\ stream' = stream
            /\ sockstate = "open" /\ sockstate' = "closed"
        BY <2>2 DEF socket_linemode_error
      <3> QED BY <3>1 DEF LinesInv, LinesTypeOK, OnlyLongLinesDrop
    <2>3. CASE UNCHANGED linevars
      BY <2>3 DEF linevars, LinesInv, LinesTypeOK, OnlyLongLinesDrop
    <2> QED BY <2>1, <2>2, <2>3 DEF LinesNext
  <1>2. LinesInv => LinesFollow
    <2> SUFFICES ASSUME LinesInv PROVE LinesWhole
      BY DEF LinesInv, LinesFollow
    <2> SUFFICES ASSUME sockstate \in {"open", "closed"}
                 PROVE  /\ Len(lines) = Cardinality(Finished(stream))
                        /\ \A i \in Finished(stream) :
                             lines[Number(stream, i)] = LineAt(stream, i)
                        /\ readbuf = IF stream = <<>> \/ Last(stream) \in Newlines THEN <<>>
                             ELSE LineAt(stream, CHOOSE i \in DOMAIN stream :
                                    Begins(stream, i) /\ EndOf(stream, i) = Len(stream))
      BY DEF LinesWhole
    <2>1. Split(stream, readbuf, lines) /\ stream \in Seq(Ch)
      BY DEF LinesInv, LinesTypeOK, Ch
    <2> QED BY <2>1, SplitIsWhole DEF Split
  <1> QED BY <1>1, <1>2, LinesStart, PTL DEF LinesSpec
===============================================================================
