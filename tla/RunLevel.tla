------------------------------- MODULE RunLevel --------------------------------
(***************************************************************************)
(* Whose code is running.  Everything a module does is attributed to        *)
(* GET_CUR_MODULE(), the entry RunLevel of RunModule, which every call of a *)
(* handler pushes (SET_RUN_LEVEL) and pops (RESET_RUN_LEVEL).  A module     *)
(* that crashes is unloaded within the signal handler, which then jumps to  *)
(* sigvbuf, the last setjmp that was executed, whether the function that    *)
(* called it is still on the stack or not.                                  *)
(*                                                                         *)
(* frames is the C stack, as far as it matters: handlers of modules, scans  *)
(* of SendAllModuleEvent, and calls of unload_module, the innermost last.   *)
(* Messages, timers, commands and answers come from the event loop, when    *)
(* the stack is empty; every handler may send events through the API.       *)
(***************************************************************************)
EXTENDS Integers, Sequences

CONSTANTS
  Mods,          \* modules
  Core,          \* &ns_module, which has commands and timers too
  MaxLevel,      \* the size of RunModule, 10
  MaxFrames      \* a bound on the depth of the stack

ASSUME RunLevelAssumption ==
  /\ Mods # {}
  /\ Core \notin Mods
  /\ MaxLevel \in Nat \ {0}
  /\ MaxFrames \in Nat

VARIABLES
  frames,        \* the stack
  RunLevel,
  RunModule,     \* entry MaxLevel is the memory after the array
  modulehash,    \* loaded modules
  sigvbuf,       \* the frame whose setjmp was the last, 0 once it has returned
  running,       \* `running' of sigsegv_handler: a crash was handled
  handler,       \* the call of unload_module of sigsegv_handler, 0 if none
  overrun,       \* RunModule was written past its end
  ended          \* the program has stopped, or what it does is undefined

vars == <<frames, RunLevel, RunModule, modulehash, sigvbuf, running, handler, overrun, ended>>

Owners == Mods \cup {Core}

Guarded   == {"event", "timer", "command"}          \* handlers called after setjmp
Handlers  == Guarded \cup {"plain"}                 \* ModInit, ModSynch, ModFini, DNS callbacks
Unloading == {"fini", "quit", "tell", "free"}       \* unload_module, by what is next
Counting  == Handlers \cup {"free"}                 \* between a SET_RUN_LEVEL and its RESET

Frame == [kind : Handlers \cup Unloading \cup {"scan"},
          mod : Owners,
          fetched : SUBSET Mods, \* of a scan, the node it has fetched, if any,
          ahead : SUBSET Mods,   \* and those to come, in the order of the table
          level : Nat]           \* the counting frames up to and with this one

Levels(s) == IF s = <<>> THEN 0 ELSE s[Len(s)].level

TypeOK ==
  /\ frames \in Seq(Frame)
  /\ RunLevel \in 0 .. MaxLevel
  /\ RunModule \in [0 .. MaxLevel -> Owners]
  /\ modulehash \subseteq Mods
  /\ sigvbuf \in 0 .. Len(frames) /\ (sigvbuf # 0 => frames[sigvbuf].kind \in Guarded)
  /\ handler \in 0 .. Len(frames)
  /\ running \in BOOLEAN /\ overrun \in BOOLEAN /\ ended \in BOOLEAN

-----------------------------------------------------------------------------
(* The macros of neostats.h. *)

UpMutant(level) == level + 1
Up(level) == IF level < MaxLevel THEN level + 1 ELSE level

DownMutant(level) == IF level > 1 THEN level - 1 ELSE level
Down(level) == IF level > 0 THEN level - 1 ELSE 0

SET_RUN_LEVELMutant(m) ==
  /\ RunLevel' = Up(RunLevel)
  /\ RunModule' = [RunModule EXCEPT ![RunLevel] = m]
  /\ overrun' = (overrun \/ Up(RunLevel) = MaxLevel)
SET_RUN_LEVEL(m) ==
  /\ RunLevel' = Up(RunLevel)
  /\ RunModule' = IF RunLevel < MaxLevel THEN [RunModule EXCEPT ![RunLevel + 1] = m] ELSE RunModule
  /\ overrun' = (overrun \/ Up(RunLevel) = MaxLevel)

RESET_RUN_LEVEL ==
  /\ RunLevel' = Down(RunLevel)
  /\ UNCHANGED <<RunModule, overrun>>

SameLevel == UNCHANGED <<RunLevel, RunModule, overrun>>

-----------------------------------------------------------------------------
(* The stack. *)

Inner == frames[Len(frames)]

Room == Len(frames) < MaxFrames

\* s with a call on top; s[Len(s)] is the caller.
Pushed(s, kind, m) ==
  Append(s, [kind |-> kind, mod |-> m, fetched |-> {}, ahead |-> {},
             level |-> Levels(s) + IF kind \in Counting THEN 1 ELSE 0])

\* s whose innermost frame has gone on to kind.
Became(s, kind) ==
  LET top == s[Len(s)]
  IN  [s EXCEPT ![Len(s)] = [top EXCEPT !.kind = kind,
         !.level = IF kind \in Counting THEN top.level + 1 ELSE top.level]]

Returned(s) == SubSeq(s, 1, Len(s) - 1)

\* The buffer once only the frames of s are left.
Buffer(s) == IF sigvbuf <= Len(s) THEN sigvbuf ELSE 0

CallMutant(s, kind, m) ==
  /\ frames' = Pushed(s, kind, m)
  /\ sigvbuf' = IF sigvbuf = 0 /\ kind \in Guarded THEN Len(s) + 1 ELSE sigvbuf
  /\ SET_RUN_LEVEL(m)
\* A handler of m is called from s: setjmp, if the caller does it, and the level.
Call(s, kind, m) ==
  /\ frames' = Pushed(s, kind, m)
  /\ sigvbuf' = IF kind \in Guarded THEN Len(s) + 1 ELSE sigvbuf
  /\ SET_RUN_LEVEL(m)

\* What hash_scan_next fetches of the nodes of ms: one of them, or nothing.
Fetches(ms) == IF ms = {} THEN {{}} ELSE {{m} : m \in ms}

Scan(s, f) ==
  Append(s, [kind |-> "scan", mod |-> Core, fetched |-> f, ahead |-> modulehash \ f,
             level |-> Levels(s)])

Running == ~ended /\ frames # <<>>

-----------------------------------------------------------------------------
(* Calls from the event loop and from handlers. *)

\* A timer, a command of a bot, the answer to a lookup or the end of the burst.
CallFromLoop(kind, m) ==
  /\ ~ended /\ frames = <<>> /\ Room
  /\ m \in modulehash \cup {Core}
  /\ Call(frames, kind, m)
  /\ UNCHANGED <<modulehash, running, handler, ended>>

\* The loop, while it processes a message, or a handler calls SendAllModuleEvent.
SendAllModuleEvent ==
  /\ ~ended /\ Room
  /\ frames # <<>> => Inner.kind \in Handlers
  /\ \E f \in Fetches(modulehash) : frames' = Scan(frames, f)
  /\ SameLevel /\ UNCHANGED <<modulehash, sigvbuf, running, handler, ended>>

Scanning == Running /\ Inner.kind = "scan"

\* hash_scan_next returns the node it has fetched and fetches f.
Stepped(f) ==
  [frames EXCEPT ![Len(frames)] = [Inner EXCEPT !.fetched = f, !.ahead = Inner.ahead \ f]]

\* SendEvent: the module m takes the event,
SendEvent(m) ==
  /\ Scanning /\ m \in Inner.fetched \cap modulehash /\ Room
  /\ \E f \in Fetches(Inner.ahead) : Call(Stepped(f), "event", m)
  /\ UNCHANGED <<modulehash, running, handler, ended>>

\* or has no handler, is not synched, or the source is excluded.
SkipModule ==
  /\ Scanning /\ Inner.fetched \cap modulehash # {}
  /\ \E f \in Fetches(Inner.ahead) : frames' = Stepped(f)
  /\ SameLevel /\ UNCHANGED <<modulehash, sigvbuf, running, handler, ended>>

\* The node the scan had fetched was freed by an unload.
ScanFaults ==
  /\ Scanning /\ Inner.fetched \ modulehash # {}
  /\ ended' = TRUE
  /\ UNCHANGED <<frames, RunLevel, RunModule, modulehash, sigvbuf, running, handler, overrun>>

ScanEnds ==
  /\ Scanning /\ Inner.fetched = {}
  /\ frames' = Returned(frames)
  /\ SameLevel /\ UNCHANGED <<modulehash, sigvbuf, running, handler, ended>>

HandlerReturns ==
  /\ Running /\ Inner.kind \in Handlers
  /\ frames' = Returned(frames)
  /\ sigvbuf' = Buffer(Returned(frames))
  /\ RESET_RUN_LEVEL
  /\ UNCHANGED <<modulehash, running, handler, ended>>

InCoreCommand == Running /\ Inner.kind = "command" /\ Inner.mod = Core

\* load_module enters m in the hash and calls ModInit.
load_module(m) ==
  /\ InCoreCommand /\ Room /\ m \notin modulehash
  /\ modulehash' = modulehash \cup {m}
  /\ Call(frames, "plain", m)
  /\ UNCHANGED <<running, handler, ended>>

-----------------------------------------------------------------------------
(* unload_module.  m leaves the hash at once, so that it gets no more events *)
(* and scans no longer come to it, but for a scan that has fetched it.       *)

Purged(s, m) == [i \in DOMAIN s |-> [s[i] EXCEPT !.ahead = s[i].ahead \ {m}]]

\* The stack of a caller that enters unload_module(m).
UnloadPushed(m) == Pushed(Purged(frames, m), "fini", m)

ns_cmd_unload(m) ==
  /\ InCoreCommand /\ Room /\ m \in modulehash
  /\ modulehash' = modulehash \ {m}
  /\ frames' = UnloadPushed(m)
  /\ SameLevel /\ UNCHANGED <<sigvbuf, running, handler, ended>>

CallModFini ==
  /\ Running /\ Inner.kind = "fini" /\ Room
  /\ Call(Became(frames, "quit"), "plain", Inner.mod)
  /\ UNCHANGED <<modulehash, running, handler, ended>>

\* DelModuleBots: the bots of m quit, one of them or none here.
SendQuits ==
  /\ Running /\ Inner.kind = "quit" /\ Room
  /\ \/ \E f \in Fetches(modulehash) : frames' = Scan(Became(frames, "tell"), f)
     \/ frames' = Became(frames, "tell")
  /\ SameLevel /\ UNCHANGED <<modulehash, sigvbuf, running, handler, ended>>

\* EVENT_MODULEUNLOAD is sent as m.
SendModuleUnload ==
  /\ Running /\ Inner.kind = "tell" /\ Room
  /\ \E f \in Fetches(modulehash) : frames' = Scan(Became(frames, "free"), f)
  /\ SET_RUN_LEVEL(Inner.mod)
  /\ UNCHANGED <<modulehash, sigvbuf, running, handler, ended>>

Unloaded == Running /\ Inner.kind = "free"

\* The data of m is removed, again as m, and its code unmapped.
UnloadReturns ==
  /\ Unloaded /\ handler # Len(frames)
  /\ frames' = Returned(frames)
  /\ RunLevel' = Down(Up(Down(RunLevel)))
  /\ RunModule' = [RunModule EXCEPT ![Up(Down(RunLevel))] = Inner.mod]
  /\ UNCHANGED <<modulehash, sigvbuf, running, handler, overrun, ended>>

-----------------------------------------------------------------------------
(* sigsegv_handler: the code of the innermost frame crashes. *)

Stops ==
  /\ ended' = TRUE
  /\ UNCHANGED <<frames, RunLevel, RunModule, modulehash, sigvbuf, running, handler, overrun>>

Culprit == RunModule[RunLevel]

\* A second crash, or one at level 0.
CrashExits ==
  /\ Running /\ Inner.kind \in Handlers
  /\ running \/ RunLevel = 0
  /\ Stops

Crashing == Running /\ Inner.kind \in Handlers /\ ~running /\ RunLevel > 0

CrashUnloads ==
  /\ Crashing /\ Culprit \in modulehash /\ Room
  /\ RunLevel' = 0
  /\ modulehash' = modulehash \ {Culprit}
  /\ frames' = UnloadPushed(Culprit)
  /\ running' = TRUE /\ handler' = Len(frames) + 1
  /\ UNCHANGED <<RunModule, sigvbuf, overrun, ended>>

\* longjmp to the caller of frame sigvbuf: SendEvent and CheckTimers_cb return
\* without RESET_RUN_LEVEL, run_bot_cmd does it.
Landed(level) ==
  /\ sigvbuf # 0
  /\ frames' = SubSeq(frames, 1, sigvbuf - 1)
  /\ RunLevel' = IF frames[sigvbuf].kind = "command" THEN Down(level) ELSE level
  /\ sigvbuf' = 0 /\ handler' = 0

\* The core, or a module that is being unloaded: unload_module does not find it.
CrashJumps ==
  /\ Crashing /\ Culprit \notin modulehash
  /\ Landed(0)
  /\ running' = TRUE
  /\ UNCHANGED <<RunModule, modulehash, overrun, ended>>

HandlerDone == Unloaded /\ handler = Len(frames)

UnloadJumps ==
  /\ HandlerDone
  /\ Landed(Down(RunLevel))
  /\ UNCHANGED <<RunModule, modulehash, running, overrun, ended>>

\* The buffer is that of a function that has returned, or of none; or what
\* SendEvent and CheckTimers_cb log of the module they called is unmapped.
JumpFaults ==
  /\ \/ HandlerDone /\ (sigvbuf # 0 => frames[sigvbuf].kind # "command")
     \/ Crashing /\ Culprit \notin modulehash /\ sigvbuf = 0
  /\ Stops

-----------------------------------------------------------------------------
Init ==
  /\ frames = <<>>
  /\ RunLevel = 0 /\ RunModule = [i \in 0 .. MaxLevel |-> Core]
  /\ modulehash = Mods
  /\ sigvbuf = 0 /\ handler = 0
  /\ running = FALSE /\ overrun = FALSE /\ ended = FALSE

Next ==
  \/ \E kind \in {"timer", "command", "plain"}, m \in Owners : CallFromLoop(kind, m)
  \/ SendAllModuleEvent
  \/ \E m \in Mods : SendEvent(m)
  \/ SkipModule \/ ScanFaults \/ ScanEnds
  \/ HandlerReturns
  \/ \E m \in Mods : load_module(m) \/ ns_cmd_unload(m)
  \/ CallModFini \/ SendQuits \/ SendModuleUnload \/ UnloadReturns
  \/ CrashExits \/ CrashUnloads \/ CrashJumps \/ UnloadJumps \/ JumpFaults

Spec == Init /\ [][Next]_vars

-----------------------------------------------------------------------------
(* Properties. *)

\* Until a crash was handled or the array overrun, the run level is the number
\* of calls in progress, and each entry the module called: what GET_CUR_MODULE
\* says is the module whose handler is innermost, however calls nest.
CurrentIsInnermost ==
  ~running /\ ~overrun =>
    /\ RunLevel = Levels(frames)
    /\ \A i \in DOMAIN frames :
         frames[i].kind \in Counting => RunModule[frames[i].level] = frames[i].mod

\* Whatever was skipped at the limit or cut off by a crash, the event loop runs
\* as the core again.
LoopRunsAsCore == frames = <<>> => RunLevel = 0

\* sigsegv_handler: the stack is restored "to location before we jumped into
\* the module": what a jump abandons is code of the core and of the one module
\* whose handler crashed, never of another module.
JumpAbandonsCulpritOnly ==
  [][~overrun /\ Len(frames') < Len(frames) - 1 =>
       \E m \in Mods : \A i \in Len(frames') + 1 .. Len(frames) :
         frames[i].mod \in {m, Core}]_vars

=============================================================================
