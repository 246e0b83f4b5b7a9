------------------------------- MODULE Lookups --------------------------------
(***************************************************************************)
(* What src/dns.c promises of a lookup, without its lists, its order and    *)
(* the walk of do_dns: a lookup is accepted as active or, when all places   *)
(* are taken, as waiting; a waiting one becomes active or is refused by the *)
(* resolver; and an active one leaves by one call of its callback, or when  *)
(* its module is unloaded.  Dns implements this module.                     *)
(***************************************************************************)
EXTENDS Integers, FiniteSets

CONSTANTS
  Mods, Core,    \* modules, and &ns_module
  Ids,           \* identities of lookups
  Places         \* DNS_QUEUE_SIZE

VARIABLES
  active, waiting,   \* the lookups
  loaded,            \* who may start one
  faulted            \* a callback of a module that is gone was called

vars == <<active, waiting, loaded, faulted>>

Owners == Mods \cup {Core}

Lookup == [id : Ids, modptr : Owners]

Free(q) == \A r \in active \cup waiting : r.id # q.id

\* A new lookup q: there is a place for it, or it waits.
AcceptedAs(q, nowActive, nowWaiting) ==
  \/ Cardinality(active) < Places /\ nowActive = active \cup {q} /\ nowWaiting = waiting
  \/ Cardinality(active) = Places /\ nowActive = active /\ nowWaiting = waiting \cup {q}

\* Places are given to waiting lookups, of which some are refused, until none is
\* left that waits or no place.
Served(nowActive, nowWaiting) ==
  \E taken \in SUBSET nowWaiting : \E refused \in SUBSET (nowWaiting \ taken) :
    /\ active' = nowActive \cup taken
    /\ waiting' = nowWaiting \ (taken \cup refused)
    /\ Cardinality(active') <= Places
    /\ waiting' # {} => Cardinality(active') = Places

Start(q) ==
  /\ Free(q) /\ q.modptr \in loaded
  /\ AcceptedAs(q, active', waiting')
  /\ UNCHANGED <<loaded, faulted>>

\* The callback of q starts the lookups of started, one or none, of its module.
CallBack(q, started) ==
  /\ q \in active /\ q.modptr \in loaded
  /\ \/ started = {} /\ active' = active \ {q} /\ UNCHANGED waiting
     \/ \E r \in Lookup :
          /\ started = {r} /\ Free(r) /\ r.modptr = q.modptr
          /\ AcceptedAs(r, active' \cup {q}, waiting') /\ q \notin active'
  /\ UNCHANGED <<loaded, faulted>>

Serve == Served(active, waiting) /\ UNCHANGED <<loaded, faulted>>

Load(m) ==
  /\ m \notin loaded
  /\ loaded' = loaded \cup {m}
  /\ UNCHANGED <<active, waiting, faulted>>

\* Lookups of m are cancelled; not all, where canx_dns misses some.
Unload(m) ==
  /\ loaded' = loaded \ {m}
  /\ \E gone \in SUBSET {q \in active \cup waiting : q.modptr = m} :
       Served(active \ gone, waiting \ gone)
  /\ UNCHANGED faulted

Fault == faulted' = TRUE /\ UNCHANGED <<active, waiting, loaded>>

Init == active = {} /\ waiting = {} /\ loaded = {Core} /\ faulted = FALSE

Next ==
  /\ ~faulted
  /\ \/ \E q \in Lookup : Start(q)
     \/ \E q \in active, started \in {{}} \cup {{r} : r \in Lookup} : CallBack(q, started)
     \/ Serve
     \/ \E m \in Mods : Load(m) \/ Unload(m)
     \/ Fault

Spec == Init /\ [][Next]_vars

==============================================================================
