-------------------------------- MODULE Dns ---------------------------------
(***************************************************************************)
(* src/dns.c: asynchronous lookups on behalf of the core and of modules.   *)
(* At most DnsQueueSize lookups are active, that is submitted to the       *)
(* resolver and listed in dnslist; the others wait in dnsqueue.  do_dns    *)
(* walks dnslist and calls back the answered lookups, whose callbacks may  *)
(* start lookups themselves; canx_dns drops those of a module that is      *)
(* unloaded; both refill the active list from the queue.                   *)
(*                                                                         *)
(* The resolver (adns) is external: it may have an answer to any active    *)
(* lookup, with a result or an error, each time do_dns asks for it.  One   *)
(* bound is put on callbacks: a lookup started and answered within a pass  *)
(* of do_dns does not start another one in that pass.                      *)
(***************************************************************************)
EXTENDS LinkedLists

CONSTANTS
  Mods,          \* modules that start lookups
  Core,          \* &ns_module
  Ids,           \* identities of DnsLookup records, a bound on the pending ones
  DnsQueueSize,  \* DNS_QUEUE_SIZE
  SubmitFails    \* whether adns_submit may refuse a queued lookup

ASSUME DnsAssumption ==
  /\ Core \notin Mods
  /\ Ids \subseteq Nat /\ IsFiniteSet(Ids)
  /\ DnsQueueSize \in Nat \ {0}
  /\ SubmitFails \in BOOLEAN

VARIABLES
  dnslist,       \* active lookups, oldest first
  dnsqueue,      \* queued lookups, oldest first
  present,       \* the core and the loaded modules
  pos,           \* the element the loop of do_dns is at, 0 outside of do_dns
  left,          \* elements from pos on that were there when do_dns began
  faulted        \* memory that is gone was dereferenced; the program stops

dnsvars == <<dnslist, dnsqueue, present, pos, left, faulted>>

Owners == Mods \cup {Core}

DnsLookup == [id : Ids, modptr : Owners]

Active  == Range(dnslist)
Pending == Range(dnslist) \cup Range(dnsqueue)

DnsTypeOK ==
  /\ dnslist \in Seq(DnsLookup) /\ dnsqueue \in Seq(DnsLookup)
  /\ IsInjective([i \in DOMAIN (dnslist \o dnsqueue) |-> (dnslist \o dnsqueue)[i].id])
  /\ Len(dnslist) <= DnsQueueSize
  /\ Core \in present /\ present \subseteq Owners
  /\ pos \in 0 .. DnsQueueSize + 1
  /\ left \in 0 .. DnsQueueSize
  /\ faulted \in BOOLEAN

-----------------------------------------------------------------------------
(* The two lists, as a record while a function changes them. *)

Lists == [active |-> dnslist, queue |-> dnsqueue]

FreeIds == {i \in Ids : \A q \in Pending : q.id # i}

\* Which of the free records ns_calloc hands out does not matter.
NewLookup(m) == [id |-> Min(FreeIds), modptr |-> m]

\* dns_lookup accepts q: the active list when it has room, else the queue.
Submitted(lists, q) ==
  IF Len(lists.active) < DnsQueueSize
    THEN [lists EXCEPT !.active = Append(@, q)]
    ELSE [lists EXCEPT !.queue = Append(@, q)]

CheckQueueMutant(lists, refused) == lists
CheckQueueNewestMutant(lists, refused) ==
  IF lists.queue = <<>> \/ Len(lists.active) = DnsQueueSize
    THEN lists
    ELSE [active |-> Append(lists.active, Last(lists.queue)), queue |-> Front(lists.queue)]
\* dns_check_queue, when adns_submit refuses the lookups of refused.
CheckQueue(lists, refused) ==
  LET room     == DnsQueueSize - Len(lists.active)
      taken(n) == Without(SubSeq(lists.queue, 1, n), refused)
      enough   == {n \in 0 .. Len(lists.queue) : Len(taken(n)) = room}
      n        == IF enough = {} THEN Len(lists.queue) ELSE Min(enough)
  IN  [active |-> lists.active \o taken(n),
       queue  |-> SubSeq(lists.queue, n + 1, Len(lists.queue))]

Refusals == IF SubmitFails THEN SUBSET Range(dnsqueue) ELSE {{}}

\* The loops of canx_dns over s: after a deletion they go on with the element
\* after the next one, so that of neighbours, the first of which is at i, only
\* every other one is deleted.
Canxed(s, m) ==
  {s[j] : j \in {k \in DOMAIN s : \E i \in 1 .. k :
                   /\ (k - i) % 2 = 0
                   /\ \A l \in i .. k : s[l].modptr = m
                   /\ i > 1 => s[i - 1].modptr # m}}

Become(lists) == dnslist' = lists.active /\ dnsqueue' = lists.queue

-----------------------------------------------------------------------------
(* Starting and cancelling lookups, between passes of do_dns. *)

Idle == pos = 0 /\ ~faulted

\* A refused lookup leaves no trace.
dns_lookup(m) ==
  /\ Idle /\ m \in present /\ FreeIds # {}
  /\ Become(Submitted(Lists, NewLookup(m)))
  /\ UNCHANGED <<present, pos, left, faulted>>

\* A module loaded again is taken to get the Module record it had before, so
\* that a lookup left behind by canx_dns becomes its own.
LoadModule(m) ==
  /\ Idle /\ m \notin present
  /\ present' = present \cup {m}
  /\ UNCHANGED <<dnslist, dnsqueue, pos, left, faulted>>

\* The second loop of canx_dns steps past the end when it deletes the last
\* element of the queue.
CanxFaults(m) == dnsqueue # <<>> /\ Last(dnsqueue) \in Canxed(dnsqueue, m)

\* unload_module calls canx_dns.
UnloadFaults(m) ==
  /\ Idle /\ m \in present /\ CanxFaults(m)
  /\ faulted' = TRUE
  /\ UNCHANGED <<dnslist, dnsqueue, present, pos, left>>

canx_dns(m) ==
  /\ Idle /\ m \in present /\ ~CanxFaults(m)
  /\ \E refused \in Refusals :
       Become(CheckQueue([active |-> Without(dnslist, Canxed(dnslist, m)),
                          queue  |-> Without(dnsqueue, Canxed(dnsqueue, m))], refused))
  /\ present' = present \ {m}
  /\ UNCHANGED <<pos, left, faulted>>

-----------------------------------------------------------------------------
(* do_dns, one element of dnslist at a time. *)

Begin ==
  /\ Idle /\ dnslist # <<>>
  /\ pos' = 1 /\ left' = Len(dnslist)
  /\ UNCHANGED <<dnslist, dnsqueue, present, faulted>>

AtElement == pos \in DOMAIN dnslist /\ ~faulted

Fewer(n) == IF n = 0 THEN 0 ELSE n - 1

\* adns_check says EAGAIN.
StillWaiting ==
  /\ AtElement
  /\ pos' = pos + 1 /\ left' = Fewer(left)
  /\ UNCHANGED <<dnslist, dnsqueue, present, faulted>>

\* The callback has returned and left the lists as they are in lists, and only
\* then the element is deleted.
AnsweredMutant(q, lists) ==
  /\ AtElement /\ dnslist[pos] = q
  /\ q.modptr \in present
  /\ Become([lists EXCEPT !.active = RemoveAt(@, Len(@))])
  /\ left' = Fewer(left)
  /\ UNCHANGED <<present, pos, faulted>>
Answered(q, lists) ==
  /\ AtElement /\ dnslist[pos] = q
  /\ q.modptr \in present
  /\ Become([lists EXCEPT !.active = RemoveAt(@, pos)])
  /\ left' = Fewer(left)
  /\ UNCHANGED <<present, pos, faulted>>

\* The callback may start a lookup.
CalledBack(q) ==
  \/ Answered(q, Lists)
  \/ left > 0 /\ FreeIds # {} /\ Answered(q, Submitted(Lists, NewLookup(q.modptr)))

\* The callback of a module that is gone.
CallbackFaults ==
  /\ AtElement
  /\ dnslist[pos].modptr \notin present
  /\ faulted' = TRUE
  /\ UNCHANGED <<dnslist, dnsqueue, present, pos, left>>

End ==
  /\ pos > Len(dnslist) /\ ~faulted
  /\ \E refused \in Refusals : Become(CheckQueue(Lists, refused))
  /\ pos' = 0
  /\ UNCHANGED <<present, left, faulted>>

-----------------------------------------------------------------------------
DnsInit ==
  /\ dnslist = <<>> /\ dnsqueue = <<>>
  /\ present = {Core}
  /\ pos = 0 /\ left = 0
  /\ faulted = FALSE

do_dns ==
  \/ Begin
  \/ StillWaiting
  \/ \E q \in Active : CalledBack(q)
  \/ CallbackFaults
  \/ End

DnsNext ==
  \/ \E m \in Owners : dns_lookup(m)
  \/ \E m \in Mods : LoadModule(m) \/ UnloadFaults(m) \/ canx_dns(m)
  \/ do_dns

\* An event runs do_dns every second, and adns gives up a lookup that gets no
\* answer: do_dns does not find every lookup waiting forever.
DnsSpec ==
  /\ DnsInit /\ [][DnsNext]_dnsvars
  /\ WF_dnsvars(do_dns)
  /\ \A i \in Ids : SF_dnsvars(\E q \in Active : q.id = i /\ CalledBack(q))
  /\ SF_dnsvars(CallbackFaults)

-----------------------------------------------------------------------------
(* Properties. *)

\* dns_check_queue: outside of do_dns lookups wait only while DnsQueueSize
\* others are active, whatever callbacks start and unloads cancel.
QueueOnlyWhenFull == Idle /\ dnsqueue # <<>> => Len(dnslist) = DnsQueueSize

\* An active lookup is never queued again, and the queue is served in order: of
\* two queued lookups the later one does not become active first.
QueueServedInOrder ==
  [][/\ Active \cap Range(dnsqueue') = {}
     /\ \A i, j \in DOMAIN dnsqueue :
          i < j /\ dnsqueue[j] \in Range(dnslist') => dnsqueue[i] \notin Range(dnsqueue')]_dnsvars

\* Lookups that callbacks start may overtake queued ones, but starve none.
NoLookupWaitsForever ==
  \A i \in Ids : i \notin FreeIds ~> i \in FreeIds \/ faulted

\* canx_dns is to "Canx any DNS queries for modules we might be unloading": no
\* callback into a module that is gone is pending.
NoLookupOfUnloaded == \A q \in Pending : q.modptr \in present

\* Lookups, of the elements of the two lists.
LK == INSTANCE Lookups WITH
  Places <- DnsQueueSize,
  active <- Range(dnslist), waiting <- Range(dnsqueue), loaded <- present

\* Dns implements Lookups: do_dns "Always calls the callback function even if the
\* lookup was unsuccessful", that is, an active lookup leaves by one call of its
\* callback or with its module.
KeepsThePromise == LK!Spec

=============================================================================
