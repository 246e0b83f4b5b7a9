------------------------------ MODULE UserRecords ------------------------------
(***************************************************************************)
(* The records of users (src/users.c) with what is decided and counted by   *)
(* them: the exclusion flag (src/exclude.c), and the users and countries    *)
(* StatServ counts (modules/statserv: user.c, network.c, tld.c, stats.c).    *)
(*                                                                         *)
(* A Client lives at an address, which is used again after the user quit.   *)
(* The lookup of a user's address keeps a pointer to u->name, and its answer *)
(* comes when it comes (Dns): by then the user may have changed nick or be   *)
(* gone, and another one be at the address.                                 *)
(*                                                                         *)
(* A host is a value and so is the address it resolves to, the same one.    *)
(* Exclusions are those of a nick (USERHOST) and those of an address (HOST). *)
(* User modes, and the operators StatServ counts by them, are left out.      *)
(***************************************************************************)
EXTENDS Integers, FiniteSets

CONSTANTS
  Addrs,         \* memory for Clients
  Nicks, Hosts,
  Known,         \* hosts whose address comes with the user
  Codes, Code,   \* country codes, Code[h] that of the address of h
  Unknown,       \* UNKNOWN_COUNTRY_CODE, of the addresses GeoIP does not know
  NULL,
  Masks,         \* exclusions: nicks and hosts
  Exclusions,    \* StatServ's setting EXCLUSIONS
  MaxLookups,    \* bounds on the lookups in progress
  MaxCount       \* and on the users counted for a country

ASSUME UserRecordsAssumption ==
  /\ IsFiniteSet(Addrs)
  /\ Known \subseteq Hosts
  /\ Unknown \in Codes /\ Code \in [Hosts -> Codes]
  /\ NULL \notin Addrs \cup Nicks \cup Hosts
  /\ Masks \subseteq Nicks \cup Hosts
  /\ Exclusions \in BOOLEAN
  /\ MaxLookups \in Nat /\ MaxCount \in Nat

VARIABLES
  userhash,      \* userhash[n]: the Client found by nick n, or NULL
  client,        \* client[a]: the Client at a, or what is left of it
  lookups,       \* lookups of addresses in progress
  excludes,      \* ns_module.exclude_list
  loaded,        \* StatServ is loaded; it has wanted addresses since
  stats,         \* its counters
  crashed        \* StatServ used a NULL pointer

vars == <<userhash, client, lookups, excludes, loaded, stats, crashed>>

ClientRecord ==
  [name : Nicks \cup {NULL}, host : Hosts \cup {NULL}, ip : Hosts \cup {NULL},
   excluded : BOOLEAN]

NoClient == [name |-> NULL, host |-> NULL, ip |-> NULL, excluded |-> FALSE]

\* A country is in the list of StatServ or Absent from it.
Absent == -1

Stats == [users : Nat, tld : [Codes -> Nat \cup {Absent}]]

Users == {userhash[n] : n \in Nicks} \ {NULL}

TypeOK ==
  /\ userhash \in [Nicks -> Addrs \cup {NULL}]
  /\ client \in [Addrs -> ClientRecord]
  /\ lookups \subseteq [data : Addrs, host : Hosts]
  /\ excludes \subseteq Masks
  /\ loaded \in BOOLEAN /\ crashed \in BOOLEAN
  /\ stats \in Stats
  /\ \A n \in Nicks : userhash[n] # NULL => client[userhash[n]].name = n

-----------------------------------------------------------------------------
(* StatServ's counters. *)

Country(ip) == IF ip = NULL THEN Unknown ELSE Code[ip]

\* The users of a country.
Of(c) == Cardinality({a \in Users : Country(client[a].ip) = c})

Less(n) == IF n > 0 THEN n - 1 ELSE 0        \* DecStatistic

AddTLDUserMutant(s, ip) == [s EXCEPT !.tld[Country(ip)] = IF @ = Absent THEN 0 ELSE @ + 1]
AddTLDUser(s, ip) == [s EXCEPT !.tld[Country(ip)] = IF @ = Absent THEN 1 ELSE @ + 1]

DelTLDUser(s, ip) == [s EXCEPT !.tld[Country(ip)] = Less(@)]

Signon(s, u) == AddTLDUser([s EXCEPT !.users = @ + 1], u.ip)

Signoff(s, u) == DelTLDUser([s EXCEPT !.users = Less(@)], u.ip)

\* SendEvent: StatServ gets the event of u.
Told(u) == loaded /\ (Exclusions => ~u.excluded)

Room == \A c \in Codes : stats.tld[c] + 1 < MaxCount

-----------------------------------------------------------------------------
(* Users. *)

\* ns_do_exclude_user
Checked(u) == [u EXCEPT !.excluded = u.name \in excludes \/ u.ip \in excludes]

\* The address is known and counted twice, or looked up.
AddUser(a, n, h) ==
  /\ ~crashed /\ Room
  /\ a \notin Users /\ userhash[n] = NULL
  /\ LET ip == IF h \in Known THEN h ELSE NULL
         u  == Checked([name |-> n, host |-> h, ip |-> ip, excluded |-> FALSE])
         s  == Signon(stats, u)
     IN  /\ client' = [client EXCEPT ![a] = u]
         /\ stats' = IF ~Told(u) THEN stats ELSE IF ip = NULL THEN s ELSE AddTLDUser(s, ip)
  /\ userhash' = [userhash EXCEPT ![n] = a]
  /\ IF loaded /\ h \notin Known
       THEN /\ Cardinality(lookups) < MaxLookups
            /\ lookups' = lookups \cup {[data |-> a, host |-> h]}
       ELSE UNCHANGED lookups
  /\ UNCHANGED <<excludes, loaded, crashed>>

\* lookupnickip: the user whose nick is found where the lookup points to.
lookupnickip(l) ==
  /\ ~crashed /\ Room
  /\ lookups' = lookups \ {l}
  /\ LET n == client[l.data].name
     IN  IF n # NULL /\ userhash[n] # NULL
           THEN LET a == userhash[n]
                    u == Checked([client[a] EXCEPT !.ip = l.host])
                IN  /\ client' = [client EXCEPT ![a] = u]
                    /\ stats' = IF Told(u) THEN AddTLDUser(stats, u.ip) ELSE stats
           ELSE UNCHANGED <<client, stats>>
  /\ UNCHANGED <<userhash, excludes, loaded, crashed>>

LookupFails(l) ==
  /\ ~crashed
  /\ lookups' = lookups \ {l}
  /\ UNCHANGED <<userhash, client, excludes, loaded, stats, crashed>>

UserNickChangeMutant(n, m) ==
  /\ ~crashed
  /\ userhash[n] # NULL /\ userhash[m] = NULL
  /\ userhash' = [userhash EXCEPT ![m] = userhash[n]]
  /\ client' = [client EXCEPT ![userhash[n]] = Checked([@ EXCEPT !.name = m])]
  /\ UNCHANGED <<lookups, excludes, loaded, stats, crashed>>
\* The nick changes in place, where a lookup may point to.
UserNickChange(n, m) ==
  /\ ~crashed
  /\ userhash[n] # NULL /\ userhash[m] = NULL
  /\ userhash' = [userhash EXCEPT ![n] = NULL, ![m] = userhash[n]]
  /\ client' = [client EXCEPT ![userhash[n]] = Checked([@ EXCEPT !.name = m])]
  /\ UNCHANGED <<lookups, excludes, loaded, stats, crashed>>

\* QuitUser, deluser, and what StatServ's handler of EVENT_QUIT does.  The nick
\* can be read at a until the memory is used again, by the heap or a Client.
QuitUserMutant(n) ==
  /\ ~crashed
  /\ userhash[n] # NULL
  /\ LET a == userhash[n]
         u == client[a]
     IN  /\ \E left \in {n, NULL} :
              client' = [client EXCEPT ![a] = [NoClient EXCEPT !.name = left]]
         /\ UNCHANGED <<stats, crashed>>
  /\ userhash' = [userhash EXCEPT ![n] = NULL]
  /\ UNCHANGED <<lookups, excludes, loaded>>
QuitUser(n) ==
  /\ ~crashed
  /\ userhash[n] # NULL
  /\ LET a == userhash[n]
         u == client[a]
     IN  /\ \E left \in {n, NULL} :
              client' = [client EXCEPT ![a] = [NoClient EXCEPT !.name = left]]
         /\ stats' = IF Told(u) THEN Signoff(stats, u) ELSE stats
         /\ crashed' = (Told(u) /\ stats.tld[Country(u.ip)] = Absent)
  /\ userhash' = [userhash EXCEPT ![n] = NULL]
  /\ UNCHANGED <<lookups, excludes, loaded>>

-----------------------------------------------------------------------------
(* Commands and timers. *)

\* EXCLUDE ADD and EXCLUDE DEL; the flags stay until the next check.
cmd_exclude(m) ==
  /\ ~crashed
  /\ excludes' = IF m \in excludes THEN excludes \ {m} ELSE excludes \cup {m}
  /\ UNCHANGED <<userhash, client, lookups, loaded, stats, crashed>>

\* ModInit of StatServ: InitUserStats counts the users there are.
LoadStatServ ==
  /\ ~crashed /\ ~loaded
  /\ loaded' = TRUE
  /\ stats' = [users |-> Cardinality(Users),
               tld |-> [c \in Codes |-> IF c = Unknown \/ Of(c) > 0 THEN Of(c) ELSE Absent]]
  /\ UNCHANGED <<userhash, client, lookups, excludes, crashed>>

\* Daily: countries without users are dropped from the list.
ResetTLDStatistics ==
  /\ ~crashed /\ loaded
  /\ stats' = [stats EXCEPT !.tld = [c \in Codes |->
                 IF @[c] = 0 /\ c # Unknown THEN Absent ELSE @[c]]]
  /\ UNCHANGED <<userhash, client, lookups, excludes, loaded, crashed>>

-----------------------------------------------------------------------------
Init ==
  /\ userhash = [n \in Nicks |-> NULL]
  /\ client = [a \in Addrs |-> NoClient]
  /\ lookups = {} /\ excludes = {}
  /\ loaded = FALSE /\ crashed = FALSE
  /\ stats = [users |-> 0, tld |-> [c \in Codes |-> Absent]]

Next ==
  \/ \E n \in Nicks :
       \/ \E a \in Addrs, h \in Hosts : AddUser(a, n, h)
       \/ \E m \in Nicks : UserNickChange(n, m)
       \/ QuitUser(n)
  \/ \E l \in lookups : lookupnickip(l) \/ LookupFails(l)
  \/ \E m \in Masks : cmd_exclude(m)
  \/ LoadStatServ \/ ResetTLDStatistics

Spec == Init /\ [][Next]_vars

-----------------------------------------------------------------------------
(* Properties. *)

\* The counters tell nobody excluded from the others.
Uniform == Exclusions => Masks = {}

\* StatServ counts the users there are, whenever it was loaded and whatever
\* became of the lookups.
NetworkUsersCounted == loaded /\ Uniform => stats.users = Cardinality(Users)

\* The list has, for every user, the country of its address of the moment, with
\* at least as many users as it has: whatever address an answer gave to whom,
\* and whichever countries the daily reset dropped, DelTLDUser finds what it
\* decrements.
TldCoversUsers ==
  Uniform => /\ ~crashed
             /\ loaded => \A a \in Users :
                            stats.tld[Country(client[a].ip)] >= Of(Country(client[a].ip))

\* "kick of a dns reverse lookup for this host" (src/users.c:161): an address a
\* user was given is that of the host it comes from.
AddressOfOwnHost == \A a \in Users : client[a].ip \in {NULL, client[a].host}

=============================================================================
