---------------------------- MODULE StatServ_proofs ----------------------------
(***************************************************************************)
(* What StatServ counts: proofs about UserRecords, for every value of its   *)
(* constants, and about Statistics, for every year, first days of months    *)
(* and number of users, with weeks of seven days and a StatServ that is not *)
(* unloaded between midnight and the reset.                                 *)
(*                                                                         *)
(* That DelTLDUser finds a country for every user who quits needs an        *)
(* invariant about the number of users of each country, and that no two     *)
(* nicks find the same Client: then every step moves at most one user from  *)
(* one country to another, and every arrival in a country is counted.       *)
(***************************************************************************)
EXTENDS UserRecords, Statistics, FiniteSetTheorems, TLAPS

-----------------------------------------------------------------------------
(* UserRecords: the users and their countries. *)

Located(c) == {a \in Users : Country(client[a].ip) = c}

\* Without masks nobody is excluded.
NobodyExcluded == Masks = {} => \A a \in Addrs : ~client[a].excluded

CountriesCovered ==
  loaded => \A c \in Codes : Of(c) > 0 => stats.tld[c] >= Of(c)

IInv ==
  /\ TypeOK
  /\ NobodyExcluded
  /\ NetworkUsersCounted
  /\ Uniform => ~crashed /\ CountriesCovered

-----------------------------------------------------------------------------
(* Users are found by one nick each. *)

LEMMA UsersFacts ==
  ASSUME TypeOK
  PROVE  /\ Users \subseteq Addrs /\ IsFiniteSet(Users) /\ Cardinality(Users) \in Nat
         /\ \A n \in Nicks : userhash[n] # NULL => userhash[n] \in Users
         /\ \A a \in Users : \E n \in Nicks : userhash[n] = a /\ a # NULL
         /\ \A n, m \in Nicks : userhash[n] # NULL /\ userhash[n] = userhash[m] => n = m
<1>1. Users \subseteq Addrs
  BY DEF Users, TypeOK
<1>2. IsFiniteSet(Users) /\ Cardinality(Users) \in Nat
  BY <1>1, UserRecordsAssumption, FS_Subset, FS_CardinalityType
<1> QED
  BY <1>1, <1>2 DEF Users, TypeOK

LEMMA LocatedFacts ==
  ASSUME TypeOK, NEW c
  PROVE  /\ Located(c) \subseteq Users /\ IsFiniteSet(Located(c))
         /\ Cardinality(Located(c)) \in Nat /\ Of(c) = Cardinality(Located(c))
         /\ Located(c) # {} => Of(c) > 0
<1>1. Located(c) \subseteq Users /\ Of(c) = Cardinality(Located(c))
  BY DEF Located, Of
<1>2. IsFiniteSet(Located(c)) /\ Cardinality(Located(c)) \in Nat
  BY <1>1, UsersFacts, FS_Subset, FS_CardinalityType
<1>3. Located(c) # {} => Cardinality(Located(c)) # 0
  BY <1>2, FS_EmptySet
<1> QED
  BY <1>1, <1>2, <1>3

LEMMA CountryType ==
  ASSUME NEW ip \in Hosts \cup {NULL}
  PROVE  Country(ip) \in Codes
  BY UserRecordsAssumption DEF Country

LEMMA AddTLDUserType ==
  ASSUME NEW s \in Stats, NEW ip \in Hosts \cup {NULL}
  PROVE  /\ AddTLDUser(s, ip) \in Stats /\ AddTLDUser(s, ip).users = s.users
         /\ \A c \in Codes : c # Country(ip) => AddTLDUser(s, ip).tld[c] = s.tld[c]
         /\ AddTLDUser(s, ip).tld[Country(ip)] >= 1
         /\ AddTLDUser(s, ip).tld[Country(ip)] >= s.tld[Country(ip)] + 1
<1> DEFINE k == Country(ip)
           n == IF s.tld[k] = Absent THEN 1 ELSE s.tld[k] + 1
<1>1. k \in Codes /\ s.tld \in [Codes -> Nat \cup {Absent}] /\ s.users \in Nat
  BY CountryType DEF Stats
<1>2. n \in Nat /\ n >= 1 /\ n >= s.tld[k] + 1
  BY <1>1 DEF Absent
<1>3. AddTLDUser(s, ip) = [s EXCEPT !.tld = [s.tld EXCEPT ![k] = n]]
  BY DEF AddTLDUser
<1> HIDE DEF k, n
<1>4. [s.tld EXCEPT ![k] = n] \in [Codes -> Nat \cup {Absent}]
  BY <1>1, <1>2
<1>5. /\ AddTLDUser(s, ip).tld = [s.tld EXCEPT ![k] = n] /\ AddTLDUser(s, ip).users = s.users
      /\ AddTLDUser(s, ip) \in Stats
  BY <1>1, <1>3, <1>4 DEF Stats
<1> QED
  BY <1>1, <1>2, <1>5 DEF k

LEMMA DelTLDUserType ==
  ASSUME NEW s \in Stats, NEW ip \in Hosts \cup {NULL}
  PROVE  /\ DelTLDUser(s, ip) \in Stats /\ DelTLDUser(s, ip).users = s.users
         /\ \A c \in Codes : c # Country(ip) => DelTLDUser(s, ip).tld[c] = s.tld[c]
         /\ DelTLDUser(s, ip).tld[Country(ip)] >= s.tld[Country(ip)] - 1
<1> DEFINE k == Country(ip)
           n == Less(s.tld[k])
<1>1. k \in Codes /\ s.tld \in [Codes -> Nat \cup {Absent}] /\ s.users \in Nat
  BY CountryType DEF Stats
<1>2. n \in Nat /\ n >= s.tld[k] - 1
  BY <1>1 DEF Absent, Less
<1>3. DelTLDUser(s, ip) = [s EXCEPT !.tld = [s.tld EXCEPT ![k] = n]]
  BY DEF DelTLDUser
<1> HIDE DEF k, n
<1>4. [s.tld EXCEPT ![k] = n] \in [Codes -> Nat \cup {Absent}]
  BY <1>1, <1>2
<1>5. /\ DelTLDUser(s, ip).tld = [s.tld EXCEPT ![k] = n] /\ DelTLDUser(s, ip).users = s.users
      /\ DelTLDUser(s, ip) \in Stats
  BY <1>1, <1>3, <1>4 DEF Stats
<1> QED
  BY <1>1, <1>2, <1>5 DEF k

-----------------------------------------------------------------------------
(* Sets of users. *)

\* One more user, of one country.
LEMMA OneMore ==
  ASSUME TypeOK, TypeOK', NEW a, a \notin Users, Users' = Users \cup {a},
         \A b \in Users : client'[b] = client[b]
  PROVE  /\ Cardinality(Users') = Cardinality(Users) + 1
         /\ \A c : Of(c)' = IF c = Country(client'[a].ip) THEN Of(c) + 1 ELSE Of(c)
<1>1. IsFiniteSet(Users)
  BY UsersFacts
<1>2. ASSUME NEW c PROVE Of(c)' = IF c = Country(client'[a].ip) THEN Of(c) + 1 ELSE Of(c)
  <2>1. Of(c)' = Cardinality(Located(c)')
    BY DEF Of, Located
  <2>2. Located(c)' = Located(c) \cup IF c = Country(client'[a].ip) THEN {a} ELSE {}
    BY DEF Located, Country
  <2>3. IsFiniteSet(Located(c)) /\ a \notin Located(c) /\ Of(c) = Cardinality(Located(c))
    BY LocatedFacts
  <2>4. CASE c = Country(client'[a].ip)
    BY <2>1, <2>2, <2>3, <2>4, FS_AddElement
  <2>5. CASE c # Country(client'[a].ip)
    BY <2>1, <2>2, <2>3, <2>5
  <2> QED
    BY <2>4, <2>5
<1> QED
  BY <1>1, <1>2, FS_AddElement

\* One user less.
LEMMA OneLess ==
  ASSUME TypeOK, TypeOK', NEW a \in Users, Users' = Users \ {a},
         \A b \in Users \ {a} : client'[b] = client[b]
  PROVE  /\ Cardinality(Users') = Cardinality(Users) - 1
         /\ \A c : Of(c)' = IF c = Country(client[a].ip) THEN Of(c) - 1 ELSE Of(c)
<1>1. IsFiniteSet(Users)
  BY UsersFacts
<1>2. ASSUME NEW c PROVE Of(c)' = IF c = Country(client[a].ip) THEN Of(c) - 1 ELSE Of(c)
  <2>1. Of(c)' = Cardinality(Located(c)')
    BY DEF Of, Located
  <2>2. Located(c)' = Located(c) \ {a}
    BY DEF Located, Country
  <2>3. IsFiniteSet(Located(c)) /\ Of(c) = Cardinality(Located(c))
        /\ (a \in Located(c) <=> c = Country(client[a].ip))
    BY LocatedFacts DEF Located
  <2> QED
    BY <2>1, <2>2, <2>3, FS_RemoveElement
<1> QED
  BY <1>1, <1>2, FS_RemoveElement

\* One user comes to another country, or stays where it was.
LEMMA OneMoved ==
  ASSUME TypeOK, TypeOK', NEW a \in Users, Users' = Users,
         \A b \in Users \ {a} : client'[b].ip = client[b].ip
  PROVE  \A c : /\ Of(c)' \in Nat /\ Of(c)' <= Of(c) + 1
                /\ c # Country(client'[a].ip) => Of(c)' <= Of(c)
                /\ client'[a].ip = client[a].ip => Of(c)' = Of(c)
<1> SUFFICES ASSUME NEW c
             PROVE  /\ Of(c)' \in Nat /\ Of(c)' <= Of(c) + 1
                    /\ c # Country(client'[a].ip) => Of(c)' <= Of(c)
                    /\ client'[a].ip = client[a].ip => Of(c)' = Of(c)
  OBVIOUS
<1>1. Of(c)' = Cardinality(Located(c)')
  BY DEF Of, Located
<1>2. IsFiniteSet(Located(c)) /\ Of(c) = Cardinality(Located(c)) /\ Of(c) \in Nat
  BY LocatedFacts
<1>3. Located(c)' \subseteq Located(c) \cup {a}
  BY DEF Located, Country
<1>4. IsFiniteSet(Located(c) \cup {a}) /\ Cardinality(Located(c) \cup {a}) <= Of(c) + 1
      /\ Cardinality(Located(c) \cup {a}) \in Nat
  <2>1. IsFiniteSet(Located(c) \cup {a})
        /\ Cardinality(Located(c) \cup {a}) = IF a \in Located(c) THEN Of(c) ELSE Of(c) + 1
    BY <1>2, FS_AddElement
  <2> QED
    BY <1>2, <2>1
<1>5. Of(c)' \in Nat /\ Of(c)' <= Of(c) + 1
  <2>1. IsFiniteSet(Located(c)') /\ Cardinality(Located(c)') <= Cardinality(Located(c) \cup {a})
        /\ Cardinality(Located(c)') \in Nat
    BY <1>3, <1>4, FS_Subset, FS_CardinalityType
  <2> QED
    BY <1>1, <1>2, <1>4, <2>1
<1>6. ASSUME c # Country(client'[a].ip) PROVE Of(c)' <= Of(c)
  <2>1. Located(c)' \subseteq Located(c)
    BY <1>6 DEF Located, Country
  <2> QED
    BY <1>1, <1>2, <2>1, FS_Subset
<1>7. ASSUME client'[a].ip = client[a].ip PROVE Of(c)' = Of(c)
  <2>1. Located(c)' = Located(c)
    BY <1>7 DEF Located, Country
  <2> QED
    BY <1>1, <1>2, <2>1
<1> QED
  BY <1>5, <1>6, <1>7

-----------------------------------------------------------------------------
(* The actions. *)

LEMMA CheckedType ==
  ASSUME NEW u \in ClientRecord
  PROVE  /\ Checked(u) \in ClientRecord
         /\ Checked(u).name = u.name /\ Checked(u).host = u.host /\ Checked(u).ip = u.ip
         /\ excludes = {} => ~Checked(u).excluded
  BY DEF Checked, ClientRecord

LEMMA ClientType ==
  ASSUME TypeOK, NEW a \in Addrs
  PROVE  client[a] \in ClientRecord /\ client[a].ip \in Hosts \cup {NULL}
  BY DEF TypeOK, ClientRecord

\* StatServ is told of everybody when nobody is excluded or it does not care.
LEMMA ToldAll ==
  ASSUME TypeOK, Uniform, NEW u, Masks = {} => ~u.excluded
  PROVE  Told(u) <=> loaded
  BY DEF Told, Uniform, TypeOK

LEMMA AddUserStep ==
  ASSUME IInv, NEW a \in Addrs, NEW n \in Nicks, NEW h \in Hosts, AddUser(a, n, h)
  PROVE  IInv'
<1> DEFINE ip == IF h \in Known THEN h ELSE NULL
           u  == Checked([name |-> n, host |-> h, ip |-> ip, excluded |-> FALSE])
           s1 == [stats EXCEPT !.users = @ + 1]
           s  == Signon(stats, u)
           s2 == IF ip = NULL THEN s ELSE AddTLDUser(s, ip)
<1>1. /\ ~crashed /\ a \notin Users /\ userhash[n] = NULL
      /\ client' = [client EXCEPT ![a] = u]
      /\ stats' = IF Told(u) THEN s2 ELSE stats
      /\ userhash' = [userhash EXCEPT ![n] = a]
      /\ UNCHANGED <<excludes, loaded, crashed>>
  BY DEF AddUser
<1>2. ip \in Hosts \cup {NULL} /\ [name |-> n, host |-> h, ip |-> ip, excluded |-> FALSE] \in ClientRecord
  BY DEF ClientRecord
<1>3. u \in ClientRecord /\ u.name = n /\ u.ip = ip /\ (excludes = {} => ~u.excluded)
  BY <1>2, CheckedType
<1>4. TypeOK
  BY DEF IInv
<1>5. s1 \in Stats /\ s1.users = stats.users + 1 /\ s1.tld = stats.tld /\ stats.users \in Nat
  BY <1>4 DEF TypeOK, Stats
<1>6. s = AddTLDUser(s1, ip)
  BY <1>3 DEF Signon
<1> HIDE DEF u, s1, ip
<1>7. s \in Stats /\ s.users = s1.users
      /\ (\A c \in Codes : c # Country(ip) => s.tld[c] = stats.tld[c])
      /\ s.tld[Country(ip)] >= stats.tld[Country(ip)] + 1 /\ s.tld[Country(ip)] >= 1
  BY <1>2, <1>5, <1>6, AddTLDUserType
<1> HIDE DEF s
<1>8. /\ s2 \in Stats /\ s2.users = stats.users + 1
      /\ \A c \in Codes : c # Country(ip) => s2.tld[c] = stats.tld[c]
      /\ s2.tld[Country(ip)] >= stats.tld[Country(ip)] + 1 /\ s2.tld[Country(ip)] >= 1
  <2>1. CASE ip = NULL
    BY <1>5, <1>7, <2>1
  <2>2. CASE ip # NULL
    <3>1. s2 = AddTLDUser(s, ip)
      BY <2>2
    <3>2. /\ stats.tld[Country(ip)] \in Int /\ s.tld[Country(ip)] \in Int
          /\ AddTLDUser(s, ip).tld[Country(ip)] \in Int
      BY <1>2, <1>4, <1>7, CountryType, AddTLDUserType DEF TypeOK, Stats, Absent
    <3> QED
      BY <1>2, <1>5, <1>7, <3>1, <3>2, AddTLDUserType
  <2> QED
    BY <2>1, <2>2
<1> HIDE DEF s2
<1>9. TypeOK'
  <2>1. userhash' \in [Nicks -> Addrs \cup {NULL}] /\ client' \in [Addrs -> ClientRecord]
    BY <1>1, <1>3, <1>4 DEF TypeOK
  <2>2. stats' \in Stats /\ excludes' \subseteq Masks /\ loaded' \in BOOLEAN /\ crashed' \in BOOLEAN
    BY <1>1, <1>4, <1>8 DEF TypeOK
  <2>3. lookups' \subseteq [data : Addrs, host : Hosts]
    BY <1>4 DEF AddUser, TypeOK
  <2>4. ASSUME NEW m \in Nicks, userhash'[m] # NULL PROVE client'[userhash'[m]].name = m
    <3>1. CASE m = n
      BY <1>1, <1>3, <1>4, <3>1 DEF TypeOK
    <3>2. CASE m # n
      <4>1. userhash'[m] = userhash[m] /\ userhash[m] \in Users
        BY <1>1, <1>4, <2>4, <3>2, UsersFacts DEF TypeOK
      <4> QED
        BY <1>1, <1>4, <2>4, <4>1, UsersFacts DEF TypeOK
    <3> QED
      BY <3>1, <3>2
  <2> QED
    BY <2>1, <2>2, <2>3, <2>4 DEF TypeOK
<1>10. Users' = Users \cup {a} /\ a # NULL
  <2>1. a # NULL
    BY UserRecordsAssumption
  <2>2. {userhash'[k] : k \in Nicks} = {userhash[k] : k \in Nicks \ {n}} \cup {a}
    BY <1>1, <1>4 DEF TypeOK
  <2>3. Users = {userhash[k] : k \in Nicks \ {n}} \ {NULL}
    BY <1>1 DEF Users
  <2> QED
    BY <2>1, <2>2, <2>3 DEF Users
<1>11. /\ Cardinality(Users') = Cardinality(Users) + 1
       /\ \A c : Of(c)' = IF c = Country(ip) THEN Of(c) + 1 ELSE Of(c)
  <2>1. \A b \in Users : client'[b] = client[b]
    BY <1>1, <1>4, UsersFacts DEF TypeOK
  <2>2. client'[a].ip = ip
    BY <1>1, <1>3, <1>4 DEF TypeOK
  <2> QED
    BY <1>1, <1>4, <1>9, <1>10, <2>1, <2>2, OneMore
<1>12. NobodyExcluded'
  BY <1>1, <1>3, <1>4 DEF IInv, NobodyExcluded, TypeOK
<1>13. Uniform => (Told(u) <=> loaded)
  BY <1>3, <1>4, ToldAll DEF TypeOK
<1>14. NetworkUsersCounted'
  BY <1>1, <1>8, <1>11, <1>13 DEF IInv, NetworkUsersCounted, Uniform
<1>15. Uniform => ~crashed' /\ CountriesCovered'
  <2>1. SUFFICES ASSUME Uniform, loaded, NEW c \in Codes, Of(c)' > 0
                 PROVE  stats'.tld[c] >= Of(c)'
    BY <1>1 DEF CountriesCovered, Uniform
  <2>2. stats' = s2 /\ Of(c) \in Nat /\ stats.tld[c] \in Int /\ s2.tld[c] \in Int
    BY <1>1, <1>4, <1>8, <1>13, <2>1, LocatedFacts DEF TypeOK, Stats, Absent
  <2>3. Of(c) > 0 => stats.tld[c] >= Of(c)
    BY <2>1 DEF IInv, CountriesCovered
  <2>4. CASE c = Country(ip)
    BY <1>8, <1>11, <2>1, <2>2, <2>3, <2>4
  <2>5. CASE c # Country(ip)
    BY <1>8, <1>11, <2>1, <2>2, <2>3, <2>5
  <2> QED
    BY <2>4, <2>5
<1> QED
  BY <1>9, <1>12, <1>14, <1>15 DEF IInv, Uniform

LEMMA lookupnickipStep ==
  ASSUME IInv, NEW l \in lookups, lookupnickip(l)
  PROVE  IInv'
<1>1. TypeOK /\ l \in [data : Addrs, host : Hosts]
  BY DEF IInv, TypeOK
<1> DEFINE n == client[l.data].name
           a == userhash[n]
           u == Checked([client[a] EXCEPT !.ip = l.host])
<1>2. CASE n # NULL /\ userhash[n] # NULL
  <2>1. /\ ~crashed /\ client' = [client EXCEPT ![a] = u]
        /\ stats' = (IF Told(u) THEN AddTLDUser(stats, u.ip) ELSE stats)
        /\ UNCHANGED <<userhash, excludes, loaded, crashed>> /\ lookups' = lookups \ {l}
    BY <1>2 DEF lookupnickip
  <2>2. n \in Nicks /\ a \in Users /\ a \in Addrs
    BY <1>1, <1>2, UsersFacts DEF TypeOK, ClientRecord
  <2>3. /\ [client[a] EXCEPT !.ip = l.host] \in ClientRecord
        /\ [client[a] EXCEPT !.ip = l.host].ip = l.host
        /\ [client[a] EXCEPT !.ip = l.host].name = client[a].name
    BY <1>1, <2>2, ClientType DEF ClientRecord
  <2>4. u \in ClientRecord /\ u.name = client[a].name /\ u.ip = l.host /\ (excludes = {} => ~u.excluded)
    BY <2>3, CheckedType
  <2> HIDE DEF u, a, n
  <2>5. /\ AddTLDUser(stats, u.ip) \in Stats /\ AddTLDUser(stats, u.ip).users = stats.users
        /\ \A c \in Codes : c # Country(u.ip) => AddTLDUser(stats, u.ip).tld[c] = stats.tld[c]
        /\ AddTLDUser(stats, u.ip).tld[Country(u.ip)] >= 1
        /\ AddTLDUser(stats, u.ip).tld[Country(u.ip)] >= stats.tld[Country(u.ip)] + 1
    BY <1>1, <2>4, AddTLDUserType DEF TypeOK
  <2>6. client'[a] = u /\ \A b \in Addrs \ {a} : client'[b] = client[b]
    BY <1>1, <2>1, <2>2 DEF TypeOK
  <2>7. TypeOK'
    <3>1. client' \in [Addrs -> ClientRecord] /\ stats' \in Stats
      BY <1>1, <2>1, <2>4, <2>5 DEF TypeOK
    <3>2. \A k \in Nicks : userhash[k] # NULL => client'[userhash[k]].name = client[userhash[k]].name
      BY <1>1, <2>4, <2>6, UsersFacts
    <3> QED
      BY <1>1, <2>1, <3>1, <3>2 DEF TypeOK
  <2>8. Users' = Users
    BY <2>1 DEF Users
  <2>9. \A c : /\ Of(c)' \in Nat /\ Of(c)' <= Of(c) + 1
               /\ c # Country(u.ip) => Of(c)' <= Of(c)
    <3>1. \A b \in Users \ {a} : client'[b].ip = client[b].ip
      BY <1>1, <2>6, UsersFacts
    <3>2. TypeOK /\ TypeOK' /\ a \in Users /\ Users' = Users
      BY <1>1, <2>2, <2>7, <2>8
    <3>3. client'[a] = u
      BY <2>6
    <3> QED
      BY <3>1, <3>2, <3>3, OneMoved
  <2>10. NobodyExcluded'
    BY <1>1, <2>1, <2>4, <2>6 DEF IInv, NobodyExcluded, TypeOK
  <2>11. NetworkUsersCounted'
    BY <2>1, <2>5, <2>8 DEF IInv, NetworkUsersCounted, Uniform
  <2>12. Uniform => ~crashed' /\ CountriesCovered'
    <3>1. SUFFICES ASSUME Uniform, loaded, NEW c \in Codes, Of(c)' > 0
                   PROVE  stats'.tld[c] >= Of(c)'
      BY <2>1 DEF CountriesCovered, Uniform
    <3>2. stats' = AddTLDUser(stats, u.ip)
      BY <1>1, <2>1, <2>4, <3>1, ToldAll DEF TypeOK
    <3>3. /\ Of(c) \in Nat /\ Of(c)' \in Nat
          /\ stats.tld[c] \in Int /\ stats'.tld[c] \in Int
      BY <1>1, <2>7, <2>9, LocatedFacts DEF TypeOK, Stats, Absent
    <3>4. Of(c) > 0 => stats.tld[c] >= Of(c)
      BY <3>1 DEF IInv, CountriesCovered
    <3>5. CASE c = Country(u.ip)
      BY <2>5, <2>9, <3>1, <3>2, <3>3, <3>4, <3>5
    <3>6. CASE c # Country(u.ip)
      BY <2>5, <2>9, <3>1, <3>2, <3>3, <3>4, <3>6
    <3> QED
      BY <3>5, <3>6
  <2> QED
    BY <2>7, <2>10, <2>11, <2>12 DEF IInv, Uniform
<1>3. CASE ~(n # NULL /\ userhash[n] # NULL)
  <2>1. UNCHANGED <<userhash, client, excludes, loaded, stats, crashed>> /\ lookups' = lookups \ {l}
    BY <1>3 DEF lookupnickip
  <2> QED
    BY <2>1 DEF IInv, TypeOK, NobodyExcluded, NetworkUsersCounted, CountriesCovered, Uniform,
                Users, Of, Country
<1> QED
  BY <1>2, <1>3

LEMMA UserNickChangeStep ==
  ASSUME IInv, NEW n \in Nicks, NEW m \in Nicks, UserNickChange(n, m)
  PROVE  IInv'
<1> DEFINE a == userhash[n]
           u == Checked([client[a] EXCEPT !.name = m])
<1>1. /\ ~crashed /\ a # NULL /\ userhash[m] = NULL
      /\ userhash' = [userhash EXCEPT ![n] = NULL, ![m] = a]
      /\ client' = [client EXCEPT ![a] = u]
      /\ UNCHANGED <<lookups, excludes, loaded, stats, crashed>>
  BY DEF UserNickChange
<1>2. TypeOK /\ a \in Users /\ a \in Addrs /\ n # m
  BY <1>1, UsersFacts DEF IInv
<1>3. [client[a] EXCEPT !.name = m] \in ClientRecord
      /\ [client[a] EXCEPT !.name = m].ip = client[a].ip
      /\ [client[a] EXCEPT !.name = m].name = m
  BY <1>2, ClientType DEF ClientRecord
<1>4. u \in ClientRecord /\ u.name = m /\ u.ip = client[a].ip /\ (excludes = {} => ~u.excluded)
  BY <1>3, CheckedType
<1> HIDE DEF u
<1>5. client'[a] = u /\ \A b \in Addrs \ {a} : client'[b] = client[b]
  BY <1>1, <1>2 DEF TypeOK
<1>6. userhash'[n] = NULL /\ userhash'[m] = a
      /\ \A k \in Nicks \ {n, m} : userhash'[k] = userhash[k] /\ userhash[k] # a
  BY <1>1, <1>2, UsersFacts DEF TypeOK
<1>7. TypeOK'
  <2>1. userhash' \in [Nicks -> Addrs \cup {NULL}] /\ client' \in [Addrs -> ClientRecord]
    BY <1>1, <1>2, <1>4 DEF TypeOK
  <2>2. ASSUME NEW k \in Nicks, userhash'[k] # NULL PROVE client'[userhash'[k]].name = k
    <3>1. CASE k = m
      BY <1>4, <1>5, <1>6, <3>1
    <3>2. CASE k # m
      <4>1. userhash'[k] = userhash[k] /\ userhash[k] \in Addrs \ {a}
        BY <1>2, <1>6, <2>2, <3>2, UsersFacts
      <4> QED
        BY <1>2, <1>5, <2>2, <4>1 DEF TypeOK
    <3> QED
      BY <3>1, <3>2
  <2> QED
    BY <1>1, <1>2, <2>1, <2>2 DEF TypeOK
<1>8. Users' = Users
  <2>1. ASSUME NEW b \in Users' PROVE b \in Users
    BY <1>2, <1>6, <2>1 DEF Users
  <2>2. ASSUME NEW b \in Users PROVE b \in Users'
    <3>1. PICK k \in Nicks : userhash[k] = b /\ b # NULL
      BY <1>2, UsersFacts
    <3>2. k = n \/ k \in Nicks \ {n, m}
      BY <1>1, <3>1
    <3> QED
      BY <1>6, <3>1, <3>2 DEF Users
  <2> QED
    BY <2>1, <2>2
<1>9. \A c : Of(c)' = Of(c)
  <2>1. \A b \in Users \ {a} : client'[b].ip = client[b].ip
    BY <1>2, <1>5, UsersFacts
  <2>2. client'[a].ip = client[a].ip
    BY <1>4, <1>5
  <2>3. TypeOK /\ TypeOK' /\ a \in Users /\ Users' = Users
    BY <1>2, <1>7, <1>8
  <2> QED
    BY <2>1, <2>2, <2>3, OneMoved
<1>10. NobodyExcluded'
  BY <1>1, <1>2, <1>4, <1>5 DEF IInv, NobodyExcluded, TypeOK
<1> QED
  BY <1>1, <1>7, <1>8, <1>9, <1>10 DEF IInv, NetworkUsersCounted, CountriesCovered, Uniform

LEMMA QuitUserStep ==
  ASSUME IInv, NEW n \in Nicks, QuitUser(n)
  PROVE  IInv'
<1> DEFINE a == userhash[n]
           u == client[a]
           s1 == [stats EXCEPT !.users = Less(@)]
           s == Signoff(stats, u)
<1>1. PICK left \in {n, NULL} : client' = [client EXCEPT ![a] = [NoClient EXCEPT !.name = left]]
  BY DEF QuitUser
<1>2. /\ ~crashed /\ a # NULL
      /\ stats' = (IF Told(u) THEN s ELSE stats)
      /\ crashed' = (Told(u) /\ stats.tld[Country(u.ip)] = Absent)
      /\ userhash' = [userhash EXCEPT ![n] = NULL]
      /\ UNCHANGED <<lookups, excludes, loaded>>
  BY DEF QuitUser
<1>3. TypeOK /\ a \in Users /\ a \in Addrs /\ u.ip \in Hosts \cup {NULL}
  BY <1>2, UsersFacts, ClientType DEF IInv
<1>4. s1 \in Stats /\ s1.users = Less(stats.users) /\ s1.tld = stats.tld /\ stats.users \in Nat
  BY <1>3 DEF TypeOK, Stats, Less
<1>5. s = DelTLDUser(s1, u.ip)
  BY DEF Signoff
<1> HIDE DEF s1, s, u
<1>6. /\ s \in Stats /\ s.users = Less(stats.users)
      /\ \A c \in Codes : c # Country(u.ip) => s.tld[c] = stats.tld[c]
      /\ s.tld[Country(u.ip)] >= stats.tld[Country(u.ip)] - 1
  BY <1>3, <1>4, <1>5, DelTLDUserType
<1>7. /\ client' \in [Addrs -> ClientRecord]
      /\ ~client'[a].excluded
      /\ \A b \in Addrs \ {a} : client'[b] = client[b]
  BY <1>1, <1>3 DEF TypeOK, ClientRecord, NoClient
<1>8. userhash'[n] = NULL /\ \A k \in Nicks \ {n} : userhash'[k] = userhash[k] /\ userhash[k] # a
  BY <1>2, <1>3, UsersFacts DEF TypeOK
<1>9. TypeOK'
  <2>1. ASSUME NEW k \in Nicks, userhash'[k] # NULL PROVE client'[userhash'[k]].name = k
    <3>1. userhash'[k] = userhash[k] /\ userhash[k] \in Addrs \ {a}
      BY <1>3, <1>8, <2>1, UsersFacts
    <3> QED
      BY <1>3, <1>7, <2>1, <3>1 DEF TypeOK
  <2>2. userhash' \in [Nicks -> Addrs \cup {NULL}] /\ stats' \in Stats /\ crashed' \in BOOLEAN
    BY <1>2, <1>3, <1>6 DEF TypeOK
  <2> QED
    BY <1>2, <1>3, <1>7, <2>1, <2>2 DEF TypeOK
<1>10. Users' = Users \ {a}
  <2>1. ASSUME NEW b \in Users' PROVE b \in Users \ {a}
    BY <1>8, <2>1 DEF Users
  <2>2. ASSUME NEW b \in Users \ {a} PROVE b \in Users'
    <3>1. PICK k \in Nicks : userhash[k] = b /\ b # NULL
      BY <1>3, UsersFacts
    <3> QED
      BY <1>8, <2>2, <3>1 DEF Users
  <2> QED
    BY <2>1, <2>2
<1>11. /\ Cardinality(Users') = Cardinality(Users) - 1 /\ Cardinality(Users) \in Nat
       /\ \A c : Of(c)' = IF c = Country(u.ip) THEN Of(c) - 1 ELSE Of(c)
  <2>1. \A b \in Users \ {a} : client'[b] = client[b]
    BY <1>3, <1>7, UsersFacts
  <2> QED
    BY <1>3, <1>9, <1>10, <2>1, OneLess, UsersFacts DEF u
<1>12. NobodyExcluded'
  BY <1>7 DEF IInv, NobodyExcluded
<1>13. Uniform => (Told(u) <=> loaded)
  BY <1>3, ToldAll DEF IInv, NobodyExcluded, u
<1>14. NetworkUsersCounted'
  <2>1. SUFFICES ASSUME Uniform, loaded PROVE stats'.users = Cardinality(Users')
    BY <1>2 DEF NetworkUsersCounted, Uniform
  <2>2. stats'.users = Less(stats.users) /\ stats.users = Cardinality(Users)
    BY <1>2, <1>6, <1>13, <2>1 DEF IInv, NetworkUsersCounted
  <2>3. Cardinality(Users) # 0
    BY <1>3, UsersFacts, FS_EmptySet
  <2> QED
    BY <1>11, <2>2, <2>3 DEF Less
<1>15. Uniform => ~crashed' /\ CountriesCovered'
  <2>1. SUFFICES ASSUME Uniform
                 PROVE  /\ ~crashed'
                        /\ loaded => \A c \in Codes : Of(c)' > 0 => stats'.tld[c] >= Of(c)'
    BY <1>2 DEF CountriesCovered, Uniform
  <2>2. Country(u.ip) \in Codes /\ Of(Country(u.ip)) > 0
    BY <1>3, CountryType, LocatedFacts DEF Located, u
  <2>3. loaded => stats.tld[Country(u.ip)] >= Of(Country(u.ip))
    BY <2>1, <2>2 DEF IInv, CountriesCovered
  <2>4. \A c \in Codes : Of(c) \in Nat /\ stats.tld[c] \in Int /\ s.tld[c] \in Int
    BY <1>3, <1>6, LocatedFacts DEF TypeOK, Stats, Absent
  <2>5. ~crashed'
    <3>1. CASE loaded
      <4>1. stats.tld[Country(u.ip)] # Absent
        BY <2>2, <2>3, <2>4, <3>1 DEF Absent
      <4> QED
        BY <1>2, <4>1
    <3>2. CASE ~loaded
      BY <1>2, <1>13, <2>1, <3>2
    <3> QED
      BY <3>1, <3>2
  <2>6. ASSUME loaded, NEW c \in Codes, Of(c)' > 0 PROVE stats'.tld[c] >= Of(c)'
    <3>1. stats' = s
      BY <1>2, <1>13, <2>1, <2>6
    <3>2. CASE c = Country(u.ip)
      BY <1>6, <1>11, <2>2, <2>3, <2>4, <2>6, <3>1, <3>2
    <3>3. CASE c # Country(u.ip)
      BY <1>6, <1>11, <2>1, <2>4, <2>6, <3>1, <3>3 DEF IInv, CountriesCovered
    <3> QED
      BY <3>2, <3>3
  <2> QED
    BY <2>5, <2>6
<1> QED
  BY <1>9, <1>12, <1>14, <1>15 DEF IInv, Uniform

LEMMA LoadStatServStep ==
  ASSUME IInv, LoadStatServ
  PROVE  IInv'
<1> DEFINE tld == [c \in Codes |-> IF c = Unknown \/ Of(c) > 0 THEN Of(c) ELSE Absent]
<1>1. /\ TypeOK /\ loaded' = TRUE /\ stats' = [users |-> Cardinality(Users), tld |-> tld]
      /\ UNCHANGED <<userhash, client, lookups, excludes, crashed>>
  BY DEF IInv, LoadStatServ
<1>2. Users' = Users /\ \A c : Of(c)' = Of(c)
  BY <1>1 DEF Users, Of, Country
<1>3. \A c : Of(c) \in Nat
  BY <1>1, LocatedFacts
<1>4. tld \in [Codes -> Nat \cup {Absent}] /\ \A c \in Codes : Of(c) > 0 => tld[c] >= Of(c)
  BY <1>3
<1> HIDE DEF tld
<1>5. TypeOK'
  BY <1>1, <1>4, UsersFacts DEF TypeOK, Stats
<1> QED
  BY <1>1, <1>2, <1>4, <1>5 DEF IInv, NobodyExcluded, NetworkUsersCounted, CountriesCovered, Uniform

LEMMA ResetStep ==
  ASSUME IInv, ResetTLDStatistics
  PROVE  IInv'
<1> DEFINE tld == [c \in Codes |-> IF stats.tld[c] = 0 /\ c # Unknown THEN Absent ELSE stats.tld[c]]
<1>1. /\ TypeOK /\ stats' = [stats EXCEPT !.tld = tld] /\ stats \in Stats
      /\ UNCHANGED <<userhash, client, lookups, excludes, loaded, crashed>>
  BY DEF IInv, ResetTLDStatistics, TypeOK
<1>2. Users' = Users /\ \A c : Of(c)' = Of(c)
  BY <1>1 DEF Users, Of, Country
<1>3. \A c \in Codes : Of(c) \in Nat /\ stats.tld[c] \in Nat \cup {Absent}
  BY <1>1, LocatedFacts DEF Stats
<1>4. /\ tld \in [Codes -> Nat \cup {Absent}]
      /\ \A c \in Codes : stats.tld[c] # 0 => tld[c] = stats.tld[c]
  BY <1>3
<1> HIDE DEF tld
<1>5. stats' \in Stats /\ stats'.users = stats.users /\ stats'.tld = tld
  BY <1>1, <1>4 DEF Stats
<1>6. TypeOK'
  BY <1>1, <1>5 DEF TypeOK
<1>7. CountriesCovered => CountriesCovered'
  <2>1. SUFFICES ASSUME CountriesCovered, loaded, NEW c \in Codes, Of(c) > 0
                 PROVE  tld[c] >= Of(c)
    BY <1>1, <1>2, <1>5 DEF CountriesCovered
  <2>2. stats.tld[c] >= Of(c) /\ stats.tld[c] # 0
    BY <1>3, <2>1 DEF CountriesCovered, Absent
  <2> QED
    BY <1>4, <2>2
<1> QED
  BY <1>1, <1>2, <1>5, <1>6, <1>7 DEF IInv, NobodyExcluded, NetworkUsersCounted, Uniform

LEMMA InitIInv == Init => IInv
<1> SUFFICES ASSUME Init PROVE IInv
  OBVIOUS
<1>1. client \in [Addrs -> ClientRecord] /\ stats \in Stats
  BY DEF Init, ClientRecord, NoClient, Stats
<1>2. TypeOK
  BY <1>1 DEF Init, TypeOK
<1>3. NobodyExcluded
  BY DEF Init, NobodyExcluded, NoClient
<1> QED
  BY <1>2, <1>3 DEF Init, IInv, NetworkUsersCounted, CountriesCovered

LEMMA NextIInv == IInv /\ [Next]_vars => IInv'
<1> SUFFICES ASSUME IInv, [Next]_vars PROVE IInv'
  OBVIOUS
<1>1. CASE Next
  <2>1. CASE \E l \in lookups : LookupFails(l)
    BY <2>1 DEF LookupFails, IInv, TypeOK, NobodyExcluded, NetworkUsersCounted, CountriesCovered,
                Uniform, Users, Of, Country
  <2>2. CASE \E m \in Masks : cmd_exclude(m)
    BY <2>2 DEF cmd_exclude, IInv, TypeOK, NobodyExcluded, NetworkUsersCounted, CountriesCovered,
                Uniform, Users, Of, Country
  <2> QED
    BY <1>1, <2>1, <2>2, AddUserStep, lookupnickipStep, UserNickChangeStep, QuitUserStep,
       LoadStatServStep, ResetStep DEF Next
<1>2. CASE UNCHANGED vars
  BY <1>2 DEF vars, IInv, TypeOK, NobodyExcluded, NetworkUsersCounted, CountriesCovered,
              Uniform, Users, Of, Country
<1> QED
  BY <1>1, <1>2

-----------------------------------------------------------------------------
(* The theorems. *)

\* The types, and that a nick in the hash is the nick of the Client it finds.
THEOREM TypeCorrect == Spec => []TypeOK
<1>1. IInv => TypeOK
  BY DEF IInv
<1> QED
  BY <1>1, InitIInv, NextIInv, PTL DEF Spec

\* StatServ's number of users is exact where nobody is excluded.
THEOREM NetworkUsersExact == Spec => []NetworkUsersCounted
<1>1. IInv => NetworkUsersCounted
  BY DEF IInv
<1> QED
  BY <1>1, InitIInv, NextIInv, PTL DEF Spec

\* Every user who quits is counted for the country of its address.
THEOREM TldAlwaysCovers == Spec => []TldCoversUsers
<1>1. IInv => TldCoversUsers
  <2>1. SUFFICES ASSUME IInv, Uniform, loaded, NEW a \in Users
                 PROVE  stats.tld[Country(client[a].ip)] >= Of(Country(client[a].ip))
    BY DEF IInv, TldCoversUsers
  <2>2. Country(client[a].ip) \in Codes /\ a \in Located(Country(client[a].ip))
    BY <2>1, UsersFacts, ClientType, CountryType DEF IInv, Located
  <2> QED
    BY <2>1, <2>2, LocatedFacts DEF IInv, CountriesCovered
<1> QED
  BY <1>1, InitIInv, NextIInv, PTL DEF Spec

-----------------------------------------------------------------------------
(* AddressOfOwnHost fails by a late answer.  Only that of a user who quit can *)
(* do it, for the next user at its address gets it; a nick change with a      *)
(* lookup in progress is harmless.                                            *)

\* No user quits with a lookup of its address in progress.
NoneStranded == \A n \in Nicks : QuitUser(n) => \A l \in lookups : l.data # userhash[n]

\* The inductive invariant: every lookup is for a user there is, of its host.
OwnInv ==
  /\ TypeOK
  /\ AddressOfOwnHost
  /\ \A l \in lookups : l.data \in Users /\ client[l.data].host = l.host

LEMMA FoundByOwnNick ==
  ASSUME TypeOK, NEW a \in Users
  PROVE  /\ a \in Addrs /\ a # NULL
         /\ client[a].name \in Nicks /\ userhash[client[a].name] = a
         /\ client[a] \in ClientRecord
<1>1. PICK n \in Nicks : userhash[n] = a /\ a # NULL
  BY UsersFacts
<1> QED
  BY <1>1, UsersFacts, ClientType DEF TypeOK

LEMMA OwnInvNext ==
  ASSUME OwnInv, TypeOK', [Next]_vars, [NoneStranded]_vars
  PROVE  OwnInv'
<1>0. TypeOK /\ NULL \notin Addrs \cup Nicks \cup Hosts
  BY UserRecordsAssumption DEF OwnInv
<1>1. ASSUME NEW a \in Addrs, NEW n \in Nicks, NEW h \in Hosts, AddUser(a, n, h)
      PROVE  OwnInv'
  <2> DEFINE ip == IF h \in Known THEN h ELSE NULL
             r == [name |-> n, host |-> h, ip |-> ip, excluded |-> FALSE]
             u == Checked(r)
  <2>1. /\ a \notin Users /\ userhash[n] = NULL
        /\ client' = [client EXCEPT ![a] = u] /\ userhash' = [userhash EXCEPT ![n] = a]
        /\ lookups' \subseteq lookups \cup {[data |-> a, host |-> h]}
    BY <1>1 DEF AddUser
  <2>2. u.host = h /\ u.ip \in {NULL, h}
    <3>1. r \in ClientRecord
      BY DEF ClientRecord
    <3> QED
      BY <3>1, CheckedType
  <2> HIDE DEF u
  <2>3. Users' = Users \cup {a}
    BY <1>0, <2>1 DEF Users, TypeOK
  <2>4. client'[a] = u /\ \A b \in Users : client'[b] = client[b]
    BY <1>0, <2>1, UsersFacts DEF TypeOK
  <2>5. AddressOfOwnHost'
    BY <2>2, <2>3, <2>4 DEF OwnInv, AddressOfOwnHost
  <2> QED
    BY <2>1, <2>2, <2>3, <2>4, <2>5 DEF OwnInv
<1>2. ASSUME NEW n \in Nicks, NEW m \in Nicks, UserNickChange(n, m) PROVE OwnInv'
  <2> DEFINE a == userhash[n]
             r == [client[a] EXCEPT !.name = m]
             u == Checked(r)
  <2>1. /\ a # NULL /\ userhash[m] = NULL
        /\ userhash' = [userhash EXCEPT ![n] = NULL, ![m] = a]
        /\ client' = [client EXCEPT ![a] = u]
        /\ lookups' = lookups
    BY <1>2 DEF UserNickChange
  <2>2. a \in Users /\ Users \subseteq Addrs /\ n # m
    BY <1>0, <2>1, UsersFacts
  <2>3. u.host = client[a].host /\ u.ip = client[a].ip
    <3>1. r \in ClientRecord /\ r.host = client[a].host /\ r.ip = client[a].ip
      BY <1>0, <2>2, ClientType DEF ClientRecord
    <3> QED
      BY <3>1, CheckedType
  <2>4. Users' = Users
    BY <1>0, <2>1, <2>2, UsersFacts DEF Users, TypeOK
  <2>5. \A b \in Users : client'[b].host = client[b].host /\ client'[b].ip = client[b].ip
    BY <1>0, <2>1, <2>2, <2>3 DEF TypeOK
  <2> QED
    BY <2>1, <2>4, <2>5 DEF OwnInv, AddressOfOwnHost
<1>3. ASSUME NEW n \in Nicks, QuitUser(n) PROVE OwnInv'
  <2> DEFINE a == userhash[n]
  <2>1. /\ a # NULL
        /\ \E u : client' = [client EXCEPT ![a] = u]
        /\ userhash' = [userhash EXCEPT ![n] = NULL] /\ lookups' = lookups
    BY <1>3 DEF QuitUser
  <2>2. \A l \in lookups : l.data # a
    <3>1. NoneStranded
      BY <2>1, <1>0 DEF vars, TypeOK
    <3> QED
      BY <3>1, <1>3 DEF NoneStranded
  <2>3. Users' = Users \ {a}
    BY <1>0, <2>1, UsersFacts DEF Users, TypeOK
  <2>4. \A b \in Users' : client'[b] = client[b]
    BY <1>0, <2>1, <2>3, UsersFacts DEF TypeOK
  <2> QED
    BY <2>1, <2>2, <2>3, <2>4 DEF OwnInv, AddressOfOwnHost
<1>4. ASSUME NEW l \in lookups, lookupnickip(l) PROVE OwnInv'
  <2> DEFINE a == l.data
             r == [client[a] EXCEPT !.ip = l.host]
             u == Checked(r)
  <2>1. a \in Users /\ client[a].host = l.host /\ l.host \in Hosts
    BY <1>0 DEF OwnInv, TypeOK
  <2>2. /\ a \in Addrs /\ a # NULL /\ client[a].name \in Nicks
        /\ userhash[client[a].name] = a /\ client[a] \in ClientRecord
    BY <1>0, <2>1, FoundByOwnNick
  <2>3. /\ client' = [client EXCEPT ![a] = u]
        /\ userhash' = userhash /\ lookups' = lookups \ {l}
    BY <1>0, <1>4, <2>2 DEF lookupnickip
  <2>4. u.host = l.host /\ u.ip = l.host
    <3>1. r \in ClientRecord /\ r.host = l.host /\ r.ip = l.host
      BY <2>1, <2>2 DEF ClientRecord
    <3> QED
      BY <3>1, CheckedType
  <2> HIDE DEF u
  <2>5. Users' = Users /\ \A b \in Users : b # a => client'[b] = client[b]
    BY <1>0, <2>3, UsersFacts DEF Users, TypeOK
  <2>6. client'[a] = u
    BY <1>0, <2>2, <2>3 DEF TypeOK
  <2>7. AddressOfOwnHost'
    BY <2>4, <2>5, <2>6 DEF OwnInv, AddressOfOwnHost
  <2> QED
    BY <2>1, <2>3, <2>4, <2>5, <2>6, <2>7 DEF OwnInv
<1>5. ASSUME Users' = Users, client' = client, lookups' \subseteq lookups PROVE OwnInv'
  BY <1>5 DEF OwnInv, AddressOfOwnHost
<1>6. CASE \E l \in lookups : LookupFails(l)
  BY <1>5, <1>6 DEF LookupFails, Users
<1>7. CASE \E m \in Masks : cmd_exclude(m)
  BY <1>5, <1>7 DEF cmd_exclude, Users
<1>8. CASE LoadStatServ \/ ResetTLDStatistics
  BY <1>5, <1>8 DEF LoadStatServ, ResetTLDStatistics, Users
<1>9. CASE UNCHANGED vars
  BY <1>5, <1>9 DEF vars, Users
<1> QED
  BY <1>1, <1>2, <1>3, <1>4, <1>6, <1>7, <1>8, <1>9 DEF Next

\* AddressOfOwnHost holds for as long as nobody quits with a lookup of its
\* address in progress, however late the answers come and whoever changes nick
\* meanwhile: the quit is all that lookupnickip misses.
THEOREM AddressesAreOwn == Spec /\ [][NoneStranded]_vars => []AddressOfOwnHost
<1>1. Init => OwnInv
  BY InitIInv DEF Init, IInv, OwnInv, AddressOfOwnHost, Users
<1>2. OwnInv /\ TypeOK' /\ [Next]_vars /\ [NoneStranded]_vars => OwnInv'
  BY OwnInvNext
<1>3. OwnInv => AddressOfOwnHost
  BY DEF OwnInv
<1> QED
  BY <1>1, <1>2, <1>3, TypeCorrect, PTL DEF Spec

-----------------------------------------------------------------------------
(* Statistics: the highest values of the periods. *)

Regular == WeekDays = 7 /\ StopsAtMidnight = FALSE

\* s is a stamp of day d, of an earlier day, or none.
Past(s, d) == s = NoStamp \/ \E e \in 1 .. d : s = Stamp(e)

Nested(max) ==
  /\ max["daily"] <= max["weekly"] /\ max["daily"] <= max["monthly"]
  /\ max["weekly"] <= max["alltime"] /\ max["monthly"] <= max["alltime"]

-----------------------------------------------------------------------------
(* The calendar: the number of the week grows when a week begins, that of    *)
(* the month when a month begins, and neither ever falls.                    *)

LEMMA WeekStep ==
  ASSUME WeekDays = 7, NEW e \in Days, NEW d \in 1 .. e
  PROVE  /\ Week(d) \in Nat /\ Week(e) \in Nat /\ Week(e + 1) \in Nat
         /\ Week(d) <= Week(e) /\ Week(e) <= Week(e + 1)
         /\ Wday(e + 1) = 0 => Week(e) < Week(e + 1)
BY StatisticsAssumption DEF Week, Wday, Days

LEMMA MonthGrows ==
  ASSUME NEW d \in Int, NEW e \in Int, d <= e
  PROVE  /\ Month(d) \in Nat /\ Month(e) \in Nat /\ Month(d) <= Month(e)
         /\ d < e /\ e \in FirstDays => Month(d) < Month(e)
<1> DEFINE S == {f \in FirstDays : f <= d}
           T == {f \in FirstDays : f <= e}
<1>1. LastDay \in Int /\ FirstDays \subseteq 1 .. LastDay
  BY StatisticsAssumption DEF Days
<1>2. IsFiniteSet(FirstDays)
  <2>1. IsFiniteSet(1 .. LastDay)
    BY <1>1, FS_Interval
  <2> QED
    BY <1>1, <2>1, FS_Subset
<1>3. S \subseteq T /\ T \subseteq FirstDays
  <2>1. ASSUME NEW f \in FirstDays, f <= d PROVE f <= e
    BY <1>1, <2>1
  <2> QED
    BY <2>1
<1>4. /\ IsFiniteSet(T) /\ IsFiniteSet(S)
      /\ Cardinality(S) <= Cardinality(T)
      /\ Cardinality(S) = Cardinality(T) => S = T
  BY <1>2, <1>3, FS_Subset
<1>5. Cardinality(S) \in Nat /\ Cardinality(T) \in Nat
  BY <1>4, FS_CardinalityType
<1>6. d < e /\ e \in FirstDays => S # T
  <2> SUFFICES ASSUME d < e, e \in FirstDays PROVE e \in T /\ e \notin S
    OBVIOUS
  <2> QED
    BY <1>1
<1>7. Month(d) = Cardinality(S) /\ Month(e) = Cardinality(T)
  BY DEF Month
<1> HIDE DEF S, T
<1> QED
  BY <1>4, <1>5, <1>6, <1>7

\* What begins on a day is over since any stamp of a day before, and what was
\* over stays so.
LEMMA PastIsOver ==
  ASSUME Regular, NEW e \in Days, NEW s, Past(s, e)
  PROVE  Over(s, e) \subseteq Over(s, e + 1) /\ Begun(e + 1) \subseteq Over(s, e + 1)
<1>1. PICK w \in Nat, m \in Nat, d \in 0 .. e :
        /\ s.day = d /\ s.week = w /\ s.month = m
        /\ w <= Week(e) /\ m <= Month(e)
  <2>1. e \in 1 .. e /\ e \in Int
    BY StatisticsAssumption DEF Days
  <2>2. Week(e) \in Nat /\ Month(e) \in Nat
    BY <2>1, WeekStep, MonthGrows DEF Regular
  <2>3. CASE s = NoStamp
    BY <2>1, <2>2, <2>3 DEF NoStamp
  <2>4. ASSUME NEW d \in 1 .. e, s = Stamp(d)
        PROVE  /\ s.day = d /\ s.week = Week(d) /\ s.month = Month(d)
               /\ Week(d) \in Nat /\ Month(d) \in Nat
               /\ Week(d) <= Week(e) /\ Month(d) <= Month(e)
    BY <2>1, <2>4, WeekStep, MonthGrows DEF Stamp, Regular
  <2> QED
    BY <2>1, <2>3, <2>4 DEF Past
<1>2. /\ Week(e) \in Nat /\ Week(e + 1) \in Nat /\ Week(e) <= Week(e + 1)
      /\ Wday(e + 1) = 0 => Week(e) < Week(e + 1)
  BY WeekStep DEF Regular, Days
<1>3. /\ Month(e) \in Nat /\ Month(e + 1) \in Nat /\ Month(e) <= Month(e + 1)
      /\ e + 1 \in FirstDays => Month(e) < Month(e + 1)
  BY MonthGrows DEF Days
<1>4. s.day # e + 1
  BY <1>1 DEF Days
<1>5. s.week # Week(e) => s.week # Week(e + 1)
  BY <1>1, <1>2
<1>6. Wday(e + 1) = 0 => s.week # Week(e + 1)
  BY <1>1, <1>2
<1>7. s.month # Month(e) => s.month # Month(e + 1)
  BY <1>1, <1>3
<1>8. e + 1 \in FirstDays => s.month # Month(e + 1)
  BY <1>1, <1>3
<1> QED
  BY <1>4, <1>5, <1>6, <1>7, <1>8 DEF Over, Begun

\* A week or a month is over only if the day is.
LEMMA OverWithDay ==
  ASSUME NEW e \in Days, NEW s, Past(s, e)
  PROVE  "daily" \notin Over(s, e) => Over(s, e) = {}
<1>1. CASE s = NoStamp
  BY <1>1 DEF NoStamp, Over, Days
<1>2. CASE \E d \in 1 .. e : s = Stamp(d)
  BY <1>2 DEF Stamp, Over
<1> QED
  BY <1>1, <1>2 DEF Past

-----------------------------------------------------------------------------
(* The highest values. *)

LEMMA RaisedIs ==
  ASSUME NEW max \in Highest, NEW n \in 0 .. MaxUsers
  PROVE  /\ Raised(max, n) \in Highest
         /\ \A p \in Periods : Raised(max, n)[p] = Most(max[p], n)
BY StatisticsAssumption DEF Raised, Highest, Most

LEMMA NestedRaised ==
  ASSUME NEW max \in Highest, Nested(max), NEW n \in 0 .. MaxUsers
  PROVE  Nested(Raised(max, n))
<1>1. \A p, q \in Periods : max[p] <= max[q] => Raised(max, n)[p] <= Raised(max, n)[q]
  <2> SUFFICES ASSUME NEW p \in Periods, NEW q \in Periods, max[p] <= max[q]
               PROVE  Raised(max, n)[p] <= Raised(max, n)[q]
    OBVIOUS
  <2>1. max[p] \in Int /\ max[q] \in Int /\ n \in Int
    BY StatisticsAssumption DEF Highest
  <2>2. Raised(max, n)[p] = Most(max[p], n) /\ Raised(max, n)[q] = Most(max[q], n)
    BY RaisedIs
  <2> QED
    BY <2>1, <2>2 DEF Most
<1> QED
  BY <1>1 DEF Nested, Periods

LEMMA RestartedIs ==
  ASSUME NEW max \in Highest, NEW n \in 0 .. MaxUsers, NEW ps
  PROVE  /\ Restarted(max, ps, n) \in Highest
         /\ \A p \in Periods : Restarted(max, ps, n)[p] = IF p \in ps THEN n ELSE max[p]
BY StatisticsAssumption DEF Restarted, Highest

-----------------------------------------------------------------------------
(* The inductive invariant.  The stamp in memory is behind what it belongs   *)
(* to: between midnight and the reset only a late save may run, which stores *)
(* a stamp of a day before (LateOK), so that no value of yesterday is ever   *)
(* stored as one of today.                                                   *)

\* The periods of which stat.max is not yet true.
Pending == IF due THEN Begun(day) ELSE {}

FlagsOK == (due => up) /\ (slow => due) /\ (~up => stat.current = 0)

StampsOK == Past(stat.stamp, day) /\ Past(saved.stamp, day)

PeaksOK ==
  /\ \A p \in Periods : stat.current <= peak[p]
  /\ up => \A p \in Periods \ Pending : stat.max[p] <= peak[p]
  /\ \A p \in Periods \ Over(saved.stamp, day) : saved.max[p] <= peak[p]

LateOK == slow => Begun(day) \subseteq Over(stat.stamp, day)

MaxOK ==
  /\ Nested(stat.max) /\ Nested(saved.max)
  /\ up => stat.current <= stat.max["daily"] /\ saved.max["alltime"] <= stat.max["alltime"]

SInv == StatsTypeOK /\ FlagsOK /\ StampsOK /\ PeaksOK /\ LateOK /\ MaxOK

\* What the steps below need to know of the state.
LEMMA Now ==
  ASSUME SInv
  PROVE  /\ day \in Days /\ day \in Nat /\ MaxUsers \in Nat
         /\ up \in BOOLEAN /\ due \in BOOLEAN /\ slow \in BOOLEAN
         /\ stat.current \in 0 .. MaxUsers
         /\ stat.max \in Highest /\ saved.max \in Highest /\ peak \in Highest
         /\ \A p \in Periods : stat.max[p] \in Nat /\ saved.max[p] \in Nat /\ peak[p] \in Nat
         /\ stat = [stamp |-> stat.stamp, current |-> stat.current, max |-> stat.max]
BY StatisticsAssumption DEF SInv, StatsTypeOK, Statistic, Highest, Days

\* A stamp of the past stays one.
LEMMA PastStays ==
  ASSUME NEW e \in Days, NEW s, Past(s, e)
  PROVE  Past(s, e + 1)
BY DEF Past, Days

LEMMA PastTyped ==
  ASSUME NEW e \in Days, NEW s, Past(s, e)
  PROVE  s \in {NoStamp} \cup {Stamp(d) : d \in Days}
BY StatisticsAssumption DEF Past, Days

LEMMA InitSInv == StatsInit => SInv
<1> SUFFICES ASSUME StatsInit PROVE SInv
  OBVIOUS
<1>1. NoUsers \in Highest /\ \A p \in Periods : NoUsers[p] = 0
  BY StatisticsAssumption DEF NoUsers, Highest
<1>2. /\ Fresh \in Statistic
      /\ Fresh.max = NoUsers /\ Fresh.current = 0 /\ Fresh.stamp = NoStamp
  BY <1>1, StatisticsAssumption DEF Fresh, Statistic
<1>3. StatsTypeOK
  <2>1. day \in Days
    BY StatisticsAssumption DEF StatsInit, Days
  <2> QED
    BY <1>1, <1>2, <2>1 DEF StatsInit, StatsTypeOK
<1>4. MaxOK /\ PeaksOK
  BY <1>1, <1>2 DEF StatsInit, MaxOK, Nested, PeaksOK, Periods
<1>5. FlagsOK /\ StampsOK /\ LateOK
  BY <1>2 DEF StatsInit, FlagsOK, StampsOK, LateOK, Past
<1> QED
  BY <1>3, <1>4, <1>5 DEF SInv

LEMMA AddStep ==
  ASSUME SInv, AddNetworkUser
  PROVE  SInv'
<1> DEFINE n == stat.current + 1
<1>1. n \in 0 .. MaxUsers
  BY Now DEF AddNetworkUser
<1>2. /\ stat'.stamp = stat.stamp /\ stat'.current = n /\ stat'.max = Raised(stat.max, n)
      /\ stat' \in Statistic
  BY <1>1, Now, RaisedIs DEF AddNetworkUser, Counted, Statistic, SInv, StatsTypeOK
<1>3. peak' = Raised(peak, n) /\ UNCHANGED <<day, up, saved, due, slow>> /\ up
  BY DEF AddNetworkUser, Seen
<1>4. \A p \in Periods : stat'.max[p] = Most(stat.max[p], n) /\ peak'[p] = Most(peak[p], n)
  BY <1>1, <1>2, <1>3, Now, RaisedIs
<1>5. \A p \in Periods : /\ n <= stat'.max[p] /\ stat.max[p] <= stat'.max[p]
                         /\ n <= peak'[p] /\ peak[p] <= peak'[p]
                         /\ stat.max[p] <= peak[p] => stat'.max[p] <= peak'[p]
                         /\ saved.max[p] <= peak[p] => saved.max[p] <= peak'[p]
  BY <1>1, <1>4, Now DEF Most
<1>6. StatsTypeOK'
  BY <1>1, <1>2, <1>3, Now, RaisedIs DEF SInv, StatsTypeOK
<1>7. PeaksOK'
  BY <1>2, <1>3, <1>5 DEF SInv, PeaksOK, Pending
<1>8. Nested(stat'.max)
  BY <1>1, <1>2, Now, NestedRaised DEF SInv, MaxOK
<1>9. MaxOK'
  <2>1. /\ saved.max["alltime"] \in Nat /\ stat.max["alltime"] \in Nat /\ stat'.max["alltime"] \in Nat
        /\ stat.max["alltime"] <= stat'.max["alltime"] /\ n <= stat'.max["daily"]
    BY <1>1, <1>4, <1>5, Now DEF Periods, Most
  <2>2. saved.max["alltime"] <= stat.max["alltime"]
    BY <1>3 DEF SInv, MaxOK
  <2> QED
    BY <1>2, <1>3, <1>8, <2>1, <2>2 DEF SInv, MaxOK
<1>10. FlagsOK' /\ StampsOK' /\ LateOK'
  BY <1>2, <1>3 DEF SInv, FlagsOK, StampsOK, LateOK
<1> QED
  BY <1>6, <1>7, <1>9, <1>10 DEF SInv

LEMMA DelStep ==
  ASSUME SInv, DelNetworkUser
  PROVE  SInv'
<1>1. /\ stat'.stamp = stat.stamp /\ stat'.current = stat.current - 1 /\ stat'.max = stat.max
      /\ stat' \in Statistic
  BY Now DEF DelNetworkUser, Statistic, SInv, StatsTypeOK
<1>2. UNCHANGED <<day, up, saved, due, slow, peak>> /\ up
  BY DEF DelNetworkUser
<1>3. StatsTypeOK'
  BY <1>1, <1>2 DEF SInv, StatsTypeOK
<1>4. PeaksOK'
  BY <1>1, <1>2, Now DEF SInv, PeaksOK, Pending
<1>5. MaxOK'
  BY <1>1, <1>2, Now DEF SInv, MaxOK, Periods
<1>6. FlagsOK' /\ StampsOK' /\ LateOK'
  BY <1>1, <1>2 DEF SInv, FlagsOK, StampsOK, LateOK
<1> QED
  BY <1>3, <1>4, <1>5, <1>6 DEF SInv

\* ResetStatistic or PostLoadStatistic: no period outlives the day.
LEMMA NestedRestarted ==
  ASSUME NEW max \in Highest, Nested(max), NEW n \in 0 .. MaxUsers, NEW ps,
         "alltime" \notin ps, "daily" \notin ps => ps = {}, n = 0 \/ n <= max["daily"]
  PROVE  Nested(Restarted(max, ps, n))
<1> DEFINE a == max["daily"]  b == max["weekly"]  c == max["monthly"]  d == max["alltime"]
<1>1. /\ a \in Nat /\ b \in Nat /\ c \in Nat /\ d \in Nat /\ n \in Nat
      /\ a <= b /\ a <= c /\ b <= d /\ c <= d
  BY StatisticsAssumption DEF Highest, Periods, Nested
<1>2. \A p \in Periods : Restarted(max, ps, n)[p] = IF p \in ps THEN n ELSE max[p]
  BY RestartedIs
<1>3. /\ Restarted(max, ps, n)["daily"] = IF "daily" \in ps THEN n ELSE a
      /\ Restarted(max, ps, n)["weekly"] = IF "weekly" \in ps THEN n ELSE b
      /\ Restarted(max, ps, n)["monthly"] = IF "monthly" \in ps THEN n ELSE c
      /\ Restarted(max, ps, n)["alltime"] = d
  BY <1>2 DEF Periods
<1>4. n = 0 \/ n <= a
  OBVIOUS
<1> HIDE DEF a, b, c, d
<1>5. CASE "daily" \in ps
  BY <1>1, <1>3, <1>4, <1>5 DEF Nested
<1>6. CASE ps = {}
  BY <1>1, <1>3, <1>6 DEF Nested
<1> QED
  BY <1>5, <1>6

LEMMA ModInitStep ==
  ASSUME SInv, NEW n \in 0 .. MaxUsers, ModInit(n)
  PROVE  SInv'
<1> DEFINE ps == Over(saved.stamp, day)
           max == Restarted(saved.max, ps, 0)
<1>1. ~up /\ up' = TRUE /\ UNCHANGED <<day, saved, due, slow>> /\ ~due /\ ~slow
  BY DEF ModInit, SInv, FlagsOK
<1>2. /\ max \in Highest
      /\ \A p \in Periods : max[p] = IF p \in ps THEN 0 ELSE saved.max[p]
  BY Now, RestartedIs
<1>3. peak' = Raised(peak, n)
  BY DEF ModInit, Seen
<1>4. /\ stat'.stamp = saved.stamp /\ stat'.current = n /\ stat'.max = Raised(max, n)
      /\ stat' \in Statistic
  BY <1>2, RaisedIs DEF ModInit, Counted, PostLoad, Statistic, SInv, StatsTypeOK
<1>5. Nested(max)
  <2>1. "alltime" \notin ps
    BY DEF Over
  <2>2. "daily" \notin ps => ps = {}
    BY Now, OverWithDay DEF SInv, StampsOK
  <2>3. Nested(saved.max) /\ saved.max \in Highest /\ 0 \in 0 .. MaxUsers
    BY Now DEF SInv, MaxOK
  <2> HIDE DEF ps
  <2> QED
    BY <2>1, <2>2, <2>3, NestedRestarted
<1>6. "alltime" \notin ps
  BY DEF Over
<1>7. \A p \in Periods \ ps : saved.max[p] <= peak[p]
  BY DEF SInv, PeaksOK
<1> HIDE DEF ps, max
<1>8. \A p \in Periods : /\ stat'.max[p] = Most(max[p], n) /\ peak'[p] = Most(peak[p], n)
                         /\ max[p] \in Nat /\ peak[p] \in Nat /\ saved.max[p] \in Nat
  <2>1. \A p \in Periods : max[p] \in Nat /\ peak[p] \in Nat /\ saved.max[p] \in Nat
    BY <1>2, Now
  <2>2. \A p \in Periods : Raised(max, n)[p] = Most(max[p], n)
    BY <1>2, RaisedIs
  <2>3. \A p \in Periods : Raised(peak, n)[p] = Most(peak[p], n)
    BY Now, RaisedIs
  <2> QED
    BY <1>3, <1>4, <2>1, <2>2, <2>3
<1>9. n \in Nat
  BY Now
<1>10. \A p \in Periods : /\ n <= stat'.max[p] /\ n <= peak'[p]
                          /\ max[p] <= stat'.max[p] /\ stat'.max[p] <= peak'[p]
                          /\ saved.max[p] <= peak[p] => saved.max[p] <= peak'[p]
  BY <1>2, <1>7, <1>8, <1>9 DEF Most
<1>11. StatsTypeOK'
  BY <1>1, <1>3, <1>4, Now, RaisedIs DEF SInv, StatsTypeOK
<1>12. PeaksOK'
  BY <1>1, <1>4, <1>10 DEF SInv, PeaksOK
<1>13. MaxOK'
  <2>1. Nested(stat'.max)
    BY <1>2, <1>4, <1>5, NestedRaised
  <2>2. saved.max["alltime"] <= stat'.max["alltime"] /\ n <= stat'.max["daily"]
    BY <1>2, <1>6, <1>8, <1>9, <1>10 DEF Periods
  <2> QED
    BY <1>1, <1>4, <2>1, <2>2 DEF SInv, MaxOK
<1>14. FlagsOK' /\ StampsOK' /\ LateOK'
  BY <1>1, <1>4 DEF SInv, FlagsOK, StampsOK, LateOK
<1> QED
  BY <1>11, <1>12, <1>13, <1>14 DEF SInv

\* A save keeps what is true of the day, or what has a stamp of a day before.
LEMMA SaveStep ==
  ASSUME SInv, SaveStatsTimer
  PROVE  SInv'
<1>1. /\ up /\ saved' = stat /\ slow' = FALSE /\ (due => slow)
      /\ UNCHANGED <<day, up, due, peak>>
  BY DEF SaveStatsTimer, SaveNetworkStats
<1>2. Past(Stamp(day), day)
  BY Now DEF Past, Days
<1>3. /\ stat'.stamp = Stamp(day) /\ stat'.current = stat.current /\ stat'.max = stat.max
      /\ stat' \in Statistic
  BY Now DEF SaveStatsTimer, SaveNetworkStats, PreSave, Statistic, SInv, StatsTypeOK
<1>4. StatsTypeOK'
  BY <1>1, <1>3 DEF SInv, StatsTypeOK
<1>5. \A p \in Periods \ Over(stat.stamp, day) : stat.max[p] <= peak[p]
  BY <1>1 DEF SInv, PeaksOK, LateOK, Pending
<1>6. PeaksOK'
  BY <1>1, <1>3, <1>5 DEF SInv, PeaksOK, Pending
<1>7. MaxOK'
  BY <1>1, <1>3, Now DEF SInv, MaxOK, Periods
<1>8. FlagsOK' /\ StampsOK' /\ LateOK'
  BY <1>1, <1>2, <1>3 DEF SInv, FlagsOK, StampsOK, LateOK
<1> QED
  BY <1>4, <1>6, <1>7, <1>8 DEF SInv

\* What a stopped StatServ has in memory.
LEMMA FreshIs ==
  /\ Fresh \in Statistic /\ Nested(Fresh.max)
  /\ Fresh.current = 0 /\ Fresh.stamp = NoStamp
<1>1. NoUsers \in Highest /\ \A p \in Periods : NoUsers[p] = 0
  BY StatisticsAssumption DEF NoUsers, Highest
<1> QED
  BY <1>1, StatisticsAssumption DEF Fresh, Statistic, Nested, Periods

LEMMA StopStep ==
  ASSUME Regular, SInv, ModFini \/ Crash
  PROVE  SInv'
<1>1. /\ up' = FALSE /\ stat' = Fresh /\ due' = FALSE /\ slow' = FALSE
      /\ UNCHANGED <<day, peak>>
      /\ saved' = saved \/ (saved' = stat /\ up /\ ~due)
  BY DEF ModFini, Crash, Stopped, Regular
<1>2. StatsTypeOK'
  BY <1>1, FreshIs DEF SInv, StatsTypeOK
<1>3. PeaksOK'
  BY <1>1, FreshIs, Now DEF SInv, PeaksOK, Pending
<1>4. MaxOK'
  BY <1>1, FreshIs DEF SInv, MaxOK
<1>5. FlagsOK' /\ StampsOK' /\ LateOK'
  BY <1>1, FreshIs DEF SInv, FlagsOK, StampsOK, LateOK, Past
<1> QED
  BY <1>2, <1>3, <1>4, <1>5 DEF SInv

LEMMA StatsResetStep ==
  ASSUME SInv, ResetStatisticsTimer
  PROVE  SInv'
<1> DEFINE ps == Begun(day)
           n == stat.current
<1>1. up /\ due /\ due' = FALSE /\ slow' = FALSE /\ UNCHANGED <<day, up, saved, peak>>
  BY DEF ResetStatisticsTimer
<1>2. n \in 0 .. MaxUsers /\ n \in Nat
  BY Now
<1>3. /\ stat'.stamp = stat.stamp /\ stat'.current = n
      /\ stat'.max = Restarted(stat.max, ps, n) /\ stat' \in Statistic
  BY Now, RestartedIs DEF ResetStatisticsTimer, Statistic, SInv, StatsTypeOK
<1>4. \A p \in Periods : stat'.max[p] = IF p \in ps THEN n ELSE stat.max[p]
  BY <1>2, <1>3, Now, RestartedIs
<1>5. "daily" \in ps /\ "alltime" \notin ps
  BY DEF Begun
<1>6. Nested(stat'.max) /\ n <= stat'.max["daily"]
  <2>1. Nested(stat.max) /\ n <= stat.max["daily"]
    BY <1>1 DEF SInv, MaxOK
  <2>2. stat'.max["daily"] = n
    BY <1>4, <1>5 DEF Periods
  <2> HIDE DEF ps, n
  <2> QED
    BY <1>2, <1>3, <1>5, <2>1, <2>2, Now, NestedRestarted
<1>7. \A p \in Periods : stat'.max[p] <= peak[p]
  BY <1>1, <1>4 DEF SInv, PeaksOK, Pending
<1>8. StatsTypeOK'
  BY <1>1, <1>3 DEF SInv, StatsTypeOK
<1>9. PeaksOK'
  BY <1>1, <1>3, <1>7 DEF SInv, PeaksOK, Pending
<1>10. MaxOK'
  <2>1. stat'.max["alltime"] = stat.max["alltime"]
    BY <1>4, <1>5 DEF Periods
  <2> QED
    BY <1>1, <1>3, <1>6, <2>1 DEF SInv, MaxOK
<1>11. FlagsOK' /\ StampsOK' /\ LateOK'
  BY <1>1, <1>3 DEF SInv, FlagsOK, StampsOK, LateOK
<1> QED
  BY <1>8, <1>9, <1>10, <1>11 DEF SInv

LEMMA MidnightStep ==
  ASSUME Regular, SInv, Midnight
  PROVE  SInv'
<1> DEFINE ps == Begun(day + 1)
           n == stat.current
<1>1. /\ day' = day + 1 /\ day' \in Days /\ day \in Days /\ ~due
      /\ (due' <=> up) /\ due' \in BOOLEAN /\ slow' \in BOOLEAN /\ (slow' => up)
      /\ UNCHANGED <<up, stat, saved>>
      /\ peak' = Restarted(peak, ps, n)
  <2>1. day \in Days /\ up \in BOOLEAN
    BY Now
  <2>2. day' = day + 1 /\ day' \in Days
    BY <2>1, StatisticsAssumption DEF Midnight, Days
  <2>3. due' = up /\ (slow' = FALSE \/ slow' = up) /\ ~due /\ UNCHANGED <<up, stat, saved>>
    BY DEF Midnight
  <2>4. peak' = Restarted(peak, ps, n)
    BY DEF Midnight
  <2>5. (due' <=> up) /\ due' \in BOOLEAN
    BY <2>1, <2>3
  <2>6. slow' \in BOOLEAN /\ (slow' => up)
    <3>1. CASE slow' = FALSE
      BY <3>1
    <3>2. CASE slow' = up
      BY <2>1, <3>2
    <3> QED
      BY <2>3, <3>1, <3>2
  <2> QED
    BY <2>1, <2>2, <2>3, <2>4, <2>5, <2>6
<1>2. /\ Over(saved.stamp, day) \subseteq Over(saved.stamp, day + 1)
      /\ ps \subseteq Over(saved.stamp, day + 1) /\ ps \subseteq Over(stat.stamp, day + 1)
  BY <1>1, PastIsOver DEF SInv, StampsOK
<1>3. peak' \in Highest /\ \A p \in Periods : peak'[p] = IF p \in ps THEN n ELSE peak[p]
  BY <1>1, Now, RestartedIs
<1>4. n \in Nat
  BY Now
<1>5. StatsTypeOK'
  BY <1>1, <1>3, Now DEF SInv, StatsTypeOK
<1>6. PeaksOK'
  <2>1. \A p \in Periods : n <= peak'[p]
    BY <1>3, <1>4 DEF SInv, PeaksOK
  <2>2. up => \A p \in Periods \ ps : stat.max[p] <= peak'[p]
    BY <1>1, <1>3 DEF SInv, PeaksOK, Pending
  <2>3. \A p \in Periods \ Over(saved.stamp, day + 1) : saved.max[p] <= peak'[p]
    BY <1>2, <1>3 DEF SInv, PeaksOK
  <2>4. up => Pending' = ps
    BY <1>1 DEF Pending
  <2> QED
    BY <1>1, <2>1, <2>2, <2>3, <2>4 DEF PeaksOK
<1>7. MaxOK'
  BY <1>1 DEF SInv, MaxOK
<1>8. FlagsOK'
  BY <1>1 DEF SInv, FlagsOK
<1>9. LateOK'
  BY <1>1, <1>2 DEF LateOK
<1>10. StampsOK'
  BY <1>1, PastStays DEF SInv, StampsOK
<1> QED
  BY <1>5, <1>6, <1>7, <1>8, <1>9, <1>10 DEF SInv

LEMMA NextSInv == Regular /\ SInv /\ [StatsNext]_statvars => SInv'
<1> SUFFICES ASSUME Regular, SInv, [StatsNext]_statvars PROVE SInv'
  OBVIOUS
<1>1. CASE UNCHANGED statvars
  BY <1>1 DEF statvars, SInv, StatsTypeOK, FlagsOK, StampsOK, PeaksOK, Pending, LateOK, MaxOK
<1>2. CASE StatsNext
  BY <1>2, AddStep, DelStep, ModInitStep, SaveStep, StopStep, StatsResetStep, MidnightStep
  DEF StatsNext
<1> QED
  BY <1>1, <1>2

-----------------------------------------------------------------------------
(* The theorems. *)

\* The types.
THEOREM StatsTypeCorrect ==
  ASSUME Regular
  PROVE  StatsSpec => []StatsTypeOK
<1>1. SInv => StatsTypeOK
  BY DEF SInv
<1>2. SInv /\ [StatsNext]_statvars => SInv'
  BY NextSInv
<1> QED
  BY <1>1, <1>2, InitSInv, PTL DEF StatsSpec

\* However saves, crashes and midnights fall, what StatServ calls the highest
\* number of a day, a week or a month was counted in it.
THEOREM HighestIsOfPeriod ==
  ASSUME Regular
  PROVE  StatsSpec => []HighestOfPeriod
<1>1. SInv => HighestOfPeriod
  BY DEF SInv, PeaksOK, Pending, HighestOfPeriod
<1>2. SInv /\ [StatsNext]_statvars => SInv'
  BY NextSInv
<1> QED
  BY <1>1, <1>2, InitSInv, PTL DEF StatsSpec

\* The highest values of the periods nest.
THEOREM PeriodsAlwaysNested ==
  ASSUME Regular
  PROVE  StatsSpec => []PeriodsNested
<1>1. SInv => PeriodsNested
  BY DEF SInv, MaxOK, Nested, PeriodsNested
<1>2. SInv /\ [StatsNext]_statvars => SInv'
  BY NextSInv
<1> QED
  BY <1>1, <1>2, InitSInv, PTL DEF StatsSpec

\* A record of all times, once saved, is never lost.
THEOREM RecordsAlwaysSurvive ==
  ASSUME Regular
  PROVE  StatsSpec => RecordsSurvive
<1> DEFINE A == /\ saved'.max["alltime"] >= saved.max["alltime"]
                /\ up' => stat'.max["alltime"] >= saved.max["alltime"]
<1>1. SInv /\ [StatsNext]_statvars => SInv'
  BY NextSInv
<1>2. SInv /\ [StatsNext]_statvars => [A]_statvars
  <2> SUFFICES ASSUME SInv, SInv', StatsNext PROVE A
    BY <1>1
  <2>1. /\ saved.max["alltime"] \in Nat /\ saved'.max["alltime"] \in Nat
        /\ stat.max["alltime"] \in Nat /\ stat'.max["alltime"] \in Nat
    <3>1. /\ saved.max["alltime"] \in Nat /\ stat.max["alltime"] \in Nat
      BY Now DEF Periods
    <3>2. stat' \in Statistic /\ saved' \in Statistic
      BY DEF SInv, StatsTypeOK
    <3>3. /\ saved'.max["alltime"] \in 0 .. MaxUsers /\ stat'.max["alltime"] \in 0 .. MaxUsers
      BY <3>2 DEF Statistic, Highest, Periods
    <3> QED
      BY <3>1, <3>3
  <2>2. saved' = saved \/ (up /\ saved' = stat)
    BY DEF StatsNext, AddNetworkUser, DelNetworkUser, ModInit, SaveStatsTimer, SaveNetworkStats,
       ModFini, Crash, ResetStatisticsTimer, Midnight
  <2>3. saved'.max["alltime"] >= saved.max["alltime"]
    BY <2>1, <2>2 DEF SInv, MaxOK
  <2>4. up' => stat'.max["alltime"] >= saved'.max["alltime"]
    BY <2>1 DEF SInv, MaxOK
  <2> QED
    BY <2>1, <2>3, <2>4
<1> QED
  BY <1>1, <1>2, InitSInv, PTL DEF StatsSpec, RecordsSurvive
=============================================================================
