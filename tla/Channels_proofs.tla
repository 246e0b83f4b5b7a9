--------------------------- MODULE Channels_proofs ---------------------------
(***************************************************************************)
(* Proofs about modules Channels and TextServ, for every value of their    *)
(* constants.                                                              *)
(*                                                                         *)
(* IInv, the conjunction of the type invariant, MembershipAgrees and       *)
(* UsersCounted, is inductive.  The argument goes through the pure         *)
(* functions of a channel record (what each does to the member set, and    *)
(* that the counter users follows it), then through Leave, the one place   *)
(* where clients are taken off channels, then action by action.            *)
(*                                                                         *)
(* The counters of bots depend on how modules behave.  PInv says of the    *)
(* persistent ones that TextServ's list, their channels and the counter    *)
(* agree, also in the middle of JoinBot and PartBot: each of the three     *)
(* needs the others.  TInv adds the counter of all bots.                   *)
(***************************************************************************)
EXTENDS TextServ, FiniteSetTheorems, TLAPS

USE DEF Clients

\* A record whose counter users says how many members it has.
Counted(ch) == ch \in ChannelRecord /\ ch.users = Cardinality(ch.members)

-----------------------------------------------------------------------------
(* Arithmetic of unsigned counters, and finiteness of the client sets. *)

\* Counting modulo UIntSize stays in UInt, and changes nothing within it.
LEMMA UIntArithmetic ==
  ASSUME NEW n \in Int
  PROVE  /\ n % UIntSize \in UInt
         /\ n \in UInt => n % UIntSize = n
<1>1. UIntSize \in Nat /\ UIntSize > 0
  <2>1. IsFiniteSet(Users \cup Bots)
    BY FS_Union, ChannelsAssumption
  <2> QED
    BY <2>1, FS_CardinalityType, ChannelsAssumption
<1> QED
  BY <1>1 DEF UInt

\* The increments and decrements of the counters stay in UInt.
LEMMA IncSub ==
  ASSUME NEW n \in UInt, NEW k \in Nat
  PROVE  Inc(n) \in UInt /\ Sub(n, k) \in UInt /\ n \in Nat
<1>1. n \in Nat /\ n + 1 \in Int /\ n - k \in Int
  BY ChannelsAssumption DEF UInt
<1> QED
  BY <1>1, UIntArithmetic DEF Inc, Sub

\* A set of clients is finite and its size fits an unsigned int.
LEMMA ClientsFit ==
  ASSUME NEW S \in SUBSET Clients
  PROVE  /\ IsFiniteSet(S)
         /\ Cardinality(S) \in Nat
         /\ Cardinality(S) < UIntSize
         /\ Cardinality(S) \in UInt
<1>1. IsFiniteSet(Users \cup Bots)
  BY FS_Union, ChannelsAssumption
<1>2. IsFiniteSet(S) /\ Cardinality(S) <= Cardinality(Users \cup Bots)
  BY <1>1, FS_Subset
<1>3. Cardinality(S) \in Nat /\ Cardinality(Users \cup Bots) \in Nat
  BY <1>1, <1>2, FS_CardinalityType
<1> QED
  BY <1>2, <1>3, ChannelsAssumption DEF UInt

-----------------------------------------------------------------------------
(* What the pure functions of a channel record do. *)

\* The record of a channel that does not exist.
LEMMA NoChannelCounted == Counted(NoChannel)
<1>1. 0 \in UInt
  BY ClientsFit, FS_EmptySet
<1> QED
  BY <1>1, FS_EmptySet DEF Counted, NoChannel, ChannelRecord

\* JoinChannel adds one member and counts it.
LEMMA JoinedCounted ==
  ASSUME NEW ch, Counted(ch), NEW u \in Clients
  PROVE  Counted(Joined(ch, u)) /\ Joined(ch, u).members = ch.members \cup {u}
<1>1. CASE u \in ch.members
  BY <1>1 DEF Joined, Counted, ChannelRecord
<1>2. CASE u \notin ch.members
  <2>1. ch.members \cup {u} \in SUBSET Clients /\ IsFiniteSet(ch.members)
    BY ClientsFit DEF Counted, ChannelRecord
  <2>2. Cardinality(ch.members \cup {u}) = ch.users + 1
    BY <1>2, <2>1, FS_AddElement DEF Counted
  <2>3. Inc(ch.users) = Cardinality(ch.members \cup {u})
    BY <2>1, <2>2, ClientsFit, UIntArithmetic DEF Inc, UInt
  <2>4. Inc(ch.users) \in UInt /\ Inc(ch.neousers) \in UInt
    BY IncSub DEF Counted, ChannelRecord
  <2> QED
    BY <1>2, <2>1, <2>3, <2>4 DEF Joined, Counted, ChannelRecord
<1> QED
  BY <1>1, <1>2

\* del_channel_member removes the member and counts it out.
LEMMA DelChannelMemberCounted ==
  ASSUME NEW ch, Counted(ch), NEW u \in Clients
  PROVE  /\ Counted(DelChannelMember(ch, u))
         /\ DelChannelMember(ch, u).members = ch.members \ {u}
<1>1. CASE u \notin ch.members
  BY <1>1 DEF DelChannelMember, Counted, ChannelRecord
<1>2. CASE u \in ch.members
  <2>1. /\ IsFiniteSet(ch.members) /\ ch.users \in Nat
        /\ ch.members \ {u} \in SUBSET Clients
    BY ClientsFit DEF Counted, ChannelRecord
  <2>2. Cardinality(ch.members \ {u}) = ch.users - 1
    BY <1>2, <2>1, FS_RemoveElement DEF Counted
  <2>3. Cardinality(ch.members \ {u}) \in UInt /\ ch.users > 0
    BY <2>1, <2>2, ClientsFit
  <2> QED
    BY <1>2, <2>1, <2>2, <2>3 DEF DelChannelMember, Counted, ChannelRecord
<1> QED
  BY <1>1, <1>2

\* So does PartChannel, whatever it does to neousers.
LEMMA PartedCounted ==
  ASSUME NEW ch, Counted(ch), NEW u \in Clients
  PROVE  Counted(Parted(ch, u)) /\ Parted(ch, u).members = ch.members \ {u}
<1> DEFINE del == DelChannelMember(ch, u)
<1>1. Counted(del) /\ del.members = ch.members \ {u}
  BY DelChannelMemberCounted
<1>2. Sub(del.neousers, 1) \in UInt
  BY <1>1, IncSub DEF Counted, ChannelRecord
<1> HIDE DEF del
<1>3. [del EXCEPT !.neousers = IF u \in Bots THEN Sub(@, 1) ELSE @] \in ChannelRecord
  BY <1>1, <1>2 DEF Counted, ChannelRecord
<1> QED
  BY <1>1, <1>3 DEF Parted, Counted, ChannelRecord, del

\* Changing the number of persistent users disturbs neither count nor list.
LEMMA PersistentCounted ==
  ASSUME NEW ch, Counted(ch), NEW n \in UInt
  PROVE  LET ch2 == [ch EXCEPT !.persistentusers = n]
         IN  Counted(ch2) /\ ch2.members = ch.members
BY DEF Counted, ChannelRecord

\* handle_dead_channel removes the bots it found and counts them out.
LEMMA WithoutBotsCounted ==
  ASSUME NEW ch, Counted(ch), NEW bots \in SUBSET Bots
  PROVE  /\ Counted(WithoutBots(ch, bots))
         /\ WithoutBots(ch, bots).members = ch.members \ bots
<1>1. ch.members \in SUBSET Clients /\ ch.members \ bots \in SUBSET Clients
  BY DEF Counted, ChannelRecord
<1>2. Cardinality(ch.members \ bots) = ch.users - Cardinality(ch.members \cap bots)
  BY <1>1, ClientsFit, FS_Difference DEF Counted
<1>3. bots \in SUBSET Clients /\ bots \cap Persist \in SUBSET Clients
  OBVIOUS
<1>4. /\ Sub(ch.neousers, Cardinality(bots)) \in UInt
      /\ Sub(ch.persistentusers, Cardinality(bots \cap Persist)) \in UInt
  BY <1>3, ClientsFit, IncSub DEF Counted, ChannelRecord
<1>5. Cardinality(ch.members \ bots) \in UInt
  BY <1>1, ClientsFit
<1> QED
  BY <1>1, <1>2, <1>4, <1>5 DEF WithoutBots, Counted, ChannelRecord

\* CheckEmptyChannel leaves a counted record, empties it of the bots it was
\* told of exactly if the channel is dead, and its counter is zero exactly if
\* no member is left.
LEMMA CheckEmptyChannelCounted ==
  ASSUME NEW c, NEW ch, Counted(ch), NEW bots \in SUBSET Bots
  PROVE  LET after == CheckEmptyChannel(c, ch, bots)
         IN  /\ Counted(after)
             /\ after.members = IF IsDead(c, ch) THEN ch.members \ bots ELSE ch.members
             /\ after.users = 0 <=> after.members = {}
<1> DEFINE left == IF IsDead(c, ch) THEN WithoutBots(ch, bots) ELSE ch
<1>1. /\ Counted(left)
      /\ left.members = IF IsDead(c, ch) THEN ch.members \ bots ELSE ch.members
  BY WithoutBotsCounted
<1> HIDE DEF left
<1>2. left.users = 0 <=> left.members = {}
  BY <1>1, ClientsFit, FS_EmptySet DEF Counted, ChannelRecord
<1>3. CheckEmptyChannel(c, ch, bots) = IF left.users = 0 THEN NoChannel ELSE left
  BY DEF CheckEmptyChannel, left
<1>4. Counted(NoChannel) /\ NoChannel.members = {} /\ NoChannel.users = 0
  BY NoChannelCounted DEF NoChannel
<1> QED
  BY <1>1, <1>2, <1>3, <1>4

-----------------------------------------------------------------------------
(* The inductive invariant. *)

IInv == TypeOK /\ MembershipAgrees /\ UsersCounted

\* In a state of the invariant every channel record is counted.
LEMMA ChannelsCounted ==
  ASSUME IInv, NEW c \in Chans
  PROVE  Counted(channel[c])
BY DEF IInv, TypeOK, UsersCounted, Counted

\* What must hold of the next state besides the unchanged parts.
MembershipInv ==
  /\ channelhash \subseteq Chans
  /\ channel \in [Chans -> ChannelRecord]
  /\ chans \in [Clients -> SUBSET Chans]
  /\ \A u \in Clients, c \in Chans : u \in channel[c].members <=> c \in chans[u]
  /\ UsersCounted

\* Leave keeps the membership consistent: u is taken off the given channels
\* and the bots off those that are dead, on both sides of the relation.
LEMMA LeaveKeepsMembership ==
  ASSUME IInv,
         NEW u \in Clients, NEW rec,
         DOMAIN rec \subseteq channelhash,
         \A c \in DOMAIN rec : Counted(rec[c]) /\ rec[c].members = channel[c].members \ {u},
         Leave(u, rec)
  PROVE  /\ MembershipInv'
         /\ \A v \in Clients : chans'[v] \subseteq chans[v]
         /\ chans'[u] = chans[u] \ DOMAIN rec
<1> DEFINE after(c) == CheckEmptyChannel(c, rec[c], BotsListing(c, u))
           left(v)  == {c \in DOMAIN rec : v = u \/ (v \in Bots /\ IsDead(c, rec[c]))}
<1>1. /\ channel' = [c \in Chans |-> IF c \in DOMAIN rec THEN after(c) ELSE channel[c]]
      /\ channelhash' = channelhash \ {c \in DOMAIN rec : after(c).users = 0}
      /\ chans' = [v \in Clients |-> chans[v] \ left(v)]
  BY DEF Leave
<1>2. \A c \in DOMAIN rec :
        /\ Counted(after(c))
        /\ after(c).members = IF IsDead(c, rec[c])
                                THEN (channel[c].members \ {u}) \ BotsListing(c, u)
                                ELSE channel[c].members \ {u}
        /\ after(c).users = 0 <=> after(c).members = {}
  <2> TAKE c \in DOMAIN rec
  <2>1. BotsListing(c, u) \in SUBSET Bots
    BY DEF BotsListing
  <2>2. Counted(rec[c]) /\ rec[c].members = channel[c].members \ {u}
    OBVIOUS
  <2>3. /\ Counted(after(c))
        /\ after(c).members = IF IsDead(c, rec[c])
                                THEN rec[c].members \ BotsListing(c, u)
                                ELSE rec[c].members
        /\ after(c).users = 0 <=> after(c).members = {}
    BY <2>1, <2>2, CheckEmptyChannelCounted
  <2> QED
    BY <2>2, <2>3
<1> HIDE DEF after
<1>3. DOMAIN rec \subseteq Chans
  BY DEF IInv, TypeOK
<1>4. \A c \in Chans : Counted(channel'[c])
  BY <1>1, <1>2, <1>3, ChannelsCounted
<1>5. /\ channelhash' \subseteq Chans
      /\ channel' \in [Chans -> ChannelRecord]
      /\ chans' \in [Clients -> SUBSET Chans]
  BY <1>1, <1>2, <1>3 DEF IInv, TypeOK, Counted
<1>6. ASSUME NEW v \in Clients, NEW c \in Chans
      PROVE  v \in channel'[c].members <=> c \in chans'[v]
  <2>1. v \in channel[c].members <=> c \in chans[v]
    BY DEF IInv, MembershipAgrees
  <2>2. CASE c \notin DOMAIN rec
    BY <1>1, <2>1, <2>2
  <2>3. CASE c \in DOMAIN rec
    BY <1>1, <1>2, <2>1, <2>3, ZenonT(60) DEF BotsListing
  <2> QED
    BY <2>2, <2>3
<1>7. UsersCounted'
  <2>1. ASSUME NEW c \in Chans
        PROVE  c \in channelhash' <=> channel'[c].members # {}
    BY <1>1, <1>2 DEF IInv, UsersCounted
  <2> QED
    BY <1>4, <2>1 DEF UsersCounted, Counted
<1>8. /\ \A v \in Clients : chans'[v] \subseteq chans[v]
      /\ chans'[u] = chans[u] \ DOMAIN rec
  BY <1>1
<1> QED
  BY <1>5, <1>6, <1>7, <1>8 DEF MembershipInv

\* JoinChannel with a counted record keeps the membership consistent.
LEMMA JoinKeepsMembership ==
  ASSUME IInv, NEW u \in Clients, NEW c \in Chans, NEW ch,
         Counted(ch), ch.members = channel[c].members \cup {u},
         JoinChannel(u, c, ch)
  PROVE  /\ MembershipInv'
         /\ \A v \in Clients : chans'[v] \subseteq chans[v] \cup (IF v = u THEN {c} ELSE {})
<1>1. /\ channelhash' = channelhash \cup {c}
      /\ channel' = [channel EXCEPT ![c] = ch]
      /\ chans' = [chans EXCEPT ![u] = chans[u] \cup {c}]
  BY DEF JoinChannel
<1>2. /\ channelhash' \subseteq Chans
      /\ channel' \in [Chans -> ChannelRecord]
      /\ chans' \in [Clients -> SUBSET Chans]
  BY <1>1 DEF IInv, TypeOK, Counted
<1>3. ASSUME NEW v \in Clients, NEW d \in Chans
      PROVE  v \in channel'[d].members <=> d \in chans'[v]
  BY <1>1 DEF IInv, TypeOK, MembershipAgrees
<1>4. UsersCounted'
  BY <1>1 DEF IInv, TypeOK, UsersCounted, Counted
<1>5. \A v \in Clients : chans'[v] \subseteq chans[v] \cup (IF v = u THEN {c} ELSE {})
  BY <1>1 DEF IInv, TypeOK
<1> QED
  BY <1>2, <1>3, <1>4, <1>5 DEF MembershipInv

\* The membership part and the client hash together make the invariant.
LEMMA MembershipSuffices ==
  ASSUME MembershipInv', userhash' \subseteq Clients, crashed' \in BOOLEAN,
         \A u \in Clients : chans'[u] # {} => u \in userhash'
  PROVE  IInv'
BY DEF MembershipInv, IInv, TypeOK, MembershipAgrees

\* PartChannel of one client and one channel.
LEMMA PartChannelKeepsMembership ==
  ASSUME IInv, NEW u \in Clients, NEW c \in Chans, PartChannel(u, c)
  PROVE  MembershipInv' /\ \A v \in Clients : chans'[v] \subseteq chans[v]
<1>1. CASE c \in channelhash
  <2> DEFINE rec == [d \in {c} |-> Parted(channel[d], u)]
  <2>1. Leave(u, rec)
    BY <1>1 DEF PartChannel
  <2>2. DOMAIN rec \subseteq channelhash
    BY <1>1
  <2>3. \A d \in DOMAIN rec : Counted(rec[d]) /\ rec[d].members = channel[d].members \ {u}
    BY ChannelsCounted, PartedCounted
  <2> HIDE DEF rec
  <2> QED
    BY <2>1, <2>2, <2>3, LeaveKeepsMembership
<1>2. CASE c \notin channelhash
  BY <1>2 DEF PartChannel, MembershipInv, IInv, TypeOK, MembershipAgrees, UsersCounted
<1> QED
  BY <1>1, <1>2

\* PartAllChannels, after which the client lists no channel.
LEMMA PartAllChannelsKeepsMembership ==
  ASSUME IInv, NEW u \in Clients, PartAllChannels(u)
  PROVE  /\ MembershipInv' /\ \A v \in Clients : chans'[v] \subseteq chans[v]
         /\ chans'[u] = {}
<1> DEFINE rec == [c \in chans[u] |-> Parted(channel[c], u)]
<1>1. Leave(u, rec)
  BY DEF PartAllChannels
<1>2. DOMAIN rec = chans[u] /\ chans[u] \subseteq channelhash /\ chans[u] \subseteq Chans
  BY DEF IInv, TypeOK, MembershipAgrees, UsersCounted
<1>3. \A c \in DOMAIN rec : Counted(rec[c]) /\ rec[c].members = channel[c].members \ {u}
  BY <1>2, ChannelsCounted, PartedCounted
<1> HIDE DEF rec
<1> QED
  BY <1>1, <1>2, <1>3, LeaveKeepsMembership

-----------------------------------------------------------------------------
(* Every action keeps the invariant. *)

LEMMA InitIInv == Init => IInv
<1> SUFFICES ASSUME Init PROVE IInv
  OBVIOUS
<1>1. NoChannel \in ChannelRecord /\ NoChannel.users = Cardinality(NoChannel.members)
  BY NoChannelCounted DEF Counted
<1> QED
  BY <1>1 DEF Init, IInv, TypeOK, MembershipAgrees, UsersCounted, NoChannel

\* A bot's record as irc_join leaves it.
LEMMA JoinedByBotCounted ==
  ASSUME IInv, NEW b \in Bots, NEW c \in Chans
  PROVE  /\ Counted(JoinedByBot(c, b))
         /\ JoinedByBot(c, b).members = channel[c].members \cup {b}
<1> DEFINE ch == Joined(channel[c], b)
<1>1. Counted(ch) /\ ch.members = channel[c].members \cup {b}
  BY ChannelsCounted, JoinedCounted
<1> HIDE DEF ch
<1>2. Inc(ch.persistentusers) \in UInt /\ ch.persistentusers \in UInt
  BY <1>1, IncSub DEF Counted, ChannelRecord
<1>3. JoinedByBot(c, b) = [ch EXCEPT !.persistentusers =
        IF b \in Persist THEN Inc(ch.persistentusers) ELSE ch.persistentusers]
  BY DEF JoinedByBot, ch
<1> QED
  BY <1>1, <1>2, <1>3, PersistentCounted

LEMMA NextIInv == IInv /\ [Next]_vars => IInv'
<1> SUFFICES ASSUME IInv, [Next]_vars PROVE IInv'
  OBVIOUS
<1>0. /\ userhash \subseteq Clients
      /\ \A v \in Clients : chans[v] # {} => v \in userhash
      /\ crashed \in BOOLEAN
  BY DEF IInv, TypeOK, MembershipAgrees
<1>1. ASSUME NEW u \in Users, AddUser(u) PROVE IInv'
  BY <1>1 DEF AddUser, IInv, TypeOK, MembershipAgrees, UsersCounted
<1>2. ASSUME NEW u \in Users, NEW c \in Chans, DoJoin(u, c) PROVE IInv'
  <2>1. Counted(Joined(channel[c], u)) /\ Joined(channel[c], u).members = channel[c].members \cup {u}
    BY ChannelsCounted, JoinedCounted
  <2>2. /\ u \in userhash /\ JoinChannel(u, c, Joined(channel[c], u))
        /\ userhash' = userhash /\ crashed' = crashed
    BY <1>2 DEF DoJoin
  <2>3. /\ MembershipInv'
        /\ \A v \in Clients : chans'[v] \subseteq chans[v] \cup (IF v = u THEN {c} ELSE {})
    BY <2>1, <2>2, JoinKeepsMembership
  <2> QED
    BY <1>0, <2>2, <2>3, MembershipSuffices
<1>3. ASSUME NEW u \in Users, DoJoinZero(u) PROVE IInv'
  <2>1. PartAllChannels(u) /\ userhash' = userhash /\ crashed' = crashed
    BY <1>3 DEF DoJoinZero
  <2> QED
    BY <1>0, <2>1, PartAllChannelsKeepsMembership, MembershipSuffices
<1>4. ASSUME NEW u \in Clients, NEW c \in Chans, DoPart(u, c) PROVE IInv'
  <2>1. PartChannel(u, c) /\ userhash' = userhash /\ crashed' = crashed
    BY <1>4 DEF DoPart
  <2> QED
    BY <1>0, <2>1, PartChannelKeepsMembership, MembershipSuffices
<1>5. ASSUME NEW u \in Clients, NEW c \in Chans, DoKick(u, c) PROVE IInv'
  <2> DEFINE rec == [d \in {c} |-> DelChannelMember(channel[d], u)]
  <2>1. Leave(u, rec) /\ userhash' = userhash /\ crashed' = crashed
    BY <1>5 DEF DoKick
  <2>2. DOMAIN rec \subseteq channelhash
    BY <1>5 DEF DoKick, IInv, UsersCounted
  <2>3. \A d \in DOMAIN rec : Counted(rec[d]) /\ rec[d].members = channel[d].members \ {u}
    BY ChannelsCounted, DelChannelMemberCounted
  <2> HIDE DEF rec
  <2>4. MembershipInv' /\ \A v \in Clients : chans'[v] \subseteq chans[v]
    BY <2>1, <2>2, <2>3, LeaveKeepsMembership
  <2> QED
    BY <1>0, <2>1, <2>4, MembershipSuffices
<1>6. ASSUME NEW u \in Clients, DoQuit(u) PROVE IInv'
  <2>1. PartAllChannels(u) /\ userhash' = userhash \ {u} /\ crashed' = crashed
    BY <1>6 DEF DoQuit
  <2>2. /\ MembershipInv' /\ chans'[u] = {}
        /\ \A v \in Clients : chans'[v] \subseteq chans[v]
    BY <2>1, PartAllChannelsKeepsMembership
  <2> QED
    BY <1>0, <2>1, <2>2, MembershipSuffices
<1>7. ASSUME NEW b \in Bots, AddBot(b) PROVE IInv'
  <2>1. userhash' = userhash \cup {b} /\ crashed' = crashed
    BY <1>7 DEF AddBot
  <2>2. CASE b \in Root
    <3>1. JoinChannel(b, ServicesChan, JoinedByBot(ServicesChan, b))
      BY <1>7, <2>2 DEF AddBot
    <3>2. ServicesChan \in Chans
      BY ChannelsAssumption
    <3>3. /\ MembershipInv'
          /\ \A v \in Clients : chans'[v] \subseteq chans[v] \cup (IF v = b THEN {ServicesChan} ELSE {})
      BY <3>1, <3>2, JoinedByBotCounted, JoinKeepsMembership
    <3> QED
      BY <1>0, <2>1, <3>3, MembershipSuffices
  <2>3. CASE b \notin Root
    BY <1>7, <2>3 DEF AddBot, IInv, TypeOK, MembershipAgrees, UsersCounted
  <2> QED
    BY <2>2, <2>3
<1>8. ASSUME NEW b \in Bots, NEW c \in Chans, IrcJoin(b, c) PROVE IInv'
  <2>1. /\ b \in userhash /\ JoinChannel(b, c, JoinedByBot(c, b))
        /\ userhash' = userhash /\ crashed' = crashed
    BY <1>8 DEF IrcJoin
  <2>2. /\ MembershipInv'
        /\ \A v \in Clients : chans'[v] \subseteq chans[v] \cup (IF v = b THEN {c} ELSE {})
    BY <2>1, JoinedByBotCounted, JoinKeepsMembership
  <2> QED
    BY <1>0, <2>1, <2>2, MembershipSuffices
<1>9. ASSUME NEW b \in Bots, NEW c \in Chans, IrcPart(b, c) PROVE IInv'
  <2>1. userhash' = userhash /\ crashed' \in BOOLEAN
    BY <1>0, <1>9 DEF IrcPart
  <2>2. CASE UNCHANGED <<channel, channelhash, chans>>
    BY <2>1, <2>2 DEF IInv, TypeOK, MembershipAgrees, UsersCounted
  <2>3. CASE c \in channelhash
    <3> DEFINE rec == [d \in {c} |-> [Parted(channel[d], b) EXCEPT
                 !.persistentusers = IF b \in Persist THEN Sub(@, 1) ELSE @]]
    <3>1. Leave(b, rec)
      BY <1>9, <2>3 DEF IrcPart
    <3>2. Counted(rec[c]) /\ rec[c].members = channel[c].members \ {b}
      <4> DEFINE ch == Parted(channel[c], b)
      <4>1. Counted(ch) /\ ch.members = channel[c].members \ {b}
        BY ChannelsCounted, PartedCounted
      <4> HIDE DEF ch
      <4>2. ch.persistentusers \in UInt /\ Sub(ch.persistentusers, 1) \in UInt
        BY <4>1, IncSub DEF Counted, ChannelRecord
      <4> DEFINE n == IF b \in Persist THEN Sub(ch.persistentusers, 1) ELSE ch.persistentusers
      <4>3. n \in UInt
        BY <4>2
      <4>4. rec[c] = [ch EXCEPT !.persistentusers = n]
        BY DEF ch
      <4> HIDE DEF n, rec
      <4> QED
        BY <4>1, <4>3, <4>4, PersistentCounted
    <3>3. DOMAIN rec \subseteq channelhash /\ DOMAIN rec = {c}
      BY <2>3
    <3> HIDE DEF rec
    <3>4. MembershipInv' /\ \A v \in Clients : chans'[v] \subseteq chans[v]
      BY <3>1, <3>2, <3>3, LeaveKeepsMembership
    <3> QED
      BY <1>0, <2>1, <3>4, MembershipSuffices
  <2> QED
    BY <1>9, <2>2, <2>3 DEF IrcPart
<1>10. ASSUME NEW b \in Bots, NEW u \in Users, NEW c \in Chans, IrcKick(b, u, c) PROVE IInv'
  <2>1. PartChannel(u, c) /\ userhash' = userhash /\ crashed' = crashed
    BY <1>10 DEF IrcKick
  <2> QED
    BY <1>0, <2>1, PartChannelKeepsMembership, MembershipSuffices
<1>11. ASSUME NEW b \in Bots, IrcQuit(b) PROVE IInv'
  <2>1. PartAllChannels(b) /\ userhash' = userhash \ {b} /\ crashed' = crashed
    BY <1>11 DEF IrcQuit
  <2>2. /\ MembershipInv' /\ chans'[b] = {}
        /\ \A v \in Clients : chans'[v] \subseteq chans[v]
    BY <2>1, PartAllChannelsKeepsMembership
  <2> QED
    BY <1>0, <2>1, <2>2, MembershipSuffices
<1>12. CASE UNCHANGED vars
  BY <1>12 DEF vars, IInv, TypeOK, MembershipAgrees, UsersCounted
<1>13. ASSUME NEW b \in Bots, ModuleCall(b) PROVE IInv'
  BY <1>7, <1>8, <1>9, <1>10, <1>11, <1>13 DEF ModuleCall
<1>14. ASSUME Uplink PROVE IInv'
  BY <1>1, <1>2, <1>3, <1>4, <1>5, <1>6, <1>14 DEF Uplink
<1> QED
  BY <1>12, <1>13, <1>14 DEF Next

\* Whatever modules, servers and users do, and with either kick protocol:
\* types are kept, member lists and channel lists are two copies of the same
\* relation between live clients and channels, and every channel record has
\* at least one member and counts its members.
THEOREM MembershipCorrect == Spec => [](TypeOK /\ MembershipAgrees /\ UsersCounted)
<1>1. IInv => TypeOK /\ MembershipAgrees /\ UsersCounted
  BY DEF IInv
<1> QED
  BY <1>1, InitIInv, NextIInv, PTL DEF Spec

-----------------------------------------------------------------------------
(* TextServ. *)

\* Every step of TextServ and of those around it is a step of Channels, or
\* none.
LEMMA TsNextRefines == [TsNext]_<<vars, tsvars>> => [Next]_vars
<1>1. \A b \in TsBots : b \in Bots /\ Main[b] \in Chans
  BY TextServAssumption, ChannelsAssumption
<1>2. ASSUME NEW b \in TsBots, TsStep(b) PROVE ModuleCall(b)
  BY <1>1, <1>2
  DEF TsStep, ts_cmd_add_chan, ts_cmd_del_chan, JoinBot, JoinMain, JoinListed,
      PartBot, PartListed, PartQuit, ModuleCall
<1>3. TsNext => Next
  BY <1>1, <1>2 DEF TsNext, OtherStep, Next
<1> QED
  BY <1>3 DEF vars

\* TextServ and its surroundings implement Channels: what holds whatever
\* modules do holds with TextServ.
THEOREM TextServImplements == TsSpec => Spec
<1>1. TsInit => Init
  BY DEF TsInit
<1> QED
  BY <1>1, TsNextRefines, PTL DEF TsSpec, Spec

-----------------------------------------------------------------------------
\* Counting one element of a set of clients in, and out.
LEMMA CountIn ==
  ASSUME NEW S \in SUBSET Clients, NEW B \in SUBSET Clients, NEW u \in Clients, u \notin S
  PROVE  Cardinality((S \cup {u}) \cap B) =
           IF u \in B THEN Inc(Cardinality(S \cap B)) ELSE Cardinality(S \cap B)
<1>1. CASE u \notin B
  <2>1. (S \cup {u}) \cap B = S \cap B
    BY <1>1
  <2> QED
    BY <1>1, <2>1
<1>2. CASE u \in B
  <2>1. (S \cup {u}) \cap B = (S \cap B) \cup {u} /\ u \notin S \cap B
    BY <1>2
  <2>2. S \cap B \in SUBSET Clients /\ (S \cap B) \cup {u} \in SUBSET Clients
    OBVIOUS
  <2>3. Cardinality((S \cap B) \cup {u}) = Cardinality(S \cap B) + 1
    BY <2>1, <2>2, ClientsFit, FS_AddElement
  <2>4. Inc(Cardinality(S \cap B)) = Cardinality(S \cap B) + 1
    BY <2>2, <2>3, ClientsFit, UIntArithmetic DEF Inc, UInt
  <2> QED
    BY <1>2, <2>1, <2>3, <2>4
<1> QED
  BY <1>1, <1>2

LEMMA CountOut ==
  ASSUME NEW S \in SUBSET Clients, NEW B \in SUBSET Clients, NEW D \in SUBSET Clients,
         D \subseteq S
  PROVE  Sub(Cardinality(S \cap B), Cardinality(D \cap B)) = Cardinality((S \ D) \cap B)
<1>1. (S \ D) \cap B = (S \cap B) \ (D \cap B) /\ (S \cap B) \cap (D \cap B) = D \cap B
  OBVIOUS
<1>2. /\ S \cap B \in SUBSET Clients /\ D \cap B \in SUBSET Clients
      /\ (S \ D) \cap B \in SUBSET Clients
  OBVIOUS
<1>3. Cardinality((S \ D) \cap B) = Cardinality(S \cap B) - Cardinality(D \cap B)
  <2>1. IsFiniteSet(S \cap B)
    BY <1>2, ClientsFit
  <2>2. Cardinality((S \cap B) \ (D \cap B)) =
          Cardinality(S \cap B) - Cardinality((S \cap B) \cap (D \cap B))
    BY <2>1, FS_Difference
  <2> QED
    BY <1>1, <2>2
<1>4. Cardinality((S \ D) \cap B) % UIntSize = Cardinality((S \ D) \cap B)
  BY <1>2, ClientsFit, UIntArithmetic
<1> QED
  BY <1>3, <1>4 DEF Sub

LEMMA SingleCount ==
  ASSUME NEW B \in SUBSET Clients, NEW u \in Clients
  PROVE  Cardinality({u} \cap B) = IF u \in B THEN 1 ELSE 0
<1>1. u \in B => {u} \cap B = {u}
  OBVIOUS
<1>2. u \notin B => {u} \cap B = {}
  OBVIOUS
<1> QED
  BY <1>1, <1>2, FS_Singleton, FS_EmptySet

-----------------------------------------------------------------------------
(* Persistent bots.  When they are the bots of TextServ, nobody removes them *)
(* from a channel or quits them from outside and nobody lists their main     *)
(* channel, persistentusers is exact, so that handle_dead_channel never      *)
(* takes one off a channel, so that the lists of TextServ stay true, so that *)
(* its bots join and part each channel once, which keeps the counter exact.  *)
(* The other modules may be careless, and kicks with or without a PART.      *)

PersistAlone == Persist = TsBots /\ Exposed \cap TsBots = {} /\ ~MainListed

PExact(ch) == ch.persistentusers = Cardinality(ch.members \cap Persist)

\* The channels a bot of TextServ is on, seen from its list.
Expected(b) ==
  CASE b \notin userhash  -> {}
    [] phase[b] = "main"  -> {}
    [] phase[b] = "join"  -> (chanhash[b] \cup {Main[b]}) \ todo[b]
    [] phase[b] = "part"  -> todo[b]
    [] OTHER              -> chanhash[b] \cup {Main[b]}

ListFollowed(b) ==
  /\ chans[b] = Expected(b)
  /\ Main[b] \notin chanhash[b]
  /\ phase[b] # "idle" => b \in userhash
  /\ phase[b] = "main" => todo[b] = chanhash[b]
  /\ phase[b] = "join" => todo[b] \subseteq chanhash[b]

PInv ==
  /\ IInv /\ TsTypeOK
  /\ PersistentUsersCounted /\ NeverCrashed
  /\ \A b \in TsBots : ListFollowed(b)

LEMMA PersistClients ==
  /\ Persist \in SUBSET Clients
  /\ \A S \in SUBSET Clients : S \cap Persist \in SUBSET Clients
BY ChannelsAssumption

\* CheckEmptyChannel takes no persistent bot off and keeps them counted.
LEMMA CheckEmptyChannelPersist ==
  ASSUME NEW c, NEW ch, Counted(ch), PExact(ch), NEW bots \in SUBSET Bots,
         bots \cap Persist \subseteq ch.members
  PROVE  /\ PExact(CheckEmptyChannel(c, ch, bots))
         /\ IsDead(c, ch) => ch.members \cap Persist = {}
<1>1. ch \in ChannelRecord /\ ch.members \in SUBSET Clients /\ ch.members \cap Persist \in SUBSET Clients
  BY PersistClients DEF Counted, ChannelRecord
<1>2. ASSUME IsDead(c, ch) PROVE ch.members \cap Persist = {}
  BY <1>1, <1>2, ClientsFit, FS_EmptySet DEF IsDead, PExact
<1>3. ASSUME IsDead(c, ch) PROVE PExact(WithoutBots(ch, bots))
  <2>1. bots \cap Persist = {} /\ (ch.members \ bots) \cap Persist = {} /\ Cardinality({}) = 0
    BY <1>2, <1>3, FS_EmptySet
  <2>2. ch.persistentusers = 0
    BY <1>3 DEF IsDead
  <2>3. 0 \in UInt
    BY ClientsFit, FS_EmptySet
  <2>4. Sub(0, 0) = 0
    BY <2>3, UIntArithmetic DEF Sub
  <2>5. /\ WithoutBots(ch, bots).persistentusers = Sub(0, 0)
        /\ WithoutBots(ch, bots).members \cap Persist = {}
    BY <2>1, <2>2 DEF WithoutBots
  <2> QED
    BY <2>1, <2>4, <2>5 DEF PExact
<1>4. PExact(NoChannel)
  BY FS_EmptySet DEF PExact, NoChannel
<1>5. PExact(CheckEmptyChannel(c, ch, bots))
  BY <1>3, <1>4 DEF CheckEmptyChannel
<1> QED
  BY <1>2, <1>5

LEMMA ChannelsPersist ==
  ASSUME IInv, PersistentUsersCounted, NEW c \in Chans
  PROVE  Counted(channel[c]) /\ PExact(channel[c])
BY ChannelsCounted DEF PersistentUsersCounted, PExact

\* No persistent bot but the one that leaves is taken off a channel.
LEMMA LeavePersist ==
  ASSUME IInv, PersistentUsersCounted, NEW u \in Clients, NEW rec, DOMAIN rec \subseteq channelhash,
         \A c \in DOMAIN rec : /\ Counted(rec[c]) /\ PExact(rec[c])
                               /\ rec[c].members = channel[c].members \ {u},
         Leave(u, rec)
  PROVE  /\ PersistentUsersCounted'
         /\ \A v \in Persist \ {u} : chans'[v] = chans[v]
<1>1. /\ channel' = [d \in Chans |-> IF d \in DOMAIN rec
                       THEN CheckEmptyChannel(d, rec[d], BotsListing(d, u)) ELSE channel[d]]
      /\ chans' = [v \in Clients |-> chans[v] \
           {c \in DOMAIN rec : v = u \/ (v \in Bots /\ IsDead(c, rec[c]))}]
  BY DEF Leave
<1>2. DOMAIN rec \subseteq Chans
  BY DEF IInv, TypeOK
<1>3. ASSUME NEW c \in DOMAIN rec
      PROVE  /\ PExact(CheckEmptyChannel(c, rec[c], BotsListing(c, u)))
             /\ IsDead(c, rec[c]) => (channel[c].members \ {u}) \cap Persist = {}
  <2>1. BotsListing(c, u) \in SUBSET Bots
    BY DEF BotsListing
  <2>2. BotsListing(c, u) \subseteq channel[c].members \ {u}
    BY <1>2 DEF BotsListing, IInv, MembershipAgrees
  <2> QED
    BY <2>1, <2>2, CheckEmptyChannelPersist
<1>4. PersistentUsersCounted'
  BY <1>1, <1>3, ChannelsPersist DEF PersistentUsersCounted, PExact
<1>5. ASSUME NEW v \in Persist, v # u PROVE chans'[v] = chans[v]
  <2>1. v \in Clients
    BY ChannelsAssumption
  <2>2. \A c \in DOMAIN rec : IsDead(c, rec[c]) => c \notin chans[v]
    BY <1>2, <1>3, <1>5, <2>1 DEF IInv, MembershipAgrees
  <2> QED
    BY <1>1, <1>5, <2>1, <2>2
<1> QED
  BY <1>4, <1>5

\* A client that is not a persistent bot counts for nothing.
LEMMA OthersPersist ==
  ASSUME NEW ch, Counted(ch), PExact(ch), NEW u \in Clients, u \notin Persist
  PROVE  PExact(Joined(ch, u)) /\ PExact(Parted(ch, u)) /\ PExact(DelChannelMember(ch, u))
<1>1. /\ ch \in ChannelRecord
      /\ (ch.members \cup {u}) \cap Persist = ch.members \cap Persist
      /\ (ch.members \ {u}) \cap Persist = ch.members \cap Persist
  BY DEF Counted
<1>2. PExact(Joined(ch, u))
  BY <1>1 DEF Joined, PExact, ChannelRecord
<1>3. PExact(DelChannelMember(ch, u)) /\ DelChannelMember(ch, u) \in ChannelRecord
  BY <1>1, DelChannelMemberCounted DEF DelChannelMember, PExact, ChannelRecord, Counted
<1>4. PExact(Parted(ch, u))
  BY <1>3 DEF Parted, PExact, ChannelRecord
<1> QED
  BY <1>2, <1>3, <1>4

\* What a step leaves alone when no persistent bot is the one that acts.
PersistUntouched == PersistentUsersCounted' /\ \A v \in Persist : chans'[v] = chans[v]

LEMMA PartChannelPersist ==
  ASSUME IInv, PersistentUsersCounted, NEW u \in Clients, u \notin Persist, NEW c \in Chans, PartChannel(u, c)
  PROVE  PersistUntouched
<1>1. CASE c \in channelhash
  <2> DEFINE rec == [d \in {c} |-> Parted(channel[d], u)]
  <2>1. Leave(u, rec) /\ DOMAIN rec \subseteq channelhash
    BY <1>1 DEF PartChannel
  <2>2. \A d \in DOMAIN rec : /\ Counted(rec[d]) /\ PExact(rec[d])
                              /\ rec[d].members = channel[d].members \ {u}
    BY ChannelsPersist, PartedCounted, OthersPersist
  <2> HIDE DEF rec
  <2> QED
    BY <2>1, <2>2, LeavePersist DEF PersistUntouched
<1>2. CASE c \notin channelhash
  BY <1>2 DEF PartChannel, PersistUntouched, PersistentUsersCounted
<1> QED
  BY <1>1, <1>2

LEMMA PartAllChannelsPersist ==
  ASSUME IInv, PersistentUsersCounted, NEW u \in Clients, u \notin Persist, PartAllChannels(u)
  PROVE  PersistUntouched
<1> DEFINE rec == [c \in chans[u] |-> Parted(channel[c], u)]
<1>1. Leave(u, rec) /\ DOMAIN rec = chans[u] /\ chans[u] \subseteq channelhash /\ chans[u] \subseteq Chans
  BY DEF PartAllChannels, IInv, TypeOK, MembershipAgrees, UsersCounted
<1>2. \A c \in DOMAIN rec : /\ Counted(rec[c]) /\ PExact(rec[c])
                            /\ rec[c].members = channel[c].members \ {u}
  BY <1>1, ChannelsPersist, PartedCounted, OthersPersist
<1> HIDE DEF rec
<1> QED
  BY <1>1, <1>2, LeavePersist DEF PersistUntouched

\* JoinChannel with a record that counts the persistent bots.
LEMMA JoinPersist ==
  ASSUME IInv, PersistentUsersCounted, NEW u \in Clients, NEW c \in Chans, NEW ch, PExact(ch),
         JoinChannel(u, c, ch)
  PROVE  PersistentUsersCounted' /\ chans' = [chans EXCEPT ![u] = chans[u] \cup {c}]
BY DEF JoinChannel, IInv, TypeOK, PersistentUsersCounted, PExact

LEMMA JoinOthersPersist ==
  ASSUME IInv, PersistentUsersCounted, NEW u \in Clients, u \notin Persist, NEW c \in Chans,
         NEW ch, PExact(ch), JoinChannel(u, c, ch)
  PROVE  PersistUntouched
<1>1. \A v \in Persist : v \in Clients /\ v # u
  BY ChannelsAssumption
<1> QED
  BY <1>1, JoinPersist DEF PersistUntouched, IInv, TypeOK

\* The record of irc_join by a bot that is not persistent.
LEMMA JoinedByBotPersist ==
  ASSUME IInv, PersistentUsersCounted, NEW c \in Chans, NEW b \in Bots, b \notin Persist
  PROVE  PExact(JoinedByBot(c, b))
<1>1. PExact(Joined(channel[c], b)) /\ Joined(channel[c], b) \in ChannelRecord
  BY ChannelsPersist, OthersPersist, JoinedCounted DEF Counted
<1> QED
  BY <1>1 DEF JoinedByBot, PExact, ChannelRecord

\* The record of irc_part, of which a persistent bot must be a member.
PartRecord(b, c) ==
  [Parted(channel[c], b) EXCEPT !.persistentusers = IF b \in Persist THEN Sub(@, 1) ELSE @]

LEMMA PartRecordPersist ==
  ASSUME IInv, PersistentUsersCounted, NEW c \in Chans, NEW b \in Bots,
         b \in Persist => b \in channel[c].members
  PROVE  LET r == PartRecord(b, c)
         IN  /\ Counted(r) /\ PExact(r) /\ r.members = channel[c].members \ {b}
             /\ r.neousers = Parted(channel[c], b).neousers
             /\ r.persistentusers = IF b \in Persist THEN Sub(channel[c].persistentusers, 1)
                                                     ELSE channel[c].persistentusers
<1> DEFINE ch == channel[c]
           pd == Parted(ch, b)
           n  == IF b \in Persist THEN Sub(pd.persistentusers, 1) ELSE pd.persistentusers
<1>1. Counted(ch) /\ PExact(ch)
  BY ChannelsPersist
<1>2. Counted(pd) /\ pd.members = ch.members \ {b} /\ pd.persistentusers = ch.persistentusers
  <2>1. DelChannelMember(ch, b).persistentusers = ch.persistentusers
    BY <1>1 DEF DelChannelMember, Counted, ChannelRecord
  <2>2. DelChannelMember(ch, b) \in ChannelRecord
    BY <1>1, DelChannelMemberCounted DEF Counted
  <2>3. pd.persistentusers = ch.persistentusers
    BY <2>1, <2>2 DEF Parted, ChannelRecord
  <2> QED
    BY <1>1, <2>3, PartedCounted
<1>3. n = Cardinality((ch.members \ {b}) \cap Persist)
  <2>1. CASE b \notin Persist
    <3>1. (ch.members \ {b}) \cap Persist = ch.members \cap Persist
      BY <2>1
    <3> HIDE DEF pd
    <3> QED
      BY <1>1, <1>2, <2>1, <3>1 DEF PExact
  <2>2. CASE b \in Persist
    <3>1. /\ ch.members \in SUBSET Clients /\ {b} \in SUBSET Clients /\ {b} \subseteq ch.members
          /\ Persist \in SUBSET Clients
      BY <1>1, <2>2, PersistClients DEF Counted, ChannelRecord
    <3>2. Cardinality({b} \cap Persist) = 1
      BY <2>2, <3>1, SingleCount
    <3>3. Sub(Cardinality(ch.members \cap Persist), Cardinality({b} \cap Persist))
            = Cardinality((ch.members \ {b}) \cap Persist)
      <4> HIDE DEF ch
      <4> QED
        BY <3>1, CountOut
    <3> HIDE DEF pd
    <3> QED
      BY <1>1, <1>2, <2>2, <3>2, <3>3 DEF PExact
  <2> QED
    BY <2>1, <2>2
<1>4. n \in UInt
  <2> HIDE DEF pd
  <2> QED
    BY <1>2, IncSub DEF Counted, ChannelRecord
<1> DEFINE r == [pd EXCEPT !.persistentusers = n]
<1>5. /\ Counted(r) /\ r.members = pd.members
      /\ r.neousers = pd.neousers /\ r.persistentusers = n
  <2> HIDE DEF pd, n
  <2>1. Counted(r) /\ r.members = pd.members
    BY <1>2, <1>4, PersistentCounted
  <2> QED
    BY <1>2, <1>4, <2>1 DEF Counted, ChannelRecord
<1>6. PExact(r)
  <2> HIDE DEF r, n, pd
  <2> QED
    BY <1>2, <1>3, <1>5 DEF PExact
<1>7. PartRecord(b, c) = r
  BY DEF PartRecord
<1>8. n = IF b \in Persist THEN Sub(ch.persistentusers, 1) ELSE ch.persistentusers
  <2> HIDE DEF pd
  <2> QED
    BY <1>2
<1> HIDE DEF r, n
<1> QED
  BY <1>2, <1>5, <1>6, <1>7, <1>8

\* irc_part by a bot that is on the channel, or is not persistent.
LEMMA IrcPartPersist ==
  ASSUME IInv, PersistentUsersCounted, NEW b \in Bots, NEW c \in Chans, IrcPart(b, c),
         b \in Persist => b \in channel[c].members
  PROVE  /\ PersistentUsersCounted' /\ crashed' = crashed /\ userhash' = userhash
         /\ \A v \in Persist \ {b} : chans'[v] = chans[v]
         /\ b \in Persist => chans'[b] = chans[b] \ {c}
<1>1. b \in Persist => c \in channelhash
  BY DEF IInv, UsersCounted
<1>2. crashed' = crashed /\ userhash' = userhash
  BY <1>1 DEF IrcPart
<1>3. CASE c \in channelhash
  <2> DEFINE rec == [d \in {c} |-> PartRecord(b, d)]
  <2>1. Leave(b, rec) /\ DOMAIN rec = {c} /\ DOMAIN rec \subseteq channelhash
    BY <1>3 DEF IrcPart, PartRecord
  <2>2. \A d \in DOMAIN rec : /\ Counted(rec[d]) /\ PExact(rec[d])
                              /\ rec[d].members = channel[d].members \ {b}
    BY PartRecordPersist
  <2> HIDE DEF rec
  <2> QED
    BY <1>2, <2>1, <2>2, LeavePersist, LeaveKeepsMembership
<1>4. CASE c \notin channelhash
  <2>1. UNCHANGED <<channel, chans>> /\ b \notin Persist
    BY <1>1, <1>4 DEF IrcPart
  <2> QED
    BY <1>2, <2>1 DEF PersistentUsersCounted
<1> QED
  BY <1>3, <1>4

\* irc_join by a persistent bot that is not on the channel.
LEMMA IrcJoinPersist ==
  ASSUME IInv, PersistentUsersCounted, NEW b \in Persist, NEW c \in Chans, IrcJoin(b, c),
         b \notin channel[c].members
  PROVE  /\ PersistentUsersCounted' /\ crashed' = crashed /\ userhash' = userhash
         /\ \A v \in Persist \ {b} : chans'[v] = chans[v]
         /\ chans'[b] = chans[b] \cup {c}
<1> DEFINE ch == channel[c]
<1>1. Counted(ch) /\ PExact(ch) /\ b \in Clients /\ b \in Bots
  BY ChannelsPersist, ChannelsAssumption
<1>2. PExact(JoinedByBot(c, b))
  <2>1. ch \in ChannelRecord /\ ch.members \in SUBSET Clients /\ Persist \in SUBSET Clients
    BY <1>1, PersistClients DEF Counted, ChannelRecord
  <2>2. Cardinality((ch.members \cup {b}) \cap Persist) = Inc(ch.persistentusers)
    <3> HIDE DEF ch
    <3>1. b \notin ch.members
      BY DEF ch
    <3> QED
      BY <1>1, <2>1, <3>1, CountIn DEF PExact
  <2>3. JoinedByBot(c, b) =
          [[ch EXCEPT !.members = @ \cup {b}, !.users = Inc(@), !.neousers = Inc(@)]
              EXCEPT !.persistentusers = Inc(@)]
    BY <1>1 DEF JoinedByBot, Joined
  <2> HIDE DEF ch
  <2> QED
    BY <2>1, <2>2, <2>3 DEF PExact, ChannelRecord
<1>3. PersistentUsersCounted' /\ chans' = [chans EXCEPT ![b] = chans[b] \cup {c}]
  BY <1>1, <1>2, JoinPersist DEF IrcJoin
<1>4. crashed' = crashed /\ userhash' = userhash
  BY DEF IrcJoin
<1>5. chans \in [Clients -> SUBSET Chans] /\ Persist \subseteq Clients
  BY ChannelsAssumption DEF IInv, TypeOK
<1> QED
  BY <1>1, <1>3, <1>4, <1>5

\* The uplink and the other modules leave persistent bots where they are.
LEMMA OtherStepPersist ==
  ASSUME PersistAlone, PInv, OtherStep
  PROVE  /\ PersistUntouched /\ crashed' = crashed
         /\ \A b \in TsBots : b \in userhash' <=> b \in userhash
<1>0. /\ IInv /\ PersistentUsersCounted
      /\ Persist = TsBots /\ \A u \in Users \cup Exposed : u \notin Persist /\ u \notin TsBots
      /\ \A u \in Users : u \in Clients
      /\ \A b \in Bots \ TsBots : b \in Bots /\ b \notin Persist
      /\ TsBots \subseteq Bots
  BY ChannelsAssumption DEF PersistAlone, PInv
<1> DEFINE Goal == /\ PersistUntouched /\ crashed' = crashed
                   /\ \A b \in TsBots : b \in userhash' <=> b \in userhash
<1>1. ASSUME NEW u \in Users, AddUser(u) PROVE Goal
  BY <1>0, <1>1 DEF AddUser, PersistUntouched, PersistentUsersCounted
<1>2. ASSUME NEW u \in Users, NEW c \in Chans, DoJoin(u, c) PROVE Goal
  <2>1. PExact(Joined(channel[c], u)) /\ JoinChannel(u, c, Joined(channel[c], u))
    BY <1>0, <1>2, ChannelsPersist, OthersPersist DEF DoJoin
  <2> QED
    BY <1>0, <1>2, <2>1, JoinOthersPersist DEF DoJoin
<1>3. ASSUME NEW u \in Users, DoJoinZero(u) PROVE Goal
  BY <1>0, <1>3, PartAllChannelsPersist DEF DoJoinZero
<1>4. ASSUME NEW u \in Clients, NEW c \in Chans, DoPart(u, c) PROVE Goal
  BY <1>0, <1>4, PartChannelPersist DEF DoPart
<1>5. ASSUME NEW u \in Clients, NEW c \in Chans, DoKick(u, c) PROVE Goal
  <2> DEFINE rec == [d \in {c} |-> DelChannelMember(channel[d], u)]
  <2>1. Leave(u, rec) /\ userhash' = userhash /\ crashed' = crashed /\ u \notin Persist
    BY <1>0, <1>5 DEF DoKick
  <2>2. DOMAIN rec \subseteq channelhash
    BY <1>0, <1>5 DEF DoKick, IInv, UsersCounted
  <2>3. \A d \in DOMAIN rec : /\ Counted(rec[d]) /\ PExact(rec[d])
                              /\ rec[d].members = channel[d].members \ {u}
    BY <1>0, <2>1, ChannelsPersist, DelChannelMemberCounted, OthersPersist
  <2> HIDE DEF rec
  <2> QED
    BY <1>0, <2>1, <2>2, <2>3, LeavePersist DEF PersistUntouched
<1>6. ASSUME NEW u \in Clients, DoQuit(u) PROVE Goal
  BY <1>0, <1>6, PartAllChannelsPersist DEF DoQuit
<1>7. ASSUME NEW b \in Bots \ TsBots, AddBot(b) PROVE Goal
  <2>1. crashed' = crashed /\ \A x \in TsBots : x \in userhash' <=> x \in userhash
    BY <1>7 DEF AddBot
  <2>2. CASE b \in Root
    <3>1. JoinChannel(b, ServicesChan, JoinedByBot(ServicesChan, b)) /\ ServicesChan \in Chans
      BY <1>7, <2>2, ChannelsAssumption DEF AddBot
    <3> QED
      BY <1>0, <2>1, <3>1, JoinedByBotPersist, JoinOthersPersist
  <2>3. CASE b \notin Root
    BY <1>0, <1>7, <2>1, <2>3 DEF AddBot, PersistUntouched, PersistentUsersCounted
  <2> QED
    BY <2>2, <2>3
<1>8. ASSUME NEW b \in Bots \ TsBots, NEW c \in Chans, IrcJoin(b, c) PROVE Goal
  BY <1>0, <1>8, JoinedByBotPersist, JoinOthersPersist DEF IrcJoin
<1>9. ASSUME NEW b \in Bots \ TsBots, NEW c \in Chans, IrcPart(b, c) PROVE Goal
  BY <1>0, <1>9, IrcPartPersist DEF PersistUntouched
<1>10. ASSUME NEW b \in Bots, NEW u \in Users, NEW c \in Chans, IrcKick(b, u, c) PROVE Goal
  BY <1>0, <1>10, PartChannelPersist DEF IrcKick
<1>11. ASSUME NEW b \in Bots \ TsBots, IrcQuit(b) PROVE Goal
  BY <1>0, <1>11, PartAllChannelsPersist DEF IrcQuit
<1> HIDE DEF Goal
<1>12. Uplink => Goal
  BY <1>1, <1>2, <1>3, <1>4, <1>5, <1>6 DEF Uplink
<1>13. \A b \in Bots \ TsBots : ModuleCall(b) => Goal
  BY <1>7, <1>8, <1>9, <1>10, <1>11 DEF ModuleCall
<1>14. Goal
  BY <1>12, <1>13 DEF OtherStep
<1> QED
  BY <1>14 DEF Goal

\* What the functions of TextServ come to: a bot joins only channels it is not
\* on, parts only channels it is on, and quits when it has left them all.
LEMMA TsStepCalls ==
  ASSUME PersistAlone, PInv, NEW b \in TsBots, TsStep(b)
  PROVE  \/ AddBot(b)
         \/ \E c \in Chans : IrcJoin(b, c) /\ b \notin channel[c].members
         \/ \E c \in Chans : IrcPart(b, c) /\ b \in channel[c].members
         \/ IrcQuit(b) /\ chans[b] = {}
<1>1. /\ ListFollowed(b) /\ Main[b] \in Chans /\ b \in Clients
      /\ \A c \in Chans : b \in channel[c].members <=> c \in chans[b]
      /\ TsIdle => phase[b] = "idle"
      /\ ~MainListed
  BY TextServAssumption, ChannelsAssumption
  DEF PInv, IInv, MembershipAgrees, TsIdle, PersistAlone
<1>2. ASSUME NEW c \in Chans, ts_cmd_add_chan(b, c)
      PROVE  IrcJoin(b, c) /\ b \notin channel[c].members
  BY <1>1, <1>2 DEF ts_cmd_add_chan, ListFollowed, Expected
<1>3. ASSUME NEW c \in Chans, ts_cmd_del_chan(b, c)
      PROVE  IrcPart(b, c) /\ b \in channel[c].members
  BY <1>1, <1>3 DEF ts_cmd_del_chan, ListFollowed, Expected
<1>4. JoinMain(b) => IrcJoin(b, Main[b]) /\ b \notin channel[Main[b]].members
  BY <1>1 DEF JoinMain, ListFollowed, Expected
<1>5. ASSUME NEW c \in Chans, JoinListed(b, c)
      PROVE  IrcJoin(b, c) /\ b \notin channel[c].members
  BY <1>1, <1>5 DEF JoinListed, ListFollowed, Expected
<1>6. PartBot(b) => IrcPart(b, Main[b]) /\ b \in channel[Main[b]].members
  BY <1>1 DEF PartBot, ListFollowed, Expected
<1>7. ASSUME NEW c \in Chans, PartListed(b, c)
      PROVE  IrcPart(b, c) /\ b \in channel[c].members
  BY <1>1, <1>7 DEF PartListed, ListFollowed, Expected
<1>8. PartQuit(b) => IrcQuit(b) /\ chans[b] = {}
  BY <1>1 DEF PartQuit, ListFollowed, Expected
<1> QED
  BY <1>1, <1>2, <1>3, <1>4, <1>5, <1>6, <1>7, <1>8 DEF TsStep, JoinBot

\* A bot without channels quits and nothing else happens.
LEMMA QuitOffChannels ==
  ASSUME IInv, NEW b \in Bots, IrcQuit(b), chans[b] = {}
  PROVE  UNCHANGED <<channel, chans>> /\ userhash' = userhash \ {b} /\ crashed' = crashed
<1> DEFINE rec == [c \in chans[b] |-> Parted(channel[c], b)]
<1>1. Leave(b, rec) /\ DOMAIN rec = {}
  BY DEF IrcQuit, PartAllChannels
<1>2. channel \in [Chans -> ChannelRecord] /\ chans \in [Clients -> SUBSET Chans]
  BY DEF IInv, TypeOK
<1> HIDE DEF rec
<1>3. channel' = channel
  BY <1>1, <1>2 DEF Leave
<1>4. chans' = chans
  <2> DEFINE gone(v) == {c \in DOMAIN rec : v = b \/ (v \in Bots /\ IsDead(c, rec[c]))}
  <2>1. chans' = [v \in Clients |-> chans[v] \ gone(v)]
    BY <1>1 DEF Leave
  <2>2. \A v \in Clients : gone(v) = {}
    BY <1>1
  <2> HIDE DEF gone
  <2> QED
    BY <1>2, <2>1, <2>2
<1> QED
  BY <1>3, <1>4 DEF IrcQuit

\* A bot that does not join the services channel is introduced.
LEMMA AddBotOffChannels ==
  ASSUME NEW b \in Bots \ Root, AddBot(b)
  PROVE  UNCHANGED <<channel, chans>> /\ userhash' = userhash \cup {b} /\ crashed' = crashed
BY DEF AddBot

\* A step of TextServ keeps the persistent users counted and the channel, and
\* concerns one bot.
LEMMA TsStepPersist ==
  ASSUME PersistAlone, PInv, NEW b \in TsBots, TsStep(b)
  PROVE  /\ PersistentUsersCounted' /\ crashed' = crashed
         /\ \A v \in TsBots \ {b} :
              /\ chans'[v] = chans[v] /\ chanhash'[v] = chanhash[v]
              /\ phase'[v] = phase[v] /\ todo'[v] = todo[v]
              /\ v \in userhash' <=> v \in userhash
<1>1. /\ IInv /\ PersistentUsersCounted /\ TsTypeOK
      /\ Persist = TsBots /\ b \in Persist /\ b \in Bots /\ b \notin Root
  BY TextServAssumption, ChannelsAssumption DEF PInv, PersistAlone
<1>2. \A v \in TsBots \ {b} :
        chanhash'[v] = chanhash[v] /\ phase'[v] = phase[v] /\ todo'[v] = todo[v]
  BY <1>1
  DEF TsTypeOK, TsStep, ts_cmd_add_chan, ts_cmd_del_chan, JoinBot, JoinMain, JoinListed,
      JoinLoop, PartBot, DeleteRows, PartListed, PartQuit
<1> DEFINE Goal == /\ PersistentUsersCounted' /\ crashed' = crashed
                   /\ \A v \in TsBots \ {b} : /\ chans'[v] = chans[v]
                                              /\ v \in userhash' <=> v \in userhash
<1>3. AddBot(b) => Goal
  BY <1>1, AddBotOffChannels DEF PersistentUsersCounted
<1>4. ASSUME NEW c \in Chans, IrcJoin(b, c), b \notin channel[c].members PROVE Goal
  BY <1>1, <1>4, IrcJoinPersist
<1>5. ASSUME NEW c \in Chans, IrcPart(b, c), b \in channel[c].members PROVE Goal
  BY <1>1, <1>5, IrcPartPersist
<1>6. IrcQuit(b) /\ chans[b] = {} => Goal
  BY <1>1, QuitOffChannels DEF PersistentUsersCounted
<1> HIDE DEF Goal
<1>7. Goal
  BY <1>3, <1>4, <1>5, <1>6, TsStepCalls
<1> QED
  BY <1>2, <1>7 DEF Goal

\* A step of TextServ keeps its list of the bot it is about true.
LEMMA TsStepList ==
  ASSUME PersistAlone, PInv, NEW b \in TsBots, TsStep(b)
  PROVE  ListFollowed(b)'
<1>1. /\ IInv /\ PersistentUsersCounted
      /\ b \in Persist /\ b \in Bots /\ b \notin Root /\ b \in Clients
      /\ Main[b] \in Chans /\ ~MainListed
      /\ TsIdle => phase[b] = "idle"
      /\ \A c \in Chans : b \in channel[c].members <=> c \in chans[b]
  BY TextServAssumption, ChannelsAssumption
  DEF PInv, PersistAlone, TsIdle, IInv, MembershipAgrees
<1>2. /\ chanhash \in [TsBots -> SUBSET Chans] /\ todo \in [TsBots -> SUBSET Chans]
      /\ phase \in [TsBots -> {"idle", "main", "join", "part"}]
      /\ ListFollowed(b)
  BY DEF PInv, TsTypeOK
<1>3. ASSUME NEW c \in Chans, IrcJoin(b, c), c \notin chans[b]
      PROVE  chans'[b] = chans[b] \cup {c} /\ (b \in userhash' <=> b \in userhash) /\ b \in userhash
  BY <1>1, <1>3, IrcJoinPersist DEF IrcJoin
<1>4. ASSUME NEW c \in Chans, IrcPart(b, c), c \in chans[b]
      PROVE  chans'[b] = chans[b] \ {c} /\ (b \in userhash' <=> b \in userhash) /\ b \in userhash
  BY <1>1, <1>4, IrcPartPersist DEF IrcPart
<1>5. ASSUME NEW c \in Chans, ts_cmd_add_chan(b, c) PROVE ListFollowed(b)'
  <2>1. c \notin chans[b] /\ c # Main[b] /\ IrcJoin(b, c)
    BY <1>1, <1>2, <1>5 DEF ts_cmd_add_chan, ListFollowed, Expected
  <2>2. /\ chanhash'[b] = chanhash[b] \cup {c} /\ phase'[b] = "idle" /\ phase[b] = "idle"
        /\ chans[b] = chanhash[b] \cup {Main[b]}
    BY <1>1, <1>2, <1>5 DEF ts_cmd_add_chan, ListFollowed, Expected
  <2> QED
    BY <1>2, <1>3, <2>1, <2>2 DEF ListFollowed, Expected
<1>6. ASSUME NEW c \in Chans, ts_cmd_del_chan(b, c) PROVE ListFollowed(b)'
  <2>1. c \in chans[b] /\ IrcPart(b, c)
    BY <1>1, <1>2, <1>6 DEF ts_cmd_del_chan, ListFollowed, Expected
  <2>2. /\ chanhash'[b] = chanhash[b] \ {c} /\ phase'[b] = "idle" /\ c \in chanhash[b]
        /\ chans[b] = chanhash[b] \cup {Main[b]}
    BY <1>1, <1>2, <1>6 DEF ts_cmd_del_chan, ListFollowed, Expected
  <2> QED
    BY <1>2, <1>4, <2>1, <2>2 DEF ListFollowed, Expected
<1>7. ASSUME JoinBot(b) PROVE ListFollowed(b)'
  <2>1. chans' = chans /\ userhash' = userhash \cup {b} /\ b \notin userhash
    BY <1>1, <1>7, AddBotOffChannels DEF JoinBot, AddBot
  <2>2. phase'[b] = "main" /\ todo'[b] = chanhash[b] /\ chanhash' = chanhash
    BY <1>2, <1>7 DEF JoinBot
  <2>3. chans[b] = {}
    BY <1>2, <2>1 DEF ListFollowed, Expected
  <2> QED
    BY <1>2, <2>1, <2>2, <2>3 DEF ListFollowed, Expected
<1>8. ASSUME JoinMain(b) PROVE ListFollowed(b)'
  <2>1. chans[b] = {} /\ IrcJoin(b, Main[b]) /\ todo[b] = chanhash[b]
    BY <1>2, <1>8 DEF JoinMain, ListFollowed, Expected
  <2>2. /\ phase'[b] = IF todo[b] = {} THEN "idle" ELSE "join"
        /\ todo'[b] = todo[b] /\ chanhash' = chanhash
    BY <1>2, <1>8 DEF JoinMain, JoinLoop
  <2>3. chans'[b] = {Main[b]} /\ b \in userhash'
    BY <1>1, <1>3, <2>1
  <2> QED
    BY <1>2, <2>1, <2>2, <2>3 DEF ListFollowed, Expected
<1>9. ASSUME NEW c \in Chans, JoinListed(b, c) PROVE ListFollowed(b)'
  <2>1. /\ c \notin chans[b] /\ IrcJoin(b, c) /\ c \in todo[b]
        /\ chans[b] = (chanhash[b] \cup {Main[b]}) \ todo[b]
        /\ todo[b] \subseteq chanhash[b] /\ Main[b] \notin chanhash[b]
    BY <1>2, <1>9 DEF JoinListed, ListFollowed, Expected, IrcJoin
  <2>2. /\ phase'[b] = IF todo[b] \ {c} = {} THEN "idle" ELSE "join"
        /\ todo'[b] = todo[b] \ {c} /\ chanhash' = chanhash
    BY <1>2, <1>9 DEF JoinListed, JoinLoop
  <2>3. chans'[b] = (chanhash[b] \cup {Main[b]}) \ (todo[b] \ {c}) /\ b \in userhash'
    BY <1>3, <2>1
  <2> QED
    BY <1>2, <2>1, <2>2, <2>3 DEF ListFollowed, Expected
<1>10. ASSUME PartBot(b) PROVE ListFollowed(b)'
  <2>1. /\ IrcPart(b, Main[b]) /\ Main[b] \in chans[b] /\ Main[b] \notin chanhash[b]
        /\ chans[b] = chanhash[b] \cup {Main[b]}
    BY <1>1, <1>2, <1>10 DEF PartBot, ListFollowed, Expected
  <2>2. /\ phase'[b] = "part" /\ todo'[b] = chanhash[b]
        /\ chanhash'[b] \subseteq chanhash[b]
    BY <1>2, <1>10 DEF PartBot, DeleteRows
  <2>3. chans'[b] = chans[b] \ {Main[b]} /\ b \in userhash'
    BY <1>1, <1>4, <2>1
  <2>4. chans'[b] = chanhash[b]
    BY <2>1, <2>3
  <2> QED
    BY <2>1, <2>2, <2>3, <2>4 DEF ListFollowed, Expected
<1>11. ASSUME NEW c \in Chans, PartListed(b, c) PROVE ListFollowed(b)'
  <2>1. IrcPart(b, c) /\ c \in todo[b] /\ chans[b] = todo[b] /\ phase[b] = "part"
    BY <1>2, <1>11 DEF PartListed, ListFollowed, Expected, IrcPart
  <2>2. phase' = phase /\ todo'[b] = todo[b] \ {c} /\ chanhash' = chanhash
    BY <1>2, <1>11 DEF PartListed
  <2>3. chans'[b] = todo[b] \ {c} /\ b \in userhash'
    BY <1>4, <2>1
  <2> QED
    BY <1>2, <2>1, <2>2, <2>3 DEF ListFollowed, Expected
<1>12. ASSUME PartQuit(b) PROVE ListFollowed(b)'
  <2>1. IrcQuit(b) /\ chans[b] = {}
    BY <1>2, <1>12 DEF PartQuit, ListFollowed, Expected
  <2>2. phase'[b] = "idle" /\ chanhash' = chanhash
    BY <1>2, <1>12 DEF PartQuit
  <2>3. chans' = chans /\ b \notin userhash'
    BY <1>1, <2>1, QuitOffChannels
  <2> QED
    BY <1>2, <2>1, <2>2, <2>3 DEF ListFollowed, Expected
<1> QED
  BY <1>5, <1>6, <1>7, <1>8, <1>9, <1>10, <1>11, <1>12 DEF TsStep

\* TextServ keeps its own types.
LEMMA TsTypes ==
  ASSUME TsTypeOK, TsNext
  PROVE  TsTypeOK'
<1>1. ASSUME NEW b \in TsBots, TsStep(b) PROVE TsTypeOK'
  <2>1. Main[b] \in Chans
    BY TextServAssumption
  <2>2. JoinBot(b) \/ PartBot(b) \/ PartQuit(b) => TsTypeOK'
    BY DEF TsTypeOK, JoinBot, PartBot, DeleteRows, PartQuit
  <2>3. JoinMain(b) => TsTypeOK'
    BY DEF TsTypeOK, JoinMain, JoinLoop
  <2>4. ASSUME NEW c \in Chans PROVE JoinListed(b, c) \/ PartListed(b, c) => TsTypeOK'
    BY DEF TsTypeOK, JoinListed, JoinLoop, PartListed
  <2>5. ASSUME NEW c \in Chans
        PROVE  ts_cmd_add_chan(b, c) \/ ts_cmd_del_chan(b, c) => TsTypeOK'
    BY DEF TsTypeOK, ts_cmd_add_chan, ts_cmd_del_chan
  <2> QED
    BY <1>1, <2>2, <2>3, <2>4, <2>5 DEF TsStep
<1>2. OtherStep => TsTypeOK'
  BY DEF OtherStep, tsvars, TsTypeOK
<1> QED
  BY <1>1, <1>2 DEF TsNext

LEMMA InitPInv == TsInit => PInv
<1> SUFFICES ASSUME TsInit PROVE PInv
  OBVIOUS
<1>1. IInv
  BY InitIInv DEF TsInit
<1>2. TsTypeOK
  BY DEF TsInit, TsTypeOK
<1>3. PersistentUsersCounted /\ NeverCrashed
  BY FS_EmptySet DEF TsInit, Init, PersistentUsersCounted, NeverCrashed, NoChannel
<1>4. ASSUME NEW b \in TsBots PROVE ListFollowed(b)
  BY TextServAssumption, ChannelsAssumption DEF TsInit, Init, ListFollowed, Expected
<1> QED
  BY <1>1, <1>2, <1>3, <1>4 DEF PInv

LEMMA NextPInv == PersistAlone /\ PInv /\ [TsNext]_<<vars, tsvars>> => PInv'
<1> SUFFICES ASSUME PersistAlone, PInv, [TsNext]_<<vars, tsvars>> PROVE PInv'
  OBVIOUS
<1>1. IInv'
  BY TsNextRefines, NextIInv DEF PInv
<1>2. CASE UNCHANGED <<vars, tsvars>>
  BY <1>1, <1>2 DEF vars, tsvars, PInv, TsTypeOK, PersistentUsersCounted, NeverCrashed,
                    ListFollowed, Expected
<1>3. CASE TsNext
  <2>1. TsTypeOK'
    BY <1>3, TsTypes DEF PInv
  <2>2. CASE OtherStep
    <3>1. /\ PersistUntouched /\ crashed' = crashed
          /\ \A b \in TsBots : b \in userhash' <=> b \in userhash
      BY <2>2, OtherStepPersist
    <3>2. \A b \in TsBots : chans'[b] = chans[b]
      BY <3>1 DEF PersistUntouched, PersistAlone
    <3>3. \A b \in TsBots : ListFollowed(b)'
      BY <2>2, <3>1, <3>2 DEF OtherStep, tsvars, PInv, ListFollowed, Expected
    <3> QED
      BY <1>1, <2>1, <3>1, <3>3 DEF PInv, PersistUntouched, NeverCrashed
  <2>3. ASSUME NEW b \in TsBots, TsStep(b) PROVE PInv'
    <3>1. /\ PersistentUsersCounted' /\ crashed' = crashed
          /\ \A v \in TsBots \ {b} :
               /\ chans'[v] = chans[v] /\ chanhash'[v] = chanhash[v]
               /\ phase'[v] = phase[v] /\ todo'[v] = todo[v]
               /\ v \in userhash' <=> v \in userhash
      BY <2>3, TsStepPersist
    <3>2. ListFollowed(b)'
      BY <2>3, TsStepList
    <3>3. ASSUME NEW v \in TsBots, v # b PROVE ListFollowed(v)'
      BY <3>1, <3>3 DEF PInv, ListFollowed, Expected
    <3> QED
      BY <1>1, <2>1, <3>1, <3>2, <3>3 DEF PInv, NeverCrashed
  <2> QED
    BY <1>3, <2>2, <2>3 DEF TsNext
<1> QED
  BY <1>2, <1>3

\* irc_part never finds the channel of a persistent bot gone: TextServ parts by
\* its list, handle_dead_channel spares the channels of persistent bots, and no
\* bot is made to JOIN or PART its main channel or removed from outside.  The
\* other modules may join and part as they like.
THEOREM NeverCrashes ==
  ASSUME PersistAlone
  PROVE  TsSpec => []NeverCrashed
<1>1. PInv => NeverCrashed
  BY DEF PInv
<1> QED
  BY <1>1, InitPInv, NextPInv, PTL DEF TsSpec

\* The counter by which handle_dead_channel spares a channel is exact.
THEOREM PersistentAlwaysCounted ==
  ASSUME PersistAlone
  PROVE  TsSpec => []PersistentUsersCounted
<1>1. PInv => PersistentUsersCounted
  BY DEF PInv
<1> QED
  BY <1>1, InitPInv, NextPInv, PTL DEF TsSpec

\* What command LIST answers is where the bot is.
THEOREM ListAlwaysTrue ==
  ASSUME PersistAlone
  PROVE  TsSpec => []ListIsTrue
<1>1. PInv => ListIsTrue
  BY DEF PInv, ListIsTrue, ListFollowed, Expected
<1> QED
  BY <1>1, InitPInv, NextPInv, PTL DEF TsSpec

-----------------------------------------------------------------------------
(* The counter of bots.  It is exact when, besides, the uplink announces     *)
(* every departure by a PART and the other modules ask before they join or   *)
(* part; the rule of BOT_FLAG_PERSIST follows.                               *)

Tracked == PersistAlone /\ KickPart /\ Careful = Bots \ TsBots

Exact(ch) ==
  /\ ch.neousers = Cardinality(ch.members \cap Bots)
  /\ ch.persistentusers = Cardinality(ch.members \cap Persist)

CInv == IInv /\ NeoUsersCounted /\ PersistentUsersCounted

LEMMA ChannelsExact ==
  ASSUME CInv, NEW c \in Chans
  PROVE  Counted(channel[c]) /\ Exact(channel[c])
BY ChannelsCounted DEF CInv, NeoUsersCounted, PersistentUsersCounted, Exact

\* irc_join of a bot that is not a member, and JOIN of a user.
LEMMA JoinedExact ==
  ASSUME NEW ch, Counted(ch), Exact(ch), NEW u \in Users
  PROVE  Exact(Joined(ch, u))
<1>1. CASE u \in ch.members
  BY <1>1 DEF Joined
<1>2. CASE u \notin ch.members
  <2>1. /\ (ch.members \cup {u}) \cap Bots = ch.members \cap Bots
        /\ (ch.members \cup {u}) \cap Persist = ch.members \cap Persist
    BY ChannelsAssumption
  <2>2. u \notin Bots
    BY ChannelsAssumption
  <2> QED
    BY <1>2, <2>1, <2>2 DEF Joined, Exact, Counted, ChannelRecord
<1> QED
  BY <1>1, <1>2

LEMMA JoinedByBotExact ==
  ASSUME CInv, NEW c \in Chans, NEW b \in Bots, b \notin channel[c].members
  PROVE  Exact(JoinedByBot(c, b))
<1> DEFINE ch == channel[c]
<1>1. Counted(ch) /\ Exact(ch) /\ ch \in ChannelRecord
  BY ChannelsExact DEF Counted
<1> HIDE DEF ch
<1>2. /\ Cardinality((ch.members \cup {b}) \cap Bots) = Inc(ch.neousers)
      /\ Cardinality((ch.members \cup {b}) \cap Persist) =
           IF b \in Persist THEN Inc(ch.persistentusers) ELSE ch.persistentusers
  <2>1. ch.members \in SUBSET Clients /\ Persist \in SUBSET Clients /\ b \notin ch.members
    BY <1>1, ChannelsAssumption DEF ChannelRecord, ch
  <2> QED
    BY <1>1, <2>1, CountIn DEF Exact
<1>3. JoinedByBot(c, b) =
        [[ch EXCEPT !.members = @ \cup {b}, !.users = Inc(@), !.neousers = Inc(@)]
            EXCEPT !.persistentusers = IF b \in Persist THEN Inc(@) ELSE @]
  BY DEF JoinedByBot, Joined, ch
<1> QED
  BY <1>1, <1>2, <1>3 DEF Exact, ChannelRecord

\* PartChannel of a client, of which a bot must be a member, together with the
\* decrement of persistentusers by irc_part.
LEMMA PartedExact ==
  ASSUME NEW ch, Counted(ch), Exact(ch), NEW u \in Clients, u \in Bots => u \in ch.members,
         NEW r, r \in ChannelRecord,
         r.members = Parted(ch, u).members, r.neousers = Parted(ch, u).neousers,
         r.persistentusers = IF u \in Persist THEN Sub(ch.persistentusers, 1) ELSE ch.persistentusers
  PROVE  Exact(r)
<1>1. Parted(ch, u).members = ch.members \ {u}
  BY PartedCounted
<1>2. Parted(ch, u).neousers = IF u \in Bots THEN Sub(ch.neousers, 1) ELSE ch.neousers
  <2>1. ch \in ChannelRecord
    BY DEF Counted
  <2>2. DelChannelMember(ch, u).neousers = ch.neousers
    BY <2>1 DEF DelChannelMember, ChannelRecord
  <2>3. DelChannelMember(ch, u) \in ChannelRecord
    BY DelChannelMemberCounted DEF Counted
  <2> QED
    BY <2>2, <2>3 DEF Parted, ChannelRecord
<1>3. /\ ch.members \in SUBSET Clients /\ Bots \in SUBSET Clients /\ Persist \in SUBSET Clients
      /\ ch.members \ {u} \in SUBSET Clients
  BY ChannelsAssumption DEF Counted, ChannelRecord
<1>4. CASE u \notin Bots
  <2>1. /\ (ch.members \ {u}) \cap Bots = ch.members \cap Bots
        /\ (ch.members \ {u}) \cap Persist = ch.members \cap Persist
        /\ u \notin Persist
    BY <1>4, ChannelsAssumption
  <2> QED
    BY <1>1, <1>2, <1>4, <2>1 DEF Exact
<1>5. CASE u \in Bots
  <2>1. {u} \in SUBSET Clients /\ {u} \subseteq ch.members
    BY <1>5
  <2>2. /\ Sub(Cardinality(ch.members \cap Bots), Cardinality({u} \cap Bots)) = Cardinality((ch.members \ {u}) \cap Bots)
        /\ Sub(Cardinality(ch.members \cap Persist), Cardinality({u} \cap Persist)) = Cardinality((ch.members \ {u}) \cap Persist)
    BY <1>3, <2>1, CountOut
  <2>3. Cardinality({u} \cap Bots) = 1 /\ Cardinality({u} \cap Persist) = IF u \in Persist THEN 1 ELSE 0
    BY <1>3, <1>5, SingleCount
  <2>4. Sub(ch.persistentusers, 0) = ch.persistentusers
    <3>1. ch.persistentusers \in UInt /\ ch.persistentusers \in Nat
      BY IncSub DEF Counted, ChannelRecord
    <3> QED
      BY <3>1, UIntArithmetic DEF Sub
  <2> QED
    BY <1>1, <1>2, <1>5, <2>2, <2>3, <2>4 DEF Exact
<1> QED
  BY <1>4, <1>5

\* CheckEmptyChannel keeps the counters exact when the bots it is told of are
\* those on the channel, and then it removes either nobody or everybody.
LEMMA CheckEmptyChannelExact ==
  ASSUME NEW c, NEW ch, Counted(ch), Exact(ch)
  PROVE  LET after == CheckEmptyChannel(c, ch, ch.members \cap Bots)
         IN  /\ Exact(after)
             /\ after.members = ch.members \/ after.members = {}
             /\ ch.members \cap Users # {} => after.members = ch.members
             /\ c # ServicesChan /\ ch.members \cap Users = {}
                  => after.members = {} \/ after.members \cap Persist # {}
<1> DEFINE bots == ch.members \cap Bots
           after == CheckEmptyChannel(c, ch, bots)
<1>1. /\ ch \in ChannelRecord /\ ch.members \in SUBSET Clients /\ bots \in SUBSET Clients
      /\ Bots \in SUBSET Clients /\ Persist \in SUBSET Clients /\ bots \in SUBSET Bots
      /\ bots \subseteq ch.members
      /\ ch.members \cap Persist \in SUBSET Clients
  BY ChannelsAssumption DEF Counted, ChannelRecord
<1>2. after.members = IF IsDead(c, ch) THEN ch.members \ bots ELSE ch.members
  BY <1>1, CheckEmptyChannelCounted, ZenonT(60)
<1>3. Exact(NoChannel)
  BY FS_EmptySet DEF Exact, NoChannel
<1>4. Exact(WithoutBots(ch, bots))
  <2>1. bots \cap Bots = bots
    OBVIOUS
  <2> HIDE DEF bots
  <2>2. /\ Sub(Cardinality(ch.members \cap Bots), Cardinality(bots \cap Bots))
             = Cardinality((ch.members \ bots) \cap Bots)
        /\ Sub(Cardinality(ch.members \cap Persist), Cardinality(bots \cap Persist))
             = Cardinality((ch.members \ bots) \cap Persist)
    BY <1>1, CountOut
  <2> QED
    BY <2>1, <2>2 DEF Exact, WithoutBots
<1>5. Exact(after)
  BY <1>3, <1>4 DEF CheckEmptyChannel
<1>6. ch.neousers = ch.users => ch.members \subseteq Bots
  <2>1. IsFiniteSet(ch.members)
    BY <1>1, ClientsFit
  <2>2. bots \in SUBSET ch.members
    OBVIOUS
  <2>3. Cardinality(ch.members) = Cardinality(bots) => ch.members = bots
    BY <2>1, <2>2, FS_Subset
  <2> QED
    BY <2>3 DEF Exact, Counted
<1>7. IsDead(c, ch) => ch.members \subseteq Bots
  BY <1>6 DEF IsDead
<1>8. ASSUME c # ServicesChan, ch.members \cap Users = {}, ~IsDead(c, ch)
      PROVE  ch.members = {} \/ ch.members \cap Persist # {}
  <2>1. ch.members \cap Bots = ch.members
    BY <1>1, <1>8
  <2>2. ch.neousers = ch.users /\ ch.users \in Nat
    BY <1>1, <2>1, ClientsFit DEF Exact, Counted
  <2>3. ch.users = 0 \/ ch.persistentusers # 0
    BY <1>8, <2>2 DEF IsDead
  <2>4. ch.users = 0 => ch.members = {}
    BY <1>1, ClientsFit, FS_EmptySet DEF Counted
  <2>5. ch.persistentusers # 0 => ch.members \cap Persist # {}
    BY FS_EmptySet DEF Exact
  <2> QED
    BY <2>3, <2>4, <2>5
<1>9. IsDead(c, ch) => ch.members \ bots = {} /\ ch.members \cap Users = {}
  BY <1>7, ChannelsAssumption
<1> HIDE DEF after, bots
<1>10. /\ Exact(after)
       /\ after.members = ch.members \/ after.members = {}
       /\ ch.members \cap Users # {} => after.members = ch.members
       /\ c # ServicesChan /\ ch.members \cap Users = {}
            => after.members = {} \/ after.members \cap Persist # {}
  BY <1>2, <1>5, <1>8, <1>9
<1> QED
  BY <1>10 DEF after, bots

-----------------------------------------------------------------------------
(* What a step does to one channel, when departures are tracked. *)

StepOK(c) ==
  /\ Exact(channel'[c])
  /\ RealUsers(c)' # {} => Cardinality(channel[c].members \ channel'[c].members) <= 1
  /\ c # ServicesChan /\ RealUsers(c) # {} /\ RealUsers(c)' = {}
       => channel'[c].members = {} \/ channel'[c].members \cap Persist # {}

\* A step that takes no member off a channel.
LEMMA GrowStep ==
  ASSUME NEW c \in Chans, Exact(channel'[c]), channel[c].members \subseteq channel'[c].members
  PROVE  StepOK(c)
<1>1. channel[c].members \ channel'[c].members = {}
  OBVIOUS
<1>2. RealUsers(c) # {} => RealUsers(c)' # {}
  BY DEF RealUsers
<1> QED
  BY <1>1, <1>2, FS_EmptySet DEF StepOK

LEMMA SameStep ==
  ASSUME CInv, NEW c \in Chans, channel'[c] = channel[c]
  PROVE  StepOK(c)
BY GrowStep, ChannelsExact

\* A step by which a client leaves a channel.
LEMMA LeaveStep ==
  ASSUME CInv, NEW u \in Clients, NEW rec, DOMAIN rec \subseteq channelhash,
         \A c \in DOMAIN rec : /\ Counted(rec[c]) /\ Exact(rec[c])
                               /\ rec[c].members = channel[c].members \ {u},
         Leave(u, rec),
         NEW c \in Chans
  PROVE  StepOK(c)
<1>1. channel' = [d \in Chans |-> IF d \in DOMAIN rec
                    THEN CheckEmptyChannel(d, rec[d], BotsListing(d, u)) ELSE channel[d]]
  BY DEF Leave
<1>2. CASE c \notin DOMAIN rec
  BY <1>1, <1>2, SameStep
<1>3. CASE c \in DOMAIN rec
  <2> DEFINE ch == rec[c]
             S == channel[c].members
  <2>1. Counted(ch) /\ Exact(ch) /\ ch.members = S \ {u} /\ S \in SUBSET Clients
    BY <1>3, ChannelsExact DEF Counted, ChannelRecord
  <2>2. BotsListing(c, u) = ch.members \cap Bots
    BY <2>1 DEF BotsListing, CInv, IInv, MembershipAgrees
  <2>3. channel'[c] = CheckEmptyChannel(c, ch, ch.members \cap Bots)
    BY <1>1, <1>3, <2>2
  <2> HIDE DEF ch
  <2>4. /\ Exact(channel'[c])
        /\ channel'[c].members = ch.members \/ channel'[c].members = {}
        /\ ch.members \cap Users # {} => channel'[c].members = ch.members
        /\ c # ServicesChan /\ ch.members \cap Users = {}
             => channel'[c].members = {} \/ channel'[c].members \cap Persist # {}
    BY <2>1, <2>3, CheckEmptyChannelExact
  <2>5. RealUsers(c)' # {} => Cardinality(S \ channel'[c].members) <= 1
    <3> SUFFICES ASSUME RealUsers(c)' # {}
                 PROVE  Cardinality(S \ channel'[c].members) <= 1
      OBVIOUS
    <3>1. channel'[c].members = S \ {u}
      BY <2>1, <2>4 DEF RealUsers
    <3> DEFINE gone == S \ channel'[c].members
    <3>2. gone = {} \/ gone = {u}
      BY <3>1
    <3> HIDE DEF gone
    <3>3. Cardinality(gone) = 0 \/ Cardinality(gone) = 1
      BY <3>2, FS_EmptySet, FS_Singleton, Zenon
    <3>4. Cardinality(gone) <= 1
      BY <3>3
    <3> QED
      BY <3>4 DEF gone
  <2>6. c # ServicesChan /\ RealUsers(c)' = {}
          => channel'[c].members = {} \/ channel'[c].members \cap Persist # {}
    BY <2>4 DEF RealUsers
  <2> QED
    BY <2>4, <2>5, <2>6 DEF StepOK
<1> QED
  BY <1>2, <1>3

\* PartChannel of a user, or of a bot that is a member and not persistent.
LEMMA PartedMemberExact ==
  ASSUME CInv, NEW c \in Chans, NEW u \in Clients,
         u \in Bots => u \in channel[c].members /\ u \notin Persist
  PROVE  /\ Counted(Parted(channel[c], u)) /\ Exact(Parted(channel[c], u))
         /\ Parted(channel[c], u).members = channel[c].members \ {u}
<1> DEFINE ch == channel[c]
           r  == Parted(ch, u)
<1>1. Counted(ch) /\ Exact(ch)
  BY ChannelsExact
<1>2. Counted(r) /\ r.members = ch.members \ {u}
  BY <1>1, PartedCounted
<1>3. u \notin Persist
  BY ChannelsAssumption
<1>4. r.persistentusers = ch.persistentusers
  <2>1. DelChannelMember(ch, u).persistentusers = ch.persistentusers
    BY <1>1 DEF DelChannelMember, Counted, ChannelRecord
  <2>2. DelChannelMember(ch, u) \in ChannelRecord
    BY <1>1, DelChannelMemberCounted DEF Counted
  <2> QED
    BY <2>1, <2>2 DEF Parted, ChannelRecord
<1>5. r \in ChannelRecord
  BY <1>2 DEF Counted
<1>6. Exact(r)
  BY <1>1, <1>3, <1>4, <1>5, PartedExact
<1> QED
  BY <1>2, <1>6

LEMMA PartChannelStep ==
  ASSUME CInv, NEW c \in Chans, NEW u \in Clients, PartChannel(u, c),
         u \in Bots => u \in channel[c].members /\ u \notin Persist,
         NEW d \in Chans
  PROVE  StepOK(d)
<1>1. CASE c \notin channelhash
  BY <1>1, SameStep DEF PartChannel
<1>2. CASE c \in channelhash
  <2> DEFINE rec == [e \in {c} |-> Parted(channel[e], u)]
  <2>1. Leave(u, rec) /\ DOMAIN rec \subseteq channelhash
    BY <1>2 DEF PartChannel
  <2>2. \A e \in DOMAIN rec : /\ Counted(rec[e]) /\ Exact(rec[e])
                              /\ rec[e].members = channel[e].members \ {u}
    BY PartedMemberExact
  <2> HIDE DEF rec
  <2> QED
    BY <2>1, <2>2, LeaveStep
<1> QED
  BY <1>1, <1>2

LEMMA PartAllChannelsStep ==
  ASSUME CInv, NEW u \in Clients, PartAllChannels(u), u \notin Persist, NEW d \in Chans
  PROVE  StepOK(d)
<1> DEFINE rec == [c \in chans[u] |-> Parted(channel[c], u)]
<1>1. /\ Leave(u, rec) /\ DOMAIN rec = chans[u]
      /\ chans[u] \subseteq channelhash /\ chans[u] \subseteq Chans
      /\ \A c \in chans[u] : u \in channel[c].members
  BY DEF PartAllChannels, CInv, IInv, TypeOK, MembershipAgrees, UsersCounted
<1>2. \A c \in DOMAIN rec : /\ Counted(rec[c]) /\ Exact(rec[c])
                            /\ rec[c].members = channel[c].members \ {u}
  BY <1>1, PartedMemberExact
<1> HIDE DEF rec
<1> QED
  BY <1>1, <1>2, LeaveStep

LEMMA JoinByBotStep ==
  ASSUME CInv, NEW c \in Chans, NEW b \in Bots, b \notin channel[c].members,
         JoinChannel(b, c, JoinedByBot(c, b)), NEW d \in Chans
  PROVE  StepOK(d)
<1>1. channel' = [channel EXCEPT ![c] = JoinedByBot(c, b)] /\ channel \in [Chans -> ChannelRecord]
  BY DEF JoinChannel, CInv, IInv, TypeOK
<1>2. CASE d # c
  BY <1>1, <1>2, SameStep
<1>3. CASE d = c
  <2>1. channel'[c] = JoinedByBot(c, b)
    BY <1>1
  <2>2. channel[c].members \subseteq channel'[c].members
    BY <2>1, JoinedByBotCounted DEF CInv
  <2> QED
    BY <1>3, <2>1, <2>2, JoinedByBotExact, GrowStep
<1> QED
  BY <1>2, <1>3

\* irc_part by a bot that is on the channel.
LEMMA IrcPartStep ==
  ASSUME CInv, NEW b \in Bots, NEW c \in Chans, IrcPart(b, c), b \in channel[c].members,
         NEW d \in Chans
  PROVE  StepOK(d)
<1> DEFINE rec == [e \in {c} |-> PartRecord(b, e)]
<1>1. IInv /\ PersistentUsersCounted /\ c \in channelhash /\ b \in Clients
  BY DEF CInv, IInv, UsersCounted
<1>2. Leave(b, rec) /\ DOMAIN rec = {c} /\ DOMAIN rec \subseteq channelhash
  BY <1>1 DEF IrcPart, PartRecord
<1> DEFINE r == PartRecord(b, c)
<1>3. /\ Counted(r) /\ r.members = channel[c].members \ {b}
      /\ r.neousers = Parted(channel[c], b).neousers
      /\ r.persistentusers = IF b \in Persist THEN Sub(channel[c].persistentusers, 1)
                                              ELSE channel[c].persistentusers
  BY <1>1, PartRecordPersist
<1> HIDE DEF r
<1>4. Exact(r)
  BY <1>1, <1>3, ChannelsExact, PartedCounted, PartedExact DEF Counted
<1>5. \A e \in DOMAIN rec : /\ Counted(rec[e]) /\ Exact(rec[e])
                            /\ rec[e].members = channel[e].members \ {b}
  BY <1>2, <1>3, <1>4 DEF r
<1> HIDE DEF rec
<1> QED
  BY <1>1, <1>2, <1>5, LeaveStep

\* A bot that is introduced, with or without its JOIN of the services channel.
LEMMA AddBotStep ==
  ASSUME CInv, NEW b \in Bots, AddBot(b), NEW d \in Chans
  PROVE  StepOK(d)
<1>1. CASE b \in Root
  <2>1. JoinChannel(b, ServicesChan, JoinedByBot(ServicesChan, b)) /\ b \notin userhash
    BY <1>1 DEF AddBot
  <2>2. ServicesChan \in Chans /\ b \notin channel[ServicesChan].members
    BY <2>1, ChannelsAssumption DEF CInv, IInv, MembershipAgrees
  <2> QED
    BY <2>1, <2>2, JoinByBotStep
<1>2. CASE b \notin Root
  BY <1>2, SameStep DEF AddBot
<1> QED
  BY <1>1, <1>2

\* A message of the uplink or a call of another module.
LEMMA OtherStepOK ==
  ASSUME Tracked, CInv, OtherStep, NEW d \in Chans
  PROVE  StepOK(d)
<1>0. /\ KickPart /\ Careful = Bots \ TsBots /\ Persist = TsBots
      /\ \A b \in Exposed : b \notin Persist
      /\ \A u \in Users : u \in Clients /\ u \notin Bots /\ u \notin Persist
      /\ channel \in [Chans -> ChannelRecord]
  BY ChannelsAssumption DEF Tracked, PersistAlone, CInv, IInv, TypeOK
<1>1. ASSUME NEW u \in Users, AddUser(u) PROVE StepOK(d)
  BY <1>1, SameStep DEF AddUser
<1>2. ASSUME NEW u \in Users, NEW c \in Chans, DoJoin(u, c) PROVE StepOK(d)
  <2>1. channel' = [channel EXCEPT ![c] = Joined(channel[c], u)]
    BY <1>2 DEF DoJoin, JoinChannel
  <2>2. Exact(Joined(channel[c], u)) /\ channel[c].members \subseteq Joined(channel[c], u).members
    BY ChannelsExact, JoinedExact, JoinedCounted
  <2>3. Exact(channel'[d]) /\ channel[d].members \subseteq channel'[d].members
    BY <1>0, <2>1, <2>2, ChannelsExact
  <2> QED
    BY <2>3, GrowStep
<1>3. ASSUME NEW u \in Users, DoJoinZero(u) PROVE StepOK(d)
  BY <1>0, <1>3, PartAllChannelsStep DEF DoJoinZero
<1>4. ASSUME NEW u \in Clients, NEW c \in Chans, DoPart(u, c) PROVE StepOK(d)
  BY <1>0, <1>4, PartChannelStep DEF DoPart
<1>5. ASSUME NEW u \in Clients, NEW c \in Chans PROVE ~DoKick(u, c)
  BY <1>0 DEF DoKick
<1>6. ASSUME NEW u \in Clients, DoQuit(u) PROVE StepOK(d)
  BY <1>0, <1>6, PartAllChannelsStep DEF DoQuit
<1>7. ASSUME NEW b \in Bots \ TsBots, NEW c \in Chans, IrcJoin(b, c) PROVE StepOK(d)
  BY <1>0, <1>7, JoinByBotStep DEF IrcJoin, IsChannelMember, CInv, IInv, UsersCounted
<1>8. ASSUME NEW b \in Bots \ TsBots, NEW c \in Chans, IrcPart(b, c) PROVE StepOK(d)
  BY <1>0, <1>8, IrcPartStep DEF IrcPart, IsChannelMember
<1>9. ASSUME NEW b \in Bots, NEW u \in Users, NEW c \in Chans, IrcKick(b, u, c) PROVE StepOK(d)
  BY <1>0, <1>9, PartChannelStep DEF IrcKick
<1>10. ASSUME NEW b \in Bots \ TsBots, IrcQuit(b) PROVE StepOK(d)
  BY <1>0, <1>10, PartAllChannelsStep DEF IrcQuit
<1>11. Uplink => StepOK(d)
  BY <1>1, <1>2, <1>3, <1>4, <1>5, <1>6 DEF Uplink
<1>12. \A b \in Bots \ TsBots : ModuleCall(b) => StepOK(d)
  BY <1>7, <1>8, <1>9, <1>10, AddBotStep DEF ModuleCall
<1> QED
  BY <1>11, <1>12 DEF OtherStep

\* Every step, when departures are tracked.
LEMMA TrackedStep ==
  ASSUME Tracked, PInv, CInv, TsNext, NEW d \in Chans
  PROVE  StepOK(d)
<1>1. ASSUME NEW b \in TsBots, TsStep(b) PROVE StepOK(d)
  <2>1. PersistAlone /\ b \in Bots
    BY TextServAssumption, ChannelsAssumption DEF Tracked
  <2>2. IrcQuit(b) /\ chans[b] = {} => StepOK(d)
    BY <2>1, QuitOffChannels, SameStep DEF CInv
  <2>3. ASSUME NEW c \in Chans, IrcJoin(b, c), b \notin channel[c].members PROVE StepOK(d)
    BY <2>1, <2>3, JoinByBotStep DEF IrcJoin
  <2> QED
    BY <1>1, <2>1, <2>2, <2>3, TsStepCalls, AddBotStep, IrcPartStep
<1> QED
  BY <1>1, OtherStepOK DEF TsNext

\* The invariant of the counter of bots.
TInv == PInv /\ NeoUsersCounted

LEMMA InitTInv == TsInit => TInv
<1> SUFFICES ASSUME TsInit PROVE TInv
  OBVIOUS
<1>1. Cardinality({} \cap Bots) = 0
  BY FS_EmptySet
<1>2. \A c \in Chans : channel[c] = NoChannel
  BY DEF TsInit, Init
<1>3. NeoUsersCounted
  BY <1>1, <1>2 DEF NeoUsersCounted, NoChannel
<1> QED
  BY <1>3, InitPInv DEF TInv

LEMMA TrackedStepOK ==
  Tracked /\ TInv /\ TsNext => \A c \in Chans : StepOK(c)
BY TrackedStep DEF TInv, PInv, CInv

LEMMA NextTInv == Tracked /\ TInv /\ [TsNext]_<<vars, tsvars>> => TInv'
<1> SUFFICES ASSUME Tracked, TInv, [TsNext]_<<vars, tsvars>> PROVE TInv'
  OBVIOUS
<1>1. PInv'
  BY NextPInv DEF TInv, Tracked
<1>2. CASE TsNext
  BY <1>1, <1>2, TrackedStepOK DEF StepOK, Exact, TInv, NeoUsersCounted
<1>3. CASE UNCHANGED <<vars, tsvars>>
  BY <1>1, <1>3 DEF vars, TInv, NeoUsersCounted
<1> QED
  BY <1>2, <1>3

\* When departures are tracked, the two counters CheckEmptyChannel and
\* handle_dead_channel go by say exactly how many bots, and how many
\* persistent bots, are on the channel.
THEOREM BotsCountedExactly ==
  ASSUME Tracked
  PROVE  TsSpec => [](NeoUsersCounted /\ PersistentUsersCounted)
<1>1. TInv => NeoUsersCounted /\ PersistentUsersCounted
  BY DEF TInv, PInv
<1>2. TInv /\ [TsNext]_<<vars, tsvars>> => TInv'
  BY NextTInv
<1> QED
  BY <1>1, <1>2, InitTInv, PTL DEF TsSpec

\* Then the bots leave a channel with the last real user, unless a persistent
\* bot is on it, ...
THEOREM DeadChannelsAreLeft ==
  ASSUME Tracked
  PROVE  TsSpec => BotsLeaveDeadChannels
<1> DEFINE A == \A c \in Chans \ {ServicesChan} :
                  /\ RealUsers(c) # {} /\ RealUsers(c)' = {}
                  => \/ channel'[c].members = {}
                     \/ channel'[c].members \cap Persist # {}
<1>1. TInv /\ [TsNext]_<<vars, tsvars>> => TInv'
  BY NextTInv
<1>2. TInv /\ [TsNext]_<<vars, tsvars>> => [A]_vars
  BY TrackedStepOK DEF StepOK
<1> QED
  BY <1>1, <1>2, InitTInv, PTL DEF TsSpec, BotsLeaveDeadChannels

\* ... and never as long as a real user is there.
THEOREM LiveChannelsAreKept ==
  ASSUME Tracked
  PROVE  TsSpec => BotsStayWithUsers
<1> DEFINE A == \A c \in Chans :
       RealUsers(c)' # {} => Cardinality(channel[c].members \ channel'[c].members) <= 1
<1>1. TInv /\ [TsNext]_<<vars, tsvars>> => TInv'
  BY NextTInv
<1>2. TInv /\ [TsNext]_<<vars, tsvars>> => [A]_vars
  BY TrackedStepOK DEF StepOK
<1> QED
  BY <1>1, <1>2, InitTInv, PTL DEF TsSpec, BotsStayWithUsers

\* The types by themselves.
THEOREM TypeCorrect == Spec => []TypeOK
<1> QED
  BY MembershipCorrect, PTL

\* c->users, which CheckEmptyChannel compares and whose zero frees the channel,
\* is the number of members.
THEOREM UsersAlwaysCounted == Spec => []UsersCounted
<1> QED
  BY MembershipCorrect, PTL

=============================================================================
