------------------------------ MODULE Channels ------------------------------
(***************************************************************************)
(* The membership state NeoStats keeps of the IRC network: the user hash,  *)
(* the channel hash, the member list of every channel (c->members), the    *)
(* channel list of every client (u->user->chans), and the three counters   *)
(* of a channel, users, neousers and persistentusers, by which the core    *)
(* decides that a channel is empty or that only its own bots are left.     *)
(*                                                                         *)
(* Every action is one message from the uplink or one API call of a        *)
(* module, run to its end with all the calls it makes: NeoStats is single  *)
(* threaded.  What module handlers do while they are called back in the    *)
(* middle of it is the subject of module LimitServ.                        *)
(*                                                                         *)
(* Abstracted: nicks (a client is a value, so a nick change is no step     *)
(* here), modes, topics, exclusions, the flag that delays a KICK to the    *)
(* PART that follows it, and the list and hash capacities, which are the   *)
(* largest value of their counter type.                                    *)
(*                                                                         *)
(* A definition whose name ends in Mutant is not part of the model: it is  *)
(* a plausible bug of the definition it precedes, used to see that a       *)
(* property would notice it.                                               *)
(***************************************************************************)
EXTENDS Integers, FiniteSets

CONSTANTS
  Users,         \* clients of the network that are not NeoStats bots
  Bots,          \* clients for which IsMe() is true
  Persist,       \* bots with BOT_FLAG_PERSIST
  Root,          \* bots that join the services channel when introduced
  Careful,       \* bots whose module asks IsChannelMember() before it joins
                 \* or parts (LimitServ does; what TextServ does instead is
                 \* the subject of module TextServ)
  Exposed,       \* bots that may leave a channel other than by irc_part: be
                 \* kicked, parted by a server or killed, or quit when their
                 \* module is unloaded
  Chans,         \* channel names
  ServicesChan,  \* the channel that carries CHANNEL_FLAG_ME
  KickPart,      \* PROTOCOL_KICKPART: the uplink follows a KICK with a PART
  UIntSize       \* an unsigned int counts modulo UIntSize

ASSUME ChannelsAssumption ==
  /\ IsFiniteSet(Users) /\ IsFiniteSet(Bots)
  /\ Users \cap Bots = {}
  /\ Persist \subseteq Bots /\ Root \subseteq Bots
  /\ Careful \subseteq Bots /\ Exposed \subseteq Bots
  /\ ServicesChan \in Chans
  /\ KickPart \in BOOLEAN
  /\ UIntSize \in Nat /\ Cardinality(Users \cup Bots) < UIntSize

VARIABLES
  userhash,      \* clients that are known
  channelhash,   \* channels that exist
  channel,       \* channel[c]: the Channel record of c
  chans,         \* chans[u]: u->user->chans
  crashed        \* a NULL channel was dereferenced

vars == <<userhash, channelhash, channel, chans, crashed>>

Clients == Users \cup Bots

UInt == 0 .. UIntSize - 1

ChannelRecord ==
  [members : SUBSET Clients, users : UInt, neousers : UInt, persistentusers : UInt]

\* What ns_calloc gives new_chan, and what is left when del_chan is done.
NoChannel == [members |-> {}, users |-> 0, neousers |-> 0, persistentusers |-> 0]

TypeOK ==
  /\ userhash \subseteq Clients
  /\ channelhash \subseteq Chans
  /\ channel \in [Chans -> ChannelRecord]
  /\ chans \in [Clients -> SUBSET Chans]
  /\ crashed \in BOOLEAN

-----------------------------------------------------------------------------
(* Pure functions of a Channel record. *)

Inc(n) == (n + 1) % UIntSize
SubMutant(n, k) == n - k
Sub(n, k) == (n - k) % UIntSize

\* The record after the member and counter updates of JoinChannel.
Joined(ch, u) ==
  IF u \in ch.members
    THEN ch
    ELSE [ch EXCEPT !.members  = @ \cup {u},
                    !.users    = Inc(@),
                    !.neousers = IF u \in Bots THEN Inc(@) ELSE @]

DelChannelMemberMutant(ch, u) ==
  [ch EXCEPT !.members = @ \ {u}, !.users = IF @ > 0 THEN @ - 1 ELSE @]
DelChannelMember(ch, u) ==
  IF u \in ch.members
    THEN [ch EXCEPT !.members = @ \ {u}, !.users = IF @ > 0 THEN @ - 1 ELSE @]
    ELSE ch

PartedMutant(ch, u) == DelChannelMember(ch, u)
\* PartChannel counts a bot out whether or not it was a member.
Parted(ch, u) ==
  [DelChannelMember(ch, u) EXCEPT !.neousers = IF u \in Bots THEN Sub(@, 1) ELSE @]

IsDeadMutant(c, ch) ==
  ch.users # 0 /\ ch.neousers > 0 /\ c # ServicesChan /\ ch.persistentusers = 0
IsDeadPersistMutant(c, ch) ==
  ch.users # 0 /\ ch.neousers > 0 /\ ch.neousers = ch.users /\ c # ServicesChan
\* The second test of CheckEmptyChannel and the two guards of
\* handle_dead_channel.
IsDead(c, ch) ==
  /\ ch.users # 0
  /\ ch.neousers > 0 /\ ch.neousers = ch.users
  /\ c # ServicesChan
  /\ ch.persistentusers = 0

\* handle_dead_channel: irc_part of every bot that lists the channel.  The
\* recursion through PartChannel and CheckEmptyChannel parts the same bots.
WithoutBots(ch, bots) ==
  [members         |-> ch.members \ bots,
   users           |-> ch.users - Cardinality(ch.members \cap bots),
   neousers        |-> Sub(ch.neousers, Cardinality(bots)),
   persistentusers |-> Sub(ch.persistentusers, Cardinality(bots \cap Persist))]

CheckEmptyChannelMutant(c, ch, bots) == IF ch.users = 0 THEN NoChannel ELSE ch
CheckEmptyChannel(c, ch, bots) ==
  LET left == IF IsDead(c, ch) THEN WithoutBots(ch, bots) ELSE ch
  IN  IF left.users = 0 THEN NoChannel ELSE left

-----------------------------------------------------------------------------
(* The handlers. *)

\* The bots handle_dead_channel finds on c once u has left it: it walks the
\* bot hash and searches each bot's own channel list.
BotsListing(c, u) == {b \in Bots \ {u} : c \in chans[b]}

\* Client u leaves the channels of DOMAIN rec, whose records are rec[c] before
\* CheckEmptyChannel is applied to them.
Leave(u, rec) ==
  LET after(c) == CheckEmptyChannel(c, rec[c], BotsListing(c, u))
      left(v)  == {c \in DOMAIN rec : v = u \/ (v \in Bots /\ IsDead(c, rec[c]))}
  IN  /\ channel' = [c \in Chans |-> IF c \in DOMAIN rec THEN after(c) ELSE channel[c]]
      /\ channelhash' = channelhash \ {c \in DOMAIN rec : after(c).users = 0}
      /\ chans' = [v \in Clients |-> chans[v] \ left(v)]

JoinChannelMutant(u, c, ch) ==
  /\ channelhash' = channelhash \cup {c}
  /\ channel' = [channel EXCEPT ![c] = ch]
  /\ chans' = [chans EXCEPT ![u] = IF @ = {} THEN {c} ELSE @]
JoinChannel(u, c, ch) ==
  /\ channelhash' = channelhash \cup {c}
  /\ channel' = [channel EXCEPT ![c] = ch]
  /\ chans' = [chans EXCEPT ![u] = @ \cup {c}]

PartChannel(u, c) ==
  IF c \in channelhash
    THEN Leave(u, [d \in {c} |-> Parted(channel[d], u)])
    ELSE UNCHANGED <<channel, channelhash, chans>>

PartAllChannels(u) ==
  Leave(u, [c \in chans[u] |-> Parted(channel[c], u)])

JoinedByBotMutant(c, b) ==
  [Joined(channel[c], b) EXCEPT !.persistentusers = Inc(@)]
\* irc_join counts a persistent bot even when JoinChannel found it a member.
JoinedByBot(c, b) ==
  [Joined(channel[c], b) EXCEPT
     !.persistentusers = IF b \in Persist THEN Inc(@) ELSE @]

-----------------------------------------------------------------------------
(* Messages from the uplink. *)

AddUser(u) ==
  /\ u \in Users \ userhash
  /\ userhash' = userhash \cup {u}
  /\ UNCHANGED <<channelhash, channel, chans, crashed>>

DoJoin(u, c) ==
  /\ u \in Users \cap userhash
  /\ JoinChannel(u, c, Joined(channel[c], u))
  /\ UNCHANGED <<userhash, crashed>>

\* JOIN 0
DoJoinZero(u) ==
  /\ u \in Users \cap userhash
  /\ PartAllChannels(u)
  /\ UNCHANGED <<userhash, crashed>>

\* PART.  Services of the network may part a bot that is a member (SVSPART);
\* the PART of a user may come when a local irc_kick has removed it already.
DoPart(u, c) ==
  /\ u \in userhash
  /\ u \in Bots => u \in Exposed /\ u \in channel[c].members
  /\ PartChannel(u, c)
  /\ UNCHANGED <<userhash, crashed>>

\* KICK without PROTOCOL_KICKPART.  With it KickChannel only marks the client
\* and the PART that follows does the rest.
DoKick(u, c) ==
  /\ ~KickPart
  /\ u \in (Users \cup Exposed) \cap userhash
  /\ u \in channel[c].members
  /\ Leave(u, [d \in {c} |-> DelChannelMember(channel[d], u)])
  /\ UNCHANGED <<userhash, crashed>>

\* QuitUser and KillUser part all channels, then deluser drops the record.
DoQuit(u) ==
  /\ u \in (Users \cup Exposed) \cap userhash
  /\ PartAllChannels(u)
  /\ userhash' = userhash \ {u}
  /\ UNCHANGED crashed

-----------------------------------------------------------------------------
(* API calls of modules. *)

AddBot(b) ==
  /\ b \in Bots \ userhash
  /\ userhash' = userhash \cup {b}
  /\ IF b \in Root
       THEN JoinChannel(b, ServicesChan, JoinedByBot(ServicesChan, b))
       ELSE UNCHANGED <<channelhash, channel, chans>>
  /\ UNCHANGED crashed

IsChannelMember(b, c) == c \in channelhash /\ b \in channel[c].members

IrcJoin(b, c) ==
  /\ b \in Bots \cap userhash
  /\ b \in Careful => ~IsChannelMember(b, c)
  /\ JoinChannel(b, c, JoinedByBot(c, b))
  /\ UNCHANGED <<userhash, crashed>>

\* A persistent bot is counted out of the channel record before anything
\* asks whether there is such a channel.
IrcPart(b, c) ==
  /\ b \in Bots \cap userhash
  /\ b \in Careful => IsChannelMember(b, c)
  /\ IF b \in Persist /\ c \notin channelhash
       THEN crashed' = TRUE /\ UNCHANGED <<channelhash, channel, chans>>
       ELSE /\ \/ /\ c \in channelhash
                  /\ Leave(b, [d \in {c} |->
                       [Parted(channel[d], b) EXCEPT
                          !.persistentusers = IF b \in Persist THEN Sub(@, 1) ELSE @]])
               \/ c \notin channelhash /\ UNCHANGED <<channelhash, channel, chans>>
            /\ UNCHANGED crashed
  /\ UNCHANGED userhash

IrcKick(b, u, c) ==
  /\ b \in Bots \cap userhash /\ u \in Users \cap userhash
  /\ u \in channel[c].members
  /\ PartChannel(u, c)
  /\ UNCHANGED <<userhash, crashed>>

\* A bot that is not exposed quits when it has left its channels.
IrcQuit(b) ==
  /\ b \in Bots \cap userhash
  /\ b \in Exposed \/ chans[b] = {}
  /\ PartAllChannels(b)
  /\ userhash' = userhash \ {b}
  /\ UNCHANGED crashed

-----------------------------------------------------------------------------
Init ==
  /\ userhash = {}
  /\ channelhash = {}
  /\ channel = [c \in Chans |-> NoChannel]
  /\ chans = [u \in Clients |-> {}]
  /\ crashed = FALSE

Uplink ==
  \/ \E u \in Users : AddUser(u)
  \/ \E u \in Users, c \in Chans : DoJoin(u, c)
  \/ \E u \in Users : DoJoinZero(u)
  \/ \E u \in Clients, c \in Chans : DoPart(u, c)
  \/ \E u \in Clients, c \in Chans : DoKick(u, c)
  \/ \E u \in Clients : DoQuit(u)

\* What the module of bot b may call.
ModuleCall(b) ==
  \/ AddBot(b)
  \/ \E c \in Chans : IrcJoin(b, c)
  \/ \E c \in Chans : IrcPart(b, c)
  \/ \E u \in Users, c \in Chans : IrcKick(b, u, c)
  \/ IrcQuit(b)

Next ==
  /\ ~crashed
  /\ Uplink \/ \E b \in Bots : ModuleCall(b)

Spec == Init /\ [][Next]_vars

-----------------------------------------------------------------------------
(* Properties. *)

\* The member list of a channel and the channel lists of the clients are two
\* copies of one relation, kept by different functions (lnode_create_append in
\* JoinChannel, del_user_channel and del_channel_member elsewhere).  They agree,
\* and a client that is gone is in neither: del_user_channel compares names
\* through pointers into the channel, so an entry left behind dangles.
MembershipAgrees ==
  \A u \in Clients, c \in Chans :
    /\ u \in channel[c].members <=> c \in chans[u]
    /\ c \in chans[u] => u \in userhash

\* A channel record exists exactly as long as it has members, and its counter
\* says how many: CheckEmptyChannel decides by the counter, not by the list.
UsersCounted ==
  \A c \in Chans :
    /\ channel[c].users = Cardinality(channel[c].members)
    /\ c \in channelhash <=> channel[c].members # {}

\* neousers is the number of NeoStats bots on the channel.
NeoUsersCounted ==
  \A c \in Chans :
    channel[c].neousers = Cardinality(channel[c].members \cap Bots)

\* persistentusers is the number of persistent bots on the channel.
PersistentUsersCounted ==
  \A c \in Chans :
    channel[c].persistentusers = Cardinality(channel[c].members \cap Persist)

\* irc_part dereferences the channel of a persistent bot before anything asks
\* whether there is one: that no such bot parts a channel which is gone is up to
\* its module and to handle_dead_channel, which must not have taken the bot, or
\* the last other member, off it in the meantime.
NeverCrashed == ~crashed

RealUsers(c) == channel[c].members \cap Users

\* BOT_FLAG_PERSIST in neostats.h: when all users leave a channel and no bot
\* with the flag is on it, the bots leave as well.
BotsLeaveDeadChannels ==
  [][\A c \in Chans \ {ServicesChan} :
       /\ RealUsers(c) # {} /\ RealUsers(c)' = {}
       => \/ channel'[c].members = {}
          \/ channel'[c].members \cap Persist # {}]_vars

\* CheckEmptyChannel takes the bots off a channel when all real users have
\* left it: while a real user remains, no step removes more than the one client
\* it is about.
BotsStayWithUsers ==
  [][\A c \in Chans :
       RealUsers(c)' # {} => Cardinality(channel[c].members \ channel'[c].members) <= 1]_vars

=============================================================================
