------------------------------- MODULE LimitServ -------------------------------
(***************************************************************************)
(* LimitServ (modules/limitserv/main.c), and the part of bots a channel     *)
(* dies by (handle_dead_channel in src/bots.c) at the grain at which the    *)
(* two meet: LimitServ's handler of EVENT_PART and EVENT_JOIN runs inside    *)
(* PartChannel and JoinChannel, and may join its bot to the very channel    *)
(* that handle_dead_channel is just taking it off.                          *)
(*                                                                         *)
(* LimitServ keeps the limit of its channels some places above the number   *)
(* of their users, and its bot on them if JOIN is set.  Membership and its   *)
(* counters are those of Channels, whose theorems say that c->users is the   *)
(* number of members; no bot here is persistent.                            *)
(***************************************************************************)
EXTENDS Integers, FiniteSets, Sequences

CONSTANTS
  Users,         \* clients of other servers
  OtherBots,     \* bots of other modules
  LsBot,         \* ls_bot
  BotOrder,      \* the bots in the order of a scan of bothash
  Chans,
  MaxBuffer, MaxGrace,   \* the bounds of the settings BUFFER and GRACE
  Limits,        \* limits that users set
  UIntSize,      \* 2^32
  MaxCalls       \* a bound on the recursion of handle_dead_channel

Bots == OtherBots \cup {LsBot}
Clients == Users \cup Bots

ASSUME LimitServAssumption ==
  /\ IsFiniteSet(Users) /\ IsFiniteSet(OtherBots)
  /\ Users \cap Bots = {} /\ LsBot \notin OtherBots
  /\ BotOrder \in Seq(Bots) /\ \A b \in Bots : \E i \in DOMAIN BotOrder : BotOrder[i] = b
  /\ MaxBuffer \in Nat \ {0} /\ MaxGrace \in Nat
  /\ UIntSize \in Nat
  /\ Limits \subseteq 0 .. UIntSize \div 2 - 1
  /\ Cardinality(Clients) + MaxBuffer < UIntSize \div 2
  /\ MaxCalls \in Nat

VARIABLES
  members,       \* c->members; a channel with none is not in channelhash
  neousers,      \* c->neousers
  limit,         \* c->limit, 0 for none
  qshash,        \* the channels LimitServ manages
  lsjoin, lsbuffer, lsgrace,   \* its settings
  leaving,       \* channels PartChannels has still to look at
  calls          \* calls of handle_dead_channel in progress, the innermost last

lsvars == <<members, neousers, limit, qshash, lsjoin, lsbuffer, lsgrace, leaving, calls>>

settings == <<qshash, lsjoin, lsbuffer, lsgrace>>

\* next is the bot the scan of bothash comes to next.
DeadCall == [chan : Chans, next : 1 .. Len(BotOrder) + 1]

LsTypeOK ==
  /\ members \in [Chans -> SUBSET Clients]
  /\ neousers \in [Chans -> 0 .. Cardinality(Bots)]
  /\ limit \in [Chans -> 0 .. UIntSize - 1]
  /\ qshash \subseteq Chans /\ leaving \subseteq Chans
  /\ lsjoin \in BOOLEAN
  /\ lsbuffer \in 1 .. MaxBuffer /\ lsgrace \in 0 .. MaxGrace /\ lsgrace < lsbuffer
  /\ calls \in Seq(DeadCall)

channelhash == {c \in Chans : members[c] # {}}

users(c) == Cardinality(members[c])

-----------------------------------------------------------------------------
(* One channel, as a record while a function changes it. *)

Chan(c) == [members |-> members[c], neousers |-> neousers[c]]

\* The list and the counter, when x was not a member.
Added(ch, x) ==
  [members |-> ch.members \cup {x},
   neousers |-> ch.neousers + IF x \in Bots THEN 1 ELSE 0]

Watches(c) == lsjoin /\ c \in qshash

\* event_join_part_kick
EventJoinPartKick(ch, c) ==
  IF Watches(c) /\ LsBot \notin ch.members THEN Added(ch, LsBot) ELSE ch

\* JoinChannel, for a new member; the events of the bot's own join change nothing.
JoinedMutant(ch, c, x) == Added(ch, x)
Joined(ch, c, x) == EventJoinPartKick(Added(ch, x), c)

\* PartChannel up to CheckEmptyChannel: the events come between the list and neousers.
Parted(ch, c, x) ==
  LET told == EventJoinPartKick([ch EXCEPT !.members = @ \ {x}], c)
  IN  [told EXCEPT !.neousers = @ - IF x \in Bots THEN 1 ELSE 0]

Become(c, ch) ==
  /\ members' = [members EXCEPT ![c] = ch.members]
  /\ neousers' = [neousers EXCEPT ![c] = IF ch.members = {} THEN 0 ELSE ch.neousers]

\* CheckEmptyChannel: all real users have left.
OnlyBots(ch) == ch.neousers > 0 /\ ch.neousers = Cardinality(ch.members)

\* PartChannel, called from the stack s.
PartChannel(x, c, s) ==
  LET ch == Parted(Chan(c), c, x)
  IN  /\ Become(c, ch)
      /\ limit' = [limit EXCEPT ![c] = IF ch.members = {} THEN 0 ELSE @]
      /\ calls' = IF OnlyBots(ch) THEN Append(s, [chan |-> c, next |-> 1]) ELSE s

-----------------------------------------------------------------------------
(* Messages of the uplink and bots of other modules, from the event loop. *)

Idle == calls = <<>> /\ leaving = {}

JoinChannel(x, c) ==
  /\ Idle /\ x \in Users \cup OtherBots /\ x \notin members[c]
  /\ Become(c, Joined(Chan(c), c, x))
  /\ UNCHANGED <<limit, settings, leaving, calls>>

\* A part, a quit, a kick (whose part follows) or irc_part of another bot.
DoPart(x, c) ==
  /\ Idle /\ x \in members[c]
  /\ PartChannel(x, c, <<>>)
  /\ UNCHANGED <<settings, leaving>>

-----------------------------------------------------------------------------
(* handle_dead_channel *)

Dead == calls[Len(calls)]
Callers == SubSeq(calls, 1, Len(calls) - 1)
\* A call deeper than MaxCalls has no stack left.
InDead == calls # <<>> /\ Len(calls) < MaxCalls

AdvancedMutant == Append(Callers, [Dead EXCEPT !.next = Len(BotOrder) + 1])
Advanced == Append(Callers, [Dead EXCEPT !.next = @ + 1])

\* The next bot is on the channel: irc_part, whose PartChannel may call
\* handle_dead_channel for the bots that are left, then EVENT_EMPTYCHAN.
ForceOut ==
  /\ InDead /\ Dead.next <= Len(BotOrder)
  /\ BotOrder[Dead.next] \in members[Dead.chan]
  /\ PartChannel(BotOrder[Dead.next], Dead.chan, Advanced)
  /\ UNCHANGED <<settings, leaving>>

PassBy ==
  /\ InDead /\ Dead.next <= Len(BotOrder)
  /\ BotOrder[Dead.next] \notin members[Dead.chan]
  /\ calls' = Advanced
  /\ UNCHANGED <<members, neousers, limit, settings, leaving>>

DeadReturns ==
  /\ InDead /\ Dead.next > Len(BotOrder)
  /\ calls' = Callers
  /\ UNCHANGED <<members, neousers, limit, settings, leaving>>

-----------------------------------------------------------------------------
(* The limit. *)

\* unsigned a - b
Minus(a, b) == IF a >= b THEN a - b ELSE a - b + UIntSize

\* abs() of an unsigned difference, which becomes an int.
Abs(d) == IF d < UIntSize \div 2 THEN d ELSE UIntSize - d

\* What do_limit_set makes of the limit old of a channel with n users.
do_limit_set(old, n) ==
  IF \/ n = Minus(old, lsbuffer)
     \/ Abs(Minus(n + lsbuffer, old)) < lsgrace
    THEN old
    ELSE n + lsbuffer

limitservtimer ==
  /\ Idle
  /\ limit' = [c \in Chans |-> IF c \in qshash \cap channelhash
                                 THEN do_limit_set(limit[c], users(c)) ELSE limit[c]]
  /\ UNCHANGED <<members, neousers, settings, leaving, calls>>

\* A mode change; event_cmode sets a limit that was removed.
ChanMode(c, l) ==
  /\ Idle /\ c \in channelhash
  /\ limit' = [limit EXCEPT ![c] =
                 IF l = 0 /\ c \in qshash THEN do_limit_set(0, users(c)) ELSE l]
  /\ UNCHANGED <<members, neousers, settings, leaving, calls>>

-----------------------------------------------------------------------------
(* Commands of LimitServ. *)

\* The bot joins first, so that it is counted.
cmd_add(c) ==
  /\ Idle /\ c \notin qshash
  /\ qshash' = qshash \cup {c}
  /\ IF c \in channelhash
       THEN LET ch == IF lsjoin /\ LsBot \notin members[c] THEN Added(Chan(c), LsBot) ELSE Chan(c)
            IN  /\ Become(c, ch)
                /\ limit' = [limit EXCEPT ![c] = do_limit_set(limit[c], Cardinality(ch.members))]
       ELSE UNCHANGED <<members, neousers, limit>>
  /\ UNCHANGED <<lsjoin, lsbuffer, lsgrace, leaving, calls>>

\* The limit is removed and the bot parts while c is still in qshash, so that
\* the event of its part makes it join again.  If that leaves bots only the
\* calls of handle_dead_channel never return, and c is never deleted.
cmd_del(c) ==
  /\ Idle /\ c \in qshash
  /\ IF lsjoin /\ LsBot \in members[c]
       THEN LET ch == Parted(Chan(c), c, LsBot)
            IN  /\ Become(c, ch)
                /\ calls' = IF OnlyBots(ch) THEN <<[chan |-> c, next |-> 1]>> ELSE <<>>
       ELSE UNCHANGED <<members, neousers, calls>>
  /\ limit' = [limit EXCEPT ![c] = 0]
  /\ qshash' = IF calls' = <<>> THEN qshash \ {c} ELSE qshash
  /\ UNCHANGED <<lsjoin, lsbuffer, lsgrace, leaving>>

\* JoinChannels sets the limits before the bot is on the channels.
SetJoinOn ==
  /\ Idle /\ ~lsjoin
  /\ lsjoin' = TRUE
  /\ LET managed == qshash \cap channelhash
         joins == {c \in managed : LsBot \notin members[c]}
     IN  /\ limit' = [c \in Chans |-> IF c \in managed THEN do_limit_set(limit[c], users(c)) ELSE limit[c]]
         /\ members' = [c \in Chans |-> members[c] \cup IF c \in joins THEN {LsBot} ELSE {}]
         /\ neousers' = [c \in Chans |-> neousers[c] + IF c \in joins THEN 1 ELSE 0]
  /\ UNCHANGED <<qshash, lsbuffer, lsgrace, leaving, calls>>

SetJoinOff ==
  /\ Idle /\ lsjoin
  /\ lsjoin' = FALSE /\ leaving' = qshash
  /\ UNCHANGED <<members, neousers, limit, qshash, lsbuffer, lsgrace, calls>>

\* PartChannels, one channel of its scan.
PartChannels(c) ==
  /\ calls = <<>> /\ c \in leaving
  /\ leaving' = leaving \ {c}
  /\ IF LsBot \in members[c]
       THEN PartChannel(LsBot, c, <<>>)
       ELSE UNCHANGED <<members, neousers, limit, calls>>
  /\ UNCHANGED settings

\* SET BUFFER and SET GRACE with the checks of set_buffer_cb and set_grace_cb.
SetBuffer(n) ==
  /\ Idle /\ n > lsgrace
  /\ lsbuffer' = n
  /\ UNCHANGED <<members, neousers, limit, qshash, lsjoin, lsgrace, leaving, calls>>

SetGraceMutant(n) ==
  /\ Idle
  /\ lsgrace' = n
  /\ UNCHANGED <<members, neousers, limit, qshash, lsjoin, lsbuffer, leaving, calls>>
SetGrace(n) ==
  /\ Idle /\ n < lsbuffer
  /\ lsgrace' = n
  /\ UNCHANGED <<members, neousers, limit, qshash, lsjoin, lsbuffer, leaving, calls>>

-----------------------------------------------------------------------------
LsInit ==
  /\ members = [c \in Chans |-> {}] /\ neousers = [c \in Chans |-> 0]
  /\ limit = [c \in Chans |-> 0]
  /\ qshash \in SUBSET Chans /\ lsjoin \in BOOLEAN     \* from the databases
  /\ lsbuffer = 1 /\ lsgrace = 0
  /\ leaving = {} /\ calls = <<>>

handle_dead_channel == ForceOut \/ PassBy \/ DeadReturns

LsNext ==
  \/ \E x \in Clients, c \in Chans : JoinChannel(x, c) \/ DoPart(x, c)
  \/ handle_dead_channel
  \/ limitservtimer
  \/ \E c \in Chans : \/ \E l \in Limits : ChanMode(c, l)
                      \/ cmd_add(c) \/ cmd_del(c) \/ PartChannels(c)
  \/ SetJoinOn \/ SetJoinOff
  \/ \E n \in 0 .. MaxBuffer : SetBuffer(n)
  \/ \E n \in 0 .. MaxGrace : SetGrace(n)

LsSpec == LsInit /\ [][LsNext]_lsvars

-----------------------------------------------------------------------------
(* Properties. *)

\* With JOIN on the bot is on every managed channel that exists, whatever
\* removed it: kicks, its own commands, or the core when a channel dies.
ListedIsWatched ==
  Idle /\ lsjoin => \A c \in qshash \cap channelhash : LsBot \in members[c]

\* A call of handle_dead_channel that returns leaves its channel without a
\* member, though the calls nested in it go through the same bots.
DeadChannelIsLeft ==
  [][calls # <<>> /\ calls' = Callers => members'[Dead.chan] = {}]_lsvars

\* Whenever the timer comes, it leaves every managed channel with room for at
\* least one more user, whatever limit was set and however BUFFER and GRACE were
\* changed.
LimitLeavesRoom ==
  \A c \in qshash \cap channelhash : do_limit_set(limit[c], users(c)) > users(c)

\* "When no real users are left in a channel that the module has a bot in, the
\* core bot will PART the bot and issue this event" (include/events.h:230): no
\* bot is parted again from a channel while its first part is still in progress.
NoBotPartsTwice ==
  \A i, j \in 1 .. Len(calls) - 1 :
    i # j /\ calls[i].chan = calls[j].chan => calls[i].next # calls[j].next

=============================================================================
