------------------------------ MODULE TextServ ------------------------------
(***************************************************************************)
(* The bots TextServ puts on channels, the only ones with                  *)
(* BOT_FLAG_PERSIST, among the bots of module Channels.  TextServ never    *)
(* asks whether a bot is on a channel: it goes by a list of its own,       *)
(* chanhash, kept in table BotChans while the bot or the module is away.   *)
(*                                                                         *)
(* JoinBot and PartBot make one API call per channel.  Each call is a step *)
(* here, phase[b] and todo[b] say how far the function is, and nothing     *)
(* else runs until it is done.                                             *)
(*                                                                         *)
(* Abstracted: the checks of who may use a command, the public flag, the   *)
(* texts the bots send.  A bot that is deleted and added again keeps its   *)
(* main channel; bots come and go one by one, not with the module.         *)
(***************************************************************************)
EXTENDS Channels

CONSTANTS
  TsBots,        \* the bots in tshash
  Main,          \* Main[b]: db->tsbot.channel, the channel b was added with
  MainListed     \* someone makes a bot JOIN or PART its main channel

ASSUME TextServAssumption ==
  /\ TsBots \subseteq Persist
  /\ TsBots \cap Root = {} /\ TsBots \cap Careful = {}
  /\ Main \in [TsBots -> Chans]
  /\ MainListed \in BOOLEAN

VARIABLES
  chanhash,      \* chanhash[b]: the channels listed for b
  phase,         \* phase[b]: the loop of JoinBot or PartBot b is in
  todo           \* todo[b]: the listed channels that loop has not come to

tsvars == <<chanhash, phase, todo>>

TsTypeOK ==
  /\ chanhash \in [TsBots -> SUBSET Chans]
  /\ phase \in [TsBots -> {"idle", "main", "join", "part"}]
  /\ todo \in [TsBots -> SUBSET Chans]

TsIdle == \A b \in TsBots : phase[b] = "idle"

-----------------------------------------------------------------------------
(* Commands JOIN and PART of a bot. *)

ts_cmd_add_chan(b, c) ==
  /\ TsIdle /\ b \in userhash
  /\ c = Main[b] => MainListed
  /\ c \notin chanhash[b]
  /\ chanhash' = [chanhash EXCEPT ![b] = @ \cup {c}]
  /\ IrcJoin(b, c)
  /\ UNCHANGED <<phase, todo>>

ts_cmd_del_chan(b, c) ==
  /\ TsIdle /\ b \in userhash
  /\ c \in chanhash[b]
  /\ IrcPart(b, c)
  /\ chanhash' = [chanhash EXCEPT ![b] = @ \ {c}]
  /\ UNCHANGED <<phase, todo>>

-----------------------------------------------------------------------------
(* JoinBot, called by ADD and, for every bot of the database, by ModSynch. *)

JoinBot(b) ==
  /\ TsIdle
  /\ AddBot(b)
  /\ phase' = [phase EXCEPT ![b] = "main"]
  /\ todo' = [todo EXCEPT ![b] = chanhash[b]]
  /\ UNCHANGED chanhash

\* The loop over chanhash is over when nothing is left to join.
JoinLoop(b, left) ==
  /\ phase' = [phase EXCEPT ![b] = IF left = {} THEN "idle" ELSE "join"]
  /\ todo' = [todo EXCEPT ![b] = left]
  /\ UNCHANGED chanhash

JoinMain(b) ==
  /\ phase[b] = "main"
  /\ IrcJoin(b, Main[b])
  /\ JoinLoop(b, todo[b])

JoinListed(b, c) ==
  /\ phase[b] = "join" /\ c \in todo[b]
  /\ IrcJoin(b, c)
  /\ JoinLoop(b, todo[b] \ {c})

-----------------------------------------------------------------------------
(* PartBot, called by DEL, which deletes the rows of the bot first, and by   *)
(* ModFini, which leaves them.                                               *)

DeleteRows(b) == chanhash' = [chanhash EXCEPT ![b] = {}]

PartBot(b) ==
  /\ TsIdle /\ b \in userhash
  /\ IrcPart(b, Main[b])
  /\ phase' = [phase EXCEPT ![b] = "part"]
  /\ todo' = [todo EXCEPT ![b] = chanhash[b]]
  /\ DeleteRows(b) \/ UNCHANGED chanhash

PartListed(b, c) ==
  /\ phase[b] = "part" /\ c \in todo[b]
  /\ IrcPart(b, c)
  /\ todo' = [todo EXCEPT ![b] = @ \ {c}]
  /\ UNCHANGED <<chanhash, phase>>

PartQuit(b) ==
  /\ phase[b] = "part" /\ todo[b] = {}
  /\ IrcQuit(b)
  /\ phase' = [phase EXCEPT ![b] = "idle"]
  /\ UNCHANGED <<chanhash, todo>>

-----------------------------------------------------------------------------
TsInit ==
  /\ Init
  /\ chanhash = [b \in TsBots |-> {}]
  /\ phase = [b \in TsBots |-> "idle"]
  /\ todo = [b \in TsBots |-> {}]

TsStep(b) ==
  \/ \E c \in Chans : ts_cmd_add_chan(b, c)
  \/ \E c \in Chans : ts_cmd_del_chan(b, c)
  \/ JoinBot(b)
  \/ JoinMain(b)
  \/ \E c \in Chans : JoinListed(b, c)
  \/ PartBot(b)
  \/ \E c \in Chans : PartListed(b, c)
  \/ PartQuit(b)

\* The uplink and the other modules.
OtherStep ==
  /\ TsIdle
  /\ Uplink \/ \E b \in Bots \ TsBots : ModuleCall(b)
  /\ UNCHANGED tsvars

TsNext == ~crashed /\ (OtherStep \/ \E b \in TsBots : TsStep(b))

TsSpec == TsInit /\ [][TsNext]_<<vars, tsvars>>

-----------------------------------------------------------------------------
(* Properties. *)

\* ts_cmd_list_chan answers LIST with "List of Channels %s is a member of":
\* the main channel and those in chanhash.
ListIsTrue ==
  \A b \in TsBots \cap userhash :
    phase[b] = "idle" => chanhash[b] \cup {Main[b]} = chans[b]

=============================================================================
