--------------------------------- MODULE Modes ---------------------------------
(***************************************************************************)
(* What NeoStats knows of the modes of a channel (src/modes.c, do_sjoin in   *)
(* src/ircrecv.c): flags, the limit, the key, the status of each member and   *)
(* the list of modes with a parameter, kept by reading the mode lines of the  *)
(* network.  A line is a string of mode characters, whose signs hold until    *)
(* the next one, and parameters, which the characters take in turn: a mode    *)
(* that takes one too many or too few shifts all that follow.                *)
(*                                                                         *)
(* The mode table is that of the core (chan_modes_default and               *)
(* chan_umodes_default), before a protocol module adds its own.              *)
(***************************************************************************)
EXTENDS Integers, FiniteSets, SequencesExt

CONSTANTS
  Users, Bots,   \* clients that may be on the channel
  Status,        \* modes of a member, with NICKPARAM: v, o
  Lists,         \* modes with MODEPARAM, other than limit and key: b
  Flags,         \* modes without a parameter: n, t, i, ...
  Masks,         \* parameters of list modes
  Keys, Limits,  \* values of +k and +l
  MaxChanges,    \* a bound on the changes in a line
  MaxParams,     \* a bound on the parameters of a list mode
  NULL

Members == Users \cup Bots

Param == [mask : Lists, param : Masks]

\* What a channel has, when its list modes are one of params.
Settings(params) ==
  [modes : SUBSET Flags, modeparams : params, limit : Limits \cup {0}, key : Keys \cup {NULL},
   members : UNION {[xs -> SUBSET Status] : xs \in SUBSET Members}]

Known  == Settings(Seq(Param))
Actual == Settings(SUBSET Param)

\* A mode is one entry of the mode table.
ASSUME ModesAssumption ==
  /\ IsFiniteSet(Lists) /\ IsFiniteSet(Masks)
  /\ Limits \subseteq Nat \ {0} /\ MaxChanges \in Nat \ {0} /\ MaxParams \in Nat
  /\ Status \cap Lists = {} /\ Status \cap Flags = {} /\ Lists \cap Flags = {}
  /\ \A m \in Status \cup Lists \cup Flags : m \notin {"+", "-", "l", "k"}
  /\ NULL \notin Members \cup Masks \cup Keys \cup Limits
  /\ NULL \notin Known /\ NULL \notin Actual

VARIABLES
  channel,       \* the Channel of NeoStats, NULL when it has none
  network        \* the channel as the rest of the network has it

modevars == <<channel, network>>

ModesTypeOK == channel \in Known \cup {NULL} /\ network \in Actual \cup {NULL}

-----------------------------------------------------------------------------
(* The handlers of modes.c, on the record of a channel. *)

new_chan ==
  [modes |-> {}, modeparams |-> <<>>, limit |-> 0, key |-> NULL,
   members |-> [x \in {} |-> {}]]

Toggled(set, add, m) == IF add THEN set \cup {m} ELSE set \ {m}

\* Nothing happens to one who is not a member.
ChanUserMode(ch, x, add, m) ==
  [ch EXCEPT !.members = [y \in DOMAIN @ |-> IF y = x THEN Toggled(@[y], add, m) ELSE @[y]]]

\* A parameter the mode has is not added again.
WithParam(params, m, p) ==
  IF Contains(params, [mask |-> m, param |-> p]) THEN params
  ELSE Append(params, [mask |-> m, param |-> p])

\* comparemode looks at the mask alone: the first parameter of the mode goes.
WithoutParam(params, m) ==
  IF \E i \in DOMAIN params : params[i].mask = m
  THEN RemoveAt(params, Min({i \in DOMAIN params : params[i].mask = m}))
  ELSE params

\* A limit that goes has no parameter, a key that goes has one.
TakesParamMutant(m, add) == m \in Status \cup Lists \/ (add /\ m \in {"l", "k"})
TakesParam(m, add) == m \in Status \cup Lists \cup {"k"} \/ (add /\ m = "l")

\* What a mode does to the channel.
Processed(ch, m, add, arg) ==
  CASE m \in Status -> ChanUserMode(ch, arg, add, m)
    [] m = "l" -> [ch EXCEPT !.limit = IF add THEN arg ELSE 0]
    [] m = "k" -> [ch EXCEPT !.key = IF add THEN arg ELSE NULL]
    [] m \in Lists ->
         [ch EXCEPT !.modeparams = IF add THEN WithParam(@, m, arg) ELSE WithoutParam(@, m)]
    [] m \in Flags -> [ch EXCEPT !.modes = Toggled(@, add, m)]

\* One character of the line; args are the parameters that are left.
Read(line, m) ==
  IF m \in {"+", "-"} THEN [line EXCEPT !.add = (m = "+")]
  ELSE [line EXCEPT
          !.ch = Processed(@, m, line.add, IF line.args = <<>> THEN NULL ELSE Head(line.args)),
          !.args = IF TakesParam(m, line.add) THEN Tail(@) ELSE @]

ChanModeHandler(ch, modes, args) ==
  LET after[n \in 0 .. Len(modes)] ==
        IF n = 0 THEN [ch |-> ch, add |-> TRUE, args |-> args] ELSE Read(after[n - 1], modes[n])
  IN  after[Len(modes)].ch

test_cmode(ch, m) ==
  m \in ch.modes \/ \E i \in DOMAIN ch.modeparams : ch.modeparams[i].mask = m

-----------------------------------------------------------------------------
(* The network: what a change does, and the line that says so. *)

Change ==
  [add : BOOLEAN, mode : Status, arg : Members] \cup
  [add : BOOLEAN, mode : Lists, arg : Masks] \cup
  [add : BOOLEAN, mode : Flags, arg : {NULL}] \cup
  [add : {TRUE}, mode : {"l"}, arg : Limits] \cup [add : {FALSE}, mode : {"l"}, arg : {NULL}] \cup
  [add : BOOLEAN, mode : {"k"}, arg : Keys]

Changed(net, g) ==
  CASE g.mode \in Status -> ChanUserMode(net, g.arg, g.add, g.mode)
    [] g.mode = "l" -> [net EXCEPT !.limit = IF g.add THEN g.arg ELSE 0]
    [] g.mode = "k" -> [net EXCEPT !.key = IF g.add THEN g.arg ELSE NULL]
    [] g.mode \in Lists ->
         [net EXCEPT !.modeparams = Toggled(@, g.add, [mask |-> g.mode, param |-> g.arg])]
    [] g.mode \in Flags -> [net EXCEPT !.modes = Toggled(@, g.add, g.mode)]

\* A server passes on what changes something; a key is removed by its name.
Effective(net, g) ==
  /\ Changed(net, g) # net
  /\ g.mode = "k" /\ ~g.add => net.key = g.arg

\* What the network has after each of the changes gs.
Stages(net, gs) ==
  LET after[n \in 0 .. Len(gs)] == IF n = 0 THEN net ELSE Changed(after[n - 1], gs[n])
  IN  after

\* The nth change in the line; a sign is written where it differs from the one
\* before.
Characters(gs, n) ==
  LET sign == IF gs[n].add THEN "+" ELSE "-"
  IN  IF n > 1 /\ gs[n].add = gs[n - 1].add THEN <<gs[n].mode>> ELSE <<sign, gs[n].mode>>

Arguments(g) == IF g.arg = NULL THEN <<>> ELSE <<g.arg>>

Line(gs) ==
  LET upTo[n \in 0 .. Len(gs)] ==
        IF n = 0 THEN [modes |-> <<>>, args |-> <<>>]
        ELSE [modes |-> upTo[n - 1].modes \o Characters(gs, n),
              args  |-> upTo[n - 1].args \o Arguments(gs[n])]
  IN  upTo[Len(gs)]

ParamsFit(net) == Cardinality(net.modeparams) <= MaxParams

-----------------------------------------------------------------------------
(* Messages of the uplink, and bots. *)

\* A channel of the other side of a link: its members, its modes, and list
\* modes, which the SJOIN of Unreal brings among the members and do_sjoin skips.
\* Server modes on a channel that exists already are the ones it has.
do_sjoin ==
  \E xs \in (SUBSET Users) \ {{}}, gs \in UNION {[1 .. n -> Change] : n \in 0 .. MaxChanges},
     status \in [Users -> SUBSET Status], bans \in SUBSET Param :
    /\ channel = NULL /\ network = NULL
    /\ \A x \in Users \ xs : status[x] = {}
    /\ \A i \in DOMAIN gs : gs[i].add /\ gs[i].mode \notin Status \cup Lists
    /\ \A i, j \in DOMAIN gs : i < j => gs[i].mode # gs[j].mode
    /\ LET joined == [new_chan EXCEPT !.members = [x \in xs |-> status[x]]]
       IN  /\ channel' = ChanModeHandler(joined, Line(gs).modes, Line(gs).args)
           /\ network' = Stages([joined EXCEPT !.modeparams = bans], gs)[Len(gs)]
    /\ ParamsFit(network')

\* JoinChannel of a member without or, by an SJOIN, with some status.
Join(ch, x, status) ==
  [(IF ch = NULL THEN new_chan ELSE ch) EXCEPT !.members =
     [y \in DOMAIN @ \cup {x} |-> IF y = x THEN status ELSE @[y]]]

\* A single member joins; the first one creates the channel.
JoinChannel ==
  \E x \in Users, status \in SUBSET Status :
    /\ network # NULL => x \notin DOMAIN network.members
    /\ channel' = Join(channel, x, status)
    /\ network' = IF network = NULL
                  THEN [Join(NULL, x, status) EXCEPT !.modeparams = {}]
                  ELSE Join(network, x, status)

\* irc_join of a bot, with its modes.
irc_join ==
  \E b \in Bots, mode \in SUBSET Status :
    /\ network # NULL => b \notin DOMAIN network.members
    /\ channel' = Join(channel, b, mode)
    /\ network' = IF network = NULL
                  THEN [Join(NULL, b, mode) EXCEPT !.modeparams = {}]
                  ELSE Join(network, b, mode)

Left(ch, x) ==
  IF DOMAIN ch.members = {x} THEN NULL
  ELSE [ch EXCEPT !.members = [y \in DOMAIN @ \ {x} |-> @[y]]]

PartChannel ==
  \E x \in Members :
    /\ network # NULL /\ x \in DOMAIN network.members
    /\ channel' = Left(channel, x) /\ network' = Left(network, x)

\* A mode line of the uplink, or of a bot that calls irc_cmode.
ChanMode ==
  \E gs \in UNION {[1 .. n -> Change] : n \in 1 .. MaxChanges} :
    /\ network # NULL
    /\ \A i \in DOMAIN gs : Effective(Stages(network, gs)[i - 1], gs[i])
    /\ network' = Stages(network, gs)[Len(gs)]
    /\ ParamsFit(network')
    /\ channel' = ChanModeHandler(channel, Line(gs).modes, Line(gs).args)

ModesInit == channel = NULL /\ network = NULL

ModesNext == do_sjoin \/ JoinChannel \/ irc_join \/ PartChannel \/ ChanMode

ModesSpec == ModesInit /\ [][ModesNext]_modevars

-----------------------------------------------------------------------------
(* Members and their status, flags, limit and key are those of the network. *)
SettingsFollow ==
  \A f \in {"members", "modes", "limit", "key"} : channel[f] = network[f]

\* A parameter is there once, and a mode has no more of them than the network
\* gave it: that a wrong one goes never leaves a mode set that the network has
\* cleared.
NoGhostParams ==
  /\ IsInjective(channel.modeparams)
  /\ \A m \in Lists :
       Cardinality({p \in Range(channel.modeparams) : p.mask = m})
         <= Cardinality({p \in network.modeparams : p.mask = m})

\* Whatever lines come, NeoStats has the channel the network has: members with
\* their status, flags, limit and key, and test_cmode says of no mode that it is
\* set when it is not.
ModesFollow ==
  /\ ModesTypeOK
  /\ channel = NULL <=> network = NULL
  /\ channel # NULL =>
       /\ SettingsFollow /\ NoGhostParams
       /\ \A m \in Flags : test_cmode(channel, m) = (m \in network.modes)
       /\ \A m \in Lists : test_cmode(channel, m) => \E p \in network.modeparams : p.mask = m
==============================================================================
