------------------------------- MODULE MCParts -------------------------------
(***************************************************************************)
(* Modules and what modules do to channels in one run: Modules, Statistics   *)
(* and LimitServ, with the names they have there, and Channels as CH with     *)
(* modules that do not look where they join and part.  They share no         *)
(* variable; part, chosen at the start, is the one that moves.               *)
(***************************************************************************)
EXTENDS Modules, Statistics, LimitServ

CONSTANTS u, v, b, p, ls, c, d

Bothash == <<b, ls>>

VARIABLES
  part,
  userhash, chantable, channel, chans, crashed   \* of Channels

channelvars == <<userhash, chantable, channel, chans, crashed>>

\* A user, a bot and a persistent bot that join, part, quit and are kicked
\* whenever they like, one channel and the services channel.
CH == INSTANCE Channels WITH
  Users <- {u}, Bots <- {b, p}, Persist <- {p}, Root <- {b}, Careful <- {}, Exposed <- {b, p},
  Chans <- {c, d}, ServicesChan <- d, KickPart <- FALSE, UIntSize <- 4,
  channelhash <- chantable

-----------------------------------------------------------------------------
PartsInit ==
  /\ part \in {"modules", "channels", "limitserv", "statistics"}
  /\ Init /\ CH!Init /\ LsInit /\ StatsInit
  /\ part # "limitserv" => qshash = {} /\ ~lsjoin

PartsNext ==
  /\ UNCHANGED part
  /\ \/ part = "modules" /\ Next /\ UNCHANGED <<channelvars, lsvars, statvars>>
     \/ part = "channels" /\ CH!Next /\ UNCHANGED <<vars, lsvars, statvars>>
     \/ part = "limitserv" /\ LsNext /\ UNCHANGED <<vars, channelvars, statvars>>
     \/ part = "statistics" /\ StatsNext /\ UNCHANGED <<vars, channelvars, lsvars>>

PartsSpec ==
  PartsInit /\ [][PartsNext]_<<part, vars, channelvars, lsvars, statvars>>

-----------------------------------------------------------------------------
(* The properties of the instances. *)

\* All modules: the types of their variables.
TypesOK == TypeOK /\ CH!TypeOK /\ LsTypeOK /\ StatsTypeOK

\* Channels: whatever modules do, the two copies of the membership agree and
\* the counter of users is the size of the member list.
CarelessMembership == CH!MembershipAgrees /\ CH!UsersCounted
==============================================================================
