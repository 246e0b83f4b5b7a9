------------------------------- MODULE MCTimers -------------------------------
(* Instances of Timers for TLC. *)
EXTENDS Timers

CONSTANTS ping, flush, limit, core, limitserv

MCOwner == (ping :> core) @@ (flush :> core) @@ (limit :> limitserv)
================================================================================
