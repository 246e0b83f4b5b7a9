----------------------------- MODULE MCEventLoop ------------------------------
(***************************************************************************)
(* What the event loop calls, in one run: RunLevel, Timers, LineMode, and    *)
(* what the mode lines that are read do to a channel, Modes.  They share no  *)
(* variable; part, chosen at the start, is the one that moves.               *)
(***************************************************************************)
EXTENDS RunLevel, Timers, LineMode, Modes

CONSTANTS ping, flush, limit, limitserv, letter, colon, newline

\* Two timers of the core and one of a module, that sets its own interval.
MCOwner == [t \in {ping, flush, limit} |-> IF t = limit THEN limitserv ELSE NsModule]

MCRefused == {<<colon>>}

VARIABLE part

-----------------------------------------------------------------------------
\* Timers has many initial states; one is enough where it does not move.
EventLoopInit ==
  /\ part \in {"runlevel", "timers", "linemode", "modes"}
  /\ Init /\ TimersInit /\ LinesInit /\ ModesInit
  /\ part # "timers" => Head(timerlist) = ping /\ interval = [t \in DOMAIN interval |-> 1]
  /\ part # "linemode" => recvq = 4

EventLoopNext ==
  /\ UNCHANGED part
  /\ \/ part = "runlevel" /\ Next /\ UNCHANGED <<timervars, linevars, modevars>>
     \/ part = "timers" /\ TimersNext /\ UNCHANGED <<vars, linevars, modevars>>
     \/ part = "linemode" /\ LinesNext /\ UNCHANGED <<vars, timervars, modevars>>
     \/ part = "modes" /\ ModesNext /\ UNCHANGED <<vars, timervars, linevars>>

allvars == <<part, vars, timervars, linevars, modevars>>

TimersStep(A) == part = "timers" /\ A /\ UNCHANGED <<part, vars, linevars, modevars>>

\* The fairness of Timers.
EventLoopSpec ==
  /\ EventLoopInit /\ [][EventLoopNext]_allvars
  /\ WF_allvars(TimersStep(Tick)) /\ WF_allvars(TimersStep(CheckTimers))
  /\ WF_allvars(TimersStep(SynchAllModules))

-----------------------------------------------------------------------------
\* NoStarvation of Timers, where it moves.
TimersNotStarved == part = "timers" => NoStarvation
==============================================================================
