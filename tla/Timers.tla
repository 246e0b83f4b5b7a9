------------------------------- MODULE Timers -------------------------------
(***************************************************************************)
(* src/timer.c: the list of timers, kept in the order of their next run,   *)
(* and the single libevent timeout (evtimers) that wakes CheckTimers_cb.   *)
(* A wake-up runs at most one timer, the first of the list, and it is the  *)
(* only thing that runs timers; whether another wake-up is scheduled       *)
(* depends on the path taken through CheckTimers_cb.                       *)
(*                                                                         *)
(* Times are relative: due[t] is nextrun minus now, age[t] is now minus    *)
(* lastrun, armed is the time until the timeout fires.  The calendar       *)
(* (daily, weekly and monthly timers) is abstracted to the interval.       *)
(*                                                                         *)
(* A definition whose name ends in Mutant is not part of the model: it is  *)
(* a plausible bug of the definition it precedes.                          *)
(***************************************************************************)
EXTENDS LinkedLists

CONSTANTS
  Timers,        \* timer names
  Modules,       \* the core (&ns_module) and the loadable modules
  NsModule,      \* &ns_module
  Owner,         \* Owner[t]: t->moduleptr
  Intervals,     \* the intervals timers are given, in units of time
  Adjusting,     \* timers whose handler sets its own interval (CurlTimeOut)
  RetryDelay,    \* the 10 seconds of NextSchedule
  TableSize,     \* TIMER_TABLE_SIZE
  MaxLate        \* how late the model tells apart: due[t] >= -MaxLate

ASSUME TimersAssumption ==
  /\ IsFiniteSet(Timers)
  /\ NsModule \in Modules
  /\ Owner \in [Timers -> Modules]
  /\ \E s, t \in Timers : s # t /\ Owner[s] = NsModule /\ Owner[t] = NsModule   \* see InitTimers
  /\ Intervals \subseteq Nat \ {0}
  /\ \E i \in Intervals : \A j \in Intervals : j <= i
  /\ Adjusting \subseteq Timers
  /\ RetryDelay \in Nat \ {0} /\ TableSize \in Nat /\ MaxLate \in Nat

VARIABLES
  timerlist,     \* the names of the timers, first to run first
  interval,      \* interval[t]
  due,           \* due[t]: nextrun - me.now
  age,           \* age[t]: me.now - lastrun
  since,         \* since[t]: time since t was added or last ran
  armed,         \* time until evtimers fires, or Idle
  loaded,        \* modules that are loaded
  synched        \* modules for which IsModuleSynched

timervars == <<timerlist, interval, due, age, since, armed, loaded, synched>>

Idle == -1       \* evtimers is not pending

MaxInterval == CHOOSE i \in Intervals : \A j \in Intervals : j <= i

Least(a, b) == IF a <= b THEN a ELSE b
Most(a, b) == IF a <= b THEN b ELSE a

CoreTimers == {t \in Timers : Owner[t] = NsModule}

Listed == {timerlist[i] : i \in DOMAIN timerlist}

TimersTypeOK ==
  /\ timerlist \in Seq(Timers) /\ IsInjective(timerlist)
  /\ interval \in [Timers -> Intervals]
  /\ due \in [Timers -> -MaxLate .. MaxInterval]
  /\ age \in [Timers -> 0 .. MaxInterval + MaxLate]
  /\ since \in [Timers -> 0 .. MaxInterval + MaxLate]
  /\ armed \in Idle .. Most(MaxInterval, RetryDelay)
  /\ synched \subseteq loaded /\ loaded \subseteq Modules
  /\ \A t \in Listed : Owner[t] \in loaded

-----------------------------------------------------------------------------
(* The list and the timeout. *)

InsertMutant(list, t, d) == <<t>> \o Without(list, {t})
\* TimerCalcNextRun: t goes before the first timer that does not run strictly
\* before it.
Insert(list, t, d) ==
  LET rest   == Without(list, {t})
      places == {n \in 0 .. Len(rest) : n = Len(rest) \/ d[rest[n + 1]] >= d[t]}
  IN  InsertAt(rest, Min(places) + 1, t)

\* NextSchedule: evtimer_add replaces a timeout that is still pending.
NextSchedule(list, d) ==
  IF list = <<>> THEN Idle
  ELSE IF d[Head(list)] > 0 THEN d[Head(list)] ELSE RetryDelay

TimerCalcNextRunMutant(t, a, i) ==
  LET d == [due EXCEPT ![t] = Most(i - a, -MaxLate)]
  IN  /\ due' = d
      /\ timerlist' = Insert(timerlist, t, d)
      /\ armed' = IF armed > 0 THEN armed ELSE NextSchedule(timerlist', d)
      /\ age' = [age EXCEPT ![t] = a]
      /\ interval' = [interval EXCEPT ![t] = i]
\* TimerCalcNextRun of t whose lastrun is a ago and whose interval is i.  Into
\* an empty list it inserts without a schedule; a timer alone in the list, which
\* it would lose, there is none beside those of the core.
TimerCalcNextRun(t, a, i) ==
  LET d == [due EXCEPT ![t] = Most(i - a, -MaxLate)]
  IN  /\ due' = d
      /\ timerlist' = Insert(timerlist, t, d)
      /\ armed' = IF timerlist = <<>> THEN armed ELSE NextSchedule(timerlist', d)
      /\ age' = [age EXCEPT ![t] = a]
      /\ interval' = [interval EXCEPT ![t] = i]

\* list_delete_destroy_node of every timer of ts.
Deleted(ts) == timerlist' = Without(timerlist, ts)

-----------------------------------------------------------------------------
(* API calls. *)

AddTimer(t) ==
  /\ Owner[t] \in loaded
  /\ t \notin Listed
  /\ Len(timerlist) < TableSize
  /\ \E i \in Intervals : TimerCalcNextRun(t, 0, i)
  /\ since' = [since EXCEPT ![t] = 0]
  /\ UNCHANGED <<loaded, synched>>

\* The core never deletes its own timers before it exits.
DelTimer(t) ==
  /\ t \in Listed \ CoreTimers
  /\ Deleted({t})
  /\ UNCHANGED <<interval, due, age, since, armed, loaded, synched>>

SetTimerInterval(t) ==
  /\ t \in Listed
  /\ \E i \in Intervals : TimerCalcNextRun(t, age[t], i)
  /\ UNCHANGED <<since, loaded, synched>>

-----------------------------------------------------------------------------
(* Modules, as far as the timers notice them. *)

\* Before NeoStats is synched a module is loaded without being synched.
LoadModule(m) ==
  /\ m \notin loaded
  /\ loaded' = loaded \cup {m}
  /\ synched' = IF NsModule \in synched THEN synched \cup {m} ELSE synched
  /\ UNCHANGED <<timerlist, interval, due, age, since, armed>>

\* The end of the burst: init_services_bot synchs the core and all modules.
SynchAllModules ==
  /\ NsModule \notin synched
  /\ synched' = loaded
  /\ UNCHANGED <<timerlist, interval, due, age, since, armed, loaded>>

ModuleGone(m) ==
  /\ loaded' = loaded \ {m}
  /\ synched' = synched \ {m}
  /\ Deleted({t \in Timers : Owner[t] = m})

\* unload_module calls del_timers.
UnloadModule(m) ==
  /\ m \in loaded \ {NsModule}
  /\ ModuleGone(m)
  /\ UNCHANGED <<interval, due, age, since, armed>>

-----------------------------------------------------------------------------
(* CheckTimers_cb.  The timeout has fired and is no longer pending. *)

IsDueMutant(t) == TRUE
IsDue(t) == due[t] <= 0

\* The first timer belongs to a module that is not synched.
WakeUnsynched(t) ==
  /\ Owner[t] \notin synched
  /\ age' = [age EXCEPT ![t] = 0]
  /\ armed' = Idle
  /\ UNCHANGED <<timerlist, interval, due, since, loaded, synched>>

\* The timer the timeout was meant for is gone and the first one is not due.
WakeEarly(t) ==
  /\ Owner[t] \in synched /\ ~IsDue(t)
  /\ armed' = Idle
  /\ UNCHANGED <<timerlist, interval, due, age, since, loaded, synched>>

\* The handler returned: the timer is listed again, an interval from now.
RunTimer(t) ==
  /\ Owner[t] \in synched /\ IsDue(t)
  /\ \E i \in (IF t \in Adjusting THEN Intervals ELSE {interval[t]}) :
       TimerCalcNextRun(t, 0, i)
  /\ since' = [since EXCEPT ![t] = 0]
  /\ UNCHANGED <<loaded, synched>>

\* The handler returned a negative number: the timer is deleted.
RunLast(t) ==
  /\ t \notin CoreTimers
  /\ Owner[t] \in synched /\ IsDue(t)
  /\ Deleted({t})
  /\ armed' = NextSchedule(timerlist', due)
  /\ UNCHANGED <<interval, due, age, since, loaded, synched>>

\* The handler crashed: sigsegv_handler unloads its module and jumps back.
RunCrash(t) ==
  /\ t \notin CoreTimers
  /\ Owner[t] \in synched /\ IsDue(t)
  /\ ModuleGone(Owner[t])
  /\ armed' = NextSchedule(timerlist', due)
  /\ UNCHANGED <<interval, due, age, since>>

CheckTimers ==
  /\ armed = 0
  /\ LET t == Head(timerlist)
     IN  WakeUnsynched(t) \/ WakeEarly(t) \/ RunTimer(t) \/ RunLast(t) \/ RunCrash(t)

\* A unit of time passes.
Tick ==
  /\ due' = [t \in Timers |-> Most(due[t] - 1, -MaxLate)]
  /\ age' = [t \in Timers |-> Least(age[t] + 1, MaxInterval + MaxLate)]
  /\ since' = [t \in Timers |-> Least(since[t] + 1, MaxInterval + MaxLate)]
  /\ armed' = IF armed > 0 THEN armed - 1 ELSE armed
  /\ UNCHANGED <<timerlist, interval, loaded, synched>>

-----------------------------------------------------------------------------
\* InitTimers, before the link: the core's timers are listed, modules are not
\* loaded yet.
TimersInit ==
  /\ interval \in [Timers -> Intervals]
  /\ timerlist \in {s \in [1 .. Cardinality(CoreTimers) -> CoreTimers] :
                      /\ IsInjective(s)
                      /\ \A i, j \in DOMAIN s : i < j => interval[s[i]] <= interval[s[j]]}
  /\ due = interval
  /\ age = [t \in Timers |-> 0]
  /\ since = [t \in Timers |-> 0]
  /\ armed = NextSchedule(timerlist, due)
  /\ loaded = {NsModule}
  /\ synched = {}

TimersNext ==
  \/ \E t \in Timers : AddTimer(t) \/ DelTimer(t) \/ SetTimerInterval(t)
  \/ \E m \in Modules : LoadModule(m) \/ UnloadModule(m)
  \/ SynchAllModules
  \/ CheckTimers
  \/ Tick

\* Time passes, the event loop turns, and the link is established in the end.
TimersSpec ==
  /\ TimersInit /\ [][TimersNext]_timervars
  /\ WF_timervars(Tick) /\ WF_timervars(CheckTimers) /\ WF_timervars(SynchAllModules)

-----------------------------------------------------------------------------
(* Properties. *)

\* The list is in the order of the next runs: CheckTimers_cb and NextSchedule
\* look at its first element only.
Sorted ==
  \A i, j \in DOMAIN timerlist : i < j => due[timerlist[i]] <= due[timerlist[j]]

Ran(t) == since[t] > 0 /\ since'[t] = 0 /\ t \in Listed

\* AddTimer and CODINGMODULES.txt: a handler is called when at least its
\* interval has passed since it was added or called last, whatever timers were
\* deleted, whoever was loaded and however often the timeout was moved since.
NeverEarly == [][\A t \in Timers : Ran(t) => since[t] >= interval[t]]_timervars

\* A timer that is not due is never waited for in vain: a timeout that is
\* pending is no later than the first timer, or the retry delay.
NeverSleepsOver ==
  armed # Idle /\ timerlist # <<>> =>
    armed <= Most(RetryDelay, due[Head(timerlist)])

\* The API calls and the events that move the timeout or take a timer away.
Disturbed ==
  \/ \E t \in Timers : AddTimer(t) \/ DelTimer(t) \/ SetTimerInterval(t)
  \/ \E m \in Modules : UnloadModule(m)

\* One timer per wake-up, and ten seconds to the next wake-up when others are
\* due as well: as long as wake-ups go on and nobody touches the list, no timer
\* is starved by the others.
NoStarvation ==
  <>[][~Disturbed]_timervars /\ []<>(armed # Idle)
    => \A t \in CoreTimers : []<><<Ran(t)>>_timervars

\* CODINGMODULES.txt: NeoStats checks the timers and calls the routine when at
\* least the interval has passed.  Once nobody touches the list any more, every
\* timer of the core runs again and again.
TimersKeepRunning ==
  <>[][~Disturbed]_timervars => \A t \in CoreTimers : []<><<Ran(t)>>_timervars

=============================================================================
