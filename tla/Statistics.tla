------------------------------ MODULE Statistics ------------------------------
(***************************************************************************)
(* A statistic of StatServ (modules/statserv/stats.c): the number of users  *)
(* and its highest values of the day, the week, the month and ever, as       *)
(* network.c counts, saves and loads it.  A timer saves it every ten         *)
(* minutes, another one resets the values of the periods at midnight; a      *)
(* crash loses what was not saved, and what is loaded is kept only if its    *)
(* stamp says that it is of the present day, week and month.                *)
(*                                                                         *)
(* Running totals, averages and the times of the records are left out.       *)
(* Days are those of one year after January 1st, whose stamp a record that   *)
(* was never stamped seems to have; timers run within the hour.              *)
(***************************************************************************)
EXTENDS Integers, FiniteSets

CONSTANTS
  LastDay,       \* days 1 .. LastDay of the year, tm_yday; 0 is January 1st
  FirstWday,     \* tm_wday of January 1st
  WeekDays,      \* 7
  FirstDays,     \* days with tm_mday = 1
  MaxUsers,      \* a bound on the users
  StopsAtMidnight  \* whether StatServ may be unloaded between midnight and the reset

Days == 1 .. LastDay

ASSUME StatisticsAssumption ==
  /\ LastDay \in Nat \ {0} /\ FirstDays \subseteq Days
  /\ WeekDays \in Nat \ {0} /\ FirstWday \in 0 .. WeekDays - 1
  /\ MaxUsers \in Nat /\ StopsAtMidnight \in BOOLEAN

VARIABLES
  day,           \* the present day
  up,            \* StatServ is loaded
  stat,          \* networkstats.users
  saved,         \* the record in the database; Fresh if there is none
  due,           \* the reset of midnight has not run yet
  slow,          \* nor has a save that was due before midnight
  peak           \* history: the highest numbers counted in the periods

statvars == <<day, up, stat, saved, due, slow, peak>>

Wday(d) == (d + FirstWday) % WeekDays
Week(d) == (d + WeekDays - Wday(d)) \div WeekDays       \* WEEKNUM
Month(d) == Cardinality({f \in FirstDays : f <= d})

Stamp(d) == [day |-> d, week |-> Week(d), month |-> Month(d)]
NoStamp == [day |-> 0, week |-> 0, month |-> 0]

Most(a, b) == IF a <= b THEN b ELSE a

Periods == {"daily", "weekly", "monthly", "alltime"}
Highest == [Periods -> 0 .. MaxUsers]
NoUsers == [p \in Periods |-> 0]

\* What static storage holds before anything was counted or loaded.
Fresh == [stamp |-> NoStamp, current |-> 0, max |-> NoUsers]

Statistic == [stamp : {NoStamp} \cup {Stamp(d) : d \in Days}, current : 0 .. MaxUsers, max : Highest]

StatsTypeOK ==
  /\ day \in Days
  /\ up \in BOOLEAN /\ due \in BOOLEAN /\ slow \in BOOLEAN
  /\ stat \in Statistic /\ saved \in Statistic
  /\ peak \in Highest

-----------------------------------------------------------------------------
(* stats.c *)

Raised(max, n) == [p \in Periods |-> Most(max[p], n)]

\* IncStatistic, until n users are counted.
Counted(s, n) == [s EXCEPT !.current = n, !.max = Raised(@, n)]

\* ResetStatistic and PostLoadStatistic reset the periods of ps to n.
Restarted(max, ps, n) == [p \in Periods |-> IF p \in ps THEN n ELSE max[p]]

\* The periods that begin with day d.
Begun(d) ==
  {"daily"} \cup {p \in {"weekly"} : Wday(d) = 0} \cup {p \in {"monthly"} : d \in FirstDays}

OverMutant(s, d) ==  \* the highest of the day stays
  {p \in {"weekly"} : s.week # Week(d)} \cup {p \in {"monthly"} : s.month # Month(d)}
\* The periods that are over on day d, since the stamp s.
Over(s, d) ==
  {p \in {"daily"} : s.day # d} \cup {p \in {"weekly"} : s.week # Week(d)}
    \cup {p \in {"monthly"} : s.month # Month(d)}

PostLoad(s) == [s EXCEPT !.current = 0, !.max = Restarted(@, Over(s.stamp, day), 0)]

PreSave(s) == [s EXCEPT !.stamp = Stamp(day)]

-----------------------------------------------------------------------------
(* StatServ *)

Seen(n) == peak' = Raised(peak, n)

AddNetworkUser ==
  /\ up /\ stat.current < MaxUsers
  /\ stat' = Counted(stat, stat.current + 1)
  /\ Seen(stat.current + 1)
  /\ UNCHANGED <<day, up, saved, due, slow>>

DelNetworkUser ==
  /\ up /\ stat.current > 0
  /\ stat' = [stat EXCEPT !.current = @ - 1]
  /\ UNCHANGED <<day, up, saved, due, slow, peak>>

ModInitMutant(n) ==  \* nothing is loaded
  /\ ~up
  /\ up' = TRUE
  /\ stat' = Counted(Fresh, n)
  /\ Seen(n)
  /\ UNCHANGED <<day, saved, due, slow>>
\* LoadNetworkStats, and InitUserStats counts the n users there are.
ModInit(n) ==
  /\ ~up
  /\ up' = TRUE
  /\ stat' = Counted(PostLoad(saved), n)
  /\ Seen(n)
  /\ UNCHANGED <<day, saved, due, slow>>

SaveNetworkStatsMutant ==  \* stamped before it is stored
  /\ saved' = PreSave(stat)
  /\ stat' = PreSave(stat)
\* The stamp that is stored is that of the save before.
SaveNetworkStats ==
  /\ saved' = stat
  /\ stat' = PreSave(stat)

\* A save that is due after midnight comes after the reset (Timers!Sorted).
SaveStatsTimer ==
  /\ up /\ (due => slow)
  /\ SaveNetworkStats
  /\ slow' = FALSE
  /\ UNCHANGED <<day, up, due, peak>>

Stopped == up' = FALSE /\ stat' = Fresh /\ due' = FALSE /\ slow' = FALSE

\* An unload, or an orderly end of NeoStats.
ModFini ==
  /\ up /\ (StopsAtMidnight \/ ~due)
  /\ saved' = stat
  /\ Stopped
  /\ UNCHANGED <<day, peak>>

Crash ==
  /\ up
  /\ Stopped
  /\ UNCHANGED <<day, saved, peak>>

ResetStatisticsTimer ==
  /\ up /\ due
  /\ stat' = [stat EXCEPT !.max = Restarted(@, Begun(day), stat.current)]
  /\ due' = FALSE /\ slow' = FALSE
  /\ UNCHANGED <<day, up, saved, peak>>

\* A save may be due by then, and run late.
Midnight ==
  /\ day < LastDay /\ ~due
  /\ day' = day + 1
  /\ due' = up /\ slow' \in {FALSE, up}
  /\ peak' = Restarted(peak, Begun(day + 1), stat.current)
  /\ UNCHANGED <<up, stat, saved>>

-----------------------------------------------------------------------------
StatsInit ==
  /\ day = 1
  /\ up = FALSE /\ stat = Fresh /\ saved = Fresh
  /\ due = FALSE /\ slow = FALSE
  /\ peak = NoUsers

StatsNext ==
  \/ AddNetworkUser \/ DelNetworkUser
  \/ \E n \in 0 .. MaxUsers : ModInit(n)
  \/ SaveStatsTimer \/ ModFini \/ Crash
  \/ ResetStatisticsTimer \/ Midnight

StatsSpec == StatsInit /\ [][StatsNext]_statvars

-----------------------------------------------------------------------------
(* Properties. *)

\* "Only load weekly stats if week not changed" (stats.c): whatever was saved
\* when, and whenever StatServ crashed and came back, what it calls the highest
\* number of the day, the week or the month was counted in that period.
HighestOfPeriod ==
  up /\ ~due => \A p \in Periods : stat.max[p] <= peak[p]

\* The percentages (GetDailyPercent) are at most 100, and the highest of a day is
\* one of its week and its month, though these begin on different days and
\* some are lost by a crash.
PeriodsNested ==
  LET max == stat.max
  IN  up => /\ stat.current <= max["daily"]
            /\ max["daily"] <= max["weekly"] /\ max["daily"] <= max["monthly"]
            /\ max["weekly"] <= max["alltime"] /\ max["monthly"] <= max["alltime"]

\* A record of all times that was saved is never lost or lowered.
RecordsSurvive ==
  [][/\ saved'.max["alltime"] >= saved.max["alltime"]
     /\ up' => stat'.max["alltime"] >= saved.max["alltime"]]_statvars

=============================================================================
