----------------------------- MODULE RateGroups -----------------------------
(***************************************************************************)
(* The scheduler of polled sensors: one task of the processing work queue  *)
(* ticks at the earliest deadline and runs every rate group that is due.   *)
(* ProcessingSchedulerService starts and stops it from another thread, at  *)
(* a start and a stop and around a pause.  Time goes on at any step, so a  *)
(* tick may start late and run past deadlines.                             *)
(***************************************************************************)
EXTENDS Naturals, Sequences, FiniteSetsExt

CONSTANTS Periods,   \* the periods of the groups in system ticks, ascending
          MaxUptime  \* bound: k_uptime_ticks()

VARIABLES uptime,        \* k_uptime_ticks()
          runsGroups,    \* is_running_
          lastAgain,     \* last_result_.reschedule of the task
          tickAt,        \* when the task is scheduled, 0 for not
          groupTick,     \* the tick in progress: where it is, its group, its time
          groupCaller,   \* the thread in Start() or Stop()
          groupDeadline, \* next_deadline of each group
          since,         \* ghost: when the groups were started
          ticks,         \* stats.ticks of each group since then
          overruns,      \* stats.overruns of each group since then
          thrown         \* ghost: runs of each group an exception ended

groupVars == <<uptime, runsGroups, lastAgain, tickAt, groupTick, groupCaller, groupDeadline,
               since, ticks,
               overruns, thrown>>

Groups == DOMAIN Periods
NoGroupTick == [at |-> "none", group |-> 1, now |-> 0]
Counts0 == [g \in Groups |-> 0]

RateGroupsInit ==
  /\ uptime = 0 /\ runsGroups = FALSE /\ lastAgain = FALSE /\ tickAt = 0 /\ groupTick = NoGroupTick
  /\ groupCaller = "idle" /\ groupDeadline = Counts0 /\ since = 0 /\ ticks = Counts0
  /\ overruns = Counts0 /\ thrown = Counts0

(* A deadline that passed is clamped to the next system tick by the kernel. *)
AtLeastNext(t) == IF t > uptime THEN t ELSE uptime + 1

(* GetEarliestDeadline(). *)
Earliest(d) == Min({d[g]: g \in Groups})

UptimePasses ==
  /\ uptime < MaxUptime /\ uptime' = uptime + 1
  /\ UNCHANGED <<runsGroups, lastAgain, tickAt, groupTick, groupCaller, groupDeadline, since,
                 ticks, overruns,
                 thrown>>

-----------------------------------------------------------------------------
\* The owner's thread.

(* Mutant: the task keeps the result of its last tick. *)
MutantSeeded == lastAgain

(* SetLastResult(): a tick that throws is retried. *)
Seeded == TRUE

StartGroups ==
  /\ groupCaller = "idle" /\ ~runsGroups
  /\ groupDeadline' = [g \in Groups |-> uptime + Periods[g]]
  /\ since' = uptime /\ ticks' = Counts0 /\ overruns' = Counts0 /\ thrown' = Counts0
  /\ lastAgain' = Seeded /\ runsGroups' = TRUE /\ tickAt' = Earliest(groupDeadline')
  /\ UNCHANGED <<uptime, groupTick, groupCaller>>

BeginStopGroups ==
  /\ groupCaller = "idle" /\ runsGroups
  /\ runsGroups' = FALSE /\ groupCaller' = "cancel"
  /\ UNCHANGED <<uptime, lastAgain, tickAt, groupTick, groupDeadline, since, ticks, overruns,
                 thrown>>

IsPending == tickAt # 0 \/ groupTick.at # "none"

(* Cancel(): takes the schedule, then waits for a tick in progress. *)
CancelTick ==
  /\ groupCaller = "cancel"
  /\ tickAt' = 0 /\ groupCaller' = IF IsPending THEN "wait" ELSE "idle"
  /\ UNCHANGED <<uptime, runsGroups, lastAgain, groupTick, groupDeadline, since, ticks, overruns,
                 thrown>>

(* Mutant: the task is cancelled once. *)
MutantAfterCancel == "idle"

(* Something was pending: it may have rescheduled meanwhile. *)
AfterCancel == "cancel"

CancelReturns ==
  /\ groupCaller = "wait" /\ groupTick.at = "none"
  /\ groupCaller' = AfterCancel
  /\ UNCHANGED <<uptime, runsGroups, lastAgain, tickAt, groupTick, groupDeadline, since, ticks,
                 overruns,
                 thrown>>

-----------------------------------------------------------------------------
\* The processing work queue.

BeginTick0 ==
  /\ tickAt # 0 /\ tickAt <= uptime /\ groupTick.at = "none"
  /\ tickAt' = 0
  /\ IF runsGroups THEN groupTick' = [at |-> "group", group |-> 1, now |-> uptime] /\ UNCHANGED lastAgain
                   ELSE groupTick' = NoGroupTick /\ lastAgain' = FALSE
  /\ UNCHANGED <<uptime, runsGroups, groupCaller, groupDeadline, since, ticks, overruns, thrown>>

IsDue(g) == groupDeadline[g] <= groupTick.now

NotDue ==
  /\ groupTick.at = "group" /\ groupTick.group \in Groups /\ ~IsDue(groupTick.group)
  /\ groupTick' = [groupTick EXCEPT !.group = @ + 1]
  /\ UNCHANGED <<uptime, runsGroups, lastAgain, tickAt, groupCaller, groupDeadline, since, ticks,
                 overruns,
                 thrown>>

(* The deadline goes on before the group runs. *)
BeginGroup ==
  LET g == groupTick.group
  IN  /\ groupTick.at = "group" /\ g \in Groups /\ IsDue(g)
      /\ groupDeadline' = [groupDeadline EXCEPT ![g] = @ + Periods[g]]
      /\ groupTick' = [groupTick EXCEPT !.at = "run"]
      /\ UNCHANGED <<uptime, runsGroups, lastAgain, tickAt, groupCaller, since, ticks, overruns,
                     thrown>>

(* Mutant: a late group starts a new phase. *)
MutantMissed(g) == [count |-> 1, next |-> uptime + Periods[g]]

(* The periods a run went past are skipped, on the group's phase. *)
Missed(g) ==
  LET n == IF groupDeadline[g] <= uptime THEN (uptime - groupDeadline[g]) \div Periods[g] + 1 ELSE 0
  IN  [count |-> n, next |-> groupDeadline[g] + n * Periods[g]]

RunGroup ==
  LET g == groupTick.group
  IN  /\ groupTick.at = "run"
      /\ ticks' = [ticks EXCEPT ![g] = @ + 1]
      /\ groupDeadline' = [groupDeadline EXCEPT ![g] = Missed(g).next]
      /\ overruns' = [overruns EXCEPT ![g] = @ + Missed(g).count]
      /\ groupTick' = [groupTick EXCEPT !.at = "group", !.group = @ + 1]
      /\ UNCHANGED <<uptime, runsGroups, lastAgain, tickAt, groupCaller, since, thrown>>

(* An exception that escapes the group ends the tick; the dispatcher       *)
(* reschedules with the task's last result, a deadline that has passed.    *)
GroupThrows ==
  /\ groupTick.at = "run"
  /\ thrown' = [thrown EXCEPT ![groupTick.group] = @ + 1]
  /\ groupTick' = NoGroupTick /\ tickAt' = IF lastAgain THEN uptime + 1 ELSE 0
  /\ UNCHANGED <<uptime, runsGroups, lastAgain, groupCaller, groupDeadline, since, ticks, overruns>>

(* Stop() may have begun: is_running_ is looked at again. *)
EndTick ==
  /\ groupTick.at = "group" /\ groupTick.group \notin Groups
  /\ lastAgain' = runsGroups
  /\ groupTick' = IF runsGroups THEN [NoGroupTick EXCEPT !.at = "reschedule"] ELSE NoGroupTick
  /\ UNCHANGED <<uptime, runsGroups, tickAt, groupCaller, groupDeadline, since, ticks, overruns,
                 thrown>>

(* TaskHandler(), after the tick returned. *)
RescheduleTick ==
  /\ groupTick.at = "reschedule"
  /\ groupTick' = NoGroupTick /\ tickAt' = AtLeastNext(Earliest(groupDeadline))
  /\ UNCHANGED <<uptime, runsGroups, lastAgain, groupCaller, groupDeadline, since, ticks,
                 overruns, thrown>>

RateGroupsNext ==
  \/ UptimePasses \/ StartGroups \/ BeginStopGroups \/ CancelTick \/ CancelReturns
  \/ BeginTick0 \/ NotDue \/ BeginGroup \/ RunGroup \/ GroupThrows \/ EndTick \/ RescheduleTick

-----------------------------------------------------------------------------
(* Once Stop() returned no tick runs and none is scheduled: the groups and *)
(* their readers may go.                                                   *)
StoppedIsQuiet == groupCaller = "idle" /\ ~runsGroups => ~IsPending

(* Groups that run are ticked: a tick is scheduled or in progress, also    *)
(* after one that threw, the first one included.                           *)
KeepsTicking == runsGroups => IsPending

(* Every period since the start is accounted for: it was run, counted as   *)
(* an overrun, or ended by an exception; the deadline stays on the phase.  *)
KeepsPhase ==
  \A g \in Groups:
    runsGroups /\ ~(groupTick.at = "run" /\ groupTick.group = g)
      => groupDeadline[g] = since + Periods[g] * (1 + ticks[g] + overruns[g] + thrown[g])
=============================================================================
