--------------------------- MODULE LoggingTriggers ---------------------------
(***************************************************************************)
(* What starts and stops logging on a unit with a log writer: the          *)
(* configured triggers, each following a switch that a sensor publishes,   *)
(* the LOGGING command of another unit, the SMP group, and a configuration *)
(* stored on the unit, which stops logging until a switch is moved again.  *)
(*                                                                         *)
(* The storing thread reports the update (LoggingController, its triggers, *)
(* then the stop), the configuration work queue rebuilds the triggers, the *)
(* bus thread delivers the values, the publisher's queue publishes them.   *)
(***************************************************************************)
EXTENDS Naturals, Sequences, FiniteSets

CONSTANTS Triggers,      \* configured triggers, each with a sensor of its own
          Target,          \* the target_uid of each: "all", "own" or "other"
          TriggerEvents    \* bound: turns, stores and requests

ASSUME TriggersAssumption ==
  /\ Target \in [Triggers -> {"all", "own", "other"}]
  /\ "all" \notin Triggers
  /\ TriggerEvents \in Nat

VARIABLES sw,            \* the position of each switch
          sensors,       \* sensors of the stored configuration
          live,          \* sensors that are processed
          restart,       \* the sensors are to be restarted from the configuration
          marked,        \* processed readings marked as updated in the frame
          pubTaken,      \* readings the publisher took and has not published yet
          busEvents,     \* queued on the Sensors channel
          dispatch,      \* the value on its way to the set it was taken for
          tset,          \* logging_trigger_set_: the triggers' state, or NoSet
          setGuard,      \* the set's DispatchGuard is held by a delivery
          setLock,       \* trigger_set_lock_: "free", "rebuild" or "report"
          isUpdated,       \* is_configuration_updated_
          rebuild,       \* rebuild_task_: "idle", "due", "building", "again"
          report,        \* ConfigurationUpdateLoggingStop::OnStored()
          wants,         \* what the writer and the network half were asked last
          route,         \* Route() of each thread: what is left of it
          phase,         \* "built", "started", then the steps of Teardown()
          leftOn,        \* ghost: switches on since before the last update's stop
          clean,         \* ghost: no request since the last update's baselines
          eventsLeft

sensorVars  == <<sw, sensors, live, restart>>
publishVars == <<marked, pubTaken, busEvents, dispatch>>
setVars     == <<tset, setGuard, setLock, isUpdated, rebuild>>
askVars     == <<wants, route>>
triggerVars == <<sensorVars, publishVars, setVars, report, askVars, phase, leftOn, clean,
                 eventsLeft>>

Unknown  == 2
NoSet    == [t \in {} |-> Unknown]
NoEvent  == [is |-> FALSE, t |-> "none", v |-> 0]
NoRoute  == [halves |-> {}, want |-> "Stop", by |-> "none"]
NoReport == [at |-> "idle", kind |-> "none", known |-> {}]
Types    == {"Sensors", "LoggingControl", "Other"}

(* A set that was just built: every trigger subscribed, nothing known. *)
NewSet(first) == [t \in Triggers |-> [last |-> Unknown, first |-> first, withdrawn |-> FALSE]]

(* Build(), after the role: the set, and a replay for it. *)
TriggersInit ==
  /\ sw \in [Triggers -> 0..1] /\ sensors = Triggers /\ live = Triggers /\ restart = FALSE
  /\ marked = Triggers /\ pubTaken = {} /\ busEvents = <<>> /\ dispatch = NoEvent
  /\ tset = NewSet("OneStarts") /\ setGuard = FALSE /\ setLock = "free"
  /\ isUpdated = FALSE /\ rebuild = "idle" /\ report = NoReport
  /\ wants = [h \in {"writer", "network"} |-> "Stop"]
  /\ route = [thread \in {"bus", "store", "other"} |-> NoRoute]
  /\ phase = "built" /\ leftOn = {} /\ clean = FALSE /\ eventsLeft = TriggerEvents

Rebuilding == IF rebuild = "building" THEN "again" ELSE IF rebuild = "idle" THEN "due" ELSE rebuild
Spend      == eventsLeft > 0 /\ eventsLeft' = eventsLeft - 1

(* The halves WriterLoggingControl::Route() asks, the writer first. *)
HalvesOf(target) ==
  IF target = "all" THEN {"writer", "network"} ELSE IF target = "own" THEN {"writer"} ELSE {"network"}

-----------------------------------------------------------------------------
\* The sensors and SensorEventsPublisher.

Turn(t) ==
  /\ Spend
  /\ sw' = [sw EXCEPT ![t] = 1 - @]
  /\ marked' = IF t \in live THEN marked \cup {t} ELSE marked
  /\ leftOn' = leftOn \ {t}
  /\ UNCHANGED <<sensors, live, restart, pubTaken, busEvents, dispatch, setVars, report, askVars,
                 phase, clean>>

(* SensorsController restarts the sensors after a sensors update. *)
SensorsRestart ==
  /\ restart /\ restart' = FALSE
  /\ live' = sensors /\ marked' = sensors
  /\ UNCHANGED <<sw, sensors, pubTaken, busEvents, dispatch, setVars, report, askVars, phase,
                 leftOn, clean, eventsLeft>>

(* A tick takes the marked readings, only when the channel is empty. *)
TakeReadings ==
  /\ busEvents = <<>> /\ pubTaken = {} /\ marked # {}
  /\ pubTaken' = {[t |-> t, v |-> sw[t]] : t \in marked}
  /\ marked' = {}
  /\ UNCHANGED <<sensorVars, busEvents, dispatch, setVars, report, askVars, phase, leftOn, clean,
                 eventsLeft>>

(* It publishes what a subscription accepts, asked after the take. *)
PublishReading(r) ==
  /\ r \in pubTaken
  /\ pubTaken' = pubTaken \ {r}
  /\ busEvents' = IF tset = NoSet THEN busEvents ELSE Append(busEvents, r)
  /\ UNCHANGED <<sensorVars, marked, dispatch, setVars, report, askVars, phase, leftOn, clean,
                 eventsLeft>>

(* The bus thread takes an event for the set that is subscribed now. *)
TakeEvent ==
  /\ busEvents # <<>> /\ ~dispatch.is
  /\ busEvents' = Tail(busEvents)
  /\ dispatch' = IF tset = NoSet THEN NoEvent
                 ELSE [is |-> TRUE, t |-> Head(busEvents).t, v |-> Head(busEvents).v]
  /\ UNCHANGED <<sensorVars, marked, pubTaken, setVars, report, askVars, phase, leftOn, clean,
                 eventsLeft>>

-----------------------------------------------------------------------------
\* LoggingTriggerSet and WriterLoggingControl.

(* Mutant: a first 1 starts, whichever set reads it. *)
MutantFirstOneStarts(trigger, v) == v # trigger.last /\ (trigger.last = Unknown => v = 1)

(* Trigger::OnValue() requests a change; the first value only at boot. *)
TriggerActs(trigger, v) ==
  /\ v # trigger.last
  /\ trigger.last = Unknown => v = 1 /\ trigger.first = "OneStarts"

(* A delivery, inside the set's guard for as long as its request runs. *)
Deliver ==
  LET trigger == tset[dispatch.t]
      acts == TriggerActs(trigger, dispatch.v)
  IN  /\ dispatch.is /\ ~setGuard
      /\ dispatch' = NoEvent
      /\ IF trigger.withdrawn THEN UNCHANGED <<tset, setGuard, route, clean>>
         ELSE /\ tset' = [tset EXCEPT ![dispatch.t].last = dispatch.v]
              /\ setGuard' = acts
              /\ clean' = (clean /\ ~acts)
              /\ route' = IF ~acts THEN route
                          ELSE [route EXCEPT !["bus"] =
                                 [halves |-> HalvesOf(Target[dispatch.t]), by |-> dispatch.t,
                                  want |-> IF dispatch.v = 1 THEN "Start" ELSE "Stop"]]
      /\ UNCHANGED <<sensorVars, marked, pubTaken, busEvents, setLock, isUpdated, rebuild, report,
                     wants, phase, leftOn, eventsLeft>>

(* Route() asks the writer, then the network half. *)
RouteNext(thread) ==
  LET half == IF "writer" \in route[thread].halves THEN "writer" ELSE "network"
      rest == route[thread].halves \ {half}
  IN  /\ route[thread].halves # {}
      /\ wants' = [wants EXCEPT ![half] = route[thread].want]
      /\ route' = [route EXCEPT ![thread] = IF rest = {} THEN NoRoute ELSE [@ EXCEPT !.halves = rest]]
      /\ setGuard' = IF thread = "bus" THEN rest # {} ELSE setGuard
      /\ UNCHANGED <<sensorVars, publishVars, tset, setLock, isUpdated, rebuild, report, phase,
                     leftOn, clean, eventsLeft>>

Ask(want, halves) ==
  /\ Spend /\ route["other"] = NoRoute
  /\ route' = [route EXCEPT !["other"] = [halves |-> halves, want |-> want, by |-> "other"]]
  /\ clean' = FALSE
  /\ UNCHANGED <<sensorVars, publishVars, setVars, report, wants, phase, leftOn>>

(* A LOGGING command: the writer's; a stop drops the network half's starts. *)
HandleLoggingCommand(want) ==
  /\ phase \in {"built", "started", "noStop", "noTask"}
  /\ Ask(want, HalvesOf(IF want = "Stop" THEN "all" ELSE "own"))

(* The SMP logging group, and the MCUmgr hook of an upload. *)
MgmtRequest(want, target) == phase \in {"built", "started"} /\ Ask(want, HalvesOf(target))
OnUploadStarted           == phase \in {"built", "started"} /\ Ask("Stop", HalvesOf("own"))

-----------------------------------------------------------------------------
\* A stored configuration: OnStored(), then the store's own handler.

(* Before Start() a store stops nothing. *)
StoreConfiguration(kind) ==
  /\ Spend /\ report.at = "idle" /\ phase \in {"built", "started"}
  /\ IF kind = "Sensors" THEN sensors' \in SUBSET Triggers ELSE sensors' = sensors
  /\ report' = [NoReport EXCEPT !.kind = kind, !.at = IF phase = "started" THEN "flag" ELSE "handler"]
  /\ UNCHANGED <<sw, live, restart, publishVars, setVars, askVars, phase, leftOn, clean>>

(* Set before the lock, for a rebuild that takes it first. *)
ReportFlag ==
  /\ report.at = "flag"
  /\ isUpdated' = TRUE /\ report' = [report EXCEPT !.at = "lock"]
  /\ UNCHANGED <<sensorVars, publishVars, tset, setGuard, setLock, rebuild, askVars, phase, leftOn,
                 clean, eventsLeft>>

(* The resolver runs under the lock and outside the guard; one that throws *)
(* withdraws nothing, as a configuration that is not the sensors'.         *)
ReportResolve(checked) ==
  /\ report.at = "lock" /\ setLock = "free"
  /\ checked => report.kind = "Sensors" /\ tset # NoSet
  /\ IF tset = NoSet
     THEN report' = [report EXCEPT !.at = "stop"] /\ clean' = (route["other"] = NoRoute)
          /\ UNCHANGED setLock
     ELSE report' = [report EXCEPT !.at = "baseline", !.known = IF checked THEN sensors ELSE {"all"}]
          /\ setLock' = "report" /\ UNCHANGED clean
  /\ UNCHANGED <<sensorVars, publishVars, tset, setGuard, isUpdated, rebuild, askVars, phase,
                 leftOn,
                 eventsLeft>>

(* Mutant: the baselines are set beside a delivery in progress. *)
MutantBaselineBeside == TRUE

(* The dispatch under the guard waits for a delivery in progress. *)
GuardFree == ~setGuard

Baselined(t) ==
  [last |-> IF report.known = {"all"} \/ t \in report.known \/ tset[t].withdrawn
            THEN tset[t].last ELSE Unknown,
   first |-> "IsBaseline",
   withdrawn |-> IF report.known = {"all"} THEN tset[t].withdrawn ELSE t \notin report.known]

ReportBaseline ==
  /\ report.at = "baseline" /\ GuardFree
  /\ tset' = [t \in Triggers |-> Baselined(t)]
  /\ setLock' = "free" /\ report' = [report EXCEPT !.at = "stop"]
  /\ clean' = (route["other"] = NoRoute)
  /\ UNCHANGED <<sensorVars, publishVars, setGuard, isUpdated, rebuild, askVars, phase, leftOn,
                 eventsLeft>>

Flying(t) == pubTaken \cup {busEvents[i] : i \in 1..Len(busEvents)}
               \cup (IF dispatch.is THEN {[t |-> dispatch.t, v |-> dispatch.v]} ELSE {})
SawOff(t) == [t |-> t, v |-> 0] \in Flying(t) \/ (tset # NoSet /\ tset[t].last = 0)

ReportStop ==
  /\ report.at = "stop"
  /\ route' = [route EXCEPT !["store"] = [halves |-> HalvesOf("all"), want |-> "Stop", by |-> "update"]]
  /\ report' = [report EXCEPT !.at = "route"]
  /\ leftOn' = {t \in Triggers : sw[t] = 1 /\ ~SawOff(t)}
  /\ UNCHANGED <<sensorVars, publishVars, setVars, wants, phase, clean, eventsLeft>>

(* The store's own handler: a rebuild of the triggers, or of the sensors. *)
ReportEnd ==
  /\ report.at = "handler" \/ (report.at = "route" /\ route["store"] = NoRoute)
  /\ rebuild' = IF report.kind = "LoggingControl" /\ phase \in {"built", "started", "noStop"}
                THEN Rebuilding ELSE rebuild
  /\ restart' = (restart \/ report.kind = "Sensors")
  /\ report' = NoReport
  /\ UNCHANGED <<sw, sensors, live, publishVars, tset, setGuard, setLock, isUpdated, askVars,
                 phase, leftOn,
                 clean, eventsLeft>>

-----------------------------------------------------------------------------
\* RebuildTriggers(), on the configuration work queue.

(* Mutant: the old set goes beside a delivery in its body. *)
MutantGoesBeside == TRUE

(* A set's destructor detaches its guard, after a delivery in its body. *)
Detachable == ~setGuard

(* The old set goes first. *)
RebuildReset ==
  /\ rebuild = "due" /\ setLock = "free" /\ Detachable
  /\ setLock' = "rebuild" /\ rebuild' = "building"
  /\ tset' = NoSet /\ dispatch' = NoEvent
  /\ UNCHANGED <<sensorVars, marked, pubTaken, busEvents, setGuard, isUpdated, report, askVars,
                 phase,
                 leftOn, clean, eventsLeft>>

(* Mutant: the new set waits for the next change of its values. *)
MutantNoReplay == marked

(* ReplayFor(): every processed reading is published again. *)
Replay == live

(* A build that fails leaves no set until the next store. *)
RebuildSet(built) ==
  /\ rebuild \in {"building", "again"}
  /\ tset' = IF built THEN NewSet(IF isUpdated THEN "IsBaseline" ELSE "OneStarts") ELSE NoSet
  /\ marked' = IF built THEN Replay ELSE marked
  /\ setLock' = "free" /\ rebuild' = IF rebuild = "again" THEN "due" ELSE "idle"
  /\ UNCHANGED <<sensorVars, pubTaken, busEvents, dispatch, setGuard, isUpdated, report, askVars,
                 phase, leftOn, clean, eventsLeft>>

-----------------------------------------------------------------------------
\* LoggingController::Start() and Teardown().

StartController ==
  /\ phase = "built" /\ phase' = "started"
  /\ UNCHANGED <<sensorVars, publishVars, setVars, report, askVars, leftOn, clean, eventsLeft>>

(* The update stop and the SMP group go: each waits for one in its body. *)
DropUpdateStop ==
  /\ phase \in {"built", "started"} /\ report.at \notin {"flag", "lock", "baseline", "stop", "route"}
  /\ route["other"] = NoRoute
  /\ phase' = "noStop"
  /\ UNCHANGED <<sensorVars, publishVars, setVars, report, askVars, leftOn, clean, eventsLeft>>

(* No rebuild is queued, and one in progress is waited for. *)
CancelRebuild ==
  /\ phase = "noStop" /\ rebuild \notin {"building", "again"}
  /\ rebuild' = "idle" /\ phase' = "noTask"
  /\ UNCHANGED <<sensorVars, publishVars, tset, setGuard, setLock, isUpdated, report, askVars,
                 leftOn,
                 clean, eventsLeft>>

(* The inputs go: nothing requests from here on. *)
DropInputs ==
  /\ phase = "noTask" /\ Detachable /\ route["other"] = NoRoute
  /\ tset' = NoSet /\ dispatch' = NoEvent /\ phase' = "noInputs"
  /\ UNCHANGED <<sensorVars, marked, pubTaken, busEvents, setGuard, setLock, isUpdated, rebuild,
                 report,
                 askVars, leftOn, clean, eventsLeft>>

StopLogWriter ==
  /\ phase = "noInputs"
  /\ wants' = [wants EXCEPT !["writer"] = "Stop"] /\ phase' = "gone"
  /\ UNCHANGED <<sensorVars, publishVars, setVars, report, route, leftOn, clean, eventsLeft>>

TriggersNext ==
  \/ \E t \in Triggers: Turn(t)
  \/ SensorsRestart \/ TakeReadings \/ (\E r \in pubTaken: PublishReading(r)) \/ TakeEvent \/ Deliver
  \/ \E thread \in {"bus", "store", "other"}: RouteNext(thread)
  \/ \E want \in {"Start", "Stop"}: \/ HandleLoggingCommand(want)
                                    \/ \E target \in {"all", "own", "other"}: MgmtRequest(want, target)
  \/ OnUploadStarted
  \/ \E kind \in Types: StoreConfiguration(kind)
  \/ ReportFlag \/ (\E checked \in BOOLEAN: ReportResolve(checked)) \/ ReportBaseline
  \/ ReportStop \/ ReportEnd
  \/ RebuildReset \/ (\E built \in BOOLEAN: RebuildSet(built))
  \/ StartController \/ DropUpdateStop \/ CancelRebuild \/ DropInputs \/ StopLogWriter

TriggersSpec == TriggersInit /\ [][TriggersNext]_triggerVars

-----------------------------------------------------------------------------
(* After an update nothing starts by a switch that stayed on: whether its  *)
(* value was on its way, is replayed for rebuilt triggers or comes with    *)
(* restarted sensors, and whichever of the report and a rebuild is first.  *)
StartsByALaterTurn ==
  [][route["bus"] = NoRoute /\ route'["bus"] # NoRoute /\ route'["bus"].want = "Start"
       => route'["bus"].by \notin leftOn]_triggerVars

(* An update leaves both halves stopped, a trigger that was requesting a   *)
(* start when it came included.                                            *)
UpdateStops ==
  clean /\ report.at \in {"idle", "handler"} => wants = [h \in {"writer", "network"} |-> "Stop"]

(* The triggers do not miss their switch: once all is delivered, each that *)
(* is not withdrawn knows the position of a sensor that is processed.      *)
KnowsItsSwitch ==
  tset # NoSet /\ marked = {} /\ pubTaken = {} /\ busEvents = <<>> /\ ~dispatch.is
    /\ ~restart /\ report = NoReport =>
      \A t \in live: ~tset[t].withdrawn => tset[t].last = sw[t]

(* A controller that is gone leaves the writer stopped for good. *)
GoneMeansStopped == phase = "gone" => wants["writer"] = "Stop"

(* Logging triggers: only a turn of the switch after an update starts      *)
(* logging, an update stops it, a trigger knows where its switch is, and a *)
(* set that is torn down asks for nothing any more.                        *)
LoggingTriggersSafe == [](UpdateStops /\ KnowsItsSwitch /\ GoneMeansStopped) /\ StartsByALaterTurn
=============================================================================
