---------------------------- MODULE RemoteLogging ----------------------------
(***************************************************************************)
(* Logging control of a unit without a log writer.  Its switch starts and  *)
(* stops the units that log, by the CDMP LOGGING command, and a start that *)
(* is wanted is sent again when such a unit appears or restarts: on the    *)
(* status the units share, or on a report of the restart monitor, which    *)
(* follows each unit's record, its heartbeats and its LOGGING feature.     *)
(*                                                                         *)
(* The monitor and the importer run on the CDMP work queue, the status     *)
(* handler on the bus thread, the sending task on the configuration work   *)
(* queue: the task takes what is wanted under a lock and sends after it.   *)
(***************************************************************************)
EXTENDS Naturals, Sequences, FiniteSets

CONSTANTS Loggers,      \* units with a log writer
          SlotCount,    \* K_MAX_TARGETS - 1: targets that are a UID
          MaxEvents     \* bound: requests, boots, restarts, a logger's own acts

ASSUME RemoteAssumption == SlotCount \in Nat /\ MaxEvents \in Nat

VARIABLES unit,         \* a logger: "down", "booting" or "ready", and its status
          table,        \* the loggers online in this unit's device table
          copy,         \* LOGGING_STATUS records this unit holds
          notify,       \* a call of the state handlers is scheduled
          hasLogging,   \* has_logging_: features with LOGGING
          armed,        \* restarted_: units whose return is to be reported
          statusEmpty,  \* is_status_empty_
          published,    \* published_ of the importer
          bus,          \* StatusUpdated on its way to the control
          unavailable,  \* is_unavailable_
          all,          \* targets_[0]
          slots,        \* targets_[1..]
          restarted,    \* restarted_devices_
          reassert,     \* is_status_reassert_due_
          task,         \* "idle", "due" or "sending"; "resend" if due again
          taken,        \* what Process() took
          wish,         \* ghost: what was requested last of a logger
          heard,        \* ghost: the command a logger got last since it booted
          left          \* events left

unitVars    == <<unit, heard>>
monitorVars == <<hasLogging, armed, statusEmpty>>
controlVars == <<all, slots, restarted, reassert, task, taken, wish>>
statusVars  == <<published, bus, unavailable>>
remoteVars  == <<unitVars, table, copy, notify, monitorVars, statusVars, controlVars, left>>

NoCopy   == [has |-> FALSE, status |-> "Stopped", stale |-> FALSE]
NoTarget == [uid |-> "none", wanted |-> "None", due |-> FALSE]
Nothing  == [all |-> NoTarget, slots |-> <<>>, restarted |-> {}, reassert |-> FALSE]

(* Some of the loggers were up and in the table before this control, and all *)
(* of them may have been asked for something by now.                        *)
RemoteInit == \E up \in SUBSET Loggers, asked \in {"None", "Start"}:
  /\ unit = [u \in Loggers |-> [run |-> IF u \in up THEN "ready" ELSE "down", status |-> "Stopped"]]
  /\ table = up /\ copy = [u \in Loggers |-> [NoCopy EXCEPT !.has = u \in up]] /\ notify = TRUE
  /\ hasLogging = up /\ armed = {} /\ statusEmpty = FALSE
  /\ published = "none" /\ bus = <<>> /\ unavailable = FALSE
  /\ all = IF asked = "None" THEN NoTarget ELSE [uid |-> "all", wanted |-> asked, due |-> TRUE]
  /\ slots = [i \in 1..SlotCount |-> NoTarget] /\ taken = Nothing
  /\ restarted = {} /\ reassert = FALSE /\ task = IF asked = "None" THEN "idle" ELSE "due"
  /\ wish = [u \in Loggers |-> asked] /\ heard = [u \in Loggers |-> "None"]
  /\ left = MaxEvents

Rescheduled == IF task = "sending" THEN "resend" ELSE IF task = "idle" THEN "due" ELSE task

-----------------------------------------------------------------------------
\* The loggers and what this unit hears of them.

Boot(u) ==
  /\ left > 0 /\ unit[u].run = "down" /\ u \notin table
  /\ unit' = [unit EXCEPT ![u] = [run |-> "booting", status |-> "Stopped"]]
  /\ heard' = [heard EXCEPT ![u] = "None"]
  /\ left' = left - 1
  /\ UNCHANGED <<table, copy, notify, monitorVars, statusVars, controlVars>>

(* The log writer is built: command handler first, then the record. *)
WriterBuilt(u) ==
  /\ unit[u].run = "booting"
  /\ unit' = [unit EXCEPT ![u].run = "ready"]
  /\ UNCHANGED <<heard, table, copy, notify, monitorVars, statusVars, controlVars, left>>

PowerOff(u) ==
  /\ unit[u].run = "ready" /\ left > 0
  /\ unit' = [unit EXCEPT ![u].run = "down"]
  /\ UNCHANGED <<heard, table, copy, notify, monitorVars, statusVars, controlVars, left>>

(* A start, stop or failure of the logger's own. *)
Acts(u, status) ==
  /\ unit[u].run = "ready" /\ left > 0 /\ status # unit[u].status
  /\ status = "Failed" => unit[u].status = "Active"
  /\ status = "Stopped" => unit[u].status = "Active"
  /\ unit' = [unit EXCEPT ![u].status = status]
  /\ heard' = [heard EXCEPT ![u] = "own"]
  /\ left' = left - 1
  /\ UNCHANGED <<table, copy, notify, monitorVars, statusVars, controlVars>>

(* IsLoggingUnit(): by its features, or by the copy it left. *)
IsLoggingUnit(u, features) == features \/ copy[u].has

(* JOINED. *)
Joins(u) ==
  LET features == unit[u].run = "ready" IN
  /\ unit[u].run # "down" /\ u \notin table
  /\ table' = table \cup {u}
  /\ hasLogging' = IF features THEN hasLogging \cup {u} ELSE hasLogging \ {u}
  /\ armed' = IF IsLoggingUnit(u, features) THEN armed \cup {u} ELSE armed
  /\ UNCHANGED <<unitVars, copy, notify, statusEmpty, statusVars, controlVars, left>>

(* RESTARTED within the heartbeat timeout: by a reboot, before or after    *)
(* its writer is built, or by the COM service of the unit, whose writer    *)
(* goes on.  The copy stays, stale.                                        *)
Restarts(u, reboot, run) ==
  LET features == run = "ready" IN
  /\ left > 0 /\ u \in table
  /\ reboot \/ (features /\ unit[u].run = "ready")
  /\ unit' = [unit EXCEPT ![u] = IF reboot THEN [run |-> run, status |-> "Stopped"] ELSE @]
  /\ heard' = [heard EXCEPT ![u] = IF reboot THEN "None" ELSE @]
  /\ copy' = IF copy[u].has THEN [copy EXCEPT ![u].stale = TRUE] ELSE copy
  /\ hasLogging' = IF features THEN hasLogging \cup {u} ELSE hasLogging \ {u}
  /\ armed' = IF IsLoggingUnit(u, features) THEN armed \cup {u} ELSE armed
  /\ left' = left - 1
  /\ UNCHANGED <<table, notify, statusEmpty, statusVars, controlVars>>

(* LEFT, after the heartbeat timeout: the copy goes with the unit. *)
Leaves(u) ==
  /\ u \in table /\ unit[u].run = "down"
  /\ table' = table \ {u}
  /\ copy' = [copy EXCEPT ![u] = NoCopy]
  /\ notify' = (notify \/ copy[u].has)
  /\ armed' = armed \ {u} /\ hasLogging' = hasLogging \ {u}
  /\ UNCHANGED <<unitVars, statusEmpty, statusVars, controlVars, left>>

Fresh(u) == [has |-> TRUE, status |-> unit[u].status, stale |-> FALSE]

(* The unit's record is applied; the handlers hear of a new value only. *)
RecordApplied(u) ==
  /\ u \in table /\ unit[u].run = "ready" /\ copy[u] # Fresh(u)
  /\ copy' = [copy EXCEPT ![u] = Fresh(u)]
  /\ notify' = (notify \/ ~copy[u].has \/ copy[u].status # unit[u].status)
  /\ UNCHANGED <<unitVars, table, monitorVars, statusVars, controlVars, left>>

-----------------------------------------------------------------------------
\* CanbusComLoggingRestartMonitor and NetworkStateImporter, on the CDMP work queue.

Holders(c) == {u \in Loggers: c[u].has}

(* LoggingNetworkState::Combine(). *)
Combine(c) ==
  IF Holders(c) = {} THEN "Unavailable"
  ELSE IF \E u \in Holders(c): c[u].status = "Active" THEN "Active"
  ELSE IF \E u \in Holders(c): c[u].status = "Failed" THEN "Failed" ELSE "Stopped"

(* Resolve(): the units of `among` that are settled, and those reported.   *)
Settled(c, a, among, toRule) == {u \in a \cap among \cap Holders(c): toRule \/ ~c[u].stale}
Reported(c, a, among, toRule) ==
  IF toRule THEN {} ELSE {u \in Settled(c, a, among, FALSE): c[u].status = "Stopped"}

(* OnLoggingUnitRestarted() for each of them. *)
Report(units) ==
  /\ restarted' = restarted \cup units
  /\ task' = IF units = {} THEN task ELSE Rescheduled
  /\ UNCHANGED <<all, slots, reassert, taken, wish>>

(* Mutant: a feature that was gained after the join arms nothing. *)
MutantIgnoresGained(u, features) == armed

(* OnHeartbeat(): a unit that gains LOGGING is armed. *)
ArmedByHeartbeat(u, features) ==
  IF features /\ u \notin hasLogging THEN armed \cup {u} ELSE armed

(* What CdmpStateService::OnHeartbeat() makes of the copy: kept as current *)
(* when the digest matches, dropped when it is stale and the unit has no   *)
(* record, marked stale until the replay otherwise.                        *)
CopyAfterHeartbeat(u, sameVersion) ==
  IF ~copy[u].has THEN NoCopy
  ELSE IF unit[u].run = "ready" /\ copy[u].status = unit[u].status /\ (~copy[u].stale \/ sameVersion)
  THEN Fresh(u)
  ELSE IF unit[u].run = "booting" /\ copy[u].stale THEN NoCopy
  ELSE [copy[u] EXCEPT !.stale = TRUE]

(* A heartbeat: the state service, then the monitor.  In a spell without   *)
(* any copy the resolving is left to the state handler call that ends it.  *)
Heartbeat(u, sameVersion) ==
  LET features == unit[u].run = "ready"
      c == [copy EXCEPT ![u] = CopyAfterHeartbeat(u, sameVersion)]
      a == ArmedByHeartbeat(u, features)
  IN  /\ u \in table /\ unit[u].run # "down"
      /\ copy' = c
      /\ notify' = (notify \/ copy[u].has # c[u].has)
      /\ hasLogging' = IF features THEN hasLogging \cup {u} ELSE hasLogging \ {u}
      /\ IF statusEmpty THEN armed' = a /\ UNCHANGED controlVars
         ELSE /\ armed' = a \ Settled(c, a, {u}, FALSE)
              /\ Report(Reported(c, a, {u}, FALSE))
      /\ UNCHANGED <<unitVars, table, statusEmpty, statusVars, left>>

(* The status rule sends for a spell that ends with Stopped. *)
LeftToStatusRule == statusEmpty /\ Combine(copy) = "Stopped"

(* The state handlers: the monitor's OnStatesChanged(), the importer's. *)
NotifyStates ==
  /\ notify /\ Len(bus) < 2
  /\ notify' = FALSE
  /\ statusEmpty' = (Holders(copy) = {})
  /\ armed' = armed \ Settled(copy, armed, Loggers, LeftToStatusRule)
  /\ Report(Reported(copy, armed, Loggers, LeftToStatusRule))
  /\ published' = Combine(copy)
  /\ bus' = IF Combine(copy) = published THEN bus ELSE Append(bus, Combine(copy))
  /\ UNCHANGED <<unitVars, table, copy, hasLogging, unavailable, left>>

(* Republish(), on any thread: even what was published last.  Bound: not   *)
(* in the moment between a record and the scheduled handler call, where    *)
(* the rule fires before the monitor leaves the unit to it.                *)
Republish ==
  /\ left > 0 /\ Len(bus) < 2 /\ ~notify
  /\ published' = Combine(copy) /\ bus' = Append(bus, Combine(copy))
  /\ left' = left - 1
  /\ UNCHANGED <<unitVars, table, copy, notify, monitorVars, unavailable, controlVars>>

(* OnStatusUpdated(), on the bus thread: exactly Unavailable, then Stopped. *)
StatusUpdated ==
  /\ bus # <<>>
  /\ bus' = Tail(bus)
  /\ IF Head(bus) = "Stopped" /\ unavailable
     THEN reassert' = TRUE /\ task' = Rescheduled ELSE UNCHANGED <<reassert, task>>
  /\ unavailable' = (Head(bus) = "Unavailable")
  /\ UNCHANGED <<unitVars, table, copy, notify, monitorVars, published, all, slots,
                 restarted, taken, wish, left>>

-----------------------------------------------------------------------------
\* RemoteLoggingControl.

(* Submit() for all units: it replaces what any target wanted. *)
RequestAll(wanted) ==
  /\ left > 0
  /\ all' = [uid |-> "all", wanted |-> wanted, due |-> TRUE]
  /\ slots' = [i \in 1..SlotCount |-> NoTarget]
  /\ task' = Rescheduled
  /\ wish' = [u \in Loggers |-> wanted]
  /\ left' = left - 1
  /\ UNCHANGED <<unitVars, table, copy, notify, monitorVars, statusVars, restarted, reassert,
                 taken>>

Mine(u)   == {i \in 1..SlotCount: slots[i].uid = u /\ slots[i].wanted # "None"}
FreeSlots == {i \in 1..SlotCount: slots[i].wanted = "None"
                                    \/ (slots[i].wanted = "Stop" /\ ~slots[i].due)}

(* Submit() for one unit: its slot, or the first free one, or dropped. *)
RequestOne(u, wanted) ==
  LET choice == IF Mine(u) # {} THEN Mine(u) ELSE FreeSlots IN
  /\ left > 0 /\ choice # {}
  /\ \E i \in choice:
       /\ \A j \in choice: i <= j
       /\ slots' = [slots EXCEPT ![i] = [uid |-> u, wanted |-> wanted, due |-> TRUE]]
  /\ task' = Rescheduled
  /\ wish' = [wish EXCEPT ![u] = wanted]
  /\ left' = left - 1
  /\ UNCHANGED <<unitVars, table, copy, notify, monitorVars, statusVars, all, restarted,
                 reassert, taken>>

Dropped(target) == IF target.wanted = "Start" THEN [target EXCEPT !.wanted = "None"] ELSE target
Obeyed(u, start) ==
  IF start THEN [u EXCEPT !.status = "Active"]
  ELSE IF u.status = "Active" THEN [u EXCEPT !.status = "Stopped"] ELSE u

(* Another unit stops logging, everywhere: HandleLoggingCommand(). *)
PeerStops ==
  /\ left > 0
  /\ all' = Dropped(all) /\ slots' = [i \in 1..SlotCount |-> Dropped(slots[i])]
  /\ unit' = [u \in Loggers |-> IF unit[u].run = "ready" THEN Obeyed(unit[u], FALSE) ELSE unit[u]]
  /\ heard' = [u \in Loggers |-> IF unit[u].run = "ready" THEN "Stop" ELSE heard[u]]
  /\ wish' = [u \in Loggers |-> IF wish[u] = "Start" THEN "None" ELSE wish[u]]
  /\ left' = left - 1
  /\ UNCHANGED <<table, copy, notify, monitorVars, statusVars, restarted, reassert, task, taken>>

(* Process() takes what it acts on, under the lock. *)
TakeTargets ==
  /\ task = "due"
  /\ task' = "sending"
  /\ taken' = [all |-> all, slots |-> slots, restarted |-> restarted, reassert |-> reassert]
  /\ all' = [all EXCEPT !.due = FALSE]
  /\ slots' = [i \in 1..SlotCount |-> [slots[i] EXCEPT !.due = FALSE]]
  /\ restarted' = {} /\ reassert' = FALSE
  /\ UNCHANGED <<unitVars, table, copy, notify, monitorVars, statusVars, wish, left>>

Resolves(u)   == u \in table \cap hasLogging
Want(wanted)  == {u \in Loggers: \E i \in 1..SlotCount:
                    taken.slots[i].uid = u /\ taken.slots[i].wanted = wanted}
Due(wanted)   == {u \in Loggers: \E i \in 1..SlotCount:
                    taken.slots[i].uid = u /\ taken.slots[i].wanted = wanted /\ taken.slots[i].due}
StoppedAlone  == {u \in Want("Stop"): Resolves(u)}
AllWant       == taken.all.wanted = "Start"

(* Mutant: a unit that is back gets the start for all, its own stop or not. *)
MutantStopsForgotten(u) == AllWant \/ u \in Want("Start")

(* A unit that is back is wanted to log. *)
WantedBack(u) == (AllWant /\ u \notin StoppedAlone) \/ (u \in Want("Start") /\ Resolves(u))

(* The units a start goes to: by a request of their own, by the status     *)
(* rule and by the monitor's report.  A broadcast reaches every unit.      *)
BroadcastStart ==
  /\ AllWant
  /\ taken.all.due \/ (taken.reassert /\ StoppedAlone = {})
Starts ==
  LET requested == {u \in Due("Start"): Resolves(u)}
      byRule == IF ~taken.reassert THEN {}
                ELSE IF AllWant
                THEN IF BroadcastStart THEN {} ELSE {u \in Loggers: Resolves(u)} \ StoppedAlone
                ELSE {u \in Want("Start"): Resolves(u)}
      byMonitor == IF BroadcastStart THEN {} ELSE {u \in taken.restarted: WantedBack(u)}
  IN  requested \cup byRule \cup byMonitor \cup (IF BroadcastStart THEN Loggers ELSE {})
Stops ==
  IF taken.all.due /\ taken.all.wanted = "Stop" THEN Loggers ELSE {u \in Due("Stop"): Resolves(u)}

(* A request of a unit's own is sent after the one for all units. *)
Order(u) ==
  IF u \in Due("Stop") /\ Resolves(u) THEN "Stop"
  ELSE IF u \in Starts THEN "Start" ELSE IF u \in Stops THEN "Stop" ELSE "None"

(* The commands go out; a unit whose handler is there follows them. *)
SendCommands ==
  /\ task \in {"sending", "resend"}
  /\ unit' = [u \in Loggers |-> IF unit[u].run = "ready" /\ Order(u) # "None"
                                THEN Obeyed(unit[u], Order(u) = "Start") ELSE unit[u]]
  /\ heard' = [u \in Loggers |-> IF unit[u].run = "ready" /\ Order(u) # "None"
                                 THEN Order(u) ELSE heard[u]]
  /\ task' = IF task = "resend" THEN "due" ELSE "idle"
  /\ taken' = Nothing
  /\ UNCHANGED <<table, copy, notify, monitorVars, statusVars, all, slots, restarted, reassert,
                 wish, left>>

RemoteNext ==
  \/ \E u \in Loggers:
       \/ Boot(u) \/ WriterBuilt(u) \/ PowerOff(u)
       \/ \E status \in {"Active", "Stopped", "Failed"}: Acts(u, status)
       \/ Joins(u) \/ Leaves(u) \/ RecordApplied(u)
       \/ \E sameVersion \in BOOLEAN: Heartbeat(u, sameVersion)
       \/ \E reboot \in BOOLEAN, run \in {"booting", "ready"}: Restarts(u, reboot, run)
       \/ \E wanted \in {"Start", "Stop"}: RequestOne(u, wanted)
  \/ \E wanted \in {"Start", "Stop"}: RequestAll(wanted)
  \/ PeerStops \/ Republish \/ NotifyStates \/ StatusUpdated \/ TakeTargets \/ SendCommands

RemoteSpec == RemoteInit /\ [][RemoteNext]_remoteVars

-----------------------------------------------------------------------------
(* Nothing is under way, every record is current and every heartbeat that  *)
(* would change anything has come.                                         *)
Quiet ==
  /\ ~notify /\ bus = <<>> /\ task = "idle"
  /\ \A u \in Loggers: unit[u].run = "ready" =>
       u \in table /\ copy[u] = Fresh(u) /\ u \in hasLogging /\ u \notin armed
  /\ \A u \in Loggers: unit[u].run # "booting"

(* A wanted start is not lost: once it is quiet, a logger that is wanted   *)
(* to log does, or was told to since it booted, or went its own way;       *)
(* whichever way it came or came back, alone or with others, and in        *)
(* whatever order its record, its features and its heartbeat arrived.      *)
WantedStartArrives ==
  Quiet => \A u \in Loggers:
    unit[u].run = "ready" /\ wish[u] = "Start" /\ unit[u].status = "Stopped" =>
      heard[u] \in {"Start", "own"}

(* A unit that was stopped on its own stays so while its slot remembers    *)
(* the stop: no start for all units undoes it.                             *)
StopStands ==
  [][\A u \in Loggers:
       (\E i \in 1..SlotCount: taken.slots # <<>> /\ taken.slots[i] = [uid |-> u, wanted |-> "Stop", due |-> FALSE])
         /\ u \in table /\ u \in hasLogging /\ ~taken.all.due
       => heard'[u] # "Start" \/ heard[u] = "Start"]_remoteVars

(* Remote logging control: a start that is wanted of a logger arrives,     *)
(* whichever way and in whatever order the unit came back, and no start    *)
(* for all units undoes the stop of one.                                   *)
RemoteLoggingSafe == []WantedStartArrives /\ StopStands
=============================================================================
