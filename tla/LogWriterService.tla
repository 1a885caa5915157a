-------------------------- MODULE LogWriterService --------------------------
(***************************************************************************)
(* The log writer of a unit (log_writer_service.cpp): a service whose      *)
(* transitions run on the caller's thread under the transition mutex, and  *)
(* the periodic tick on the writer's own work queue thread, which writes,  *)
(* rotates and may fail.  Both touch the log file; DoStop() takes it away  *)
(* from the tick by clearing is_running and cancelling the work until      *)
(* nothing was left to cancel.  What is written is left out: a tick either *)
(* writes or fails, a file is open or not.                                 *)
(***************************************************************************)
EXTENDS Naturals, Sequences

CONSTANT MaxFaults      \* bound: refused starts, failed writes and failed rotations of a behaviour

ASSUME FaultsAssumption == MaxFaults \in Nat

VARIABLES
    service,      \* ServiceBase::service_state_
    at,           \* where the transition in progress is inside DoStart() or DoStop()
    running,      \* LogWriterTask::is_running
    hasFailed,    \* LogWriterService::has_failed_
    file,         \* whether fs_stream_buf_ is an open log file
    rotationDue,  \* LogWriterTask::is_rotation_due
    timer,        \* whether the delayable work is scheduled or queued
    tick,         \* where the writer's thread is inside ProcessTick()
    bus,          \* StatusUpdated events the bus thread has not dispatched yet
    faults        \* faults so far

writerVars == <<service, at, running, hasFailed, file, rotationDue, timer, tick, bus, faults>>

ServiceState == {"STOPPED", "STARTING", "RUNNING", "STOPPING"}
DoStartStep == {"open", "begin", "arm"}
DoStopStep == {"cancel", "await", "close", "publish"}
TickStep == {"entered", "rotating", "reopening", "writing", "failing", "ending", "rearming"}

\* LoggingStatusReason; "Failed" stands for WriteFailed, NoSpace and RotationFailed, which are handled alike.
StopReason == {"Stopped", "FirmwareUpdate"}
Reason == StopReason \cup {"Failed"}
Status == [active : BOOLEAN, reason : Reason]

WriterInit ==
    /\ service = "STOPPED" /\ at = "none"
    /\ running = FALSE /\ hasFailed = FALSE /\ file = FALSE /\ rotationDue = FALSE
    /\ timer = FALSE /\ tick = "idle"
    /\ bus = <<>> /\ faults = 0

\* PublishStatus(): queued for the bus thread.
PublishStatus(isActive, reason) == bus' = Append(bus, [active |-> isActive, reason |-> reason])

Fault == faults < MaxFaults /\ faults' = faults + 1

-----------------------------------------------------------------------------
(* Start(): DoStart() on the caller's thread. *)

Start ==
    /\ service = "STOPPED"
    /\ service' = "STARTING" /\ at' = "open"
    /\ UNCHANGED <<running, hasFailed, file, rotationDue, timer, tick, bus, faults>>

\* The card, the configuration, the logger and the free space are there and the header is written,
OpenLogFile ==
    /\ at = "open"
    /\ file' = TRUE /\ rotationDue' = FALSE /\ at' = "begin"
    /\ UNCHANGED <<service, running, hasFailed, timer, tick, bus, faults>>

\* or one of them is not: every early return leaves no file, and ServiceBase the state it found.
RefuseStart ==
    /\ at = "open" /\ Fault
    /\ service' = "STOPPED" /\ at' = "none"
    /\ UNCHANGED <<running, hasFailed, file, rotationDue, timer, tick, bus>>

BeginSession ==
    /\ at = "begin"
    /\ hasFailed' = FALSE /\ running' = TRUE
    /\ PublishStatus(TRUE, "Stopped")
    /\ at' = "arm"
    /\ UNCHANGED <<service, file, rotationDue, timer, tick, faults>>

ArmFirstTick ==
    /\ at = "arm"
    /\ timer' = TRUE
    /\ service' = "RUNNING" /\ at' = "none"
    /\ UNCHANGED <<running, hasFailed, file, rotationDue, tick, bus, faults>>

-----------------------------------------------------------------------------
(* Stop(): DoStop() on the caller's thread. *)

Stop ==
    /\ service = "RUNNING"
    /\ service' = "STOPPING" /\ at' = "cancel"
    /\ running' = FALSE
    /\ UNCHANGED <<hasFailed, file, rotationDue, timer, tick, bus, faults>>

\* Mutant: the cancel does not wait for the tick in progress.
MutantCancelNoWait ==
    /\ at = "cancel"
    /\ timer' = FALSE
    /\ at' = "close"
    /\ UNCHANGED <<service, running, hasFailed, file, rotationDue, tick, bus, faults>>

\* Cancel() unschedules the work and waits for a tick in progress; it returns whether there was either.
Cancel ==
    /\ at = "cancel"
    /\ timer' = FALSE
    /\ at' = IF timer \/ tick # "idle" THEN "await" ELSE "close"
    /\ UNCHANGED <<service, running, hasFailed, file, rotationDue, tick, bus, faults>>

\* Mutant: one Cancel() instead of the loop.
MutantCancelOnce ==
    /\ at = "await" /\ tick = "idle"
    /\ at' = "close"
    /\ UNCHANGED <<service, running, hasFailed, file, rotationDue, timer, tick, bus, faults>>

\* The loop around Cancel(): a tick that read is_running before Stop() cleared it has scheduled the next.
CancelAgain ==
    /\ at = "await" /\ tick = "idle"
    /\ at' = "cancel"
    /\ UNCHANGED <<service, running, hasFailed, file, rotationDue, timer, tick, bus, faults>>

CloseLogFile ==
    /\ at = "close"
    /\ file' = FALSE /\ at' = "publish"
    /\ UNCHANGED <<service, running, hasFailed, rotationDue, timer, tick, bus, faults>>

\* Mutant: the stop publishes nothing.
MutantSilentStop(reason) ==
    /\ at = "publish"
    /\ service' = "STOPPED" /\ at' = "none"
    /\ UNCHANGED <<running, hasFailed, file, rotationDue, timer, tick, bus, faults>>

FinishStop(reason) ==
    /\ at = "publish"
    /\ PublishStatus(FALSE, reason)
    /\ service' = "STOPPED" /\ at' = "none"
    /\ UNCHANGED <<running, hasFailed, file, rotationDue, timer, tick, faults>>

-----------------------------------------------------------------------------
(* The writer's work queue thread *)

\* The timeout expires and the work queue calls the handler.
RunTick ==
    /\ timer /\ tick = "idle"
    /\ timer' = FALSE /\ tick' = "entered"
    /\ UNCHANGED <<service, at, running, hasFailed, file, rotationDue, bus, faults>>

ProcessTick ==
    /\ tick = "entered"
    /\ tick' = IF ~running THEN "idle" ELSE IF rotationDue THEN "rotating" ELSE "writing"
    /\ UNCHANGED <<service, at, running, hasFailed, file, rotationDue, timer, bus, faults>>

\* EndSession(), first half; the status follows in PublishFailure.
EndSession == hasFailed' = TRUE /\ tick' = "failing"

\* RotateFile() closes the full file, unless the card has no room for another.
RotateFile ==
    /\ tick = "rotating"
    /\ \/ /\ file' = FALSE /\ tick' = "reopening"
          /\ UNCHANGED <<hasFailed, faults>>
       \/ /\ Fault /\ EndSession
          /\ UNCHANGED file
    /\ UNCHANGED <<service, at, running, rotationDue, timer, bus>>

ReopenFile ==
    /\ tick = "reopening"
    /\ \/ /\ file' = TRUE /\ rotationDue' = FALSE /\ tick' = "writing"
          /\ UNCHANGED <<hasFailed, faults>>
       \/ /\ Fault /\ EndSession
          /\ UNCHANGED <<file, rotationDue>>
    /\ UNCHANGED <<service, at, running, timer, bus>>

\* The tick writes its readings, and may fill the file, or fails to.
WriteReadings ==
    /\ tick = "writing"
    /\ \/ /\ rotationDue' \in BOOLEAN /\ tick' = "ending"
          /\ UNCHANGED <<hasFailed, faults>>
       \/ /\ Fault /\ EndSession
          /\ UNCHANGED rotationDue
    /\ UNCHANGED <<service, at, running, file, timer, bus>>

PublishFailure ==
    /\ tick = "failing"
    /\ PublishStatus(FALSE, "Failed")
    /\ tick' = "idle"
    /\ UNCHANGED <<service, at, running, hasFailed, file, rotationDue, timer, faults>>

\* The last check of is_running; TaskHandler() schedules the next tick after the handler returned.
EndTick ==
    /\ tick = "ending"
    /\ tick' = IF running THEN "rearming" ELSE "idle"
    /\ UNCHANGED <<service, at, running, hasFailed, file, rotationDue, timer, bus, faults>>

RescheduleTick ==
    /\ tick = "rearming"
    /\ timer' = TRUE /\ tick' = "idle"
    /\ UNCHANGED <<service, at, running, hasFailed, file, rotationDue, bus, faults>>

WriterThread ==
    \/ RunTick \/ ProcessTick \/ RotateFile \/ ReopenFile \/ WriteReadings
    \/ PublishFailure \/ EndTick \/ RescheduleTick

-----------------------------------------------------------------------------
(* The bus thread takes the oldest event. *)
TakeStatus ==
    /\ bus # <<>>
    /\ bus' = Tail(bus)
    /\ UNCHANGED <<service, at, running, hasFailed, file, rotationDue, timer, tick, faults>>

-----------------------------------------------------------------------------
StartSteps == Start \/ OpenLogFile \/ RefuseStart \/ BeginSession \/ ArmFirstTick

StopSteps == Stop \/ Cancel \/ CancelAgain \/ CloseLogFile \/ (\E reason \in StopReason : FinishStop(reason))

WriterNext == StartSteps \/ StopSteps \/ WriterThread \/ TakeStatus

WriterSpec == WriterInit /\ [][WriterNext]_writerVars

-----------------------------------------------------------------------------
\* Every variable keeps its type: the states of ServiceBase, the steps of a transition and of a tick.
WriterTypeOK ==
    /\ service \in ServiceState
    /\ at \in {"none"} \cup DoStartStep \cup DoStopStep
    /\ running \in BOOLEAN /\ hasFailed \in BOOLEAN /\ file \in BOOLEAN
    /\ rotationDue \in BOOLEAN /\ timer \in BOOLEAN
    /\ tick \in {"idle"} \cup TickStep
    /\ bus \in Seq(Status)
    /\ faults \in 0 .. MaxFaults

\* A tick closes, writes to and asks only an open file: neither DoStop() on another thread nor a rotation that
\* failed earlier takes the stream from under it (log_writer_task.hpp:36, "valid while the task is scheduled").
TickOwnsFile == tick \in {"rotating", "writing", "ending"} => file

\* A stopped writer is quiet: no tick runs or is scheduled and no file is open, whatever raced the stop
\* (DoStop() loops around Cancel() for a tick that had read is_running already).
StoppedIsQuiet == service = "STOPPED" => ~timer /\ tick = "idle" /\ ~file
=============================================================================
