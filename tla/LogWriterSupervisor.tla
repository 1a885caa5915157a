------------------------ MODULE LogWriterSupervisor ------------------------
(***************************************************************************)
(* The supervisor of the log writer (log_writer_supervisor.cpp).  Requests *)
(* come from any thread and only store what they want and queue the task;  *)
(* the task takes it on the configuration work queue, where the restart of *)
(* sensor processing also stops and starts the writer (DependentLogWriter, *)
(* SensorsController::RestartProcessing).  A failed session is reported on *)
(* the bus and closed by the task.  An atomic variable is read or written  *)
(* by one step; what only the configuration work queue touches may share   *)
(* the step of its neighbour.                                              *)
(***************************************************************************)
EXTENDS LogWriterService

CONSTANTS
    Caller,     \* threads that make requests or store configurations
    Script      \* what they may do: functions from callers to sequences of steps

VARIABLES
    pending,      \* State::pending_request
    stopReason,   \* State::stop_reason
    processing,   \* State::is_processing
    restartDue,   \* is_restart_due_
    wanted,       \* State::is_logging_requested
    active,       \* is_active_
    reported,     \* reason_
    queue,        \* the configuration work queue
    work,         \* what its thread is doing
    todo,         \* the steps each caller has left
    reading,      \* what a caller inside WaitUntilIdle() reads next
    latest,       \* history: the last request stored, with the reason its caller gave
    order         \* history: each caller's own stop, until a later start supersedes it

statusVars == <<active, reported>>
taskVars == <<processing, wanted, statusVars, work>>   \* what no caller writes
callerVars == <<todo, reading, latest, order>>
supervisorVars == <<pending, stopReason, processing, restartDue, wanted, statusVars, queue, work,
                    callerVars>>
vars == <<writerVars, supervisorVars>>

Request == {"None", "Start", "Stop"}

\* The requests as sequences of accesses to shared state.
RequestStart == <<"start", "notify">>
RequestStop == <<"reasonStopped", "stop", "notify">>
RequestStopWithReason == <<"reasonUpdate", "stopForUpdate", "notify">>

\* Before the reset of a firmware update (FirmwareUpdateLoggingStop): a stop with its reason, awaited.
FirmwareUpdate == RequestStopWithReason \o <<"wait">>

\* A stored configuration: ConfigurationUpdateLoggingStop::OnStored() first, then the store's own handler.
StoreLogging == RequestStop \o <<"configuration", "notify">>
StoreSensors == RequestStop \o <<"sensors">>

\* The same while the unit starts, before OnStored() is registered.
StoreLoggingEarly == <<"configuration", "notify">>
StoreSensorsEarly == <<"sensors">>

Step == {"start", "reasonStopped", "stop", "reasonUpdate", "stopForUpdate", "notify",
         "wait", "configuration", "sensors"}

ASSUME ScriptAssumption == Script \subseteq [Caller -> Seq(Step)]

\* The local state of a run: where it is and returns to, whether a restart is due and a session fresh, the
\* reason of its stop, and (history) the reason the request it took was made for.
Idle == [pc |-> "idle", next |-> "idle", due |-> FALSE, fresh |-> FALSE,
         reason |-> "Stopped", asked |-> "Stopped"]

Init ==
    /\ WriterInit
    /\ pending = "None" /\ stopReason = "Stopped" /\ processing = FALSE /\ restartDue = FALSE
    /\ wanted = FALSE /\ active = FALSE /\ reported = "Stopped"
    /\ queue = <<>> /\ work = Idle
    /\ todo \in Script
    /\ latest = [request |-> "None", reason |-> "Stopped"]
    /\ reading = [c \in Caller |-> "pending"]
    /\ order = [c \in Caller |-> "none"]

\* Mutant: a queued task is queued once more.
MutantQueuesTwice(task) == Append(queue, task)

\* Reschedule(K_NO_WAIT): a task that is queued already stays where it is.
Queued(task) == IF \E i \in DOMAIN queue : queue[i] = task THEN queue ELSE Append(queue, task)

-----------------------------------------------------------------------------
(* The callers: one access to shared state per step. *)

Takes(c, step) ==
    /\ todo[c] # <<>> /\ Head(todo[c]) = step
    /\ todo' = [todo EXCEPT ![c] = Tail(@)]

StoreReason(c) ==
    /\ \/ Takes(c, "reasonStopped") /\ stopReason' = "Stopped"
       \/ Takes(c, "reasonUpdate") /\ stopReason' = "FirmwareUpdate"
    /\ UNCHANGED <<writerVars, taskVars, pending, restartDue, queue, reading, latest, order>>

StoreStop(c) ==
    /\ \/ Takes(c, "stop") /\ latest' = [request |-> "Stop", reason |-> "Stopped"]
       \/ Takes(c, "stopForUpdate") /\ latest' = [request |-> "Stop", reason |-> "FirmwareUpdate"]
    /\ pending' = "Stop"
    /\ order' = [order EXCEPT ![c] = "ordered"]
    /\ UNCHANGED <<writerVars, taskVars, stopReason, restartDue, queue, reading>>

StoreStart(c) ==
    /\ Takes(c, "start")
    /\ latest' = [request |-> "Start", reason |-> "Stopped"]
    /\ pending' = "Start"
    /\ order' = [d \in Caller |-> "none"]
    /\ UNCHANGED <<writerVars, taskVars, stopReason, restartDue, queue, reading>>

Notify(c) ==
    /\ Takes(c, "notify")
    /\ queue' = Queued("process")
    /\ UNCHANGED <<writerVars, taskVars, pending, stopReason, restartDue, reading, latest, order>>

\* The logging configuration's updated handler, whose Reschedule() is the "notify" that follows.
ConfigurationUpdated(c) ==
    /\ Takes(c, "configuration")
    /\ restartDue' = TRUE
    /\ UNCHANGED <<writerVars, taskVars, pending, stopReason, queue, reading, latest, order>>

\* The sensors configuration's updated handler queues the restart of processing.
SensorsUpdated(c) ==
    /\ Takes(c, "sensors")
    /\ queue' = Queued("sensors")
    /\ UNCHANGED <<writerVars, taskVars, pending, stopReason, restartDue, reading, latest, order>>

\* WaitUntilIdle() reads the requests first and the flag last, going on while what it reads is clear,
Clear(read) ==
    CASE read = "pending" -> pending = "None"
      [] read = "due"     -> ~restartDue
      [] read = "busy"    -> ~processing

WaitGoesOn(c) ==
    /\ todo[c] # <<>> /\ Head(todo[c]) = "wait"
    /\ Clear(reading[c])
    /\ \/ reading[c] = "pending" /\ reading' = [reading EXCEPT ![c] = "due"]
       \/ reading[c] = "due" /\ reading' = [reading EXCEPT ![c] = "busy"]
    /\ UNCHANGED <<writerVars, taskVars, pending, stopReason, restartDue, queue, todo, latest,
                   order>>

\* returns true after the last,
WaitReturns(c) ==
    /\ reading[c] = "busy" /\ Clear("busy")
    /\ Takes(c, "wait")
    /\ reading' = [reading EXCEPT ![c] = "pending"]
    /\ order' = [order EXCEPT ![c] = IF @ = "ordered" THEN "idle" ELSE @]
    /\ UNCHANGED <<writerVars, taskVars, pending, stopReason, restartDue, queue, latest>>

\* and otherwise begins again, or gives up when its time is over.
WaitBeginsAgain(c) ==
    /\ ~Clear(reading[c])
    /\ \/ todo[c] # <<>> /\ Head(todo[c]) = "wait" /\ UNCHANGED todo
       \/ Takes(c, "wait")
    /\ reading' = [reading EXCEPT ![c] = "pending"]
    /\ UNCHANGED <<writerVars, taskVars, pending, stopReason, restartDue, queue, latest, order>>

CallerStep(c) ==
    \/ StoreReason(c) \/ StoreStop(c) \/ StoreStart(c) \/ Notify(c)
    \/ ConfigurationUpdated(c) \/ SensorsUpdated(c)
    \/ WaitGoesOn(c) \/ WaitReturns(c) \/ WaitBeginsAgain(c)

-----------------------------------------------------------------------------
(* The configuration work queue *)

GoTo(pc) == work' = [work EXCEPT !.pc = pc]

\* StopWithReason() of a stopped writer succeeds at once.
StopWriter(reason, next) ==
    IF service = "RUNNING"
      THEN Stop /\ work' = [work EXCEPT !.pc = "stopping", !.next = next, !.reason = reason]
      ELSE UNCHANGED writerVars /\ GoTo(next)

StartWriter(next) == Start /\ work' = [work EXCEPT !.pc = "starting", !.next = next]

\* Mutant: a run does not show that it is in progress.
MutantNotBusy ==
    /\ work.pc = "idle" /\ queue # <<>>
    /\ queue' = Tail(queue)
    /\ work' = [Idle EXCEPT !.pc = IF Head(queue) = "process" THEN "due" ELSE "sensors"]
    /\ UNCHANGED <<writerVars, pending, stopReason, processing, restartDue, wanted, statusVars,
                   callerVars>>

\* The next task of the queue; Process() raises is_processing before it takes anything.
TakeTask ==
    /\ work.pc = "idle" /\ queue # <<>>
    /\ queue' = Tail(queue)
    /\ IF Head(queue) = "process"
         THEN processing' = TRUE /\ work' = [Idle EXCEPT !.pc = "due"]
         ELSE UNCHANGED processing /\ work' = [Idle EXCEPT !.pc = "sensors"]
    /\ UNCHANGED <<writerVars, pending, stopReason, restartDue, wanted, statusVars, callerVars>>

TakeRestartDue ==
    /\ work.pc = "due"
    /\ work' = [work EXCEPT !.pc = "failed", !.due = restartDue]
    /\ restartDue' = FALSE
    /\ UNCHANGED <<writerVars, pending, stopReason, processing, wanted, statusVars, queue,
                   callerVars>>

StopIfFailed ==
    /\ work.pc = "failed"
    /\ IF hasFailed /\ service = "RUNNING"
         THEN wanted' = FALSE /\ StopWriter("Stopped", "request")
         ELSE UNCHANGED <<writerVars, wanted>> /\ GoTo("request")
    /\ UNCHANGED <<pending, stopReason, processing, restartDue, statusVars, queue, callerVars>>

TakeRequest ==
    /\ work.pc = "request"
    /\ pending' = "None"
    /\ work' = [work EXCEPT !.pc = CASE pending = "Start" -> "applyStart"
                                     [] pending = "Stop"  -> "applyStop"
                                     [] OTHER             -> "restart",
                            !.asked = latest.reason]
    /\ UNCHANGED <<writerVars, stopReason, processing, restartDue, wanted, statusVars, queue,
                   callerVars>>

ApplyStop ==
    /\ work.pc = "applyStop"
    /\ stopReason' = "Stopped"
    /\ wanted' = FALSE
    /\ StopWriter(stopReason, "restart")
    /\ UNCHANGED <<pending, processing, restartDue, statusVars, queue, callerVars>>

ApplyStart ==
    /\ work.pc = "applyStart"
    /\ IF service = "RUNNING" /\ ~hasFailed
         THEN wanted' = TRUE /\ GoTo("restart") /\ UNCHANGED writerVars
         ELSE UNCHANGED wanted /\ StopWriter("Stopped", "start")
    /\ UNCHANGED <<pending, stopReason, processing, restartDue, statusVars, queue, callerVars>>

StartRequested ==
    /\ work.pc = "start"
    /\ StartWriter("restart")
    /\ UNCHANGED <<pending, stopReason, processing, restartDue, wanted, statusVars, queue,
                   callerVars>>

\* The stored configuration takes effect now, unless this run opened a session with it.
RestartIfRunning ==
    /\ work.pc = "restart"
    /\ IF work.due /\ ~work.fresh /\ service = "RUNNING" /\ ~hasFailed
         THEN StopWriter("Stopped", "restarted")
         ELSE UNCHANGED writerVars /\ GoTo("done")
    /\ UNCHANGED <<pending, stopReason, processing, restartDue, wanted, statusVars, queue,
                   callerVars>>

StartRestarted ==
    /\ work.pc = "restarted"
    /\ StartWriter("done")
    /\ UNCHANGED <<pending, stopReason, processing, restartDue, wanted, statusVars, queue,
                   callerVars>>

\* Mutant: the request is read when the run takes it and cleared when the run ends.
MutantClearsLate ==
    /\ work.pc = "done"
    /\ processing' = FALSE /\ pending' = "None"
    /\ work' = Idle
    /\ UNCHANGED <<writerVars, stopReason, restartDue, wanted, statusVars, queue, callerVars>>

FinishProcess ==
    /\ work.pc = "done"
    /\ processing' = FALSE
    /\ work' = Idle
    /\ UNCHANGED <<writerVars, pending, stopReason, restartDue, wanted, statusVars, queue,
                   callerVars>>

\* SensorsController::RestartProcessing() stops the dependents that run,
StopDependent ==
    /\ work.pc = "sensors"
    /\ IF service = "RUNNING" THEN StopWriter("Stopped", "dependent") ELSE UNCHANGED writerVars /\ work' = Idle
    /\ UNCHANGED <<pending, stopReason, processing, restartDue, wanted, statusVars, queue,
                   callerVars>>

\* and starts them again: DependentLogWriter::Start().
StartDependent ==
    /\ work.pc = "dependent"
    /\ \/ /\ ~wanted \/ pending = "Stop"
          /\ work' = Idle
          /\ UNCHANGED <<writerVars, wanted>>
       \/ /\ wanted /\ pending # "Stop" /\ hasFailed
          /\ wanted' = FALSE
          /\ work' = Idle
          /\ UNCHANGED writerVars
       \/ /\ wanted /\ pending # "Stop" /\ ~hasFailed
          /\ StartWriter("idle")
          /\ UNCHANGED wanted
    /\ UNCHANGED <<pending, stopReason, processing, restartDue, statusVars, queue, callerVars>>

\* Inside DoStop(): the last step returns to the supervisor.
Stopping ==
    /\ work.pc = "stopping"
    /\ \/ (Cancel \/ CancelAgain \/ CloseLogFile) /\ UNCHANGED work
       \/ FinishStop(work.reason) /\ GoTo(work.next)
    /\ UNCHANGED <<pending, stopReason, processing, restartDue, wanted, statusVars, queue,
                   callerVars>>

\* Inside DoStart(): every caller of StartWriter() keeps its result as the wanted state.
Starting ==
    /\ work.pc = "starting"
    /\ \/ (OpenLogFile \/ BeginSession) /\ UNCHANGED <<work, wanted>>
       \/ ArmFirstTick /\ wanted' = TRUE /\ work' = [work EXCEPT !.pc = work.next, !.fresh = TRUE]
       \/ RefuseStart /\ wanted' = FALSE /\ GoTo(work.next)
    /\ UNCHANGED <<pending, stopReason, processing, restartDue, statusVars, queue, callerVars>>

ConfigWorkQueue ==
    \/ TakeTask \/ TakeRestartDue \/ StopIfFailed \/ TakeRequest \/ ApplyStop \/ ApplyStart \/ StartRequested
    \/ RestartIfRunning \/ StartRestarted \/ FinishProcess \/ StopDependent \/ StartDependent
    \/ Stopping \/ Starting

-----------------------------------------------------------------------------
(* The bus thread *)

\* Mutant: a failure is reported but nobody closes the session.
MutantFailureOnlyShown ==
    /\ TakeStatus
    /\ active' = Head(bus).active /\ reported' = Head(bus).reason
    /\ UNCHANGED <<pending, stopReason, processing, restartDue, wanted, queue, work, callerVars>>

OnStatusUpdated ==
    /\ TakeStatus
    /\ LET event == Head(bus) IN
          /\ active' = event.active
          /\ reported' = event.reason
          /\ queue' = IF event.reason = "Failed" THEN Queued("process") ELSE queue
    /\ UNCHANGED <<pending, stopReason, processing, restartDue, wanted, work, callerVars>>

-----------------------------------------------------------------------------
Writer == WriterThread /\ UNCHANGED supervisorVars

Next == (\E c \in Caller : CallerStep(c)) \/ ConfigWorkQueue \/ Writer \/ OnStatusUpdated

Spec == Init /\ [][Next]_vars

\* Every thread runs whenever it has something to do: the work queue threads take their next item, the
\* kernel's timeouts expire, the bus thread dispatches, a caller inside a request returns from it.
Fairness ==
    /\ \A c \in Caller : WF_vars(CallerStep(c))
    /\ WF_vars(ConfigWorkQueue)
    /\ WF_vars(Writer)
    /\ WF_vars(OnStatusUpdated)

FairSpec == Spec /\ Fairness

-----------------------------------------------------------------------------
(* Properties *)

WorkPc == {"idle", "due", "failed", "request", "applyStop", "applyStart", "start", "restart", "restarted",
           "done", "sensors", "dependent", "stopping", "starting"}

\* Every variable keeps its type: the atomics of State, the queue without a task twice, the callers' steps.
SupervisorTypeOK ==
    /\ WriterTypeOK
    /\ pending \in Request /\ stopReason \in StopReason
    /\ processing \in BOOLEAN /\ restartDue \in BOOLEAN /\ wanted \in BOOLEAN
    /\ active \in BOOLEAN /\ reported \in Reason
    /\ queue \in {<<>>, <<"process">>, <<"sensors">>, <<"process", "sensors">>, <<"sensors", "process">>}
    /\ work \in [pc : WorkPc, next : WorkPc, due : BOOLEAN, fresh : BOOLEAN,
                 reason : StopReason, asked : StopReason]
    /\ todo \in [Caller -> Seq(Step)] /\ reading \in [Caller -> {"pending", "due", "busy"}]
    /\ latest \in [request : Request, reason : StopReason]
    /\ order \in [Caller -> {"none", "ordered", "idle"}]

\* What WaitUntilIdle() promises a firmware update that ordered a stop: when it returned true the stop is
\* complete, and until somebody requests a start the writer stays stopped, with its file closed, whatever
\* restarts, failures and earlier requests were on their way (log_writer_supervisor.h:104-108).
IdleMeansStopped ==
    \A c \in Caller : order[c] = "idle" => service = "STOPPED" /\ ~file /\ ~timer /\ tick = "idle"

\* The latest request wins: once no more come, a writer that was stopped last is stopped, and one that was
\* started last runs, unless a fault took it down (log_writer_supervisor.h:35-36).
LatestRequestWins ==
    <>[](/\ latest.request = "Stop" => service = "STOPPED"
         /\ latest.request = "Start" /\ faults = 0 => service = "RUNNING")

\* A session that failed does not stay open: the task closes it, although the failed tick cannot.
FailedSessionCloses == (hasFailed /\ service = "RUNNING") ~> service = "STOPPED"

\* IsActive() comes to say whether the writer writes, although it follows events of two threads.
StatusSettles == <>[](active = (service = "RUNNING" /\ ~hasFailed))

\* A run that takes a stop takes its reason too (log_writer_supervisor.cpp:303).
StopTakesItsReason == work.pc = "stopping" /\ work.next = "restart" => work.reason = work.asked
=============================================================================
