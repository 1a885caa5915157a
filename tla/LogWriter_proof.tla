--------------------------- MODULE LogWriter_proof ---------------------------
(***************************************************************************)
(* Proofs about the log writer: for every number of faults and every set   *)
(* of callers and scripts, the file belongs to the tick while it writes    *)
(* and a stopped writer is quiet.                                          *)
(***************************************************************************)
EXTENDS LogWriterSupervisor, SequenceTheorems, TLAPS

\* Where a transition is inside DoStart() and DoStop(), and what it has already taken from the tick.
Transitions ==
    /\ service = "STOPPED" => at = "none" /\ ~timer /\ tick = "idle" /\ ~file
    /\ service = "STARTING" => /\ at \in DoStartStep /\ ~timer /\ tick = "idle"
                               /\ at = "open" <=> ~file
                               /\ at = "arm" => ~hasFailed
    /\ service = "RUNNING" => at = "none"
    /\ service = "STOPPING" => /\ at \in DoStopStep
                               /\ at \in {"close", "publish"} => ~timer /\ tick = "idle"
                               /\ at = "publish" => ~file

\* A tick that is scheduled, or past its start, finds the file open; one that failed schedules no other.
Ticks ==
    /\ timer => tick = "idle"
    /\ timer \/ tick \in {"entered", "rotating", "writing", "ending", "rearming"} => file /\ ~hasFailed
    /\ tick = "reopening" => ~hasFailed

WriterInv == WriterTypeOK /\ Transitions /\ Ticks

\* The initial state: nothing is open, scheduled or running.
LEMMA WriterInitInv == WriterInit => WriterInv
<1> SUFFICES ASSUME WriterInit PROVE WriterInv
  OBVIOUS
<1>1. bus \in Seq(Status) /\ faults \in 0 .. MaxFaults
  BY FaultsAssumption DEF WriterInit
<1>2. Transitions /\ Ticks
  BY DEF WriterInit, Transitions, Ticks
<1> QED BY <1>1, <1>2 DEF WriterInit, WriterInv, WriterTypeOK, ServiceState

\* PublishStatus() appends an event to the bus.
LEMMA PublishType ==
    ASSUME bus \in Seq(Status), NEW isActive \in BOOLEAN, NEW reason \in Reason, PublishStatus(isActive, reason)
    PROVE  bus' \in Seq(Status)
BY DEF PublishStatus, Status

\* A bounded fault counter stays within its bound.
LEMMA FaultType ==
    ASSUME faults \in 0 .. MaxFaults, Fault
    PROVE  faults' \in 0 .. MaxFaults
BY FaultsAssumption DEF Fault

\* DoStart() on the caller's thread.
LEMMA StartPreserves == WriterInv /\ StartSteps => WriterInv'
<1> SUFFICES ASSUME WriterInv, StartSteps PROVE WriterInv'
  OBVIOUS
<1> USE DEF WriterInv, WriterTypeOK, Transitions, Ticks, ServiceState, DoStartStep, DoStopStep, TickStep
<1>1. CASE Start
  BY <1>1 DEF Start
<1>2. CASE OpenLogFile
  BY <1>2 DEF OpenLogFile
<1>3. CASE RefuseStart
  BY <1>3, FaultType DEF RefuseStart
<1>4. CASE BeginSession
  <2>1. bus' \in Seq(Status)
    BY <1>4, PublishType DEF BeginSession, Reason, StopReason
  <2> QED BY <1>4, <2>1 DEF BeginSession
<1>5. CASE ArmFirstTick
  BY <1>5 DEF ArmFirstTick
<1> QED BY <1>1, <1>2, <1>3, <1>4, <1>5 DEF StartSteps

\* DoStop() on the caller's thread: the file is closed only after a Cancel() that found nothing.
LEMMA StopPreserves == WriterInv /\ StopSteps => WriterInv'
<1> SUFFICES ASSUME WriterInv, StopSteps PROVE WriterInv'
  OBVIOUS
<1> USE DEF WriterInv, WriterTypeOK, Transitions, Ticks, ServiceState, DoStartStep, DoStopStep, TickStep
<1>1. CASE Stop
  BY <1>1 DEF Stop
<1>2. CASE Cancel
  BY <1>2 DEF Cancel
<1>3. CASE CancelAgain
  BY <1>3 DEF CancelAgain
<1>4. CASE CloseLogFile
  BY <1>4 DEF CloseLogFile
<1>5. ASSUME NEW reason \in StopReason, FinishStop(reason) PROVE WriterInv'
  <2>1. bus' \in Seq(Status)
    BY <1>5, PublishType DEF FinishStop, Reason
  <2> QED BY <1>5, <2>1 DEF FinishStop
<1> QED BY <1>1, <1>2, <1>3, <1>4, <1>5 DEF StopSteps

\* The tick on the writer's thread, interleaved with any step of a transition.
LEMMA TickPreserves == WriterInv /\ WriterThread => WriterInv'
<1> SUFFICES ASSUME WriterInv, WriterThread PROVE WriterInv'
  OBVIOUS
<1> USE DEF WriterInv, WriterTypeOK, Transitions, Ticks, ServiceState, DoStartStep, DoStopStep, TickStep
<1>1. CASE RunTick
  BY <1>1 DEF RunTick
<1>2. CASE ProcessTick
  BY <1>2 DEF ProcessTick
<1>3. CASE RotateFile
  <2>1. faults' \in 0 .. MaxFaults
    BY <1>3, FaultType DEF RotateFile
  <2>2. CASE tick' = "reopening"
    <3>1. WriterTypeOK'
      BY <1>3, <2>1, <2>2 DEF RotateFile, EndSession
    <3>2. Transitions'
      BY <1>3, <2>2 DEF RotateFile, EndSession
    <3>3. Ticks'
      BY <1>3, <2>2 DEF RotateFile, EndSession
    <3> QED BY <3>1, <3>2, <3>3
  <2>3. CASE EndSession
    <3>1. WriterTypeOK'
      BY <1>3, <2>1, <2>3 DEF RotateFile, EndSession
    <3>2. Transitions'
      BY <1>3, <2>3 DEF RotateFile, EndSession
    <3>3. Ticks'
      BY <1>3, <2>3 DEF RotateFile, EndSession
    <3> QED BY <3>1, <3>2, <3>3
  <2> QED BY <1>3, <2>2, <2>3 DEF RotateFile
<1>4. CASE ReopenFile
  <2>1. faults' \in 0 .. MaxFaults
    BY <1>4, FaultType DEF ReopenFile
  <2>2. CASE tick' = "writing"
    <3>1. WriterTypeOK'
      BY <1>4, <2>1, <2>2 DEF ReopenFile, EndSession
    <3>2. Transitions'
      BY <1>4, <2>2 DEF ReopenFile, EndSession
    <3>3. Ticks'
      BY <1>4, <2>2 DEF ReopenFile, EndSession
    <3> QED BY <3>1, <3>2, <3>3
  <2>3. CASE EndSession
    <3>1. WriterTypeOK'
      BY <1>4, <2>1, <2>3 DEF ReopenFile, EndSession
    <3>2. Transitions'
      BY <1>4, <2>3 DEF ReopenFile, EndSession
    <3>3. Ticks'
      BY <1>4, <2>3 DEF ReopenFile, EndSession
    <3> QED BY <3>1, <3>2, <3>3
  <2> QED BY <1>4, <2>2, <2>3 DEF ReopenFile
<1>5. CASE WriteReadings
  <2>1. faults' \in 0 .. MaxFaults
    BY <1>5, FaultType DEF WriteReadings
  <2>2. CASE tick' = "ending"
    BY <1>5, <2>1, <2>2 DEF WriteReadings, EndSession
  <2>3. CASE EndSession
    <3>1. WriterTypeOK'
      BY <1>5, <2>1, <2>3 DEF WriteReadings, EndSession
    <3>2. Transitions'
      BY <1>5, <2>3 DEF WriteReadings, EndSession
    <3>3. Ticks'
      BY <1>5, <2>3 DEF WriteReadings, EndSession
    <3> QED BY <3>1, <3>2, <3>3
  <2> QED BY <1>5, <2>2, <2>3 DEF WriteReadings
<1>6. CASE PublishFailure
  <2>1. bus' \in Seq(Status)
    BY <1>6, PublishType DEF PublishFailure, Reason
  <2> QED BY <1>6, <2>1 DEF PublishFailure
<1>7. CASE EndTick
  BY <1>7 DEF EndTick
<1>8. CASE RescheduleTick
  BY <1>8 DEF RescheduleTick
<1> QED BY <1>1, <1>2, <1>3, <1>4, <1>5, <1>6, <1>7, <1>8 DEF WriterThread

\* The bus thread takes an event.
LEMMA TakePreserves == WriterInv /\ TakeStatus => WriterInv'
<1> SUFFICES ASSUME WriterInv, TakeStatus PROVE WriterInv'
  OBVIOUS
<1>1. bus' \in Seq(Status)
  BY DEF TakeStatus, WriterInv, WriterTypeOK
<1> QED BY <1>1 DEF TakeStatus, WriterInv, WriterTypeOK, Transitions, Ticks

\* What the inductive invariant says of the file and of a stopped writer.
LEMMA WriterInvImplies == WriterInv => WriterTypeOK /\ TickOwnsFile /\ StoppedIsQuiet
BY DEF WriterInv, Transitions, Ticks, TickOwnsFile, StoppedIsQuiet

\* The writer alone, whoever drives its transitions in turn: it keeps its types, a tick writes only to an
\* open file, and a stopped writer has no tick scheduled or running and no file open.
THEOREM WriterCorrect == WriterSpec => [](WriterTypeOK /\ TickOwnsFile /\ StoppedIsQuiet)
<1>1. WriterInit => WriterInv
  BY WriterInitInv
<1>2. WriterInv /\ [WriterNext]_writerVars => WriterInv'
  <2> SUFFICES ASSUME WriterInv, [WriterNext]_writerVars PROVE WriterInv'
    OBVIOUS
  <2>1. CASE WriterNext
    BY <2>1, StartPreserves, StopPreserves, TickPreserves, TakePreserves DEF WriterNext
  <2>2. CASE UNCHANGED writerVars
    BY <2>2 DEF writerVars, WriterInv, WriterTypeOK, Transitions, Ticks
  <2> QED BY <2>1, <2>2
<1>3. WriterInv => WriterTypeOK /\ TickOwnsFile /\ StoppedIsQuiet
  BY WriterInvImplies
<1> QED BY <1>1, <1>2, <1>3, PTL DEF WriterSpec

-----------------------------------------------------------------------------
(* The supervisor *)

\* A run of the configuration work queue, which never returns into the middle of a transition.
Run == [pc : WorkPc, next : WorkPc \ {"stopping", "starting"}, due : BOOLEAN, fresh : BOOLEAN,
        reason : StopReason, asked : StopReason]

\* The types the proof needs: all but the queue and the status, which it does not depend on.
Types ==
    /\ pending \in Request /\ stopReason \in StopReason
    /\ processing \in BOOLEAN /\ wanted \in BOOLEAN
    /\ work \in Run
    /\ restartDue \in BOOLEAN
    /\ todo \in [Caller -> Seq(Step)]
    /\ reading \in [Caller -> {"pending", "due", "busy"}]
    /\ latest \in [request : Request, reason : StopReason]
    /\ order \in [Caller -> {"none", "ordered", "idle"}]

\* The configuration work queue's thread is inside a transition exactly while the writer is in one.
InTurn ==
    /\ work.pc = "stopping" <=> service = "STOPPING"
    /\ work.pc = "starting" <=> service = "STARTING"

\* A run of the task shows: is_processing covers it from before it takes a request to its end.
ProcessPc == {"due", "failed", "request", "applyStop", "applyStart", "start", "restart", "restarted", "done"}

RunShows ==
    /\ work.pc \in ProcessPc => processing
    /\ work.pc \in {"stopping", "starting"} /\ work.next \in ProcessPc => processing

\* A caller that has begun to read is in WaitUntilIdle().
ReadsInWait == \A c \in Caller : reading[c] # "pending" => todo[c] # <<>> /\ Head(todo[c]) = "wait"

\* The writer is stopped and the run in progress, if any, is past whatever could start it.
Down ==
    /\ service = "STOPPED" /\ ~wanted
    /\ work.pc \notin {"applyStart", "start", "restarted", "dependent"}

\* A run has taken a stop, and either is about to stop the writer, is stopping it, or has.
Taken ==
    \/ work.pc = "applyStop"
    \/ work.pc = "stopping" /\ work.next = "restart" /\ ~wanted
    \/ Down

\* After a caller's stop that no start followed: the stop is still pending or was taken; it was taken
\* when the caller has read that nothing is pending; and when the wait returned it is complete.
StopProgress ==
    \A c \in Caller :
       /\ order[c] # "none" => pending # "Start"
       /\ order[c] # "none" /\ pending = "None" => Taken
       /\ order[c] = "ordered" /\ reading[c] # "pending" => Taken
       /\ order[c] = "idle" => Down

SupervisorInv == Types /\ InTurn /\ RunShows /\ ReadsInWait /\ StopProgress

\* Taking a step of a script leaves the other callers' scripts alone.
LEMMA TakesFacts ==
    ASSUME Types, NEW c \in Caller, NEW step, Takes(c, step)
    PROVE  /\ todo' \in [Caller -> Seq(Step)]
           /\ todo[c] # <<>> /\ Head(todo[c]) = step
           /\ \A d \in Caller \ {c} : todo'[d] = todo[d]
BY DEF Takes, Types

\* A step of the configuration work queue, the writer or the bus takes at most the pending request.
LEMMA ProgressKept ==
    ASSUME StopProgress, UNCHANGED <<reading, order>>, pending \in Request, pending' \in {pending, "None"},
           pending # "Start" /\ Down => Down',
           pending # "Start" /\ Taken => Taken',
           pending = "Stop" /\ pending' = "None" => Taken'
    PROVE  StopProgress'
<1> SUFFICES ASSUME NEW c \in Caller
             PROVE  /\ order[c] # "none" => pending' # "Start"
                    /\ order[c] # "none" /\ pending' = "None" => Taken'
                    /\ order[c] = "ordered" /\ reading[c] # "pending" => Taken'
                    /\ order[c] = "idle" => Down'
  BY DEF StopProgress
<1>1. /\ order[c] # "none" => pending # "Start"
      /\ order[c] # "none" /\ pending = "None" => Taken
      /\ order[c] = "ordered" /\ reading[c] # "pending" => Taken
      /\ order[c] = "idle" => Down
  BY DEF StopProgress
<1>2. order[c] # "none" => pending' # "Start"
  BY <1>1
<1>3. order[c] # "none" /\ pending' = "None" => Taken'
  BY <1>1 DEF Request
<1>4. order[c] = "ordered" /\ reading[c] # "pending" => Taken'
  BY <1>1
<1>5. order[c] = "idle" => Down'
  BY <1>1
<1> QED BY <1>2, <1>3, <1>4, <1>5

\* The writer's thread and the bus thread touch nothing of the supervisor that its invariant reads.
LEMMA OthersPreserve ==
    ASSUME SupervisorInv, UNCHANGED <<service, pending, stopReason, processing, restartDue, wanted, work>>,
           UNCHANGED callerVars
    PROVE  SupervisorInv'
BY DEF SupervisorInv, Types, InTurn, RunShows, ReadsInWait, StopProgress, Taken, Down, callerVars

-----------------------------------------------------------------------------
(* The callers *)

\* A stop makes its caller's order; a start ends everybody's.
LEMMA RequestPreserves ==
    ASSUME SupervisorInv, NEW c \in Caller, StoreStop(c) \/ StoreStart(c)
    PROVE  SupervisorInv'
<1> USE DEF SupervisorInv
<1>1. PICK step \in Step \ {"wait"} : Takes(c, step)
  BY DEF StoreStop, StoreStart, Step
<1>2. /\ todo' \in [Caller -> Seq(Step)]
      /\ todo[c] # <<>> /\ Head(todo[c]) # "wait"
      /\ \A d \in Caller \ {c} : todo'[d] = todo[d]
  BY <1>1, TakesFacts
<1>3. UNCHANGED <<service, stopReason, processing, restartDue, wanted, work, reading>>
  BY DEF StoreStop, StoreStart, writerVars, taskVars
<1>4. reading[c] = "pending"
  BY <1>2 DEF ReadsInWait
<1>5. pending' \in {"Start", "Stop"} /\ latest' \in [request : Request, reason : StopReason]
  BY DEF StoreStop, StoreStart, Request, StopReason
<1>6. order' \in [Caller -> {"none", "ordered", "idle"}]
  BY DEF StoreStop, StoreStart, Types
<1>7. Types' /\ InTurn' /\ RunShows'
  BY <1>2, <1>3, <1>5, <1>6 DEF Types, InTurn, RunShows, Request
<1>8. ReadsInWait'
  BY <1>2, <1>3, <1>4 DEF ReadsInWait
<1>9. Taken' = Taken /\ Down' = Down
  BY <1>3 DEF Taken, Down
<1>10. CASE StoreStop(c)
  <2>1. pending' = "Stop" /\ order'[c] = "ordered" /\ \A d \in Caller \ {c} : order'[d] = order[d]
    BY <1>10 DEF StoreStop, Types
  <2> QED BY <2>1, <1>3, <1>4, <1>7, <1>8, <1>9 DEF StopProgress
<1>11. CASE StoreStart(c)
  <2>1. \A d \in Caller : order'[d] = "none"
    BY <1>11 DEF StoreStart
  <2> QED BY <2>1, <1>7, <1>8 DEF StopProgress
<1> QED BY <1>10, <1>11

\* The stores that request nothing by themselves.
LEMMA StorePreserves ==
    ASSUME SupervisorInv, NEW c \in Caller,
           StoreReason(c) \/ Notify(c) \/ ConfigurationUpdated(c) \/ SensorsUpdated(c)
    PROVE  SupervisorInv'
<1> USE DEF SupervisorInv
<1>1. PICK step \in Step \ {"wait"} : Takes(c, step)
  BY DEF StoreReason, Notify, ConfigurationUpdated, SensorsUpdated, Step
<1>2. /\ todo' \in [Caller -> Seq(Step)]
      /\ todo[c] # <<>> /\ Head(todo[c]) # "wait"
      /\ \A d \in Caller \ {c} : todo'[d] = todo[d]
  BY <1>1, TakesFacts
<1>3. UNCHANGED <<service, pending, processing, wanted, work, reading, latest, order>>
  BY DEF StoreReason, Notify, ConfigurationUpdated, SensorsUpdated, writerVars, taskVars
<1>4. stopReason' \in StopReason /\ restartDue' \in BOOLEAN
  BY DEF StoreReason, Notify, ConfigurationUpdated, SensorsUpdated, StopReason, Types
<1>5. reading[c] = "pending"
  BY <1>2 DEF ReadsInWait
<1>6. Types' /\ InTurn' /\ RunShows'
  BY <1>2, <1>3, <1>4 DEF Types, InTurn, RunShows
<1>7. ReadsInWait'
  BY <1>2, <1>3, <1>5 DEF ReadsInWait
<1>8. StopProgress'
  BY <1>3 DEF StopProgress, Taken, Down
<1> QED BY <1>6, <1>7, <1>8

\* WaitUntilIdle(): reading that nothing is pending means the stop was taken, and reading is_processing
\* last means that the run which took it has ended.
LEMMA WaitPreserves ==
    ASSUME SupervisorInv, NEW c \in Caller, WaitGoesOn(c) \/ WaitReturns(c) \/ WaitBeginsAgain(c)
    PROVE  SupervisorInv'
<1> USE DEF SupervisorInv
<1>1. UNCHANGED <<service, pending, stopReason, processing, restartDue, wanted, work, latest>>
  BY DEF WaitGoesOn, WaitReturns, WaitBeginsAgain, writerVars, taskVars
<1>2. /\ todo' \in [Caller -> Seq(Step)]
      /\ todo[c] # <<>> /\ Head(todo[c]) = "wait"
      /\ \A d \in Caller \ {c} : todo'[d] = todo[d]
      /\ reading'[c] # "pending" => todo'[c] = todo[c]
  BY TakesFacts DEF WaitGoesOn, WaitReturns, WaitBeginsAgain, Types
<1>3. /\ reading' \in [Caller -> {"pending", "due", "busy"}]
      /\ \A d \in Caller \ {c} : reading'[d] = reading[d]
  BY DEF WaitGoesOn, WaitReturns, WaitBeginsAgain, Types
<1>4. /\ order' \in [Caller -> {"none", "ordered", "idle"}]
      /\ \A d \in Caller \ {c} : order'[d] = order[d]
  BY DEF WaitGoesOn, WaitReturns, WaitBeginsAgain, Types
<1>5. Types' /\ InTurn' /\ RunShows'
  BY <1>1, <1>2, <1>3, <1>4 DEF Types, InTurn, RunShows
<1>6. ReadsInWait'
  BY <1>2, <1>3 DEF ReadsInWait
<1>7. Taken' = Taken /\ Down' = Down
  BY <1>1 DEF Taken, Down
<1>8. /\ order'[c] # "none" => order[c] # "none"
      /\ order'[c] = "ordered" /\ reading'[c] # "pending" => Taken
      /\ order'[c] = "idle" => Down
  <2>1. CASE WaitGoesOn(c)
    <3>1. order' = order /\ (pending = "None" \/ reading[c] # "pending")
      BY <2>1 DEF WaitGoesOn, Clear
    <3> QED BY <3>1 DEF StopProgress
  <2>2. CASE WaitReturns(c)
    <3>1. ~processing /\ reading[c] = "busy" /\ reading'[c] = "pending"
      BY <2>2 DEF WaitReturns, Clear, Types
    <3>2. order'[c] = IF order[c] = "ordered" THEN "idle" ELSE order[c]
      BY <2>2 DEF WaitReturns, Types
    <3>3. order[c] = "ordered" => Down
      BY <3>1 DEF StopProgress, Taken, RunShows, ProcessPc
    <3> QED BY <3>1, <3>2, <3>3 DEF StopProgress
  <2>3. CASE WaitBeginsAgain(c)
    <3>1. order' = order /\ reading'[c] = "pending"
      BY <2>3 DEF WaitBeginsAgain, Types
    <3> QED BY <3>1 DEF StopProgress
  <2> QED BY <2>1, <2>2, <2>3
<1>9. StopProgress'
  BY <1>1, <1>3, <1>4, <1>7, <1>8 DEF StopProgress
<1> QED BY <1>5, <1>6, <1>9

-----------------------------------------------------------------------------
(* The configuration work queue: who calls StopWriter() and StartWriter(), and what becomes of a stop. *)

\* What StopWriter() does to the run and the writer.
LEMMA StopWriterFacts ==
    ASSUME Types, NEW reason \in StopReason, NEW next \in WorkPc \ {"stopping", "starting"},
           StopWriter(reason, next), service \in {"STOPPED", "RUNNING"}
    PROVE  /\ work' \in Run
           /\ \/ service = "RUNNING" /\ service' = "STOPPING" /\ work'.pc = "stopping" /\ work'.next = next
              \/ service = "STOPPED" /\ service' = "STOPPED" /\ work'.pc = next
BY ZenonT(40) DEF StopWriter, Stop, GoTo, writerVars, Types, WorkPc, Run

\* What StartWriter() does.
LEMMA StartWriterFacts ==
    ASSUME Types, NEW next \in WorkPc \ {"stopping", "starting"}, StartWriter(next)
    PROVE  /\ work' \in Run
           /\ service' = "STARTING" /\ work'.pc = "starting" /\ work'.next = next
BY DEF StartWriter, Start, Types, WorkPc, Run

\* Between transitions the writer is stopped or running.
LEMMA AtRest ==
    ASSUME WriterTypeOK, InTurn, work.pc \notin {"stopping", "starting"}
    PROVE  service \in {"STOPPED", "RUNNING"}
BY DEF WriterTypeOK, InTurn, ServiceState

\* The steps of a run before it acts on a request.
LEMMA TakePreservesSupervisor ==
    ASSUME SupervisorInv, WriterTypeOK, TakeTask \/ TakeRestartDue \/ TakeRequest \/ FinishProcess
    PROVE  SupervisorInv'
<1> USE DEF SupervisorInv
<1>1. UNCHANGED <<service, stopReason, wanted, todo, reading, latest, order>>
  BY DEF TakeTask, TakeRestartDue, TakeRequest, FinishProcess, writerVars, callerVars
<1>2. work.pc \notin {"stopping", "starting"} /\ service \in {"STOPPED", "RUNNING"}
  BY AtRest DEF TakeTask, TakeRestartDue, TakeRequest, FinishProcess
<1> USE DEF Run
<1>a. TakeTask => /\ work' \in Run
                  /\ \/ processing' = TRUE /\ work'.pc = "due"
                     \/ processing' = processing /\ work'.pc = "sensors"
  <2>1. \A pc \in WorkPc : [Idle EXCEPT !.pc = pc] \in Run /\ [Idle EXCEPT !.pc = pc].pc = pc
    BY DEF Idle, WorkPc, StopReason
  <2>2. CASE Head(queue) = "process"
    <3>1. TakeTask => work' = [Idle EXCEPT !.pc = "due"] /\ processing' = TRUE
      BY <2>2 DEF TakeTask
    <3>2. "due" \in WorkPc
      BY DEF WorkPc
    <3> HIDE DEF Run
    <3> QED BY <3>1, <3>2, <2>1
  <2>3. CASE Head(queue) # "process"
    BY <2>1, <2>3 DEF TakeTask, WorkPc
  <2> QED BY <2>2, <2>3
<1>b. TakeRestartDue => work' \in Run /\ work.pc = "due" /\ work'.pc = "failed"
  BY DEF TakeRestartDue, Types, WorkPc
<1>c. TakeRequest => /\ work' \in Run
                     /\ work.pc = "request" /\ pending' = "None"
                     /\ \/ pending = "Start" /\ work'.pc = "applyStart"
                        \/ pending = "Stop" /\ work'.pc = "applyStop"
                        \/ pending = "None" /\ work'.pc = "restart"
  <2>1. CASE pending = "Start"
    BY <2>1 DEF TakeRequest, Types, WorkPc
  <2>2. CASE pending = "Stop"
    BY <2>2 DEF TakeRequest, Types, WorkPc
  <2>3. CASE pending = "None"
    BY <2>3 DEF TakeRequest, Types, WorkPc
  <2> QED BY <2>1, <2>2, <2>3 DEF Types, Request
<1>d. FinishProcess => work' \in Run /\ processing' = FALSE /\ work'.pc = "idle"
  BY DEF FinishProcess, Idle, WorkPc, StopReason
<1>3. work' \in Run
  BY <1>a, <1>b, <1>c, <1>d
<1>4. /\ TakeTask => \/ processing' = TRUE /\ work'.pc = "due"
                     \/ processing' = processing /\ work'.pc = "sensors"
      /\ TakeRestartDue => work.pc = "due" /\ work'.pc = "failed"
      /\ TakeRequest => /\ work.pc = "request" /\ pending' = "None"
                        /\ \/ pending = "Start" /\ work'.pc = "applyStart"
                           \/ pending = "Stop" /\ work'.pc = "applyStop"
                           \/ pending = "None" /\ work'.pc = "restart"
      /\ FinishProcess => processing' = FALSE /\ work'.pc = "idle"
  BY <1>a, <1>b, <1>c, <1>d
<1>5. /\ ~TakeRequest => pending' = pending
      /\ TakeRestartDue \/ TakeRequest => processing' = processing
      /\ restartDue' \in BOOLEAN /\ processing' \in BOOLEAN
  BY DEF TakeTask, TakeRestartDue, TakeRequest, FinishProcess, Types
<1>6. Types'
  BY <1>1, <1>3, <1>4, <1>5 DEF Types, Request
<1>7. InTurn' /\ RunShows'
  BY <1>1, <1>2, <1>4, <1>5 DEF InTurn, RunShows, ProcessPc
<1>8. ReadsInWait'
  BY <1>1 DEF ReadsInWait
<1>9. pending # "Start" /\ Down => Down'
  BY <1>1, <1>4 DEF Down
<1>10. pending # "Start" /\ Taken => Taken'
  BY <1>2, <1>4, <1>9 DEF Taken, TakeTask, TakeRestartDue, TakeRequest, FinishProcess
<1>11. pending = "Stop" /\ pending' = "None" => Taken'
  BY <1>4, <1>5 DEF Taken
<1>12. StopProgress'
  BY <1>1, <1>4, <1>5, <1>9, <1>10, <1>11, ProgressKept DEF Types
<1> QED BY <1>6, <1>7, <1>8, <1>12

\* A run acts: it stops the writer, or passes on when there is nothing to stop.
LEMMA StopsPreserve ==
    ASSUME SupervisorInv, WriterTypeOK,
           StopIfFailed \/ ApplyStop \/ ApplyStart \/ RestartIfRunning \/ StopDependent
    PROVE  SupervisorInv'
<1> USE DEF SupervisorInv
<1> USE DEF Run
<1>1. UNCHANGED <<pending, processing, restartDue, todo, reading, latest, order>>
  BY DEF StopIfFailed, ApplyStop, ApplyStart, RestartIfRunning, StopDependent, callerVars
<1>2. work.pc \notin {"stopping", "starting"} /\ service \in {"STOPPED", "RUNNING"}
  BY AtRest DEF StopIfFailed, ApplyStop, ApplyStart, RestartIfRunning, StopDependent
<1>3. stopReason' \in StopReason /\ wanted' \in BOOLEAN
  BY DEF StopIfFailed, ApplyStop, ApplyStart, RestartIfRunning, StopDependent, Types, StopReason
<1>4. \A pc \in WorkPc : GoTo(pc) => work' \in Run /\ work'.pc = pc
  BY DEF GoTo, Types
<1>5. /\ StopIfFailed => work.pc = "failed"
      /\ ApplyStop => work.pc = "applyStop" /\ ~wanted'
      /\ ApplyStart => work.pc = "applyStart"
      /\ RestartIfRunning => work.pc = "restart"
      /\ StopDependent => work.pc = "sensors"
  BY DEF StopIfFailed, ApplyStop, ApplyStart, RestartIfRunning, StopDependent
<1>6. /\ work' \in Run
      /\ \/ service = "RUNNING" /\ service' = "STOPPING" /\ work'.pc = "stopping"
         \/ service' = service /\ work'.pc \in {"request", "restart", "start", "done", "idle"}
      /\ service = "STOPPED" => service' = "STOPPED"
      /\ ApplyStop => \/ work'.pc = "stopping" /\ work'.next = "restart"
                      \/ work'.pc = "restart" /\ service' = "STOPPED"
      /\ ~ApplyStart => work'.pc # "start"
      /\ StopDependent => \/ work'.pc = "idle"
                          \/ work'.pc = "stopping" /\ work'.next = "dependent"
      /\ ~StopDependent => work'.pc # "idle"
  <2>1. CASE StopIfFailed
    <3>1. CASE hasFailed /\ service = "RUNNING"
      <4>1. StopWriter("Stopped", "request")
        BY <2>1, <3>1 DEF StopIfFailed
      <4> QED BY <4>1, <1>2, <1>5, <2>1, <3>1, StopWriterFacts DEF WorkPc, StopReason
    <3>2. CASE ~(hasFailed /\ service = "RUNNING")
      <4>1. UNCHANGED writerVars /\ GoTo("request")
        BY <2>1, <3>2 DEF StopIfFailed
      <4> QED BY <4>1, <1>2, <1>4, <1>5, <2>1 DEF WorkPc, writerVars
    <3> QED BY <3>1, <3>2
  <2>2. CASE ApplyStop
    <3>1. StopWriter(stopReason, "restart")
      BY <2>2 DEF ApplyStop
    <3> QED BY <3>1, <1>2, <1>5, <2>2, StopWriterFacts DEF WorkPc, Types
  <2>3. CASE ApplyStart
    <3>1. CASE service = "RUNNING" /\ ~hasFailed
      <4>1. UNCHANGED writerVars /\ GoTo("restart")
        BY <2>3, <3>1 DEF ApplyStart
      <4> QED BY <4>1, <1>2, <1>4, <1>5, <2>3 DEF WorkPc, writerVars
    <3>2. CASE ~(service = "RUNNING" /\ ~hasFailed)
      <4>1. StopWriter("Stopped", "start")
        BY <2>3, <3>2 DEF ApplyStart
      <4> QED BY <4>1, <1>2, <1>5, <2>3, StopWriterFacts DEF WorkPc, StopReason
    <3> QED BY <3>1, <3>2
  <2>4. CASE RestartIfRunning
    <3>1. \/ StopWriter("Stopped", "restarted") /\ service = "RUNNING"
          \/ UNCHANGED writerVars /\ GoTo("done")
      BY <2>4 DEF RestartIfRunning
    <3>2. CASE StopWriter("Stopped", "restarted") /\ service = "RUNNING"
      BY <3>2, <1>2, <1>5, <2>4, StopWriterFacts DEF WorkPc, StopReason
    <3>3. CASE UNCHANGED writerVars /\ GoTo("done")
      BY <3>3, <1>2, <1>4, <1>5, <2>4 DEF WorkPc, writerVars
    <3> QED BY <3>1, <3>2, <3>3
  <2>5. CASE StopDependent
    <3>1. CASE service = "RUNNING"
      <4>1. StopWriter("Stopped", "dependent")
        BY <2>5, <3>1 DEF StopDependent
      <4> QED BY <4>1, <1>2, <1>5, <2>5, <3>1, StopWriterFacts DEF WorkPc, StopReason
    <3>2. CASE service # "RUNNING"
      <4>1. UNCHANGED writerVars /\ work' = Idle
        BY <2>5, <3>2 DEF StopDependent
      <4>2. Idle \in Run /\ Idle.pc = "idle"
        BY DEF Idle, WorkPc, StopReason
      <4> QED BY <4>1, <4>2, <1>2, <1>5, <2>5 DEF writerVars
    <3> QED BY <3>1, <3>2
  <2> QED BY <2>1, <2>2, <2>3, <2>4, <2>5
<1>7. work'.pc = "stopping" /\ work'.next \in ProcessPc => processing
  BY <1>5, <1>6 DEF RunShows, ProcessPc
<1> HIDE DEF Run
<1>8. Types'
  BY <1>1, <1>3, <1>6 DEF Types, Run
<1>9. InTurn'
  BY <1>2, <1>6 DEF InTurn
<1>10. RunShows'
  BY <1>1, <1>5, <1>6, <1>7 DEF RunShows, ProcessPc
<1>11. ReadsInWait'
  BY <1>1 DEF ReadsInWait
<1>12. Down => ~wanted'
  BY <1>5 DEF Down, StopIfFailed, ApplyStop, ApplyStart, RestartIfRunning, StopDependent
<1>13. Down => Down'
  BY <1>5, <1>6, <1>12 DEF Down
<1>14. Taken => Taken'
  BY <1>2, <1>5, <1>6, <1>13 DEF Taken, Down
<1>15. StopProgress'
  BY <1>1, <1>13, <1>14, ProgressKept DEF Types
<1> QED BY <1>8, <1>9, <1>10, <1>11, <1>15

\* A run starts the writer: for a request, for a stored configuration, or after a sensors restart.
LEMMA StartsPreserve ==
    ASSUME SupervisorInv, WriterTypeOK, StartRequested \/ StartRestarted \/ StartDependent
    PROVE  SupervisorInv'
<1> USE DEF SupervisorInv
<1> USE DEF Run
<1>1. UNCHANGED <<pending, stopReason, processing, restartDue, todo, reading, latest, order>>
  BY DEF StartRequested, StartRestarted, StartDependent, callerVars
<1>2. /\ work.pc \in {"start", "restarted", "dependent"}
      /\ work.pc \notin {"stopping", "starting"} /\ service \in {"STOPPED", "RUNNING"}
  BY AtRest DEF StartRequested, StartRestarted, StartDependent
<1>3. /\ work' \in Run
      /\ \/ service' = "STARTING" /\ work'.pc = "starting" /\ (work'.next \in ProcessPc => work.pc # "dependent")
         \/ service' = service /\ work'.pc = "idle"
  <2>1. CASE StartRequested
    BY <2>1, StartWriterFacts DEF StartRequested, WorkPc
  <2>2. CASE StartRestarted
    BY <2>2, StartWriterFacts DEF StartRestarted, WorkPc
  <2>3. CASE StartDependent
    <3>1. \/ StartWriter("idle")
          \/ UNCHANGED writerVars /\ work' = Idle
      BY <2>3 DEF StartDependent
    <3>2. Idle \in Run /\ Idle.pc = "idle"
      BY DEF Idle, WorkPc, StopReason
    <3>3. CASE StartWriter("idle")
      BY <3>3, StartWriterFacts DEF WorkPc, ProcessPc
    <3>4. CASE UNCHANGED writerVars /\ work' = Idle
      BY <3>2, <3>4 DEF writerVars
    <3> QED BY <3>1, <3>3, <3>4
  <2> QED BY <2>1, <2>2, <2>3
<1>4. wanted' \in BOOLEAN
  BY DEF StartRequested, StartRestarted, StartDependent, Types
<1> HIDE DEF Run
<1>5. Types'
  BY <1>1, <1>3, <1>4 DEF Types, Run
<1>6. InTurn'
  BY <1>2, <1>3 DEF InTurn
<1>7. RunShows'
  BY <1>1, <1>2, <1>3 DEF RunShows, ProcessPc
<1>8. ReadsInWait'
  BY <1>1 DEF ReadsInWait
<1>9. ~Taken /\ ~Down
  BY <1>2 DEF Taken, Down
<1>10. StopProgress'
  BY <1>1, <1>9, ProgressKept DEF Types
<1> QED BY <1>5, <1>6, <1>7, <1>8, <1>10

\* Inside DoStop() and DoStart(): the last step of either returns to the run.
LEMMA TransitionsPreserve ==
    ASSUME SupervisorInv, WriterInv, Stopping \/ Starting
    PROVE  SupervisorInv'
<1> USE DEF SupervisorInv
<1> USE DEF Run
<1>1. UNCHANGED <<pending, stopReason, processing, restartDue, todo, reading, latest, order>>
  BY DEF Stopping, Starting, callerVars
<1>2. CASE Stopping
  <2>1. /\ work.pc = "stopping" /\ wanted' = wanted /\ work' \in Run /\ service = "STOPPING"
        /\ \/ service' = service /\ work'.pc = work.pc /\ work'.next = work.next
           \/ service' = "STOPPED" /\ work'.pc = work.next
    <3>1. CASE (Cancel \/ CancelAgain \/ CloseLogFile) /\ UNCHANGED work
      BY <1>2, <3>1 DEF Stopping, Cancel, CancelAgain, CloseLogFile, Types, InTurn
    <3>2. CASE FinishStop(work.reason) /\ GoTo(work.next)
      BY <1>2, <3>2 DEF Stopping, FinishStop, GoTo, Types, InTurn
    <3> QED BY <1>2, <3>1, <3>2 DEF Stopping
  <2>2. work.next \in WorkPc \ {"stopping", "starting"}
    BY DEF Types
  <2> HIDE DEF Run
  <2>3. Types'
    BY <1>1, <2>1 DEF Types, Run
  <2>4. InTurn' /\ RunShows' /\ ReadsInWait'
    BY <1>1, <2>1, <2>2 DEF InTurn, RunShows, ReadsInWait, ProcessPc
  <2>5. ~Down
    BY <2>1 DEF Down
  <2>6. Taken => Taken'
    BY <2>1, <2>5 DEF Taken, Down
  <2>7. StopProgress'
    BY <1>1, <2>5, <2>6, ProgressKept DEF Types
  <2> QED BY <2>3, <2>4, <2>7
<1>3. CASE Starting
  <2>1. /\ work.pc = "starting" /\ wanted' \in BOOLEAN /\ work' \in Run /\ service = "STARTING"
        /\ \/ service' = service /\ work'.pc = work.pc /\ work'.next = work.next
           \/ service' \in {"STOPPED", "RUNNING"} /\ work'.pc = work.next
    <3>1. CASE (OpenLogFile \/ BeginSession) /\ UNCHANGED <<work, wanted>>
      BY <1>3, <3>1 DEF Starting, OpenLogFile, BeginSession, Types, InTurn
    <3>2. CASE ArmFirstTick /\ wanted' = TRUE /\ work' = [work EXCEPT !.pc = work.next, !.fresh = TRUE]
      BY <1>3, <3>2 DEF Starting, ArmFirstTick, Types, InTurn
    <3>3. CASE RefuseStart /\ wanted' = FALSE /\ GoTo(work.next)
      BY <1>3, <3>3 DEF Starting, RefuseStart, GoTo, Types, InTurn
    <3> QED BY <1>3, <3>1, <3>2, <3>3 DEF Starting
  <2>2. work.next \in WorkPc \ {"stopping", "starting"}
    BY DEF Types
  <2> HIDE DEF Run
  <2>3. Types'
    BY <1>1, <2>1 DEF Types, Run
  <2>4. InTurn' /\ RunShows' /\ ReadsInWait'
    BY <1>1, <2>1, <2>2 DEF InTurn, RunShows, ReadsInWait, ProcessPc
  <2>5. ~Down /\ ~Taken
    BY <2>1 DEF Down, Taken
  <2>6. StopProgress'
    BY <1>1, <2>5, ProgressKept DEF Types
  <2> QED BY <2>3, <2>4, <2>6
<1> QED BY <1>2, <1>3

-----------------------------------------------------------------------------
(* The composition *)

\* Whatever the supervisor does to the writer is a step of the writer's specification.
LEMMA StepsOfWriter ==
    ASSUME SupervisorInv, [Next]_vars
    PROVE  [WriterNext]_writerVars
<1> USE DEF WriterNext, StartSteps, StopSteps
<1>1. CASE \E c \in Caller : CallerStep(c)
  BY <1>1 DEF CallerStep, StoreReason, StoreStop, StoreStart, Notify, ConfigurationUpdated, SensorsUpdated,
              WaitGoesOn, WaitReturns, WaitBeginsAgain
<1>2. CASE TakeTask \/ TakeRestartDue \/ TakeRequest \/ FinishProcess
  BY <1>2 DEF TakeTask, TakeRestartDue, TakeRequest, FinishProcess
<1>3. CASE StopIfFailed \/ ApplyStop \/ ApplyStart \/ RestartIfRunning \/ StopDependent
  BY <1>3 DEF StopIfFailed, ApplyStop, ApplyStart, RestartIfRunning, StopDependent, StopWriter
<1>4. CASE StartRequested \/ StartRestarted \/ StartDependent
  BY <1>4 DEF StartRequested, StartRestarted, StartDependent, StartWriter
<1>5. CASE Stopping \/ Starting
  <2>1. work.reason \in StopReason
    BY DEF SupervisorInv, Types, Run
  <2> QED BY <1>5, <2>1 DEF Stopping, Starting
<1>6. CASE Writer \/ OnStatusUpdated
  BY <1>6 DEF Writer, OnStatusUpdated
<1>7. CASE UNCHANGED vars
  BY <1>7 DEF vars
<1> QED BY <1>1, <1>2, <1>3, <1>4, <1>5, <1>6, <1>7 DEF Next, ConfigWorkQueue

\* One step of any thread keeps both inductive invariants.
LEMMA StepPreserves ==
    ASSUME WriterInv, SupervisorInv, [Next]_vars
    PROVE  WriterInv' /\ SupervisorInv'
<1>1. WriterInv'
  <2>1. CASE WriterNext
    BY <2>1, StartPreserves, StopPreserves, TickPreserves, TakePreserves DEF WriterNext
  <2>2. CASE UNCHANGED writerVars
    BY <2>2 DEF writerVars, WriterInv, WriterTypeOK, Transitions, Ticks
  <2> QED BY <2>1, <2>2, StepsOfWriter
<1>2. SupervisorInv'
  <2>1. WriterTypeOK
    BY DEF WriterInv
  <2>2. CASE \E c \in Caller : CallerStep(c)
    BY <2>2, RequestPreserves, StorePreserves, WaitPreserves DEF CallerStep
  <2>3. CASE ConfigWorkQueue
    BY <2>1, <2>3, TakePreservesSupervisor, StopsPreserve, StartsPreserve, TransitionsPreserve
       DEF ConfigWorkQueue
  <2>4. CASE Writer
    <3>1. service' = service
      BY <2>4 DEF Writer, WriterThread, RunTick, ProcessTick, RotateFile, ReopenFile, WriteReadings,
                  PublishFailure, EndTick, RescheduleTick
    <3> QED BY <2>4, <3>1, OthersPreserve DEF Writer, supervisorVars
  <2>5. CASE OnStatusUpdated
    BY <2>5, OthersPreserve DEF OnStatusUpdated, TakeStatus
  <2>6. CASE UNCHANGED vars
    BY <2>6, OthersPreserve DEF vars, writerVars, supervisorVars
  <2> QED BY <2>2, <2>3, <2>4, <2>5, <2>6 DEF Next
<1> QED BY <1>1, <1>2

\* The initial state of the composition: no request, no order, an idle queue.
LEMMA InitInv == Init => WriterInv /\ SupervisorInv
<1> SUFFICES ASSUME Init PROVE WriterInv /\ SupervisorInv
  OBVIOUS
<1>1. WriterInv
  BY WriterInitInv DEF Init
<1>2. Idle \in Run /\ Idle.pc = "idle"
  BY DEF Idle, WorkPc, StopReason, Run
<1>3. Types
  BY <1>2, ScriptAssumption DEF Init, Types, Request, StopReason
<1>4. InTurn /\ RunShows
  BY <1>2 DEF Init, WriterInit, InTurn, RunShows, ProcessPc
<1>5. ReadsInWait /\ StopProgress
  BY DEF Init, ReadsInWait, StopProgress
<1> QED BY <1>1, <1>3, <1>4, <1>5 DEF SupervisorInv

\* The supervisor drives the writer as its specification allows: one transition at a time, whatever the
\* callers request and whenever sensor processing restarts.
THEOREM SupervisorDrivesWriter == Spec => WriterSpec
<1>1. Init => WriterInit /\ WriterInv /\ SupervisorInv
  BY InitInv DEF Init
<1>2. WriterInv /\ SupervisorInv /\ [Next]_vars => (WriterInv /\ SupervisorInv)'
  BY StepPreserves
<1>3. SupervisorInv /\ [Next]_vars => [WriterNext]_writerVars
  BY StepsOfWriter
<1> QED BY <1>1, <1>2, <1>3, PTL DEF Spec, WriterSpec

\* Under the supervisor a tick writes only to an open file, and a stopped writer is quiet.
THEOREM SupervisedWriterCorrect == Spec => [](TickOwnsFile /\ StoppedIsQuiet)
<1>1. WriterTypeOK /\ TickOwnsFile /\ StoppedIsQuiet => TickOwnsFile /\ StoppedIsQuiet
  OBVIOUS
<1> QED BY <1>1, SupervisorDrivesWriter, WriterCorrect, PTL

\* WaitUntilIdle() keeps its promise to whoever ordered a stop: once it returned true the writer is stopped
\* with its file closed, and stays so until somebody requests a start.
THEOREM WaitIsSafe == Spec => []IdleMeansStopped
<1>1. Init => WriterInv /\ SupervisorInv
  BY InitInv
<1>2. WriterInv /\ SupervisorInv /\ [Next]_vars => (WriterInv /\ SupervisorInv)'
  BY StepPreserves
<1>3. WriterInv /\ SupervisorInv => IdleMeansStopped
  <2> SUFFICES ASSUME WriterInv, SupervisorInv, NEW c \in Caller, order[c] = "idle"
               PROVE  service = "STOPPED" /\ ~file /\ ~timer /\ tick = "idle"
    BY DEF IdleMeansStopped
  <2>1. service = "STOPPED"
    BY DEF SupervisorInv, StopProgress, Down
  <2> QED BY <2>1, WriterInvImplies DEF StoppedIsQuiet
<1> QED BY <1>1, <1>2, <1>3, PTL DEF Spec

-----------------------------------------------------------------------------
(* The queue and the status *)

\* No task is queued twice, so the configuration work queue never holds more than the two there are.
Queues == {<<>>, <<"process">>, <<"sensors">>, <<"process", "sensors">>, <<"sensors", "process">>}

QueueAndStatus == queue \in Queues /\ active \in BOOLEAN /\ reported \in Reason

\* A task behind another makes the queue of the two.
LEMMA AppendSecond ==
    ASSUME NEW S, NEW a \in S, NEW b \in S
    PROVE  Append(<<a>>, b) = <<a, b>>
<1> DEFINE s == Append(<<a>>, b)
           t == <<a, b>>
<1>1. <<a>> \in Seq(S) /\ Len(<<a>>) = 1 /\ <<a>>[1] = a
  OBVIOUS
<1>2. s \in Seq(S) /\ Len(s) = 2 /\ s[1] = a /\ s[2] = b
  BY <1>1
<1>3. t \in Seq(S) /\ Len(t) = 2 /\ t[1] = a /\ t[2] = b
  OBVIOUS
<1> HIDE DEF s, t
<1>4. \A i \in 1 .. Len(s) : s[i] = t[i]
  BY <1>2, <1>3
<1>5. s = t
  BY <1>2, <1>3, <1>4, SeqEqual
<1> QED BY <1>5 DEF s, t

\* Reschedule() of either task keeps the queue free of repetitions.
LEMMA QueuedOnce ==
    ASSUME queue \in Queues, NEW task \in {"process", "sensors"}
    PROVE  Queued(task) \in Queues
<1>1. CASE \E i \in DOMAIN queue : queue[i] = task
  BY <1>1 DEF Queued
<1>2. CASE ~\E i \in DOMAIN queue : queue[i] = task
  <2>1. Queued(task) = Append(queue, task)
    BY <1>2 DEF Queued
  <2>2. CASE queue = <<>>
    BY <2>1, <2>2 DEF Queues
  <2>3. CASE queue = <<"process">>
    <3>1. task = "sensors"
      BY <1>2, <2>3
    <3>2. Queued(task) = <<"process", "sensors">>
      BY <2>1, <2>3, <3>1, AppendSecond
    <3> QED BY <3>2 DEF Queues
  <2>4. CASE queue = <<"sensors">>
    <3>1. task = "process"
      BY <1>2, <2>4
    <3>2. Queued(task) = <<"sensors", "process">>
      BY <2>1, <2>4, <3>1, AppendSecond
    <3> QED BY <3>2 DEF Queues
  <2>5. CASE queue \in {<<"process", "sensors">>, <<"sensors", "process">>}
    BY <1>2, <2>5
  <2> QED BY <2>2, <2>3, <2>4, <2>5 DEF Queues
<1> QED BY <1>1, <1>2

\* What the task takes off leaves a queue without repetitions.
LEMMA TailOfQueue ==
    ASSUME queue \in Queues, queue # <<>>
    PROVE  Tail(queue) \in Queues
<1>1. CASE queue = <<"process">> \/ queue = <<"sensors">>
  <2>1. Tail(<<"process">>) = <<>> /\ Tail(<<"sensors">>) = <<>>
    OBVIOUS
  <2>2. Tail(queue) = <<>>
    BY <1>1, <2>1
  <2> QED BY <2>2 DEF Queues
<1>2. CASE queue = <<"process", "sensors">>
  BY <1>2 DEF Queues
<1>3. CASE queue = <<"sensors", "process">>
  BY <1>3 DEF Queues
<1> QED BY <1>1, <1>2, <1>3 DEF Queues

\* A step of any thread keeps the queue without repetitions and the published status well formed.
LEMMA QueueAndStatusKept ==
    ASSUME WriterInv, QueueAndStatus, [Next]_vars
    PROVE  QueueAndStatus'
<1>1. ASSUME NEW c \in Caller, CallerStep(c) PROVE QueueAndStatus'
  <2>1. active' = active /\ reported' = reported
    BY <1>1 DEF CallerStep, StoreReason, StoreStop, StoreStart, Notify, ConfigurationUpdated, SensorsUpdated,
                WaitGoesOn, WaitReturns, WaitBeginsAgain, taskVars, statusVars
  <2>2. queue' \in {queue, Queued("process"), Queued("sensors")}
    BY <1>1 DEF CallerStep, StoreReason, StoreStop, StoreStart, Notify, ConfigurationUpdated, SensorsUpdated,
                WaitGoesOn, WaitReturns, WaitBeginsAgain
  <2> QED BY <2>1, <2>2, QueuedOnce DEF QueueAndStatus
<1>2. CASE TakeTask
  BY <1>2, TailOfQueue DEF TakeTask, QueueAndStatus, statusVars
<1>3. CASE ConfigWorkQueue /\ ~TakeTask
  BY <1>3 DEF ConfigWorkQueue, TakeRestartDue, StopIfFailed, TakeRequest, ApplyStop, ApplyStart, StartRequested,
              RestartIfRunning, StartRestarted, FinishProcess, StopDependent, StartDependent, Stopping, Starting,
              QueueAndStatus, statusVars
<1>4. CASE OnStatusUpdated
  <2>1. Head(bus) \in Status
    BY <1>4 DEF OnStatusUpdated, TakeStatus, WriterInv, WriterTypeOK
  <2>2. active' \in BOOLEAN /\ reported' \in Reason
    BY <1>4, <2>1 DEF OnStatusUpdated, Status
  <2>3. queue' \in {queue, Queued("process")}
    BY <1>4 DEF OnStatusUpdated
  <2> QED BY <2>2, <2>3, QueuedOnce DEF QueueAndStatus
<1>5. CASE Writer \/ UNCHANGED vars
  BY <1>5 DEF Writer, vars, supervisorVars, statusVars, QueueAndStatus
<1> QED BY <1>1, <1>2, <1>3, <1>4, <1>5 DEF Next

\* Every variable of the writer and its supervisor keeps its type, for every set of callers and scripts: in
\* particular the work queue never holds a task twice, whatever is requested, stored and reported meanwhile.
THEOREM SupervisorTypeCorrect == Spec => []SupervisorTypeOK
<1>1. Init => WriterInv /\ SupervisorInv /\ QueueAndStatus
  BY InitInv DEF Init, QueueAndStatus, Queues, Reason, StopReason
<1>2. WriterInv /\ SupervisorInv /\ QueueAndStatus /\ [Next]_vars
      => (WriterInv /\ SupervisorInv /\ QueueAndStatus)'
  BY StepPreserves, QueueAndStatusKept
<1>3. WriterInv /\ SupervisorInv /\ QueueAndStatus => SupervisorTypeOK
  BY DEF WriterInv, SupervisorInv, QueueAndStatus, Queues, Types, Run, SupervisorTypeOK
<1> QED BY <1>1, <1>2, <1>3, PTL DEF Spec
=============================================================================
