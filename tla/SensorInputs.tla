---------------------------- MODULE SensorInputs ----------------------------
(***************************************************************************)
(* Where sensors get inputs that they do not poll for: the sources driven  *)
(* by events, and the GPIO pins.                                           *)
(***************************************************************************)
EXTENDS Naturals, Sequences

(***************************************************************************)
(* The event-driven sensor sources: a ControlSensorReader, which queues    *)
(* the values its control publishes, and the CanFrameRouter, which keeps   *)
(* the newest frame of each route.  Inputs come on another thread, which   *)
(* stores one under the lock and then submits a work item; the processing  *)
(* work queue runs the item; ProcessingIsrService pauses, resumes, builds  *)
(* and tears down the source.  One source is followed, with a lane for     *)
(* each of its queues; the inputs of a lane are numbered.                  *)
(***************************************************************************)

CONSTANTS Routes,        \* number of CAN routes
          QueueCapacity, \* ControlSensorReader::QUEUE_CAPACITY
          MaxInputs      \* bound: inputs of a lane

VARIABLES inputKind,  \* what the source is
          lanes,      \* its queues
          inputWork,  \* the work item: idle, queued, running, or both
          laneScan,   \* the lane the work item is at
          inHand,     \* the input it processes, 0 for none
          submitting, \* an input is stored and its work item not yet submitted
          holds,      \* is_paused_
          workOwner,  \* where ProcessingIsrService is with the source
          given,      \* ghost: the last input of each lane
          done,       \* ghost: the last input each lane processed
          skips       \* ghost: inputs a pause kept in place of older ones

inputVars == <<inputKind, lanes, inputWork, laneScan, inHand, submitting, holds, workOwner, given,
               done,
               skips>>

IsIndicator == inputKind = "indicator"
IsRouter == inputKind = "router"
Lanes == DOMAIN lanes

SensorInputsInit ==
  /\ inputKind \in {"indicator", "analog", "router"}
  /\ lanes = [l \in 1..(IF inputKind = "router" THEN Routes ELSE 1) |-> <<>>]
  /\ inputWork = "idle" /\ laneScan = 1 /\ inHand = 0 /\ submitting = FALSE /\ holds = FALSE
  /\ workOwner = "down" /\ given = [l \in DOMAIN lanes |-> 0] /\ done = given /\ skips = {}

-----------------------------------------------------------------------------
\* The thread inputs come on.

Listens == workOwner \notin {"down", "tearing"}

(* Mutant: an indicator, too, keeps only its newest level. *)
MutantReplaces(l) == lanes[l] # <<>>

(* Only an indicator that is not paused keeps every level. *)
Replaces(l) == lanes[l] # <<>> /\ (holds \/ ~IsIndicator)

IsFull(l) == Len(lanes[l]) = QueueCapacity

(* OnInput() and OnFrameReceived(): the part under the lock.  An input     *)
(* that finds the queue full is dropped: nothing changes.                 *)
QueueInput(l) ==
  LET n == given[l] + 1
  IN  /\ Listens /\ ~submitting /\ given[l] < MaxInputs
      /\ given' = [given EXCEPT ![l] = n]
      /\ \/ /\ Replaces(l)
            /\ lanes' = [lanes EXCEPT ![l][Len(lanes[l])] = n]
            /\ submitting' = ~holds /\ skips' = IF holds THEN skips \cup {n} ELSE skips
         \/ /\ ~Replaces(l) /\ ~IsFull(l)
            /\ lanes' = [lanes EXCEPT ![l] = Append(@, n)]
            /\ submitting' = ~holds /\ UNCHANGED skips
      /\ UNCHANGED <<inputKind, inputWork, laneScan, inHand, holds, workOwner, done>>

(* k_work_submit_to_queue(): an item that runs is queued again. *)
Submitted ==
  CASE inputWork = "idle" -> "queued"
    [] inputWork = "running" -> "again"
    [] OTHER -> inputWork

SubmitInput ==
  /\ submitting /\ submitting' = FALSE /\ inputWork' = Submitted
  /\ UNCHANGED <<inputKind, lanes, laneScan, inHand, holds, workOwner, given, done, skips>>

-----------------------------------------------------------------------------
\* The processing work queue.

WorkHandler ==
  /\ inputWork = "queued"
  /\ inputWork' = "running" /\ laneScan' = 1
  /\ UNCHANGED <<inputKind, lanes, inHand, submitting, holds, workOwner, given, done, skips>>

(* Mutant: the pause is not looked at under the lock. *)
MutantMayTake(l) == lanes[l] # <<>>

MayTake(l) == lanes[l] # <<>> /\ ~holds

IsWorking == inputWork \in {"running", "again"}

(* ProcessPendingInputs() and ProcessPendingFrames(): the part under the lock. *)
TakePending ==
  /\ IsWorking /\ inHand = 0 /\ laneScan \in Lanes /\ MayTake(laneScan)
  /\ inHand' = Head(lanes[laneScan]) /\ lanes' = [lanes EXCEPT ![laneScan] = Tail(@)]
  /\ UNCHANGED <<inputKind, inputWork, laneScan, submitting, holds, workOwner, given, done, skips>>

(* Whether or not the processing throws; the router goes on to its next   *)
(* route, the reader looks at its queue again.                            *)
ProcessInput ==
  /\ inHand # 0
  /\ done' = [done EXCEPT ![laneScan] = inHand] /\ inHand' = 0
  /\ laneScan' = IF IsRouter THEN laneScan + 1 ELSE laneScan
  /\ UNCHANGED <<inputKind, lanes, inputWork, submitting, holds, workOwner, given, skips>>

NothingHere == inHand = 0 /\ (laneScan \in Lanes => ~MayTake(laneScan))

NextLane ==
  /\ IsWorking /\ NothingHere /\ laneScan < Len(lanes)
  /\ laneScan' = laneScan + 1
  /\ UNCHANGED <<inputKind, lanes, inputWork, inHand, submitting, holds, workOwner, given, done,
                 skips>>

WorkEnds ==
  /\ IsWorking /\ NothingHere /\ laneScan >= Len(lanes)
  /\ inputWork' = IF inputWork = "again" THEN "queued" ELSE "idle"
  /\ UNCHANGED <<inputKind, lanes, laneScan, inHand, submitting, holds, workOwner, given, done,
                 skips>>

-----------------------------------------------------------------------------
\* ProcessingIsrService: BuildSources(), DoPause(), DoResume(), TearDown().

(* A source that is built starts with nothing waiting. *)
Build ==
  /\ workOwner = "down"
  /\ workOwner' = "up" /\ holds' = FALSE
  /\ given' = [l \in Lanes |-> 0] /\ done' = given' /\ skips' = {}
  /\ UNCHANGED <<inputKind, lanes, inputWork, laneScan, inHand, submitting>>

Newest(q) == IF q = <<>> THEN q ELSE <<q[Len(q)]>>

(* A control reader keeps listening, and holds the newest value. *)
Pause ==
  /\ workOwner = "up" /\ ~IsRouter
  /\ workOwner' = "pausing" /\ holds' = TRUE
  /\ lanes' = [l \in Lanes |-> Newest(lanes[l])]
  /\ skips' = IF Len(lanes[1]) > 1 THEN skips \cup {lanes'[1][1]} ELSE skips
  /\ UNCHANGED <<inputKind, inputWork, laneScan, inHand, submitting, given, done>>

(* k_work_cancel_sync(): drops an item that waits, and waits for one that runs. *)
CancelSync ==
  /\ workOwner \in {"pausing", "tearing"} /\ inputWork \in {"idle", "queued"}
  /\ inputWork' = "idle"
  /\ \/ workOwner = "pausing" /\ workOwner' = "paused" /\ UNCHANGED lanes
     \/ workOwner = "tearing" /\ workOwner' = "down" /\ lanes' = [l \in Lanes |-> <<>>]
  /\ UNCHANGED <<inputKind, laneScan, inHand, submitting, holds, given, done, skips>>

Resume ==
  /\ workOwner = "paused" /\ holds' = FALSE
  /\ workOwner' = IF lanes[1] # <<>> THEN "resuming" ELSE "up"
  /\ UNCHANGED <<inputKind, lanes, inputWork, laneScan, inHand, submitting, given, done, skips>>

(* Mutant: the value that waited is left to the next input. *)
MutantAfterResume == inputWork

AfterResume == Submitted

ResumeSubmits ==
  /\ workOwner = "resuming" /\ workOwner' = "up" /\ inputWork' = AfterResume
  /\ UNCHANGED <<inputKind, lanes, laneScan, inHand, submitting, holds, given, done, skips>>

(* Mutant: a handler in its body is not waited for. *)
MutantHandlersGone == TRUE

(* The guard and the handler's removal wait for a call that runs. *)
HandlersGone == ~submitting

TearDown ==
  /\ workOwner \in {"up", "paused"} /\ HandlersGone
  /\ workOwner' = "tearing"
  /\ UNCHANGED <<inputKind, lanes, inputWork, laneScan, inHand, submitting, holds, given, done,
                 skips>>

SensorInputsNext ==
  \/ \E l \in Lanes: QueueInput(l)
  \/ SubmitInput \/ WorkHandler \/ TakePending \/ ProcessInput \/ NextLane \/ WorkEnds
  \/ Build \/ Pause \/ CancelSync \/ Resume \/ ResumeSubmits \/ TearDown

-----------------------------------------------------------------------------
(* A source at rest has processed the newest input of every lane, however  *)
(* inputs, the work item, a pause and its resume interleave.               *)
NewestAtRest ==
  workOwner = "up" /\ inputWork = "idle" /\ ~submitting
    => \A l \in Lanes: lanes[l] = <<>> /\ done[l] = given[l]

(* An indicator processes every press and release in order: a Toggle needs *)
(* both.  Only a pause skips some, to the level at the resume.             *)
PressesInOrder ==
  [][IsIndicator /\ inHand # 0 /\ inHand' = 0 => inHand \in {done[1] + 1} \cup skips]_inputVars

(* Once Pause() returned nothing is processed until Resume(). *)
NothingWhilePaused == workOwner = "paused" => inHand = 0

(* Once the source is torn down its work item neither runs nor waits. *)
QuietWhenDown == workOwner = "down" => inputWork = "idle" /\ ~submitting

-----------------------------------------------------------------------------
(***************************************************************************)
(* From a GPIO pin to a sensor: the interrupt latches the level, a work    *)
(* item on the system queue hands it to the channel's handlers, and the    *)
(* GpioSensorReader's handler queues it for the processing work queue.     *)
(* The reader is built at a start or a resume and goes at a stop or a      *)
(* pause; it seeds itself with the level it reads.                         *)
(***************************************************************************)

VARIABLES pin,        \* the level
          latched,    \* pending_state of the channel
          bottom,     \* the bottom half: idle, queued, running or both
          handedOver, \* the level it hands to the handlers
          building,   \* the reader: none, how far its constructor is, up, going
          seedLevel,  \* the level the constructor read
          pinState,   \* pending_state_ of the reader
          pinWork,    \* the reader's work item
          sensed,     \* ghost: the level last processed
          overtaken   \* ghost: a level was replaced by an older one, until the next edge

gpioVars == <<pin, latched, bottom, handedOver, building, seedLevel, pinState, pinWork, sensed,
              overtaken>>

GpioInit ==
  /\ pin = 0 /\ latched = 0 /\ bottom = "idle" /\ handedOver = 0 /\ building = "none"
  /\ seedLevel = 0 /\ pinState = 0 /\ pinWork = "idle" /\ sensed = 0 /\ overtaken = FALSE

Requeued(w) ==
  CASE w = "idle" -> "queued"
    [] w = "running" -> "again"
    [] OTHER -> w

(* Mutant: the handler is registered after the seed. *)
MutantIsRegistered == building = "up"

(* The interrupt is enabled while a handler is registered. *)
IsRegistered == building \in {"registered", "read", "up"}

(* Every edge latches the newest level. *)
Latches == 1 - pin

(* ChannelChangedCallback(), in the interrupt. *)
Edge ==
  /\ pin' = 1 - pin
  /\ IF IsRegistered
     THEN latched' = Latches /\ bottom' = Requeued(bottom) /\ overtaken' = FALSE
     ELSE overtaken' = (overtaken \/ bottom # "idle") /\ UNCHANGED <<latched, bottom>>
  /\ UNCHANGED <<handedOver, building, seedLevel, pinState, pinWork, sensed>>

(* ChannelChangedWorkHandler(): the level is read before the lock is taken. *)
BottomHalf ==
  /\ bottom = "queued" /\ bottom' = "running" /\ handedOver' = latched
  /\ UNCHANGED <<pin, latched, building, seedLevel, pinState, pinWork, sensed, overtaken>>

(* DispatchChannelChanged(), under the lock: to a reader that is registered. *)
DispatchChannelChanged ==
  /\ bottom \in {"running", "again"}
  /\ bottom' = IF bottom = "again" THEN "queued" ELSE "idle"
  /\ IF IsRegistered
     THEN /\ pinState' = handedOver /\ pinWork' = Requeued(pinWork)
          /\ overtaken' = (overtaken \/ (building = "read" /\ handedOver # seedLevel))
     ELSE UNCHANGED <<pinState, pinWork, overtaken>>
  /\ UNCHANGED <<pin, latched, handedOver, building, seedLevel, sensed>>

-----------------------------------------------------------------------------
\* The reader's constructor and destructor.

RegisterHandler ==
  /\ building = "none" /\ building' = "registered"
  /\ overtaken' = (overtaken /\ bottom # "idle")
  /\ UNCHANGED <<pin, latched, bottom, handedOver, seedLevel, pinState, pinWork, sensed>>

ReadChannel ==
  /\ building = "registered" /\ building' = "read" /\ seedLevel' = pin
  /\ UNCHANGED <<pin, latched, bottom, handedOver, pinState, pinWork, sensed, overtaken>>

Seed ==
  /\ building = "read" /\ building' = "up"
  /\ pinState' = seedLevel /\ pinWork' = Requeued(pinWork)
  /\ UNCHANGED <<pin, latched, bottom, handedOver, seedLevel, sensed, overtaken>>

(* The handler goes first, so nothing submits; then the work item is waited for. *)
RemoveHandler ==
  /\ building = "up" /\ building' = "going"
  /\ UNCHANGED <<pin, latched, bottom, handedOver, seedLevel, pinState, pinWork, sensed, overtaken>>

CancelPinWork ==
  /\ building = "going" /\ pinWork \in {"idle", "queued"}
  /\ building' = "none" /\ pinWork' = "idle"
  /\ UNCHANGED <<pin, latched, bottom, handedOver, seedLevel, pinState, sensed, overtaken>>

-----------------------------------------------------------------------------
\* The processing work queue.

BeginPinWork ==
  /\ pinWork = "queued" /\ pinWork' = "running"
  /\ UNCHANGED <<pin, latched, bottom, handedOver, building, seedLevel, pinState, sensed,
                 overtaken>>

(* Whether or not the processing throws. *)
ProcessPendingState ==
  /\ pinWork \in {"running", "again"}
  /\ sensed' = pinState /\ pinWork' = IF pinWork = "again" THEN "queued" ELSE "idle"
  /\ UNCHANGED <<pin, latched, bottom, handedOver, building, seedLevel, pinState, overtaken>>

GpioNext ==
  \/ Edge \/ BottomHalf \/ DispatchChannelChanged
  \/ RegisterHandler \/ ReadChannel \/ Seed \/ RemoveHandler \/ CancelPinWork
  \/ BeginPinWork \/ ProcessPendingState

-----------------------------------------------------------------------------
(* Once the interrupts, their bottom half and the processing queue are     *)
(* done the sensor has the level of the pin, also right after a start or a *)
(* resume, unless an older level came last: a seed read before an edge     *)
(* that was handed on first, or an edge of the reader before, handed on    *)
(* after a change nobody listened to.                                      *)
SensesThePin ==
  building = "up" /\ bottom = "idle" /\ pinWork = "idle" /\ ~overtaken => sensed = pin
=============================================================================
