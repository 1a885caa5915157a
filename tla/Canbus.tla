------------------------------- MODULE Canbus -------------------------------
(***************************************************************************)
(* One CAN channel: the Canbus wrapper around the controller, its thread   *)
(* that detects the bitrate and dispatches frames, and the service that    *)
(* stops, configures and starts it again when the configuration changes.   *)
(*                                                                         *)
(* Handlers register and unregister from other threads under the wrapper's *)
(* lock; the driver's receive callback only feeds the frame queue.  A      *)
(* filter is the set of the frame IDs it accepts.                          *)
(***************************************************************************)
EXTENDS Naturals, Sequences, FiniteSets

CONSTANTS Handlers,       \* consumers of frames
          FilterOf,       \* the filter each asks for
          Rates,          \* supported bitrates, the likeliest first
          BusRate,        \* the bitrate of the bus
          MaxMaskFilters, \* MAX_MASK_FILTERS
          FrameQueueSize  \* FRAME_MSGQ_SIZE

ASSUME CanbusAssumption ==
  /\ Rates \in Seq(Nat \ {0})
  /\ BusRate \in {Rates[i]: i \in DOMAIN Rates}

VARIABLES service,        \* the service state of the wrapper
          busPhase,       \* the reconfiguration: consumers are up, or how far it is
          ready,          \* is_initialized_
          rate,           \* config_.bitrate: 0 to detect it
          detected,       \* bitrate_detected_
          detecting,      \* auto_detect_running_
          controller,     \* the controller: on or off, listening only, its bitrate
          entries,        \* the filter entries: handlers, whether a hardware filter is installed
          rxFrames,       \* frame_msgq_
          thread,         \* the thread: where it is, and the bitrate it tries
          refusedFilters, \* ghost: filters the driver refused after they were accepted
          epoch           \* ghost: counts configurations, modulo 2

busVars == <<service, busPhase, ready, rate, detected, detecting, controller, entries, rxFrames,
             thread, refusedFilters, epoch>>

Filters == {FilterOf[h]: h \in Handlers}
FrameIds == UNION Filters
OffController == [on |-> FALSE, quiet |-> FALSE, rate |-> 0]
NoThread == [at |-> "none", try |-> 0]

CanbusInit ==
  /\ service = "stopped" /\ busPhase = "configure" /\ ready = FALSE /\ rate = 0
  /\ detected = FALSE /\ detecting = FALSE /\ controller = OffController
  /\ entries = <<>> /\ rxFrames = <<>> /\ thread = NoThread
  /\ refusedFilters = {} /\ epoch = 0

Installed == {f \in DOMAIN entries: entries[f].installed}

-----------------------------------------------------------------------------
\* Handlers and filters, each under the lock.

(* Mutant: only an identical filter is looked for. *)
MutantHasOverlap(f) == FALSE

HasOverlap(f) == \E g \in DOMAIN entries: f \cap g # {}

HasRoom(f) ==
  Cardinality(f) = 1
    \/ Cardinality({g \in DOMAIN entries: Cardinality(g) > 1}) < MaxMaskFilters

(* Mutant: filters wait as long as the detection's task runs. *)
MutantDefers == detecting

(* Hardware filters are installed once the bitrate is known. *)
Defers == detecting /\ ~detected

RegisterFrameReceivedHandler(h) ==
  LET f == FilterOf[h]
      known == f \in DOMAIN entries
      others == IF known THEN entries[f].handlers ELSE {}
      has == known /\ entries[f].installed
  IN  /\ busPhase = "up" /\ ready /\ h \notin others
      /\ known \/ (~HasOverlap(f) /\ HasRoom(f))
      /\ entries' = [g \in DOMAIN entries \cup {f} |->
                       IF g = f THEN [handlers |-> others \cup {h}, installed |-> has \/ ~Defers]
                                ELSE entries[g]]
      /\ UNCHANGED <<service, busPhase, ready, rate, detected, detecting, controller, rxFrames,
                     thread,
                     refusedFilters, epoch>>

(* The hardware filter goes with the last handler. *)
RemoveFrameReceivedHandler(h) ==
  LET f == FilterOf[h]
  IN  /\ busPhase = "up" /\ f \in DOMAIN entries /\ h \in entries[f].handlers
      /\ IF entries[f].handlers = {h}
         THEN /\ entries' = [g \in DOMAIN entries \ {f} |-> entries[g]]
              /\ refusedFilters' = refusedFilters \ {f}
         ELSE /\ entries' = [entries EXCEPT ![f].handlers = @ \ {h}]
              /\ UNCHANGED refusedFilters
      /\ UNCHANGED <<service, busPhase, ready, rate, detected, detecting, controller, rxFrames,
                     thread,
                     epoch>>

(* The driver's callback: a full queue drops the frame. *)
CanFrameReceivedCallback(id) ==
  /\ controller.on /\ controller.rate = BusRate
  /\ \E f \in Installed: id \in f
  /\ Len(rxFrames) < FrameQueueSize
  /\ rxFrames' = Append(rxFrames, [id |-> id, epoch |-> epoch])
  /\ UNCHANGED <<service, busPhase, ready, rate, detected, detecting, controller, entries, thread,
                 refusedFilters, epoch>>

-----------------------------------------------------------------------------
\* The thread.

IsStopping == service = "stopping"

ProcessFramesTask ==
  /\ thread.at = "loop" /\ ~IsStopping /\ ~Defers /\ rxFrames # <<>>
  /\ rxFrames' = Tail(rxFrames)
  /\ UNCHANGED <<service, busPhase, ready, rate, detected, detecting, controller, entries, thread,
                 refusedFilters, epoch>>

BeginAutodetect ==
  /\ thread.at = "loop" /\ ~IsStopping /\ Defers
  /\ thread' = [at |-> "next", try |-> 1]
  /\ UNCHANGED <<service, busPhase, ready, rate, detected, detecting, controller, entries, rxFrames,
                 refusedFilters, epoch>>

(* The detection ends when it is told to; after the last bitrate it starts over. *)
EndAutodetect ==
  /\ thread.at = "next" /\ (~detecting \/ IsStopping)
  /\ thread' = [at |-> "loop", try |-> 0] /\ detecting' = FALSE
  /\ UNCHANGED <<service, busPhase, ready, rate, detected, controller, entries, rxFrames,
                 refusedFilters, epoch>>

TryNext == [at |-> "next", try |-> (thread.try % Len(Rates)) + 1]

(* Mutant: the mode of the configuration is used while trying. *)
MutantProbesQuietly == FALSE

(* A controller that can listen only does. *)
ProbesQuietly == TRUE

(* TestBitrate(): the controller listens at one bitrate. *)
TestBitrate ==
  /\ thread.at = "next" /\ detecting /\ ~IsStopping
  /\ \/ /\ controller' = [on |-> TRUE, quiet |-> ProbesQuietly, rate |-> Rates[thread.try]]
        /\ thread' = [thread EXCEPT !.at = "listen"]
     \/ thread' = TryNext /\ UNCHANGED controller
  /\ UNCHANGED <<service, busPhase, ready, rate, detected, detecting, entries, rxFrames,
                 refusedFilters, epoch>>

(* It hears frames only at the bus's own bitrate, if there are any. *)
Hears == controller.rate = BusRate

TestFails ==
  /\ thread.at = "listen"
  /\ controller' = OffController /\ thread' = TryNext
  /\ UNCHANGED <<service, busPhase, ready, rate, detected, detecting, entries, rxFrames,
                 refusedFilters, epoch>>

(* Mutant: the controller is left as it was tried. *)
MutantAfterProbe == controller

AfterProbe == [controller EXCEPT !.quiet = FALSE]

TestSucceeds ==
  /\ thread.at = "listen" /\ Hears
  /\ controller' = AfterProbe /\ thread' = [thread EXCEPT !.at = "found"]
  /\ UNCHANGED <<service, busPhase, ready, rate, detected, detecting, entries, rxFrames,
                 refusedFilters, epoch>>

AutoDetectBitrate ==
  /\ thread.at = "found"
  /\ detected' = TRUE /\ rate' = controller.rate /\ thread' = [thread EXCEPT !.at = "install"]
  /\ UNCHANGED <<service, busPhase, ready, detecting, controller, entries, rxFrames,
                 refusedFilters, epoch>>

(* The driver may refuse a filter it has no room for. *)
InstallDeferredFilters ==
  /\ thread.at = "install"
  /\ \E no \in SUBSET (DOMAIN entries \ Installed):
       /\ Cardinality(no) <= 1
       /\ entries' = [f \in DOMAIN entries |-> [entries[f] EXCEPT !.installed = f \notin no]]
       /\ refusedFilters' = refusedFilters \cup no
  /\ thread' = [thread EXCEPT !.at = "report"]
  /\ UNCHANGED <<service, busPhase, ready, rate, detected, detecting, controller, rxFrames, epoch>>

(* The bitrate is handed to the configuration work queue. *)
ReportBitrate ==
  /\ thread.at = "report"
  /\ thread' = [at |-> "loop", try |-> 0] /\ detecting' = FALSE
  /\ UNCHANGED <<service, busPhase, ready, rate, detected, controller, entries, rxFrames,
                 refusedFilters, epoch>>

-----------------------------------------------------------------------------
\* CanbusController::Reconfigure() and CanbusService::Configure().

(* The services that use the channel stop, and drop their handlers. *)
StopConsumers ==
  /\ busPhase = "up"
  /\ busPhase' = "stop" /\ entries' = <<>> /\ refusedFilters' = {}
  /\ UNCHANGED <<service, ready, rate, detected, detecting, controller, rxFrames, thread, epoch>>

BeginStop ==
  /\ busPhase = "stop" /\ service = "running"
  /\ service' = "stopping" /\ detecting' = FALSE
  /\ UNCHANGED <<busPhase, ready, rate, detected, controller, entries, rxFrames, thread,
                 refusedFilters, epoch>>

(* Join(). *)
ThreadEnds ==
  /\ thread.at = "loop" /\ IsStopping
  /\ thread' = NoThread
  /\ UNCHANGED <<service, busPhase, ready, rate, detected, detecting, controller, entries, rxFrames,
                 refusedFilters, epoch>>

(* Mutant: frames of the old configuration stay in the queue. *)
MutantPurged == rxFrames

Purged == <<>>

DoStop ==
  /\ IsStopping /\ thread = NoThread
  /\ service' = "stopped" /\ busPhase' = "configure"
  /\ controller' = OffController /\ entries' = <<>> /\ rxFrames' = Purged
  /\ ready' = FALSE /\ detected' = FALSE /\ epoch' = 1 - epoch
  /\ UNCHANGED <<rate, detecting, thread, refusedFilters>>

(* Configure(): with a bitrate the controller starts, without one its     *)
(* thread will look for it.                                               *)
Configure0(to) ==
  /\ busPhase = "configure" /\ service = "stopped"
  /\ \/ /\ ready' = TRUE /\ rate' = to /\ detected' = (to # 0) /\ detecting' = (to = 0)
        /\ controller' = IF to = 0 THEN OffController
                         ELSE [on |-> TRUE, quiet |-> FALSE, rate |-> to]
        /\ busPhase' = "start"
     \/ busPhase' = "up" /\ UNCHANGED <<ready, rate, detected, detecting, controller>>   \* it fails
  /\ UNCHANGED <<service, entries, rxFrames, thread, refusedFilters, epoch>>

DoStart ==
  /\ busPhase = "start" /\ ready
  /\ service' = "running" /\ busPhase' = "up" /\ thread' = [at |-> "loop", try |-> 0]
  /\ UNCHANGED <<ready, rate, detected, detecting, controller, entries, rxFrames, refusedFilters,
                 epoch>>

(* A channel that could not be configured is configured by the next change. *)
AlreadyStopped ==
  /\ busPhase = "stop" /\ service = "stopped"
  /\ busPhase' = "configure"
  /\ UNCHANGED <<service, ready, rate, detected, detecting, controller, entries, rxFrames, thread,
                 refusedFilters, epoch>>

CanbusNext ==
  \/ \E h \in Handlers: RegisterFrameReceivedHandler(h) \/ RemoveFrameReceivedHandler(h)
  \/ \E id \in FrameIds: CanFrameReceivedCallback(id)
  \/ ProcessFramesTask \/ BeginAutodetect \/ EndAutodetect \/ TestBitrate \/ TestFails
  \/ TestSucceeds \/ AutoDetectBitrate \/ InstallDeferredFilters \/ ReportBitrate
  \/ StopConsumers \/ BeginStop \/ ThreadEnds \/ DoStop \/ DoStart \/ AlreadyStopped
  \/ \E to \in {0, BusRate}: Configure0(to)

CanbusSpec == CanbusInit /\ [][CanbusNext]_busVars

-----------------------------------------------------------------------------
(* SendFrame() goes ahead only with a controller that is on the bus. *)
MaySend == ready /\ detected /\ service = "running"

(* While the bitrate is looked for the controller stays off the wire: one  *)
(* that takes part in the bus has the bus's bitrate.                       *)
OffTheWire == controller.on /\ ~controller.quiet => controller.rate = BusRate

(* A frame that may be sent finds a controller that is started, and not    *)
(* only listening.                                                         *)
MaySendMeansUp == MaySend => controller.on /\ ~controller.quiet

(* Once the bitrate is known every registered handler hears its frames,    *)
(* however its registration and the detection interleaved, unless the      *)
(* driver refused its filter.                                              *)
HandlersHear ==
  service = "running" /\ detected /\ thread.at # "install"
    => DOMAIN entries \subseteq Installed \cup refusedFilters

(* The driver delivers a frame through at most one filter. *)
DeliveredOnce ==
  \A id \in FrameIds: Cardinality({f \in Installed: id \in f}) <= 1

(* No frame of an earlier configuration reaches a handler. *)
FramesAreCurrent == \A i \in DOMAIN rxFrames: rxFrames[i].epoch = epoch

(* The CAN wrapper: the detection of the bitrate stays off the wire, who   *)
(* may send has a controller that is up, every registered handler hears    *)
(* its frames, once each, and none of an earlier configuration.            *)
CanbusSafe ==
  OffTheWire /\ MaySendMeansUp /\ HandlersHear /\ DeliveredOnce /\ FramesAreCurrent
=============================================================================
