------------------------------ MODULE LiveData ------------------------------
(***************************************************************************)
(* Live values over Bluetooth: LiveDataService, driven by LiveMgmtGroup on *)
(* the MCUmgr thread (subscribe, unsubscribe), by the disconnected handler *)
(* on the RX thread (unsubscribe), and by the sample item and the sent     *)
(* callbacks on the system work queue.  A sample holds the service's lock, *)
(* so it is one step; Subscribe() and Unsubscribe() let go of it before    *)
(* they touch the work item.                                               *)
(***************************************************************************)
EXTENDS Naturals, FiniteSets

CONSTANTS LiveCapacities, \* sensors that fit a notification of some connection
          MaxListed,      \* bound: sensors of a request
          SequenceSize,   \* 2^8, numbers of sequence_
          LiveBuffers,    \* notifications the stack has buffers for
          LiveCentrals    \* bound: numbers of centrals before they are used again

ASSUME LiveAssumption ==
  /\ LiveCapacities \subseteq Nat \ {0} /\ MaxListed \in Nat /\ SequenceSize \in Nat \ {0}
  /\ LiveBuffers \in Nat /\ LiveCentrals \in Nat \ {0}

VARIABLES peer,          \* the connected central, 0 for none
          peers,         \* ghost: the number of the last central
          capacity,      \* GetCapacity(), 0 while the central does not listen
          listedSensors, \* sensor_count_
          lister,        \* ghost: the central that subscribed
          late,          \* ghost: a subscription was stored after its central had left
          sampleWork,    \* what sample_work_ is: waits, queued
          inFlight,      \* is_in_flight_
          unsent,        \* notifications of the link not yet reported
          sequence,      \* sequence_
          lastSeen,      \* ghost: sequence number the central saw last, and samples dropped since
          mcumgr,        \* the step of the MCUmgr thread, with what it decided
          leaving        \* the step of the disconnected handler

liveVars == <<peer, peers, capacity, listedSensors, lister, late, sampleWork, inFlight, unsent,
              sequence,
              lastSeen, mcumgr, leaving>>

Resting == [step |-> "idle", count |-> 0, peer |-> 0]
NothingSeen == [number |-> SequenceSize, dropped |-> 0]

LiveInit ==
  /\ peer = 0 /\ peers = 0 /\ capacity = 0 /\ listedSensors = 0 /\ lister = 0 /\ late = FALSE
  /\ sampleWork = {} /\ inFlight = FALSE /\ unsent = 0 /\ sequence = 0
  /\ lastSeen = NothingSeen /\ mcumgr = Resting /\ leaving = "none"

linkOnly == <<listedSensors, lister, late, sampleWork, inFlight, sequence, mcumgr>>

Join ==
  /\ peer = 0 /\ leaving = "none"
  /\ peers' = (peers % LiveCentrals) + 1 /\ peer' = peers' /\ lastSeen' = NothingSeen
  /\ UNCHANGED <<capacity, unsent, leaving, linkOnly>>

(* The central enables notifications; the ATT MTU is what it is by then. *)
Listen ==
  /\ peer # 0 /\ capacity = 0 /\ capacity' \in LiveCapacities
  /\ UNCHANGED <<peer, peers, unsent, lastSeen, leaving, linkOnly>>

(* The link drops with its notifications, which never report back. *)
Leave ==
  /\ peer # 0 /\ peer' = 0 /\ capacity' = 0 /\ unsent' = 0 /\ leaving' = "unsubscribe"
  /\ UNCHANGED <<peers, lastSeen, linkOnly>>

-----------------------------------------------------------------------------
\* Unsubscribe(), by the handler of a disconnect and by request.

MutantFlightKept == inFlight
FlightAfterUnsubscribe == FALSE

ClearList == listedSensors' = 0 /\ lister' = 0 /\ late' = FALSE
CancelSamples == inFlight' = FlightAfterUnsubscribe /\ sampleWork' = {}

MutantKeepsList == UNCHANGED <<listedSensors, lister, late>>
DisconnectClears == ClearList

UnsubscribeLeft ==
  /\ leaving = "unsubscribe" /\ leaving' = "cancel" /\ DisconnectClears
  /\ UNCHANGED <<peer, peers, capacity, sampleWork, inFlight, unsent, sequence, lastSeen, mcumgr>>

UnsubscribeLeftEnds ==
  /\ leaving = "cancel" /\ leaving' = "none" /\ CancelSamples
  /\ UNCHANGED <<peer, peers, capacity, listedSensors, lister, late, unsent, sequence, lastSeen,
                 mcumgr>>

HandleUnsubscribe ==
  /\ mcumgr.step = "idle" /\ peer # 0 /\ ClearList
  /\ mcumgr' = [Resting EXCEPT !.step = "cancel"]
  /\ UNCHANGED <<peer, peers, capacity, sampleWork, inFlight, unsent, sequence, lastSeen, leaving>>

HandleUnsubscribeEnds ==
  /\ mcumgr.step = "cancel" /\ mcumgr' = Resting /\ CancelSamples
  /\ UNCHANGED <<peer, peers, capacity, listedSensors, lister, late, unsent, sequence, lastSeen,
                 leaving>>

-----------------------------------------------------------------------------
\* HandleSubscribe(): the capacity, the list, the work item.

(* NOT_LISTENING and TOO_MANY leave the subscription as it was. *)
HandleSubscribe(count) ==
  /\ mcumgr.step = "idle" /\ peer # 0 /\ capacity > 0 /\ count <= capacity
  /\ mcumgr' = [step |-> "list", count |-> count, peer |-> peer]
  /\ UNCHANGED <<peer, peers, capacity, listedSensors, lister, late, sampleWork, inFlight, unsent,
                 sequence, lastSeen, leaving>>

StoreList ==
  /\ mcumgr.step = "list" /\ listedSensors' = mcumgr.count /\ lister' = mcumgr.peer
  /\ late' = (mcumgr.peer # peer)
  /\ mcumgr' = [mcumgr EXCEPT !.step = "reschedule"]
  /\ UNCHANGED <<peer, peers, capacity, sampleWork, inFlight, unsent, sequence, lastSeen, leaving>>

RescheduleSamples ==
  /\ mcumgr.step = "reschedule" /\ mcumgr' = Resting /\ sampleWork' = {"queued"}
  /\ UNCHANGED <<peer, peers, capacity, listedSensors, lister, late, inFlight, unsent, sequence,
                 lastSeen,
                 leaving>>

-----------------------------------------------------------------------------
\* The system work queue.

PeriodEnds ==
  /\ "waits" \in sampleWork /\ sampleWork' = {"queued"}
  /\ UNCHANGED <<peer, peers, capacity, listedSensors, lister, late, inFlight, unsent, sequence,
                 lastSeen,
                 mcumgr, leaving>>

(* A sample that finds nothing subscribed is the last; the others are scheduled before *)
(* anything that may drop them.                                                        *)
MutantStopsOnDrop == IF listedSensors = 0 \/ inFlight THEN {} ELSE {"waits"}
AfterSample == IF listedSensors = 0 THEN {} ELSE {"waits"}

NextSequence == (sequence + 1) % SequenceSize

(* A dropped sample has used its number too. *)
MutantNumberKept == sequence
SequenceAfterDrop == NextSequence

SampleDropped ==
  /\ sequence' = SequenceAfterDrop /\ UNCHANGED <<inFlight, unsent>>
  /\ lastSeen' = [lastSeen EXCEPT !.dropped = (@ + 1) % SequenceSize]

Notified ==
  /\ inFlight' = TRUE /\ unsent' = unsent + 1 /\ sequence' = NextSequence
  /\ lastSeen' = [number |-> sequence, dropped |-> 0]

(* Notify() may find no free buffer. *)
Sample(sent) ==
  /\ "queued" \in sampleWork /\ sampleWork' = AfterSample
  /\ IF listedSensors = 0
     THEN ~sent /\ UNCHANGED <<inFlight, unsent, sequence, lastSeen>>
     ELSE IF sent /\ ~inFlight /\ listedSensors <= capacity /\ unsent < LiveBuffers
          THEN Notified ELSE ~sent /\ SampleDropped
  /\ UNCHANGED <<peer, peers, capacity, listedSensors, lister, late, mcumgr, leaving>>

(* A notification left. *)
OnLiveSent ==
  /\ unsent > 0 /\ unsent' = unsent - 1 /\ inFlight' = FALSE
  /\ UNCHANGED <<peer, peers, capacity, listedSensors, lister, late, sampleWork, sequence, lastSeen,
                 mcumgr, leaving>>

LiveNext ==
  \/ Join \/ Listen \/ Leave \/ UnsubscribeLeft \/ UnsubscribeLeftEnds
  \/ HandleUnsubscribe \/ HandleUnsubscribeEnds
  \/ (\E count \in 1..MaxListed : HandleSubscribe(count)) \/ StoreList \/ RescheduleSamples
  \/ PeriodEnds \/ (\E sent \in BOOLEAN : Sample(sent)) \/ OnLiveSent

-----------------------------------------------------------------------------
(* A stream does not wait for a notification that will never report back:   *)
(* is_in_flight_ stands for one that the link still has, once the handler   *)
(* of a disconnect has run.                                                 *)
FlightReturns == inFlight /\ leaving = "none" => unsent > 0

(* What a connected central has subscribed to is sampled: the work item     *)
(* waits or is queued, whatever a sample before it dropped.                 *)
SubscribedIsSampled ==
  listedSensors > 0 /\ lister = peer /\ ~late /\ mcumgr.step # "reschedule" => sampleWork # {}

(* A sample goes to the central that subscribed: the subscription does not  *)
(* outlive its connection, unless it was stored behind the handler's back,  *)
(* after Subscribe() had looked at the capacity of a link that then left.   *)
OnlyWhoAsked == listedSensors > 0 /\ peer # 0 /\ ~late => lister = peer

(* A central sees every dropped sample as a gap: the number of a            *)
(* notification is as far from the last one's as samples were taken.        *)
GapsShowDrops ==
  [][lastSeen.number < SequenceSize /\ lastSeen'.number < SequenceSize /\ unsent' = unsent + 1
       => lastSeen'.number = (lastSeen.number + lastSeen.dropped + 1) % SequenceSize]_liveVars
=============================================================================
