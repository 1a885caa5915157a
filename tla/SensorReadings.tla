--------------------------- MODULE SensorReadings ---------------------------
(***************************************************************************)
(* The readings frame, and those who take readings out of it: the events   *)
(* publisher, which asks the channel's subscribers once per sensor what    *)
(* they accept, and the log writer, which drains the raw CAN frames.       *)
(*                                                                         *)
(* A reading is the number of its commit.  Every operation of the frame is *)
(* one step under its lock; the publisher's tick is not.                   *)
(***************************************************************************)
EXTENDS Naturals, Sequences, FiniteSets

CONSTANTS Layouts,          \* the sensors of each configuration
          RawSensors,       \* CANBUS_RAW sensors
          Throwing,         \* sensors on which a subscriber's filter throws
          MaxCount,         \* SensorLimits::MAX_COUNT: of readings_, of the cache
          ChannelSize,      \* K_MAX_QUEUED_EVENTS of the sensor channel
          RawQueueSize,     \* RAW_CAN_QUEUE_SIZE
          MaxCommits,       \* bound: commits
          MaxRawCommits,    \* bound: commits up to the last of a raw frame
          MaxSubscriptions  \* bound: changes of the subscriptions

ASSUME SensorReadingsAssumption ==
  /\ \A l \in Layouts: IsFiniteSet(l) /\ Cardinality(l) <= MaxCount
  /\ MaxCount \in Nat /\ ChannelSize \in Nat /\ ChannelSize > MaxCount
  /\ RawQueueSize \in Nat \ {0}

AllSensors == UNION Layouts
Sparse     == "sparse"        \* an event that is no reading

ASSUME SparseIsNoSensor == Sparse \notin AllSensors

VARIABLES layout,       \* the sensors with a slot
          latest,       \* slots: the status of the latest reading
          processed,    \* slots: the latest processed reading, 0 for none
          updated,      \* slots processed and not yet taken
          rawRing, rawHead, rawCount,
          commits,      \* ghost: numbers the readings
          accepted,     \* sensors that a subscriber's filter accepts
          joining,      \* subscribers that have not replayed yet
          subscriptionGeneration,
          cache,        \* the acceptance cache: its generation and its answers
          tick,         \* the publisher: where it is, and what it took
          channel,      \* events of the channel
          seen,         \* ghost: the newest reading a subscriber was given
          pushedOut,    \* ghost: a reading pushed another event out
          rawLogged     \* ghost: the newest raw frame logged

frameVars   == <<layout, latest, processed, updated, commits>>
rawVars     == <<rawRing, rawHead, rawCount, rawLogged>>
subscriberVars == <<accepted, joining, subscriptionGeneration, seen>>
publisherVars  == <<cache, tick>>
readingsVars   == <<frameVars, rawVars, subscriberVars, publisherVars, channel, pushedOut>>

EmptySlots == [s \in AllSensors |-> "none"]

ReadingsInit ==
  /\ layout \in Layouts /\ latest = EmptySlots /\ commits = 0
  /\ processed = [s \in AllSensors |-> 0] /\ updated = {}
  /\ rawRing = [i \in 0..RawQueueSize - 1 |-> 0] /\ rawHead = 0 /\ rawCount = 0
  /\ accepted = {} /\ joining = {} /\ subscriptionGeneration = 0
  /\ cache = [generation |-> 0, answers |-> <<>>]
  /\ tick = [at |-> "idle", taken |-> {}, full |-> FALSE]
  /\ channel = <<>> /\ seen = [s \in AllSensors |-> 0]
  /\ pushedOut = FALSE /\ rawLogged = 0

-----------------------------------------------------------------------------
\* The frame.

(* Mutant: the ring is written from its first slot. *)
MutantFromFirst == rawCount % RawQueueSize

NextRawSlot == (rawHead + rawCount) % RawQueueSize

(* A full queue keeps the frames it has. *)
PushRawCanFrameLocked(s, n) ==
  IF s \notin RawSensors \/ rawCount = RawQueueSize THEN UNCHANGED <<rawRing, rawCount>>
  ELSE rawRing' = [rawRing EXCEPT ![NextRawSlot] = n] /\ rawCount' = rawCount + 1

(* A reading of a sensor without a slot is ignored; a failed one leaves the *)
(* last processed reading as it is.                                         *)
AddOrUpdateReading(s, error) ==
  LET n == commits + 1 IN
  /\ commits < (IF s \in RawSensors THEN MaxRawCommits ELSE MaxCommits) /\ s \in layout
  /\ commits' = n
  /\ latest' = [latest EXCEPT ![s] = IF error THEN "error" ELSE "processed"]
  /\ processed' = IF error THEN processed ELSE [processed EXCEPT ![s] = n]
  /\ updated' = IF error THEN updated ELSE updated \cup {s}
  /\ joining' = IF error THEN joining ELSE joining \ {s}
  /\ PushRawCanFrameLocked(s, n)
  /\ UNCHANGED <<layout, rawHead, rawLogged, accepted, subscriptionGeneration, seen,
                 publisherVars, channel, pushedOut>>

(* A script writes a sensor's value. *)
UpdateReadingValue(s) ==
  LET n == commits + 1 IN
  /\ commits < MaxCommits /\ s \in layout /\ latest[s] # "none"
  /\ commits' = n
  /\ IF processed[s] = 0 THEN UNCHANGED <<processed, updated>>
     ELSE processed' = [processed EXCEPT ![s] = n] /\ updated' = updated \cup {s}
  /\ UNCHANGED <<layout, latest, rawVars, subscriberVars, publisherVars, channel, pushedOut>>

(* ResetLocked(), and Configure() which lays out the slots of another       *)
(* generation.                                                             *)
ResetFrame(l) ==
  /\ layout' = l /\ latest' = EmptySlots
  /\ processed' = [s \in AllSensors |-> 0] /\ updated' = {}
  /\ rawHead' = 0 /\ rawCount' = 0
  /\ UNCHANGED <<commits, rawRing, rawLogged, subscriberVars, publisherVars, channel, pushedOut>>

ClearReadings == latest # EmptySlots /\ ResetFrame(layout)
Configure(l)  == layout # l /\ ResetFrame(l)

(* The log writer takes the oldest raw frame; it calls until none is left. *)
TakeRawCanFrame ==
  /\ rawCount > 0
  /\ rawLogged' = rawRing[rawHead]
  /\ rawHead' = (rawHead + 1) % RawQueueSize /\ rawCount' = rawCount - 1
  /\ UNCHANGED <<frameVars, rawRing, subscriberVars, publisherVars, channel, pushedOut>>

-----------------------------------------------------------------------------
\* Subscribers, and the channel's worker.

SubscriptionsChange == /\ subscriptionGeneration < MaxSubscriptions
                       /\ subscriptionGeneration' = subscriptionGeneration + 1

SubscribeSensor(s) ==
  /\ s \notin accepted \cup RawSensors /\ SubscriptionsChange
  /\ accepted' = accepted \cup {s} /\ joining' = joining \cup {s}
  /\ UNCHANGED <<frameVars, rawVars, seen, publisherVars, channel, pushedOut>>

UnsubscribeSensor(s) ==
  /\ s \in accepted /\ SubscriptionsChange
  /\ accepted' = accepted \ {s} /\ joining' = joining \ {s}
  /\ seen' = [seen EXCEPT ![s] = 0]
  /\ UNCHANGED <<frameVars, rawVars, publisherVars, channel, pushedOut>>

(* SensorEventsPublisher::Replay() of one that has subscribed: every        *)
(* processed reading is to be taken once more.                             *)
ReplayReadings ==
  /\ joining # {}
  /\ joining' = {}
  /\ updated' = updated \cup {s \in layout: processed[s] # 0}
  /\ UNCHANGED <<layout, latest, processed, commits, rawVars, accepted,
                 subscriptionGeneration, seen, publisherVars, channel, pushedOut>>

PublishSparse ==
  /\ \A i \in DOMAIN channel: channel[i].sensor # Sparse
  /\ Len(channel) < ChannelSize
  /\ channel' = Append(channel, [sensor |-> Sparse, number |-> 0])
  /\ UNCHANGED <<frameVars, rawVars, subscriberVars, publisherVars, pushedOut>>

DrainChannel ==
  /\ channel # <<>>
  /\ channel' = Tail(channel)
  /\ LET e == Head(channel)
     IN  seen' = IF e.sensor \in accepted THEN [seen EXCEPT ![e.sensor] = e.number] ELSE seen
  /\ UNCHANGED <<frameVars, rawVars, accepted, joining, subscriptionGeneration, publisherVars,
                 pushedOut>>

-----------------------------------------------------------------------------
\* A tick of the publisher: PublishProcessedReadings().

(* Mutant: the subscriptions are looked at before the readings are taken. *)
MutantLooksFirst(at) == IF at = "channel" THEN "generation" ELSE IF at = "take" THEN "judge" ELSE "take"

Follows(at) == IF at = "channel" THEN "take" ELSE IF at = "take" THEN "generation" ELSE "judge"

(* Mutant: a tick looks at the channel once. *)
MutantLooksOnce == "take"

(* Another take while the buffer was full, if the channel is empty again. *)
TakesAgain == "channel"

BeginTick ==
  /\ tick.at = "idle" /\ tick' = [tick EXCEPT !.at = "channel"]
  /\ UNCHANGED <<frameVars, rawVars, subscriberVars, cache, channel, pushedOut>>

LookAtChannel ==
  /\ tick.at = "channel"
  /\ tick' = [tick EXCEPT !.at = IF channel # <<>> THEN "idle" ELSE Follows("channel")]
  /\ UNCHANGED <<frameVars, rawVars, subscriberVars, cache, channel, pushedOut>>

TakeProcessedReadings ==
  /\ tick.at = "take"
  /\ tick' = [at |-> Follows("take"),
              taken |-> {[sensor |-> s, number |-> processed[s]] : s \in updated},
              full |-> Cardinality(updated) = MaxCount]
  /\ updated' = {}
  /\ UNCHANGED <<layout, latest, processed, commits, rawVars, subscriberVars, cache, channel,
                 pushedOut>>

(* AcceptanceCache::Revalidate(). *)
Revalidate ==
  /\ tick.at = "generation"
  /\ tick' = [tick EXCEPT !.at = Follows("generation")]
  /\ cache' = IF cache.generation = subscriptionGeneration THEN cache
              ELSE [generation |-> subscriptionGeneration, answers |-> <<>>]
  /\ UNCHANGED <<frameVars, rawVars, subscriberVars, channel, pushedOut>>

(* A filter that throws is a rejection. *)
Accepts(s) == s \in accepted /\ s \notin Throwing

Answer(s) == IF s \in DOMAIN cache.answers THEN cache.answers[s] ELSE Accepts(s)

(* A full cache forgets every answer first. *)
Store(s, a) ==
  LET known == IF s \in DOMAIN cache.answers \/ Cardinality(DOMAIN cache.answers) < MaxCount
               THEN DOMAIN cache.answers ELSE {}
  IN  [k \in known \cup {s} |-> IF k = s THEN a ELSE cache.answers[k]]

PublishTaken(r) ==
  LET publishes == r.sensor \notin RawSensors /\ Answer(r.sensor)
      full == Len(channel) = ChannelSize
  IN  /\ tick.at = "judge" /\ r \in tick.taken
      /\ tick' = [tick EXCEPT !.taken = @ \ {r}]
      /\ cache' = IF r.sensor \in RawSensors THEN cache
                  ELSE [cache EXCEPT !.answers = Store(r.sensor, Answer(r.sensor))]
      /\ channel' = IF ~publishes THEN channel
                    ELSE Append(IF full THEN Tail(channel) ELSE channel, r)
      /\ pushedOut' = (pushedOut \/ (publishes /\ full))
      /\ UNCHANGED <<frameVars, rawVars, subscriberVars>>

EndTake ==
  /\ tick.at = "judge" /\ tick.taken = {}
  /\ tick' = [tick EXCEPT !.at = IF tick.full THEN TakesAgain ELSE "idle", !.full = FALSE]
  /\ UNCHANGED <<frameVars, rawVars, subscriberVars, cache, channel, pushedOut>>

ReadingsNext ==
  \/ \E s \in AllSensors: \/ \E error \in BOOLEAN: AddOrUpdateReading(s, error)
                          \/ UpdateReadingValue(s)
                          \/ SubscribeSensor(s) \/ UnsubscribeSensor(s)
  \/ \E l \in Layouts: Configure(l)
  \/ ClearReadings \/ TakeRawCanFrame \/ ReplayReadings \/ PublishSparse \/ DrainChannel
  \/ BeginTick \/ LookAtChannel \/ TakeProcessedReadings \/ Revalidate \/ EndTake
  \/ \E r \in tick.taken: PublishTaken(r)

ReadingsSpec == ReadingsInit /\ [][ReadingsNext]_readingsVars

-----------------------------------------------------------------------------
(* The newest processed reading of a sensor somebody follows is never lost *)
(* on its way: it waits in the frame, in the publisher's hands or in the   *)
(* channel, or the subscriber was given it.                                *)
FollowersSeeNewest ==
  \A s \in (accepted \cap layout) \ (joining \cup RawSensors \cup Throwing):
    LET event == [sensor |-> s, number |-> processed[s]]
    IN  \/ processed[s] \in {0, seen[s]} \/ s \in updated
        \/ event \in tick.taken \/ \E i \in DOMAIN channel: channel[i] = event

(* Readings never push another event out of the channel. *)
ReadingsPushNothingOut == ~pushedOut

(* Raw frames are logged in the order they came, each of them once. *)
RawFramesInOrder ==
  LET at(k) == rawRing[(rawHead + k) % RawQueueSize]
  IN  /\ \A k \in 0..rawCount - 1: at(k) > rawLogged
      /\ \A k \in 1..rawCount - 1: at(k - 1) < at(k)

(* Readings: who follows a sensor is given its newest reading, readings    *)
(* push no other event out of the channel, and raw frames are logged in    *)
(* order.                                                                  *)
ReadingsSafe == FollowersSeeNewest /\ ReadingsPushNothingOut /\ RawFramesInOrder
=============================================================================
