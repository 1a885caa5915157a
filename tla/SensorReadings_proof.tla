------------------------ MODULE SensorReadings_proof ------------------------
(***************************************************************************)
(* Proofs about the readings frame and its publisher: for every set of     *)
(* configurations and sensors, whoever follows a sensor is given its       *)
(* newest reading, readings push no other event out of the channel, and    *)
(* raw frames are logged in the order they came.                           *)
(***************************************************************************)
EXTENDS SensorReadings, Integers, FiniteSetTheorems, TLAPS

Event == [sensor: AllSensors \cup {Sparse}, number: Nat]
Events == Seq(Event)

ReadingsTypes ==
  /\ layout \in Layouts /\ commits \in Nat
  /\ DOMAIN latest = AllSensors
  /\ processed \in [AllSensors -> Nat] /\ seen \in [AllSensors -> Nat]
  /\ updated \subseteq layout /\ accepted \subseteq AllSensors
  /\ subscriptionGeneration \in Nat
  /\ channel \in Events
  /\ tick \in [at: {"idle", "channel", "take", "generation", "judge"},
               taken: SUBSET [sensor: AllSensors, number: Nat], full: BOOLEAN]

-----------------------------------------------------------------------------
(* Raw frames: the ring holds numbers in increasing order, all of them     *)
(* above the last one logged.                                              *)
Slot(i) == i % RawQueueSize

Queue(ring, head, n, logged, top) ==
  /\ ring \in [0..RawQueueSize - 1 -> Nat]
  /\ head \in 0..RawQueueSize - 1 /\ n \in 0..RawQueueSize
  /\ logged \in 0..top
  /\ \A k \in 0..n - 1: ring[Slot(head + k)] > logged /\ ring[Slot(head + k)] <= top
  /\ \A j \in 0..n - 1, k \in 0..n - 1: j < k => ring[Slot(head + j)] < ring[Slot(head + k)]

RawInOrder == Queue(rawRing, rawHead, rawCount, rawLogged, commits)

-----------------------------------------------------------------------------
(* The channel: a tick that found it empty adds no more than the readings  *)
(* it took, and an event of another kind comes only when there is none.    *)
Sparses(c) == IF \E i \in DOMAIN c: c[i].sensor = Sparse THEN 1 ELSE 0

Room(c, t) ==
  /\ t.at \in {"idle", "channel", "take"} => t.taken = {}
  /\ t.at = "take" => Len(c) <= Sparses(c)
  /\ t.at \in {"generation", "judge"} =>
       IsFiniteSet(t.taken) /\ Len(c) + Cardinality(t.taken) <= MaxCount + Sparses(c)

ChannelHasRoom == Room(channel, tick) /\ ~pushedOut

-----------------------------------------------------------------------------
(* Readings of one sensor are given in the order of their commits, also    *)
(* over a reset of the frame.                                              *)
InOrder(c, taken, given) ==
  /\ \A i \in DOMAIN c, j \in DOMAIN c: c[i].sensor = c[j].sensor /\ i < j => c[i].number <= c[j].number
  /\ \A i \in DOMAIN c, r \in taken: c[i].sensor = r.sensor => c[i].number <= r.number
  /\ \A i \in DOMAIN c: c[i].sensor \in AllSensors => given[c[i].sensor] <= c[i].number
  /\ \A r \in taken: given[r.sensor] <= r.number
  /\ \A r \in taken, q \in taken: r.sensor = q.sensor => r = q

(* None of them is newer than n. *)
UpTo(s, n, c, taken, given) ==
  /\ \A i \in DOMAIN c: c[i].sensor = s => c[i].number <= n
  /\ \A r \in taken: r.sensor = s => r.number <= n
  /\ given[s] <= n

ReadingsInOrder ==
  /\ InOrder(channel, tick.taken, seen)
  /\ \A s \in AllSensors:
       /\ UpTo(s, commits, channel, tick.taken, seen) /\ processed[s] <= commits
       /\ processed[s] # 0 => UpTo(s, processed[s], channel, tick.taken, seen)
       /\ s \in updated => processed[s] # 0

-----------------------------------------------------------------------------
(* An answer of the cache is the subscribers' answer, as long as the       *)
(* subscriptions are those it was asked under.                             *)
CacheHonest ==
  /\ cache = [generation |-> cache.generation, answers |-> cache.answers]
  /\ cache.generation \in 0..subscriptionGeneration
  /\ cache.generation = subscriptionGeneration =>
       \A s \in DOMAIN cache.answers: cache.answers[s] = Accepts(s)

Followers == (accepted \cap layout) \ (joining \cup RawSensors \cup Throwing)
Newest(s) == [sensor |-> s, number |-> processed[s]]

(* The newest reading of s was given, is in the channel, or will be taken. *)
Resting(s) ==
  \/ processed[s] \in {0, seen[s]} \/ s \in updated
  \/ \E i \in DOMAIN channel: channel[i] = Newest(s)

(* What the publisher holds it will publish. *)
WillBePublished(s) ==
  /\ Newest(s) \in tick.taken
  /\ tick.at = "judge" /\ s \in DOMAIN cache.answers => cache.answers[s] = TRUE

NewestUnderway == \A s \in Followers: Resting(s) \/ WillBePublished(s)

ReadingsInv ==
  /\ ReadingsTypes /\ RawInOrder /\ ChannelHasRoom /\ ReadingsInOrder
  /\ CacheHonest /\ NewestUnderway

-----------------------------------------------------------------------------
(* Raw frames *)

(* A number has one quotient and remainder. *)
LEMMA QuotientUnique ==
  ASSUME NEW C \in Nat \ {0}, NEW a \in Int, NEW b \in Int, NEW r \in 0..C - 1, NEW s \in 0..C - 1,
         C * a + r = C * b + s
  PROVE  a = b
<1>1. CASE a > b
  <2>1. a - b >= 1 /\ C * (a - b) = s - r
    BY <1>1
  <2>2. C * (a - b) >= C
    BY <2>1
  <2> QED BY <2>1, <2>2
<1>2. CASE a < b
  <2>1. b - a >= 1 /\ C * (b - a) = r - s
    BY <1>2
  <2>2. C * (b - a) >= C
    BY <2>1
  <2> QED BY <2>1, <2>2
<1> QED BY <1>1, <1>2

(* A slot past the end of the queue is one of its beginning. *)
LEMMA QueueSlot ==
  ASSUME NEW i \in Nat, i < 2 * RawQueueSize
  PROVE  Slot(i) = IF i < RawQueueSize THEN i ELSE i - RawQueueSize
<1> DEFINE C == RawQueueSize
<1>1. C \in Nat \ {0}
  BY SensorReadingsAssumption
<1>2. i % C \in 0..C - 1 /\ i \div C \in Int /\ i = C * (i \div C) + (i % C)
  BY <1>1
<1>3. CASE i < C
  BY <1>1, <1>3 DEF Slot
<1>4. CASE i >= C
  <2>1. i = C * 1 + (i - C) /\ i - C \in 0..C - 1
    BY <1>1, <1>4
  <2>2. i \div C = 1
    BY <1>1, <1>2, <2>1, QuotientUnique
  <2> QED BY <1>1, <1>2, <1>4, <2>2 DEF Slot
<1> QED BY <1>1, <1>3, <1>4

(* The slots of a queue that starts at h: distinct ones, the first is h.   *)
LEMMA QueueSlots ==
  ASSUME NEW h \in 0..RawQueueSize - 1, NEW j \in 0..RawQueueSize - 1
  PROVE  /\ Slot(h + j) \in 0..RawQueueSize - 1 /\ Slot(h + 0) = h
         /\ \A k \in 0..RawQueueSize - 1: k # j => Slot(h + k) # Slot(h + j)
<1>1. RawQueueSize \in Nat \ {0}
  BY SensorReadingsAssumption
<1>2. \A k \in 0..RawQueueSize - 1:
        Slot(h + k) = IF h + k < RawQueueSize THEN h + k ELSE h + k - RawQueueSize
  <2> SUFFICES ASSUME NEW k \in 0..RawQueueSize - 1
               PROVE  Slot(h + k) = IF h + k < RawQueueSize THEN h + k ELSE h + k - RawQueueSize
    OBVIOUS
  <2>1. h + k \in Nat /\ h + k < 2 * RawQueueSize
    BY <1>1
  <2> QED BY <1>1, <2>1, QueueSlot
<1>3. Slot(h + 0) = h
  <2>1. 0 \in 0..RawQueueSize - 1 /\ h + 0 < RawQueueSize /\ h + 0 = h
    BY <1>1
  <2> QED BY <1>2, <2>1
<1>4. Slot(h + j) \in 0..RawQueueSize - 1
  BY <1>1, <1>2
<1>5. ASSUME NEW k \in 0..RawQueueSize - 1, k # j PROVE Slot(h + k) # Slot(h + j)
  <2>1. Slot(h + k) = IF h + k < RawQueueSize THEN h + k ELSE h + k - RawQueueSize
    BY <1>2
  <2>2. Slot(h + j) = IF h + j < RawQueueSize THEN h + j ELSE h + j - RawQueueSize
    BY <1>2
  <2>3. h \in Int /\ k \in Int /\ j \in Int /\ k - j < RawQueueSize /\ j - k < RawQueueSize
    BY <1>1
  <2> QED BY <1>1, <1>5, <2>1, <2>2, <2>3
<1> QED BY <1>3, <1>4, <1>5

(* Once the first frame is gone the others are one place nearer. *)
LEMMA QueueShifts ==
  ASSUME NEW h \in 0..RawQueueSize - 1, NEW k \in Nat, k + 1 < RawQueueSize
  PROVE  Slot(Slot(h + 1) + k) = Slot(h + (k + 1)) /\ Slot(h + 1) \in 0..RawQueueSize - 1
<1> DEFINE C == RawQueueSize
           g == Slot(h + 1)
<1>1. C \in Nat \ {0} /\ h + 1 \in Nat /\ h + 1 < 2 * C
  BY SensorReadingsAssumption
<1>2. g = IF h + 1 < C THEN h + 1 ELSE h + 1 - C
  BY <1>1, QueueSlot
<1> HIDE DEF g
<1>3. g \in 0..C - 1 /\ g + k \in Nat /\ g + k < 2 * C
  BY <1>1, <1>2
<1>4. Slot(g + k) = IF g + k < C THEN g + k ELSE g + k - C
  BY <1>1, <1>3, QueueSlot
<1>5. h + (k + 1) \in Nat /\ h + (k + 1) < 2 * C
  BY <1>1
<1>6. Slot(h + (k + 1)) = IF h + (k + 1) < C THEN h + (k + 1) ELSE h + (k + 1) - C
  BY <1>1, <1>5, QueueSlot
<1>7. Slot(g + k) = Slot(h + (k + 1))
  BY <1>1, <1>2, <1>4, <1>6
<1> QED BY <1>3, <1>7 DEF g

(* PushRawCanFrameLocked() with a number above all others. *)
LEMMA QueuePush ==
  ASSUME NEW ring, NEW head, NEW n, NEW logged, NEW top \in Nat,
         Queue(ring, head, n, logged, top), n # RawQueueSize
  PROVE  Queue([ring EXCEPT ![Slot(head + n)] = top + 1], head, n + 1, logged, top + 1)
<1> DEFINE to == Slot(head + n)
           r2 == [ring EXCEPT ![to] = top + 1]
<1>1. /\ ring \in [0..RawQueueSize - 1 -> Nat] /\ head \in 0..RawQueueSize - 1
      /\ n \in 0..RawQueueSize - 1 /\ RawQueueSize \in Nat /\ logged \in 0..top
  BY SensorReadingsAssumption DEF Queue
<1>2. to \in 0..RawQueueSize - 1
  BY <1>1, QueueSlots
<1>3. r2 \in [0..RawQueueSize - 1 -> Nat] /\ r2[to] = top + 1
  BY <1>1, <1>2
<1>4. \A k \in 0..n - 1: Slot(head + k) \in 0..RawQueueSize - 1 /\ Slot(head + k) # to
  <2> SUFFICES ASSUME NEW k \in 0..n - 1
               PROVE  Slot(head + k) \in 0..RawQueueSize - 1 /\ Slot(head + k) # to
    OBVIOUS
  <2>1. k \in 0..RawQueueSize - 1 /\ k # n
    BY <1>1
  <2> QED BY <1>1, <2>1, QueueSlots
<1>5. \A k \in 0..n - 1: r2[Slot(head + k)] = ring[Slot(head + k)] /\ ring[Slot(head + k)] \in Nat
  BY <1>1, <1>4
<1> HIDE DEF to, r2
<1>6. \A k \in 0..(n + 1) - 1: k \in 0..n - 1 \/ (k = n /\ Slot(head + k) = to)
  BY <1>1 DEF to
<1>7. ASSUME NEW k \in 0..(n + 1) - 1
      PROVE  r2[Slot(head + k)] > logged /\ r2[Slot(head + k)] <= top + 1
  <2>1. CASE k = n
    BY <1>1, <1>3, <1>6, <2>1
  <2>2. CASE k \in 0..n - 1
    <3>1. /\ r2[Slot(head + k)] = ring[Slot(head + k)] /\ ring[Slot(head + k)] \in Nat
          /\ ring[Slot(head + k)] > logged /\ ring[Slot(head + k)] <= top
      BY <1>5, <2>2 DEF Queue
    <3> QED BY <3>1
  <2> QED BY <1>6, <2>1, <2>2
<1>8. \A j \in 0..(n + 1) - 1, k \in 0..(n + 1) - 1: j < k => r2[Slot(head + j)] < r2[Slot(head + k)]
  <2> SUFFICES ASSUME NEW j \in 0..(n + 1) - 1, NEW k \in 0..(n + 1) - 1, j < k
               PROVE  r2[Slot(head + j)] < r2[Slot(head + k)]
    OBVIOUS
  <2>1. j \in 0..n - 1 /\ r2[Slot(head + j)] = ring[Slot(head + j)] /\ ring[Slot(head + j)] \in Nat
        /\ ring[Slot(head + j)] <= top
    BY <1>1, <1>5 DEF Queue
  <2>2. CASE k = n
    BY <1>3, <1>6, <2>1, <2>2
  <2>3. CASE k \in 0..n - 1
    BY <1>5, <2>1, <2>3 DEF Queue
  <2> QED BY <1>6, <2>2, <2>3
<1>9. n + 1 \in 0..RawQueueSize /\ logged \in 0..top + 1
  BY <1>1
<1>10. Queue(r2, head, n + 1, logged, top + 1)
  BY <1>1, <1>3, <1>7, <1>8, <1>9 DEF Queue
<1> QED BY <1>10 DEF to, r2

(* TakeRawCanFrame() takes the lowest number. *)
LEMMA QueueTake ==
  ASSUME NEW ring, NEW head, NEW n, NEW logged, NEW top \in Nat,
         Queue(ring, head, n, logged, top), n > 0
  PROVE  Queue(ring, Slot(head + 1), n - 1, ring[head], top)
<1> DEFINE g == Slot(head + 1)
<1>1. /\ ring \in [0..RawQueueSize - 1 -> Nat] /\ head \in 0..RawQueueSize - 1
      /\ n \in 1..RawQueueSize /\ RawQueueSize \in Nat \ {0}
  BY SensorReadingsAssumption DEF Queue
<1>2. g \in 0..RawQueueSize - 1
  <2>1. head + 1 \in Nat /\ head + 1 < 2 * RawQueueSize
    BY <1>1
  <2> QED BY <1>1, <2>1, QueueSlot
<1>3. 0 \in 0..n - 1 /\ Slot(head + 0) = head
  BY <1>1, QueueSlots
<1>4. ring[head] \in 0..top
  <2>1. ring[Slot(head + 0)] <= top /\ ring[head] \in Nat
    BY <1>1, <1>3 DEF Queue
  <2> QED BY <1>3, <2>1
<1>5. \A k \in 0..(n - 1) - 1: k + 1 \in 0..n - 1 /\ Slot(g + k) = Slot(head + (k + 1))
  <2> SUFFICES ASSUME NEW k \in 0..(n - 1) - 1
               PROVE  k + 1 \in 0..n - 1 /\ Slot(g + k) = Slot(head + (k + 1))
    OBVIOUS
  <2>1. k \in Nat /\ k + 1 < RawQueueSize /\ k + 1 \in 0..n - 1
    BY <1>1
  <2> QED BY <1>1, <2>1, QueueShifts
<1> HIDE DEF g
<1>6. ASSUME NEW k \in 0..(n - 1) - 1
      PROVE  ring[Slot(g + k)] > ring[head] /\ ring[Slot(g + k)] <= top
  <2>1. k + 1 \in 0..n - 1 /\ Slot(g + k) = Slot(head + (k + 1)) /\ 0 < k + 1
    BY <1>1, <1>5
  <2>2. ring[Slot(head + 0)] < ring[Slot(head + (k + 1))] /\ ring[Slot(head + (k + 1))] <= top
    BY <1>3, <2>1 DEF Queue
  <2>3. ring[head] < ring[Slot(g + k)] /\ ring[Slot(g + k)] <= top
    BY <1>3, <2>1, <2>2
  <2>4. Slot(g + k) \in 0..RawQueueSize - 1
    <3>1. k + 1 \in 0..RawQueueSize - 1
      BY <1>1, <2>1
    <3> QED BY <1>1, <2>1, <3>1, QueueSlots
  <2> QED BY <1>1, <2>3, <2>4
<1>7. \A j \in 0..(n - 1) - 1, k \in 0..(n - 1) - 1: j < k => ring[Slot(g + j)] < ring[Slot(g + k)]
  <2> SUFFICES ASSUME NEW j \in 0..(n - 1) - 1, NEW k \in 0..(n - 1) - 1, j < k
               PROVE  ring[Slot(g + j)] < ring[Slot(g + k)]
    OBVIOUS
  <2>1. j + 1 \in 0..n - 1 /\ k + 1 \in 0..n - 1 /\ j + 1 < k + 1
    BY <1>1, <1>5
  <2>2. ring[Slot(head + (j + 1))] < ring[Slot(head + (k + 1))]
    BY <2>1 DEF Queue
  <2> QED BY <1>5, <2>2
<1>8. n - 1 \in 0..RawQueueSize
  BY <1>1
<1>9. Queue(ring, g, n - 1, ring[head], top)
  BY <1>1, <1>2, <1>4, <1>6, <1>7, <1>8 DEF Queue
<1> QED BY <1>9 DEF g

(* More commits, or a queue that is emptied, leave it in order. *)
LEMMA QueueStands ==
  ASSUME NEW ring, NEW head, NEW n, NEW logged, NEW top \in Nat, Queue(ring, head, n, logged, top)
  PROVE  Queue(ring, head, n, logged, top + 1) /\ Queue(ring, 0, 0, logged, top)
<1>1. RawQueueSize \in Nat \ {0} /\ head \in 0..RawQueueSize - 1 /\ n \in 0..RawQueueSize
  BY SensorReadingsAssumption DEF Queue
<1>2. ASSUME NEW k \in 0..n - 1
      PROVE  ring[Slot(head + k)] > logged /\ ring[Slot(head + k)] <= top + 1
  <2>1. k \in 0..RawQueueSize - 1
    BY <1>1
  <2>2. Slot(head + k) \in 0..RawQueueSize - 1
    BY <1>1, <2>1, QueueSlots
  <2>3. /\ ring[Slot(head + k)] \in Nat
        /\ ring[Slot(head + k)] > logged /\ ring[Slot(head + k)] <= top
    BY <1>2, <2>2 DEF Queue
  <2> QED BY <2>3
<1>3. logged \in 0..top + 1
  BY DEF Queue
<1>4. Queue(ring, head, n, logged, top + 1)
  BY <1>2, <1>3 DEF Queue
<1>5. 0 \in 0..RawQueueSize - 1 /\ 0 \in 0..RawQueueSize /\ 0..0 - 1 = {}
  BY <1>1
<1>6. Queue(ring, 0, 0, logged, top)
  BY <1>5 DEF Queue
<1> QED BY <1>4, <1>6

(* Raw frames stay in order. *)
LEMMA RawStep ==
  ASSUME ReadingsTypes, RawInOrder, [ReadingsNext]_readingsVars
  PROVE  RawInOrder'
<1> USE DEF RawInOrder
<1>1. commits \in Nat
  BY DEF ReadingsTypes
<1>2. ASSUME NEW s \in AllSensors, NEW error \in BOOLEAN, AddOrUpdateReading(s, error)
      PROVE  RawInOrder'
  <2>1. /\ commits' = commits + 1 /\ rawHead' = rawHead /\ rawLogged' = rawLogged
        /\ PushRawCanFrameLocked(s, commits + 1)
    BY <1>2 DEF AddOrUpdateReading
  <2>2. CASE UNCHANGED <<rawRing, rawCount>>
    BY <1>1, <2>1, <2>2, QueueStands
  <2>3. CASE /\ rawCount # RawQueueSize /\ rawCount' = rawCount + 1
             /\ rawRing' = [rawRing EXCEPT ![Slot(rawHead + rawCount)] = commits + 1]
    BY <1>1, <2>1, <2>3, QueuePush
  <2> QED BY <2>1, <2>2, <2>3 DEF PushRawCanFrameLocked, NextRawSlot, Slot
<1>3. ASSUME NEW s \in AllSensors, UpdateReadingValue(s) PROVE RawInOrder'
  <2>1. commits' = commits + 1 /\ UNCHANGED <<rawRing, rawHead, rawCount, rawLogged>>
    BY <1>3 DEF UpdateReadingValue, rawVars
  <2> QED BY <1>1, <2>1, QueueStands
<1>4. ASSUME NEW l, ResetFrame(l) PROVE RawInOrder'
  <2>1. rawHead' = 0 /\ rawCount' = 0 /\ UNCHANGED <<rawRing, rawLogged, commits>>
    BY <1>4 DEF ResetFrame
  <2> QED BY <1>1, <2>1, QueueStands
<1>5. CASE TakeRawCanFrame
  <2>1. /\ rawCount > 0 /\ rawLogged' = rawRing[rawHead] /\ rawHead' = Slot(rawHead + 1)
        /\ rawCount' = rawCount - 1 /\ UNCHANGED <<rawRing, commits>>
    BY <1>5 DEF TakeRawCanFrame, Slot, frameVars
  <2> QED BY <1>1, <2>1, QueueTake
<1>6. CASE UNCHANGED <<rawVars, commits>>
  BY <1>6 DEF rawVars
<1>7. ASSUME NEW s \in AllSensors, SubscribeSensor(s) \/ UnsubscribeSensor(s)
      PROVE  UNCHANGED <<rawVars, commits>>
  BY <1>7 DEF SubscribeSensor, UnsubscribeSensor, frameVars
<1>8. ASSUME \/ ReplayReadings \/ PublishSparse \/ DrainChannel \/ BeginTick \/ LookAtChannel
             \/ TakeProcessedReadings \/ Revalidate \/ EndTake \/ \E r \in tick.taken: PublishTaken(r)
             \/ UNCHANGED readingsVars
      PROVE  UNCHANGED <<rawVars, commits>>
  BY <1>8 DEF ReplayReadings, PublishSparse, DrainChannel, BeginTick, LookAtChannel,
              TakeProcessedReadings, Revalidate, EndTake, PublishTaken, readingsVars, frameVars
<1>9. CASE ClearReadings \/ \E l \in Layouts: Configure(l)
  BY <1>4, <1>9 DEF ClearReadings, Configure
<1> QED BY <1>2, <1>3, <1>5, <1>6, <1>7, <1>8, <1>9 DEF ReadingsNext

-----------------------------------------------------------------------------
(* The channel *)

(* What Append() and Tail() do to the events of the channel. *)
LEMMA AppendFacts ==
  ASSUME NEW c \in Events, NEW e \in Event
  PROVE  /\ Append(c, e) \in Events /\ Len(Append(c, e)) = Len(c) + 1
         /\ DOMAIN c = 1..Len(c) /\ Len(c) \in Nat
         /\ DOMAIN Append(c, e) = 1..Len(c) + 1
         /\ \A i \in DOMAIN c: Append(c, e)[i] = c[i] /\ i \in DOMAIN Append(c, e)
         /\ Append(c, e)[Len(c) + 1] = e
         /\ \A i \in DOMAIN Append(c, e): i \in DOMAIN c \/ i = Len(c) + 1
<1> HIDE DEF Event
<1> QED BY DEF Events

(* The first event goes, and the others move up. *)
LEMMA TailFacts ==
  ASSUME NEW c \in Events, c # <<>>
  PROVE  /\ Tail(c) \in Events /\ Len(Tail(c)) = Len(c) - 1 /\ Len(c) \in Nat \ {0}
         /\ DOMAIN c = 1..Len(c) /\ DOMAIN Tail(c) = 1..Len(c) - 1
         /\ 1 \in DOMAIN c /\ Head(c) = c[1]
         /\ \A i \in DOMAIN Tail(c): Tail(c)[i] = c[i + 1] /\ i + 1 \in DOMAIN c
         /\ \A i \in DOMAIN c: i # 1 => i - 1 \in DOMAIN Tail(c) /\ Tail(c)[i - 1] = c[i]
<1> HIDE DEF Event
<1> QED BY DEF Events

(* A reading that is published finds room: the tick found the channel      *)
(* empty, and took no more readings than there are sensors.                *)
LEMMA PublishFacts ==
  ASSUME ReadingsTypes, ChannelHasRoom, NEW r \in tick.taken, PublishTaken(r)
  PROVE  /\ tick.at = "judge" /\ tick'.at = "judge" /\ tick'.taken = tick.taken \ {r}
         /\ tick'.full = tick.full
         /\ r \in Event /\ r.sensor \in AllSensors /\ r.sensor # Sparse /\ r.number \in Nat
         /\ channel' = IF r.sensor \notin RawSensors /\ Answer(r.sensor) THEN Append(channel, r)
                       ELSE channel
         /\ channel' \in Events
         /\ ~pushedOut'
         /\ IsFiniteSet(tick.taken) /\ Cardinality(tick.taken) \in Nat \ {0}
<1> DEFINE publishes == r.sensor \notin RawSensors /\ Answer(r.sensor)
           full == Len(channel) = ChannelSize
<1>1. /\ tick.at = "judge" /\ tick' = [tick EXCEPT !.taken = @ \ {r}]
      /\ channel' = IF ~publishes THEN channel
                    ELSE Append(IF full THEN Tail(channel) ELSE channel, r)
      /\ pushedOut' = (pushedOut \/ (publishes /\ full))
  BY DEF PublishTaken
<1>2. tick'.at = "judge" /\ tick'.taken = tick.taken \ {r} /\ tick'.full = tick.full
  BY <1>1 DEF ReadingsTypes
<1>3. r \in [sensor: AllSensors, number: Nat]
  BY DEF ReadingsTypes
<1>4. r \in Event /\ r.sensor \in AllSensors /\ r.sensor # Sparse /\ r.number \in Nat
  BY <1>3, SparseIsNoSensor DEF Event
<1>5. IsFiniteSet(tick.taken) /\ Len(channel) + Cardinality(tick.taken) <= MaxCount + Sparses(channel)
  BY <1>1 DEF ChannelHasRoom, Room
<1>6. Cardinality(tick.taken) \in Nat \ {0}
  <2>1. Cardinality(tick.taken) \in Nat
    BY <1>5, FS_CardinalityType
  <2>2. Cardinality(tick.taken) # 0
    BY <1>5, FS_EmptySet
  <2> QED BY <2>1, <2>2
<1>7. Len(channel) \in Nat
  BY DEF ReadingsTypes, Events
<1>8. ~full
  <2>1. Sparses(channel) \in {0, 1}
    BY DEF Sparses
  <2> QED BY <1>5, <1>6, <1>7, <2>1, SensorReadingsAssumption
<1>9. channel' = IF publishes THEN Append(channel, r) ELSE channel
  BY <1>1, <1>8
<1>10. channel' \in Events
  BY <1>4, <1>9, AppendFacts DEF ReadingsTypes
<1>11. ~pushedOut'
  BY <1>1, <1>8 DEF ChannelHasRoom
<1> HIDE DEF full
<1> QED BY <1>1, <1>2, <1>4, <1>5, <1>6, <1>9, <1>10, <1>11

(* The steps of a tick that only move it on. *)
LEMMA TickMoves ==
  ASSUME ReadingsTypes, BeginTick \/ LookAtChannel \/ Revalidate \/ EndTake
  PROVE  /\ tick'.taken = tick.taken /\ tick'.at \in {"idle", "channel", "take", "judge"}
         /\ tick'.at = "judge" => Revalidate
<1>1. PICK to \in {"idle", "channel", "take", "judge"}:
        /\ tick' \in {[tick EXCEPT !.at = to], [tick EXCEPT !.at = to, !.full = FALSE]}
        /\ to = "judge" => Revalidate
  BY DEF BeginTick, LookAtChannel, Revalidate, EndTake, Follows, TakesAgain
<1>2. tick'.taken = tick.taken /\ tick'.at = to
  BY <1>1 DEF ReadingsTypes
<1> QED BY <1>1, <1>2

(* The types are kept. *)
LEMMA TypesStep ==
  ASSUME ReadingsTypes, ChannelHasRoom, [ReadingsNext]_readingsVars
  PROVE  ReadingsTypes'
<1> USE DEF ReadingsTypes
<1>1. layout \subseteq AllSensors /\ updated \subseteq AllSensors
  BY DEF AllSensors
<1>2. ASSUME NEW s \in AllSensors, NEW error \in BOOLEAN, AddOrUpdateReading(s, error)
      PROVE  ReadingsTypes'
  <2>1. /\ commits' = commits + 1 /\ s \in layout
        /\ latest' = [latest EXCEPT ![s] = IF error THEN "error" ELSE "processed"]
        /\ processed' = IF error THEN processed ELSE [processed EXCEPT ![s] = commits + 1]
        /\ updated' = IF error THEN updated ELSE updated \cup {s}
        /\ UNCHANGED <<layout, accepted, subscriptionGeneration, seen, tick, channel>>
    BY <1>2 DEF AddOrUpdateReading, publisherVars
  <2>2. processed' \in [AllSensors -> Nat]
    BY <2>1
  <2>3. updated' \subseteq layout
    BY <2>1
  <2> QED BY <2>1, <2>2, <2>3
<1>3. ASSUME NEW s \in AllSensors, UpdateReadingValue(s) PROVE ReadingsTypes'
  <2>1. /\ commits' = commits + 1 /\ s \in layout
        /\ processed' \in {processed, [processed EXCEPT ![s] = commits + 1]}
        /\ updated' \in {updated, updated \cup {s}}
        /\ UNCHANGED <<layout, latest, accepted, subscriptionGeneration, seen, tick, channel>>
    BY <1>3 DEF UpdateReadingValue, publisherVars, subscriberVars
  <2>2. processed' \in [AllSensors -> Nat]
    BY <2>1
  <2>3. updated' \subseteq layout
    BY <2>1
  <2> QED BY <2>1, <2>2, <2>3
<1>4. ASSUME NEW l \in Layouts, ResetFrame(l) PROVE ReadingsTypes'
  <2>1. /\ layout' = l /\ latest' = EmptySlots /\ processed' = [s \in AllSensors |-> 0] /\ updated' = {}
        /\ UNCHANGED <<commits, accepted, subscriptionGeneration, seen, tick, channel>>
    BY <1>4 DEF ResetFrame, publisherVars, subscriberVars
  <2>2. DOMAIN latest' = AllSensors
    BY <2>1 DEF EmptySlots
  <2>3. processed' \in [AllSensors -> Nat]
    BY <2>1
  <2> QED BY <2>1, <2>2, <2>3
<1>5. ASSUME NEW s \in AllSensors, SubscribeSensor(s) \/ UnsubscribeSensor(s) PROVE ReadingsTypes'
  <2>1. /\ accepted' \in {accepted \cup {s}, accepted \ {s}}
        /\ seen' \in {seen, [seen EXCEPT ![s] = 0]}
        /\ subscriptionGeneration' = subscriptionGeneration + 1
        /\ UNCHANGED <<layout, latest, processed, updated, commits, tick, channel>>
    BY <1>5 DEF SubscribeSensor, UnsubscribeSensor, SubscriptionsChange, frameVars, publisherVars
  <2>2. seen' \in [AllSensors -> Nat]
    BY <2>1
  <2>3. accepted' \subseteq AllSensors
    BY <2>1
  <2> QED BY <2>1, <2>2, <2>3
<1>6. CASE TakeRawCanFrame
  BY <1>6 DEF TakeRawCanFrame, frameVars, subscriberVars, publisherVars
<1>7. CASE ReplayReadings
  <2>1. /\ updated' \subseteq layout
        /\ UNCHANGED <<layout, latest, processed, commits, accepted, subscriptionGeneration, seen, tick,
                       channel>>
    BY <1>7 DEF ReplayReadings, publisherVars
  <2> QED BY <2>1
<1>8. CASE PublishSparse
  <2>1. /\ channel' = Append(channel, [sensor |-> Sparse, number |-> 0])
        /\ UNCHANGED <<layout, latest, processed, updated, commits, accepted, subscriptionGeneration,
                       seen, tick>>
    BY <1>8 DEF PublishSparse, frameVars, subscriberVars, publisherVars
  <2>2. [sensor |-> Sparse, number |-> 0] \in Event
    BY DEF Event
  <2>3. channel' \in Events
    BY <2>1, <2>2, AppendFacts
  <2> QED BY <2>1, <2>3
<1>9. CASE DrainChannel
  <2>1. /\ channel # <<>> /\ channel' = Tail(channel)
        /\ seen' = IF Head(channel).sensor \in accepted
                   THEN [seen EXCEPT ![Head(channel).sensor] = Head(channel).number] ELSE seen
        /\ UNCHANGED <<layout, latest, processed, updated, commits, accepted, subscriptionGeneration,
                       tick>>
    BY <1>9 DEF DrainChannel, frameVars, publisherVars
  <2>2. channel' \in Events /\ Head(channel) \in Event
    <3>1. \A i \in DOMAIN channel: channel[i] \in Event
      BY DEF Events
    <3> QED BY <2>1, <3>1, TailFacts
  <2>3. Head(channel).number \in Nat
    BY <2>2 DEF Event
  <2>4. seen' \in [AllSensors -> Nat]
    BY <2>1, <2>3
  <2> QED BY <2>1, <2>2, <2>4
<1>10. CASE BeginTick \/ LookAtChannel \/ Revalidate \/ EndTake
  <2>1. /\ \E to \in {"idle", "channel", "take", "judge"}:
              tick' \in {[tick EXCEPT !.at = to], [tick EXCEPT !.at = to, !.full = FALSE]}
        /\ UNCHANGED <<layout, latest, processed, updated, commits, accepted, subscriptionGeneration,
                       seen, channel>>
    BY <1>10 DEF BeginTick, LookAtChannel, Revalidate, EndTake, Follows, TakesAgain, frameVars,
                 subscriberVars
  <2>2. tick' \in [at: {"idle", "channel", "take", "generation", "judge"},
                   taken: SUBSET [sensor: AllSensors, number: Nat], full: BOOLEAN]
    BY <2>1
  <2> QED BY <2>1, <2>2
<1>11. CASE TakeProcessedReadings
  <2> DEFINE t == {[sensor |-> s, number |-> processed[s]] : s \in updated}
             f == Cardinality(updated) = MaxCount
  <2>1. /\ tick' = [at |-> "generation", taken |-> t, full |-> f] /\ updated' = {}
        /\ UNCHANGED <<layout, latest, processed, commits, accepted, subscriptionGeneration,
                       seen, channel>>
    BY <1>11 DEF TakeProcessedReadings, Follows, subscriberVars
  <2>2. t \in SUBSET [sensor: AllSensors, number: Nat]
    BY <1>1
  <2>3. f \in BOOLEAN
    OBVIOUS
  <2> HIDE DEF t, f
  <2> QED BY <2>1, <2>2, <2>3
<1>12. ASSUME NEW r \in tick.taken, PublishTaken(r) PROVE ReadingsTypes'
  <2>1. /\ tick' = [tick EXCEPT !.taken = @ \ {r}] /\ channel' \in Events
        /\ UNCHANGED <<layout, latest, processed, updated, commits, accepted, subscriptionGeneration,
                       seen>>
    BY <1>12, PublishFacts DEF PublishTaken, frameVars, subscriberVars
  <2>2. tick' \in [at: {"idle", "channel", "take", "generation", "judge"},
                   taken: SUBSET [sensor: AllSensors, number: Nat], full: BOOLEAN]
    BY <2>1
  <2> QED BY <2>1, <2>2
<1> QED BY <1>2, <1>3, <1>4, <1>5, <1>6, <1>7, <1>8, <1>9, <1>10, <1>11, <1>12
        DEF ReadingsNext, ClearReadings, Configure, readingsVars, frameVars, subscriberVars, publisherVars

(* No more readings are taken than the configuration has sensors. *)
LEMMA TakenFewEnough ==
  ASSUME ReadingsTypes
  PROVE  LET taken == {[sensor |-> s, number |-> processed[s]] : s \in updated}
         IN  IsFiniteSet(taken) /\ Cardinality(taken) \in 0..MaxCount
<1> DEFINE taken == {[sensor |-> s, number |-> processed[s]] : s \in updated}
           f == [s \in updated |-> [sensor |-> s, number |-> processed[s]]]
<1>1. IsFiniteSet(layout) /\ Cardinality(layout) <= MaxCount
  BY SensorReadingsAssumption DEF ReadingsTypes
<1>2. IsFiniteSet(updated) /\ Cardinality(updated) <= Cardinality(layout)
  BY <1>1, FS_Subset DEF ReadingsTypes
<1>3. f \in Surjection(updated, taken)
  BY DEF Surjection
<1>4. IsFiniteSet(taken) /\ Cardinality(taken) <= Cardinality(updated)
  <2> HIDE DEF f, taken
  <2> QED BY <1>2, <1>3, FS_Surjection
<1> HIDE DEF taken
<1>5. Cardinality(taken) \in Nat /\ Cardinality(updated) \in Nat /\ Cardinality(layout) \in Nat
  BY <1>1, <1>2, <1>4, FS_CardinalityType
<1>6. Cardinality(taken) \in 0..MaxCount
  BY <1>1, <1>2, <1>4, <1>5, SensorReadingsAssumption
<1> QED BY <1>4, <1>6 DEF taken

(* The channel always has room for what was taken. *)
LEMMA RoomStep ==
  ASSUME ReadingsTypes, ChannelHasRoom, [ReadingsNext]_readingsVars
  PROVE  ChannelHasRoom'
<1>1. /\ channel \in Events /\ Len(channel) \in Nat /\ MaxCount \in Nat
      /\ tick \in [at: {"idle", "channel", "take", "generation", "judge"},
                   taken: SUBSET [sensor: AllSensors, number: Nat], full: BOOLEAN]
  BY SensorReadingsAssumption DEF ReadingsTypes, Events
<1>2. Sparses(channel) \in {0, 1}
  BY DEF Sparses
<1>3. tick.at \in {"generation", "judge"} => Cardinality(tick.taken) \in Nat
  BY FS_CardinalityType DEF ChannelHasRoom, Room
<1>4. CASE PublishSparse
  <2> DEFINE e == [sensor |-> Sparse, number |-> 0]
  <2>1. /\ \A i \in DOMAIN channel: channel[i].sensor # Sparse
        /\ channel' = Append(channel, e) /\ UNCHANGED <<tick, pushedOut>>
    BY <1>4 DEF PublishSparse, publisherVars
  <2>2. e \in Event /\ e.sensor = Sparse
    BY DEF Event
  <2> HIDE DEF e
  <2>3. Sparses(channel) = 0
    BY <2>1 DEF Sparses
  <2>4. Len(channel') = Len(channel) + 1
    BY <1>1, <2>1, <2>2, AppendFacts
  <2>5. Sparses(channel') = 1
    <3>1. Len(channel) + 1 \in DOMAIN channel' /\ channel'[Len(channel) + 1] = e
      BY <1>1, <2>1, <2>2, AppendFacts
    <3> QED BY <2>2, <3>1 DEF Sparses
  <2>6. Room(channel', tick)
    BY <1>1, <1>3, <2>3, <2>4, <2>5 DEF Room, ChannelHasRoom
  <2> QED BY <2>1, <2>6 DEF ChannelHasRoom
<1>5. CASE DrainChannel
  <2>1. channel # <<>> /\ channel' = Tail(channel) /\ UNCHANGED <<tick, pushedOut>>
    BY <1>5 DEF DrainChannel, publisherVars
  <2>2. Len(channel') = Len(channel) - 1
    BY <1>1, <2>1, TailFacts
  <2>3. Sparses(channel') \in {0, 1}
    BY DEF Sparses
  <2>4. Room(channel', tick)
    BY <1>1, <1>2, <1>3, <2>2, <2>3 DEF Room, ChannelHasRoom
  <2> QED BY <2>1, <2>4 DEF ChannelHasRoom
<1>6. CASE LookAtChannel
  <2>1. /\ tick.at = "channel" /\ UNCHANGED <<channel, pushedOut>>
        /\ tick' = [tick EXCEPT !.at = IF channel # <<>> THEN "idle" ELSE "take"]
    BY <1>6 DEF LookAtChannel, Follows
  <2>2. tick'.taken = tick.taken /\ tick'.at = IF channel # <<>> THEN "idle" ELSE "take"
    BY <1>1, <2>1
  <2>3. channel = <<>> => Len(channel) = 0
    OBVIOUS
  <2> QED BY <1>1, <1>2, <2>1, <2>2, <2>3 DEF ChannelHasRoom, Room
<1>7. CASE BeginTick
  <2>1. tick.at = "idle" /\ tick' = [tick EXCEPT !.at = "channel"] /\ UNCHANGED <<channel, pushedOut>>
    BY <1>7 DEF BeginTick
  <2>2. tick'.taken = tick.taken /\ tick'.at = "channel"
    BY <1>1, <2>1
  <2> QED BY <2>1, <2>2 DEF ChannelHasRoom, Room
<1>8. CASE TakeProcessedReadings
  <2> DEFINE t == {[sensor |-> s, number |-> processed[s]] : s \in updated}
  <2>1. tick.at = "take" /\ tick'.at = "generation" /\ tick'.taken = t /\ UNCHANGED <<channel, pushedOut>>
    BY <1>8 DEF TakeProcessedReadings, Follows
  <2>2. IsFiniteSet(t) /\ Cardinality(t) \in 0..MaxCount
    BY TakenFewEnough
  <2> HIDE DEF t
  <2> QED BY <1>1, <1>2, <2>1, <2>2 DEF ChannelHasRoom, Room
<1>9. CASE Revalidate
  <2>1. tick.at = "generation" /\ tick' = [tick EXCEPT !.at = "judge"] /\ UNCHANGED <<channel, pushedOut>>
    BY <1>9 DEF Revalidate, Follows
  <2>2. tick'.taken = tick.taken /\ tick'.at = "judge"
    BY <1>1, <2>1
  <2> QED BY <2>1, <2>2 DEF ChannelHasRoom, Room
<1>10. CASE EndTake
  <2>1. /\ tick.taken = {} /\ UNCHANGED <<channel, pushedOut>>
        /\ tick' = [tick EXCEPT !.at = IF tick.full THEN "channel" ELSE "idle", !.full = FALSE]
    BY <1>10 DEF EndTake, TakesAgain
  <2>2. tick'.taken = {} /\ tick'.at \in {"idle", "channel"}
    BY <1>1, <2>1
  <2> QED BY <2>1, <2>2 DEF ChannelHasRoom, Room
<1>11. ASSUME NEW r \in tick.taken, PublishTaken(r) PROVE ChannelHasRoom'
  <2>1. /\ tick.at = "judge" /\ tick'.at = "judge" /\ tick'.taken = tick.taken \ {r}
        /\ r \in Event /\ r.sensor # Sparse /\ channel' \in {channel, Append(channel, r)} /\ ~pushedOut'
        /\ IsFiniteSet(tick.taken)
    BY <1>11, PublishFacts
  <2>2. IsFiniteSet(tick'.taken) /\ Cardinality(tick'.taken) = Cardinality(tick.taken) - 1
    BY <2>1, FS_RemoveElement
  <2>3. Len(channel') \in {Len(channel), Len(channel) + 1}
    BY <1>1, <2>1, AppendFacts
  <2>4. Sparses(channel) <= Sparses(channel')
    <3>1. \A i \in DOMAIN channel: i \in DOMAIN channel' /\ channel'[i] = channel[i]
      BY <1>1, <2>1, AppendFacts
    <3> QED BY <3>1 DEF Sparses
  <2>5. Sparses(channel') \in {0, 1}
    BY DEF Sparses
  <2>6. Len(channel) + Cardinality(tick.taken) <= MaxCount + Sparses(channel)
    BY <2>1 DEF ChannelHasRoom, Room
  <2>7. Len(channel') + Cardinality(tick'.taken) <= MaxCount + Sparses(channel')
    BY <1>1, <1>2, <1>3, <2>1, <2>2, <2>3, <2>4, <2>5, <2>6
  <2> QED BY <2>1, <2>2, <2>7 DEF ChannelHasRoom, Room
<1>12. ASSUME NEW s \in AllSensors, NEW error \in BOOLEAN, AddOrUpdateReading(s, error)
       PROVE  UNCHANGED <<channel, tick, pushedOut>>
  BY <1>12 DEF AddOrUpdateReading, publisherVars
<1>13. ASSUME NEW s \in AllSensors, UpdateReadingValue(s) \/ SubscribeSensor(s) \/ UnsubscribeSensor(s)
       PROVE  UNCHANGED <<channel, tick, pushedOut>>
  BY <1>13 DEF UpdateReadingValue, SubscribeSensor, UnsubscribeSensor, publisherVars
<1>14. ASSUME ClearReadings \/ (\E l \in Layouts: Configure(l)) \/ TakeRawCanFrame \/ ReplayReadings
              \/ UNCHANGED readingsVars
       PROVE  UNCHANGED <<channel, tick, pushedOut>>
  BY <1>14 DEF ClearReadings, Configure, ResetFrame, TakeRawCanFrame, ReplayReadings, readingsVars,
               publisherVars
<1>15. CASE UNCHANGED <<channel, tick, pushedOut>>
  BY <1>15 DEF ChannelHasRoom
<1> QED BY <1>4, <1>5, <1>6, <1>7, <1>8, <1>9, <1>10, <1>11, <1>12, <1>13, <1>14, <1>15 DEF ReadingsNext

-----------------------------------------------------------------------------
(* The acceptance cache *)

(* PublishTaken() stores the answer it went by, and forgets no more than   *)
(* answers.                                                                *)
LEMMA StoreFacts ==
  ASSUME CacheHonest, NEW r \in tick.taken, PublishTaken(r)
  PROVE  /\ cache' = [generation |-> cache'.generation, answers |-> cache'.answers]
         /\ cache'.generation = cache.generation
         /\ \A s \in DOMAIN cache'.answers:
              \/ s \in DOMAIN cache.answers /\ cache'.answers[s] = cache.answers[s]
              \/ s = r.sensor /\ cache'.answers[s] = Answer(s)
<1>1. cache = [generation |-> cache.generation, answers |-> cache.answers]
  BY DEF CacheHonest
<1>2. CASE r.sensor \in RawSensors
  <2>1. cache' = cache
    BY <1>2 DEF PublishTaken
  <2> QED BY <1>1, <2>1
<1>3. CASE r.sensor \notin RawSensors
  <2> DEFINE a == Store(r.sensor, Answer(r.sensor))
  <2>1. cache' = [cache EXCEPT !.answers = a]
    BY <1>3 DEF PublishTaken
  <2>2. \A s \in DOMAIN a: (s \in DOMAIN cache.answers /\ a[s] = cache.answers[s])
                            \/ (s = r.sensor /\ a[s] = Answer(s))
    BY DEF Store
  <2> HIDE DEF a
  <2>3. cache' = [generation |-> cache.generation, answers |-> a]
    BY <1>1, <2>1
  <2>4. cache'.generation = cache.generation /\ cache'.answers = a
    BY <2>3
  <2> QED BY <2>2, <2>3, <2>4
<1> QED BY <1>2, <1>3

(* The cache never answers for subscriptions it was not asked under. *)
LEMMA CacheStep ==
  ASSUME ReadingsTypes, CacheHonest, [ReadingsNext]_readingsVars
  PROVE  CacheHonest'
<1>1. subscriptionGeneration \in Nat
  BY DEF ReadingsTypes
<1>2. ASSUME NEW s \in AllSensors, SubscribeSensor(s) \/ UnsubscribeSensor(s) PROVE CacheHonest'
  <2>1. cache' = cache /\ subscriptionGeneration' = subscriptionGeneration + 1
    BY <1>2 DEF SubscribeSensor, UnsubscribeSensor, SubscriptionsChange, publisherVars
  <2> QED BY <1>1, <2>1 DEF CacheHonest
<1>3. CASE Revalidate
  <2>1. /\ cache' = IF cache.generation = subscriptionGeneration THEN cache
                    ELSE [generation |-> subscriptionGeneration, answers |-> <<>>]
        /\ UNCHANGED <<accepted, subscriptionGeneration>>
    BY <1>3 DEF Revalidate, subscriberVars
  <2>2. CASE cache.generation = subscriptionGeneration
    BY <2>1, <2>2 DEF CacheHonest, Accepts
  <2>3. CASE cache.generation # subscriptionGeneration
    <3>1. cache' = [generation |-> subscriptionGeneration, answers |-> <<>>]
      BY <2>1, <2>3
    <3>2. cache'.generation = subscriptionGeneration /\ cache'.answers = <<>>
      BY <3>1
    <3>3. DOMAIN cache'.answers = {}
      BY <3>2
    <3> QED BY <1>1, <2>1, <3>1, <3>2, <3>3 DEF CacheHonest
  <2> QED BY <2>2, <2>3
<1>4. ASSUME NEW r \in tick.taken, PublishTaken(r) PROVE CacheHonest'
  <2>1. UNCHANGED <<accepted, subscriptionGeneration>>
    BY <1>4 DEF PublishTaken, subscriberVars
  <2>2. cache.generation = subscriptionGeneration => Answer(r.sensor) = Accepts(r.sensor)
    BY DEF Answer, CacheHonest
  <2>3. ASSUME cache.generation = subscriptionGeneration, NEW s \in DOMAIN cache'.answers
        PROVE  cache'.answers[s] = Accepts(s)
    BY <1>4, <2>2, <2>3, StoreFacts DEF CacheHonest
  <2>4. \A s: Accepts(s)' = Accepts(s)
    BY <2>1 DEF Accepts
  <2> QED BY <1>4, <2>1, <2>3, <2>4, StoreFacts DEF CacheHonest
<1>5. ASSUME NEW s \in AllSensors, NEW error \in BOOLEAN, AddOrUpdateReading(s, error)
      PROVE  UNCHANGED <<cache, accepted, subscriptionGeneration>>
  BY <1>5 DEF AddOrUpdateReading, publisherVars
<1>6. ASSUME NEW s \in AllSensors, UpdateReadingValue(s)
      PROVE  UNCHANGED <<cache, accepted, subscriptionGeneration>>
  BY <1>6 DEF UpdateReadingValue, publisherVars, subscriberVars
<1>7. ASSUME \/ ClearReadings \/ (\E l \in Layouts: Configure(l)) \/ TakeRawCanFrame \/ ReplayReadings
             \/ PublishSparse \/ DrainChannel
      PROVE  UNCHANGED <<cache, accepted, subscriptionGeneration>>
  BY <1>7 DEF ClearReadings, Configure, ResetFrame, TakeRawCanFrame, ReplayReadings, PublishSparse,
              DrainChannel, publisherVars, subscriberVars
<1>8. ASSUME BeginTick \/ LookAtChannel \/ TakeProcessedReadings \/ EndTake \/ UNCHANGED readingsVars
      PROVE  UNCHANGED <<cache, accepted, subscriptionGeneration>>
  BY <1>8 DEF BeginTick, LookAtChannel, TakeProcessedReadings, EndTake, readingsVars, publisherVars,
              subscriberVars
<1>9. CASE UNCHANGED <<cache, accepted, subscriptionGeneration>>
  BY <1>9 DEF CacheHonest, Accepts
<1> QED BY <1>2, <1>3, <1>4, <1>5, <1>6, <1>7, <1>8, <1>9 DEF ReadingsNext

-----------------------------------------------------------------------------
(* The order of the readings *)

(* A higher bound is a bound. *)
LEMMA UpToGrows ==
  ASSUME NEW c \in Events, NEW taken \in SUBSET [sensor: AllSensors, number: Nat],
         NEW given \in [AllSensors -> Nat], NEW s \in AllSensors, NEW n \in Nat, NEW m \in Nat,
         n <= m, UpTo(s, n, c, taken, given)
  PROVE  UpTo(s, m, c, taken, given)
<1>1. \A i \in DOMAIN c: c[i].number \in Nat
  <2>1. \A i \in DOMAIN c: c[i] \in Event
    BY DEF Events
  <2> QED BY <2>1 DEF Event
<1>2. \A r \in taken: r.number \in Nat
  OBVIOUS
<1> QED BY <1>1, <1>2 DEF UpTo

(* An event of another kind changes nothing for the readings. *)
LEMMA OrderKeptBySparse ==
  ASSUME NEW c \in Events, NEW taken \in SUBSET [sensor: AllSensors, number: Nat], NEW given,
         \A i \in DOMAIN c: c[i].sensor # Sparse, InOrder(c, taken, given),
         NEW e \in Event, e.sensor = Sparse
  PROVE  /\ InOrder(Append(c, e), taken, given)
         /\ \A s \in AllSensors, n \in Nat:
              UpTo(s, n, c, taken, given) => UpTo(s, n, Append(c, e), taken, given)
<1> DEFINE d == Append(c, e)
<1>1. /\ DOMAIN c = 1..Len(c) /\ Len(c) \in Nat
      /\ \A i \in DOMAIN d: (i \in DOMAIN c /\ d[i] = c[i]) \/ (i = Len(c) + 1 /\ d[i] = e)
  BY AppendFacts
<1>2. Sparse \notin AllSensors
  BY SparseIsNoSensor
<1>3. DOMAIN d = 1..Len(c) + 1
  BY AppendFacts
<1> HIDE DEF d
<1>4. \A i \in DOMAIN d, j \in DOMAIN d: d[i].sensor = d[j].sensor /\ i < j => d[i].number <= d[j].number
  <2> SUFFICES ASSUME NEW i \in DOMAIN d, NEW j \in DOMAIN d, d[i].sensor = d[j].sensor, i < j
               PROVE  d[i].number <= d[j].number
    OBVIOUS
  <2>1. i \in DOMAIN c /\ d[i] = c[i]
    BY <1>1, <1>3
  <2>2. j \in DOMAIN c /\ d[j] = c[j]
    BY <1>1, <2>1
  <2> QED BY <2>1, <2>2 DEF InOrder
<1>5. InOrder(d, taken, given)
  BY <1>1, <1>2, <1>4 DEF InOrder
<1>6. \A s \in AllSensors, n \in Nat: UpTo(s, n, c, taken, given) => UpTo(s, n, d, taken, given)
  BY <1>1, <1>2 DEF UpTo
<1> QED BY <1>5, <1>6 DEF d

(* A reading that is taken is the newest of its sensor; in the channel it  *)
(* comes after the others.                                                 *)
LEMMA OrderKeptByPublishing ==
  ASSUME NEW c \in Events, NEW taken \in SUBSET [sensor: AllSensors, number: Nat], NEW given,
         InOrder(c, taken, given), NEW r \in taken
  PROVE  /\ InOrder(Append(c, r), taken \ {r}, given) /\ InOrder(c, taken \ {r}, given)
         /\ \A s \in AllSensors, n \in Nat: UpTo(s, n, c, taken, given) =>
              UpTo(s, n, Append(c, r), taken \ {r}, given) /\ UpTo(s, n, c, taken \ {r}, given)
<1> DEFINE d == Append(c, r)
<1>1. r \in Event
  BY DEF Event
<1>2. /\ DOMAIN c = 1..Len(c) /\ Len(c) \in Nat /\ DOMAIN d = 1..Len(c) + 1
      /\ \A i \in DOMAIN d: (i \in DOMAIN c /\ d[i] = c[i]) \/ (i = Len(c) + 1 /\ d[i] = r)
  BY <1>1, AppendFacts
<1> HIDE DEF d
<1>3. \A i \in DOMAIN d, j \in DOMAIN d: d[i].sensor = d[j].sensor /\ i < j => d[i].number <= d[j].number
  <2> SUFFICES ASSUME NEW i \in DOMAIN d, NEW j \in DOMAIN d, d[i].sensor = d[j].sensor, i < j
               PROVE  d[i].number <= d[j].number
    OBVIOUS
  <2>1. i \in DOMAIN c /\ d[i] = c[i]
    BY <1>2
  <2> QED BY <1>2, <2>1 DEF InOrder
<1>4. InOrder(d, taken \ {r}, given)
  <2>1. \A i \in DOMAIN d, q \in taken \ {r}: d[i].sensor = q.sensor => d[i].number <= q.number
    BY <1>2 DEF InOrder
  <2>2. \A i \in DOMAIN d: d[i].sensor \in AllSensors => given[d[i].sensor] <= d[i].number
    BY <1>2 DEF InOrder
  <2> QED BY <1>3, <2>1, <2>2 DEF InOrder
<1>5. InOrder(c, taken \ {r}, given)
  BY DEF InOrder
<1>6. \A s \in AllSensors, n \in Nat: UpTo(s, n, c, taken, given) =>
        UpTo(s, n, d, taken \ {r}, given) /\ UpTo(s, n, c, taken \ {r}, given)
  BY <1>2 DEF UpTo
<1> QED BY <1>4, <1>5, <1>6 DEF d

(* The first event is given to whoever follows its sensor: what is left is *)
(* not older.                                                              *)
LEMMA OrderKeptByDraining ==
  ASSUME NEW c \in Events, c # <<>>, NEW taken \in SUBSET [sensor: AllSensors, number: Nat],
         NEW given \in [AllSensors -> Nat], InOrder(c, taken, given), NEW to,
         to = given \/ (Head(c).sensor \in AllSensors
                          /\ to = [given EXCEPT ![Head(c).sensor] = Head(c).number])
  PROVE  /\ InOrder(Tail(c), taken, to)
         /\ \A s \in AllSensors, n \in Nat: UpTo(s, n, c, taken, given) => UpTo(s, n, Tail(c), taken, to)
<1> DEFINE d == Tail(c)
           h == Head(c)
<1>1. /\ 1 \in DOMAIN c /\ h = c[1] /\ Len(c) \in Nat \ {0}
      /\ DOMAIN c = 1..Len(c) /\ DOMAIN d = 1..Len(c) - 1
      /\ \A i \in DOMAIN d: d[i] = c[i + 1] /\ i + 1 \in DOMAIN c
  BY TailFacts
<1> HIDE DEF d, h
<1>2. \A i \in DOMAIN d, j \in DOMAIN d: d[i].sensor = d[j].sensor /\ i < j => d[i].number <= d[j].number
  <2> SUFFICES ASSUME NEW i \in DOMAIN d, NEW j \in DOMAIN d, d[i].sensor = d[j].sensor, i < j
               PROVE  d[i].number <= d[j].number
    OBVIOUS
  <2>1. d[i] = c[i + 1] /\ i + 1 \in DOMAIN c /\ d[j] = c[j + 1] /\ j + 1 \in DOMAIN c
    BY <1>1
  <2>2. i + 1 < j + 1
    BY <1>1
  <2> QED BY <2>1, <2>2 DEF InOrder
<1>3. \A i \in DOMAIN d, r \in taken: d[i].sensor = r.sensor => d[i].number <= r.number
  BY <1>1 DEF InOrder
<1>4. \A s \in AllSensors: to[s] = given[s] \/ (s = h.sensor /\ to[s] = h.number)
  BY DEF h
<1>5. ASSUME NEW i \in DOMAIN d, d[i].sensor \in AllSensors PROVE to[d[i].sensor] <= d[i].number
  <2>1. d[i] = c[i + 1] /\ i + 1 \in DOMAIN c /\ 1 < i + 1
    BY <1>1
  <2>2. CASE to[d[i].sensor] = given[d[i].sensor]
    BY <1>5, <2>1, <2>2 DEF InOrder
  <2>3. CASE d[i].sensor = h.sensor /\ to[d[i].sensor] = h.number
    <3>1. c[1].number <= c[i + 1].number
      BY <1>1, <2>1, <2>3 DEF InOrder
    <3> QED BY <1>1, <2>1, <2>3, <3>1
  <2> QED BY <1>4, <1>5, <2>2, <2>3
<1>6. ASSUME NEW r \in taken PROVE to[r.sensor] <= r.number
  <2>1. r.sensor \in AllSensors
    OBVIOUS
  <2> QED BY <1>1, <1>4, <2>1 DEF InOrder
<1>7. InOrder(d, taken, to)
  BY <1>2, <1>3, <1>5, <1>6 DEF InOrder
<1>8. ASSUME NEW s \in AllSensors, NEW n \in Nat, UpTo(s, n, c, taken, given)
      PROVE  UpTo(s, n, d, taken, to)
  <2>1. to[s] <= n
    BY <1>1, <1>4, <1>8 DEF UpTo
  <2> QED BY <1>1, <1>8, <2>1 DEF UpTo
<1> QED BY <1>7, <1>8 DEF d

(* The readings of a sensor stay in order. *)
LEMMA OrderStep ==
  ASSUME ReadingsTypes, ChannelHasRoom, ReadingsInOrder, [ReadingsNext]_readingsVars
  PROVE  ReadingsInOrder'
<1> DEFINE Taken == SUBSET [sensor: AllSensors, number: Nat]
<1>1. /\ channel \in Events /\ tick.taken \in Taken /\ seen \in [AllSensors -> Nat] /\ commits \in Nat
      /\ processed \in [AllSensors -> Nat] /\ updated \subseteq AllSensors
  BY DEF ReadingsTypes, AllSensors
(* A commit: the numbers before it are lower. *)
<1>2. ASSUME commits' = commits + 1, UNCHANGED <<channel, tick, seen>>, NEW s \in AllSensors,
             \/ UNCHANGED <<processed, updated>>
             \/ processed' = [processed EXCEPT ![s] = commits + 1] /\ updated' = updated \cup {s}
      PROVE  ReadingsInOrder'
  <2>1. commits + 1 \in Nat /\ commits <= commits + 1
    BY <1>1
  <2>2. \A q \in AllSensors: UpTo(q, commits, channel, tick.taken, seen)
    BY DEF ReadingsInOrder
  <2>3. \A q \in AllSensors: UpTo(q, commits + 1, channel, tick.taken, seen)
    BY <1>1, <2>1, <2>2, UpToGrows
  <2>4. \A q \in AllSensors: (processed'[q] = processed[q] /\ (q \in updated' => q \in updated))
                             \/ processed'[q] = commits + 1
    BY <1>1, <1>2
  <2>5. ASSUME NEW q \in AllSensors
        PROVE  /\ processed'[q] <= commits + 1
               /\ processed'[q] # 0 => UpTo(q, processed'[q], channel, tick.taken, seen)
               /\ q \in updated' => processed'[q] # 0
    <3>1. CASE processed'[q] = processed[q] /\ (q \in updated' => q \in updated)
      BY <1>1, <2>1, <3>1 DEF ReadingsInOrder
    <3>2. CASE processed'[q] = commits + 1
      BY <1>1, <2>1, <2>3, <3>2
    <3> QED BY <2>4, <3>1, <3>2
  <2> QED BY <1>2, <2>3, <2>5 DEF ReadingsInOrder
<1>3. ASSUME NEW s \in AllSensors, NEW error \in BOOLEAN, AddOrUpdateReading(s, error)
      PROVE  ReadingsInOrder'
  <2>1. /\ commits' = commits + 1 /\ UNCHANGED <<channel, tick, seen>>
        /\ \/ UNCHANGED <<processed, updated>>
           \/ processed' = [processed EXCEPT ![s] = commits + 1] /\ updated' = updated \cup {s}
    BY <1>3 DEF AddOrUpdateReading, publisherVars
  <2> QED BY <1>2, <2>1
<1>4. ASSUME NEW s \in AllSensors, UpdateReadingValue(s) PROVE ReadingsInOrder'
  <2>1. /\ commits' = commits + 1 /\ UNCHANGED <<channel, tick, seen>>
        /\ \/ UNCHANGED <<processed, updated>>
           \/ processed' = [processed EXCEPT ![s] = commits + 1] /\ updated' = updated \cup {s}
    BY <1>4 DEF UpdateReadingValue, publisherVars, subscriberVars
  <2> QED BY <1>2, <2>1
<1>5. CASE ClearReadings \/ \E l \in Layouts: Configure(l)
  <2>1. /\ processed' = [s \in AllSensors |-> 0] /\ updated' = {}
        /\ UNCHANGED <<commits, channel, tick, seen>>
    BY <1>5 DEF ClearReadings, Configure, ResetFrame, publisherVars, subscriberVars
  <2>2. \A s \in AllSensors: processed'[s] = 0 /\ s \notin updated'
    BY <2>1
  <2> QED BY <1>1, <2>1, <2>2 DEF ReadingsInOrder
<1>6. ASSUME NEW s \in AllSensors, UnsubscribeSensor(s) PROVE ReadingsInOrder'
  <2>1. seen' = [seen EXCEPT ![s] = 0] /\ UNCHANGED <<commits, processed, updated, channel, tick>>
    BY <1>6 DEF UnsubscribeSensor, frameVars, publisherVars
  <2>2. \A q \in AllSensors: seen'[q] = seen[q] \/ seen'[q] = 0
    BY <1>1, <2>1
  <2>3. \A i \in DOMAIN channel: channel[i].number \in Nat
    <3>1. \A i \in DOMAIN channel: channel[i] \in Event
      BY <1>1 DEF Events
    <3> QED BY <3>1 DEF Event
  <2>4. \A r \in tick.taken: r.number \in Nat /\ r.sensor \in AllSensors
    BY <1>1
  <2>5. InOrder(channel, tick.taken, seen')
    BY <2>2, <2>3, <2>4 DEF ReadingsInOrder, InOrder
  <2>6. \A q \in AllSensors, n \in Nat:
          UpTo(q, n, channel, tick.taken, seen) => UpTo(q, n, channel, tick.taken, seen')
    BY <2>2 DEF UpTo
  <2> QED BY <1>1, <2>1, <2>5, <2>6 DEF ReadingsInOrder
<1>7. CASE ReplayReadings
  <2>1. /\ updated' = updated \cup {s \in layout: processed[s] # 0}
        /\ UNCHANGED <<commits, processed, channel, tick, seen>>
    BY <1>7 DEF ReplayReadings, publisherVars
  <2> QED BY <2>1 DEF ReadingsInOrder
<1>8. CASE PublishSparse
  <2> DEFINE e == [sensor |-> Sparse, number |-> 0]
  <2>1. /\ \A i \in DOMAIN channel: channel[i].sensor # Sparse
        /\ channel' = Append(channel, e) /\ UNCHANGED <<commits, processed, updated, tick, seen>>
    BY <1>8 DEF PublishSparse, frameVars, publisherVars, subscriberVars
  <2>2. e \in Event /\ e.sensor = Sparse
    BY DEF Event
  <2> HIDE DEF e
  <2>3. /\ InOrder(channel', tick.taken, seen)
        /\ \A s \in AllSensors, n \in Nat:
             UpTo(s, n, channel, tick.taken, seen) => UpTo(s, n, channel', tick.taken, seen)
    BY <1>1, <2>1, <2>2, OrderKeptBySparse DEF ReadingsInOrder
  <2> QED BY <1>1, <2>1, <2>3 DEF ReadingsInOrder
<1>9. CASE DrainChannel
  <2>1. /\ channel # <<>> /\ channel' = Tail(channel)
        /\ seen' = seen \/ (Head(channel).sensor \in AllSensors
                            /\ seen' = [seen EXCEPT ![Head(channel).sensor] = Head(channel).number])
        /\ UNCHANGED <<commits, processed, updated, tick>>
    BY <1>9 DEF DrainChannel, frameVars, publisherVars, ReadingsTypes
  <2>2. /\ InOrder(channel', tick.taken, seen')
        /\ \A s \in AllSensors, n \in Nat:
             UpTo(s, n, channel, tick.taken, seen) => UpTo(s, n, channel', tick.taken, seen')
    BY <1>1, <2>1, OrderKeptByDraining DEF ReadingsInOrder
  <2> QED BY <1>1, <2>1, <2>2 DEF ReadingsInOrder
<1>10. CASE TakeProcessedReadings
  <2>1. /\ tick.at = "take" /\ tick'.taken = {[sensor |-> s, number |-> processed[s]] : s \in updated}
        /\ updated' = {} /\ UNCHANGED <<commits, processed, channel, seen>>
    BY <1>10 DEF TakeProcessedReadings, subscriberVars
  <2>2. \A r \in tick'.taken: r.sensor \in updated /\ r.number = processed[r.sensor] /\ processed[r.sensor] # 0
    BY <1>1, <2>1 DEF ReadingsInOrder
  <2>3. \A r \in tick'.taken: UpTo(r.sensor, r.number, channel, tick.taken, seen)
    BY <1>1, <2>2 DEF ReadingsInOrder
  <2>4. \A r \in tick'.taken, q \in tick'.taken: r.sensor = q.sensor => r = q
    BY <2>1
  <2>5. InOrder(channel, tick'.taken, seen)
    BY <2>3, <2>4 DEF ReadingsInOrder, InOrder, UpTo
  <2>6. ASSUME NEW s \in AllSensors, NEW n \in Nat, processed[s] <= n, UpTo(s, n, channel, tick.taken, seen)
        PROVE  UpTo(s, n, channel, tick'.taken, seen)
    BY <2>2, <2>6 DEF UpTo
  <2>7. \A s \in AllSensors: processed[s] <= processed[s]
    BY <1>1
  <2> QED BY <1>1, <2>1, <2>5, <2>6, <2>7 DEF ReadingsInOrder
<1>11. ASSUME NEW r \in tick.taken, PublishTaken(r) PROVE ReadingsInOrder'
  <2>1. tick'.taken = tick.taken \ {r} /\ channel' \in {channel, Append(channel, r)}
    BY <1>11, PublishFacts
  <2>2. UNCHANGED <<commits, processed, updated, seen>>
    BY <1>11 DEF PublishTaken, frameVars, subscriberVars
  <2>3. /\ InOrder(channel', tick'.taken, seen)
        /\ \A s \in AllSensors, n \in Nat:
             UpTo(s, n, channel, tick.taken, seen) => UpTo(s, n, channel', tick'.taken, seen)
    <3> HIDE DEF Taken
    <3>1. InOrder(channel, tick.taken, seen)
      BY DEF ReadingsInOrder
    <3>2. /\ InOrder(Append(channel, r), tick.taken \ {r}, seen) /\ InOrder(channel, tick.taken \ {r}, seen)
          /\ \A s \in AllSensors, n \in Nat: UpTo(s, n, channel, tick.taken, seen) =>
               /\ UpTo(s, n, Append(channel, r), tick.taken \ {r}, seen)
               /\ UpTo(s, n, channel, tick.taken \ {r}, seen)
      BY <1>1, <1>11, <3>1, OrderKeptByPublishing DEF Taken
    <3> QED BY <2>1, <3>2, Zenon
  <2> QED BY <1>1, <2>2, <2>3 DEF ReadingsInOrder
<1>12. CASE BeginTick \/ LookAtChannel \/ Revalidate \/ EndTake
  <2>1. tick'.taken = tick.taken
    BY <1>12, TickMoves
  <2>2. UNCHANGED <<commits, processed, updated, channel, seen>>
    BY <1>12 DEF BeginTick, LookAtChannel, Revalidate, EndTake, frameVars, subscriberVars
  <2> QED BY <2>1, <2>2 DEF ReadingsInOrder
<1>13. CASE TakeRawCanFrame \/ (\E s \in AllSensors: SubscribeSensor(s)) \/ UNCHANGED readingsVars
  <2>1. UNCHANGED <<commits, processed, updated, channel, seen, tick>>
    BY <1>13 DEF TakeRawCanFrame, SubscribeSensor, readingsVars, frameVars, subscriberVars, publisherVars
  <2> QED BY <2>1 DEF ReadingsInOrder
<1> QED BY <1>3, <1>4, <1>5, <1>6, <1>7, <1>8, <1>9, <1>10, <1>11, <1>12, <1>13 DEF ReadingsNext

-----------------------------------------------------------------------------
(* The newest readings *)

(* A follower's newest reading that the publisher holds is published.      *)
LEMMA HeldIsPublished ==
  ASSUME CacheHonest, NEW s \in Followers, WillBePublished(s), tick.at = "judge"
  PROVE  Answer(s) = TRUE /\ s \notin RawSensors
BY DEF Followers, WillBePublished, Answer, Accepts

(* Whatever happens, the newest reading of a sensor that somebody follows  *)
(* stays on its way.                                                       *)
LEMMA UnderwayStep ==
  ASSUME ReadingsInv, CacheHonest', [ReadingsNext]_readingsVars
  PROVE  NewestUnderway'
<1>1. /\ ReadingsTypes /\ ChannelHasRoom /\ ReadingsInOrder /\ CacheHonest /\ NewestUnderway
      /\ channel \in Events /\ processed \in [AllSensors -> Nat] /\ seen \in [AllSensors -> Nat]
      /\ layout \subseteq AllSensors
  BY DEF ReadingsInv, ReadingsTypes, AllSensors
<1>2. Followers \subseteq AllSensors
  BY <1>1 DEF Followers
(* A commit of a sensor is to be taken; the others stay as they are. *)
<1>3. ASSUME UNCHANGED <<layout, accepted, seen, channel, tick, cache>>, NEW s \in layout,
             \/ UNCHANGED <<processed, updated, joining>>
             \/ /\ processed' = [processed EXCEPT ![s] = commits + 1] /\ updated' = updated \cup {s}
                /\ joining' \in {joining, joining \ {s}}
      PROVE  NewestUnderway'
  <2> SUFFICES ASSUME NEW q \in Followers' PROVE Resting(q)' \/ WillBePublished(q)'
    BY DEF NewestUnderway
  <2>1. CASE UNCHANGED <<processed, updated, joining>>
    BY <1>1, <1>3, <2>1 DEF NewestUnderway, Followers, Resting, WillBePublished, Newest
  <2>2. CASE /\ processed' = [processed EXCEPT ![s] = commits + 1] /\ updated' = updated \cup {s}
             /\ joining' \in {joining, joining \ {s}}
    <3>1. CASE q = s
      BY <2>2, <3>1 DEF Resting
    <3>2. CASE q # s
      <4>1. q \in Followers /\ processed'[q] = processed[q]
        BY <1>1, <1>3, <2>2, <3>2 DEF Followers
      <4>2. Newest(q)' = Newest(q)
        BY <4>1 DEF Newest
      <4>3. Resting(q) => Resting(q)'
        BY <1>3, <2>2, <4>1, <4>2 DEF Resting
      <4>4. WillBePublished(q) => WillBePublished(q)'
        BY <1>3, <4>2 DEF WillBePublished
      <4> QED BY <1>1, <4>1, <4>3, <4>4 DEF NewestUnderway
    <3> QED BY <3>1, <3>2
  <2> QED BY <1>3, <2>1, <2>2
<1>4. ASSUME NEW s \in AllSensors, NEW error \in BOOLEAN, AddOrUpdateReading(s, error)
      PROVE  NewestUnderway'
  <2>1. /\ UNCHANGED <<layout, accepted, seen, channel, tick, cache>> /\ s \in layout
        /\ \/ UNCHANGED <<processed, updated, joining>>
           \/ /\ processed' = [processed EXCEPT ![s] = commits + 1] /\ updated' = updated \cup {s}
              /\ joining' \in {joining, joining \ {s}}
    BY <1>4 DEF AddOrUpdateReading, publisherVars
  <2> QED BY <1>3, <2>1
<1>5. ASSUME NEW s \in AllSensors, UpdateReadingValue(s) PROVE NewestUnderway'
  <2>1. /\ UNCHANGED <<layout, accepted, seen, channel, tick, cache, joining>> /\ s \in layout
        /\ \/ UNCHANGED <<processed, updated>>
           \/ processed' = [processed EXCEPT ![s] = commits + 1] /\ updated' = updated \cup {s}
    BY <1>5 DEF UpdateReadingValue, publisherVars, subscriberVars
  <2> QED BY <1>3, <2>1
<1>6. CASE ClearReadings \/ \E l \in Layouts: Configure(l)
  <2>1. processed' = [s \in AllSensors |-> 0] /\ layout' \subseteq AllSensors
    BY <1>1, <1>6 DEF ClearReadings, Configure, ResetFrame, AllSensors
  <2> QED BY <2>1 DEF NewestUnderway, Followers, Resting
<1>7. ASSUME NEW s \in AllSensors, SubscribeSensor(s) \/ UnsubscribeSensor(s) PROVE NewestUnderway'
  <2> SUFFICES ASSUME NEW q \in Followers' PROVE Resting(q)' \/ WillBePublished(q)'
    BY DEF NewestUnderway
  <2>1. UNCHANGED <<layout, processed, updated, channel, tick, cache>>
    BY <1>7 DEF SubscribeSensor, UnsubscribeSensor, frameVars, publisherVars
  <2>2. q \in Followers /\ q # s
    BY <1>7, <2>1 DEF Followers, SubscribeSensor, UnsubscribeSensor
  <2>3. seen'[q] = seen[q]
    BY <1>1, <1>2, <1>7, <2>2 DEF SubscribeSensor, UnsubscribeSensor
  <2> QED BY <1>1, <2>1, <2>2, <2>3 DEF NewestUnderway, Resting, WillBePublished, Newest
<1>8. CASE TakeRawCanFrame \/ UNCHANGED readingsVars
  <2>1. UNCHANGED <<layout, accepted, joining, processed, updated, channel, tick, cache, seen>>
    BY <1>8 DEF TakeRawCanFrame, readingsVars, frameVars, subscriberVars, publisherVars
  <2> QED BY <1>1, <2>1 DEF NewestUnderway, Followers, Resting, WillBePublished, Newest
<1>9. CASE ReplayReadings
  <2>1. /\ updated' = updated \cup {s \in layout: processed[s] # 0}
        /\ UNCHANGED <<layout, processed>>
    BY <1>9 DEF ReplayReadings
  <2> QED BY <2>1 DEF NewestUnderway, Followers, Resting
<1>10. CASE PublishSparse
  <2> DEFINE e == [sensor |-> Sparse, number |-> 0]
  <2>1. /\ channel' = Append(channel, e)
        /\ UNCHANGED <<layout, accepted, joining, processed, updated, tick, cache, seen>>
    BY <1>10 DEF PublishSparse, frameVars, publisherVars, subscriberVars
  <2>2. e \in Event
    BY DEF Event
  <2> HIDE DEF e
  <2>3. \A i \in DOMAIN channel: i \in DOMAIN channel' /\ channel'[i] = channel[i]
    BY <1>1, <2>1, <2>2, AppendFacts
  <2> QED BY <1>1, <2>1, <2>3 DEF NewestUnderway, Followers, Resting, WillBePublished, Newest
<1>11. CASE DrainChannel
  <2> DEFINE h == Head(channel)
  <2>1. /\ channel # <<>> /\ channel' = Tail(channel)
        /\ seen' = IF h.sensor \in accepted THEN [seen EXCEPT ![h.sensor] = h.number] ELSE seen
        /\ UNCHANGED <<layout, accepted, joining, processed, updated, tick, cache>>
    BY <1>11 DEF DrainChannel, frameVars, publisherVars
  <2>2. /\ 1 \in DOMAIN channel /\ h = channel[1]
        /\ \A i \in DOMAIN channel: i # 1 => i - 1 \in DOMAIN channel' /\ channel'[i - 1] = channel[i]
    BY <1>1, <2>1, TailFacts
  <2> HIDE DEF h
  <2> SUFFICES ASSUME NEW q \in Followers' PROVE Resting(q)' \/ WillBePublished(q)'
    BY DEF NewestUnderway
  <2>3. q \in Followers /\ q \in accepted /\ q \in AllSensors /\ Newest(q)' = Newest(q)
    BY <1>2, <2>1 DEF Followers, Newest
  <2>4. CASE processed[q] = 0 \/ q \in updated
    BY <2>1, <2>4 DEF Resting
  <2>5. CASE processed[q] = seen[q] /\ processed[q] # 0
    <3>1. CASE h.sensor = q
      <4>1. seen[q] <= h.number /\ h.number <= processed[q]
        BY <1>1, <2>2, <2>3, <2>5, <3>1 DEF ReadingsInOrder, InOrder, UpTo
      <4>2. h.number \in Nat
        <5>1. h \in Event
          BY <1>1, <2>2 DEF Events
        <5> QED BY <5>1 DEF Event
      <4>3. seen[q] \in Nat /\ processed[q] \in Nat
        BY <1>1, <2>3
      <4>4. seen'[q] = h.number
        BY <1>1, <2>1, <2>3, <3>1
      <4>5. processed'[q] = seen'[q]
        BY <2>1, <2>5, <4>1, <4>2, <4>3, <4>4
      <4> QED BY <4>5 DEF Resting
    <3>2. CASE h.sensor # q
      <4>1. seen'[q] = seen[q]
        BY <1>1, <2>1, <2>3, <3>2
      <4> QED BY <2>1, <2>5, <4>1 DEF Resting
    <3> QED BY <3>1, <3>2
  <2>6. ASSUME NEW i \in DOMAIN channel, channel[i] = Newest(q) PROVE Resting(q)'
    <3>1. CASE i = 1
      <4>1. h.sensor = q /\ h.number = processed[q]
        BY <2>2, <2>6, <3>1 DEF Newest
      <4>2. seen'[q] = processed[q]
        BY <1>1, <2>1, <2>3, <4>1
      <4> QED BY <2>1, <4>2 DEF Resting
    <3>2. CASE i # 1
      BY <2>2, <2>3, <2>6, <3>2 DEF Resting
    <3> QED BY <3>1, <3>2
  <2>7. CASE WillBePublished(q)
    BY <2>1, <2>3, <2>7 DEF WillBePublished
  <2>8. Resting(q) \/ WillBePublished(q)
    BY <1>1, <2>3 DEF NewestUnderway
  <2> QED BY <2>4, <2>5, <2>6, <2>7, <2>8 DEF Resting
<1>12. CASE TakeProcessedReadings
  <2>1. /\ tick.at = "take" /\ tick'.at = "generation"
        /\ tick'.taken = {[sensor |-> s, number |-> processed[s]] : s \in updated}
        /\ UNCHANGED <<layout, accepted, joining, processed, channel, cache, seen>>
    BY <1>12 DEF TakeProcessedReadings, Follows, subscriberVars
  <2> SUFFICES ASSUME NEW q \in Followers' PROVE Resting(q)' \/ WillBePublished(q)'
    BY DEF NewestUnderway
  <2>2. q \in Followers /\ Newest(q)' = Newest(q)
    BY <2>1 DEF Followers, Newest
  <2>3. Resting(q)
    <3>1. tick.taken = {}
      BY <1>1, <2>1 DEF ChannelHasRoom, Room
    <3> QED BY <1>1, <2>2, <3>1 DEF NewestUnderway, WillBePublished
  <2>4. CASE q \in updated
    <3>1. Newest(q) \in tick'.taken
      BY <2>1, <2>4 DEF Newest
    <3> QED BY <2>1, <2>2, <3>1 DEF WillBePublished
  <2>5. CASE q \notin updated
    BY <2>1, <2>2, <2>3, <2>5 DEF Resting
  <2> QED BY <2>4, <2>5
<1>13. CASE BeginTick \/ LookAtChannel \/ Revalidate \/ EndTake
  <2>1. UNCHANGED <<layout, accepted, joining, processed, updated, channel, seen, subscriptionGeneration>>
    BY <1>13 DEF BeginTick, LookAtChannel, Revalidate, EndTake, frameVars, subscriberVars
  <2>2. tick'.taken = tick.taken /\ (tick'.at = "judge" => Revalidate)
    BY <1>1, <1>13, TickMoves
  <2> SUFFICES ASSUME NEW q \in Followers' PROVE Resting(q)' \/ WillBePublished(q)'
    BY DEF NewestUnderway
  <2>3. q \in Followers /\ Newest(q)' = Newest(q) /\ Accepts(q)' = TRUE
    BY <2>1 DEF Followers, Newest, Accepts
  <2>4. Resting(q) => Resting(q)'
    BY <2>1, <2>3 DEF Resting
  <2>5. ASSUME WillBePublished(q) PROVE WillBePublished(q)'
    <3>1. Newest(q)' \in tick'.taken
      BY <2>2, <2>3, <2>5 DEF WillBePublished
    <3>2. ASSUME tick'.at = "judge", q \in DOMAIN cache'.answers PROVE cache'.answers[q] = TRUE
      <4>1. cache'.generation = subscriptionGeneration'
        <5>1. cache' = IF cache.generation = subscriptionGeneration THEN cache
                       ELSE [generation |-> subscriptionGeneration, answers |-> <<>>]
          BY <2>2, <3>2 DEF Revalidate
        <5> QED BY <2>1, <5>1
      <4> QED BY <2>3, <3>2, <4>1 DEF CacheHonest
    <3> QED BY <3>1, <3>2 DEF WillBePublished
  <2> QED BY <1>1, <2>3, <2>4, <2>5 DEF NewestUnderway
<1>14. ASSUME NEW r \in tick.taken, PublishTaken(r) PROVE NewestUnderway'
  <2>1. UNCHANGED <<layout, accepted, joining, processed, updated, seen>>
    BY <1>14 DEF PublishTaken, frameVars, subscriberVars
  <2>2. /\ tick.at = "judge" /\ tick'.at = "judge" /\ tick'.taken = tick.taken \ {r} /\ r \in Event
        /\ channel' = IF r.sensor \notin RawSensors /\ Answer(r.sensor) THEN Append(channel, r)
                      ELSE channel
    BY <1>1, <1>14, PublishFacts
  <2>3. \A i \in DOMAIN channel: i \in DOMAIN channel' /\ channel'[i] = channel[i]
    BY <1>1, <2>2, AppendFacts
  <2> SUFFICES ASSUME NEW q \in Followers' PROVE Resting(q)' \/ WillBePublished(q)'
    BY DEF NewestUnderway
  <2>4. q \in Followers /\ Newest(q)' = Newest(q)
    BY <2>1 DEF Followers, Newest
  <2>5. Resting(q) => Resting(q)'
    BY <2>1, <2>3, <2>4 DEF Resting
  <2>6. ASSUME WillBePublished(q) PROVE Resting(q)' \/ WillBePublished(q)'
    <3>1. Answer(q) = TRUE /\ q \notin RawSensors
      BY <1>1, <2>2, <2>4, <2>6, HeldIsPublished
    <3>2. CASE r = Newest(q)
      <4>1. r.sensor = q
        BY <3>2 DEF Newest
      <4>2. channel' = Append(channel, r)
        BY <2>2, <3>1, <4>1
      <4>3. Len(channel) + 1 \in DOMAIN channel' /\ channel'[Len(channel) + 1] = r
        BY <1>1, <2>2, <4>2, AppendFacts
      <4> QED BY <2>4, <3>2, <4>3 DEF Resting
    <3>3. CASE r # Newest(q)
      <4>1. Newest(q)' \in tick'.taken
        BY <2>2, <2>4, <2>6, <3>3 DEF WillBePublished
      <4>2. ASSUME q \in DOMAIN cache'.answers PROVE cache'.answers[q] = TRUE
        BY <1>1, <1>14, <2>2, <2>6, <3>1, <4>2, StoreFacts DEF WillBePublished
      <4> QED BY <4>1, <4>2 DEF WillBePublished
    <3> QED BY <3>2, <3>3
  <2> QED BY <1>1, <2>4, <2>5, <2>6 DEF NewestUnderway
<1> QED BY <1>4, <1>5, <1>6, <1>7, <1>8, <1>9, <1>10, <1>11, <1>12, <1>13, <1>14 DEF ReadingsNext

-----------------------------------------------------------------------------
(* An empty frame. *)
LEMMA ReadingsInitially == ReadingsInit => ReadingsInv
<1> SUFFICES ASSUME ReadingsInit PROVE ReadingsInv
  OBVIOUS
<1>1. /\ channel = <<>> /\ DOMAIN channel = {} /\ Len(channel) = 0
      /\ tick.at = "idle" /\ tick.taken = {} /\ updated = {} /\ commits = 0
      /\ \A s \in AllSensors: processed[s] = 0 /\ seen[s] = 0
  BY DEF ReadingsInit
<1>2. ReadingsTypes
  <2>1. tick \in [at: {"idle", "channel", "take", "generation", "judge"},
                  taken: SUBSET [sensor: AllSensors, number: Nat], full: BOOLEAN]
    BY DEF ReadingsInit
  <2>2. channel \in Events
    BY <1>1 DEF Events
  <2> QED BY <2>1, <2>2 DEF ReadingsInit, ReadingsTypes, EmptySlots
<1>3. RawInOrder
  <2>1. 0 \in 0..RawQueueSize - 1 /\ 0 \in 0..RawQueueSize /\ 0..0 - 1 = {} /\ 0 \in 0..0
    BY SensorReadingsAssumption
  <2> QED BY <2>1 DEF ReadingsInit, RawInOrder, Queue
<1>4. ChannelHasRoom
  BY <1>1 DEF ReadingsInit, ChannelHasRoom, Room
<1>5. ReadingsInOrder
  BY <1>1 DEF ReadingsInOrder, InOrder, UpTo
<1>6. CacheHonest
  BY DEF ReadingsInit, CacheHonest
<1>7. NewestUnderway
  <2>1. Followers = {}
    BY DEF ReadingsInit, Followers
  <2> QED BY <2>1 DEF NewestUnderway
<1> QED BY <1>2, <1>3, <1>4, <1>5, <1>6, <1>7 DEF ReadingsInv

(* The invariant gives the promises of the frame and the publisher. *)
LEMMA ReadingsInvSafe == ReadingsInv => ReadingsSafe
<1> SUFFICES ASSUME ReadingsInv PROVE ReadingsSafe
  OBVIOUS
<1>1. FollowersSeeNewest
  BY DEF ReadingsInv, NewestUnderway, Followers, Resting, WillBePublished, Newest, FollowersSeeNewest
<1>2. ReadingsPushNothingOut
  BY DEF ReadingsInv, ChannelHasRoom, ReadingsPushNothingOut
<1>3. RawFramesInOrder
  <2> DEFINE at(k) == rawRing[Slot(rawHead + k)]
  <2>1. rawCount \in Nat /\ \A k \in 0..rawCount - 1: at(k) > rawLogged
    <3>1. rawCount \in 0..RawQueueSize /\ \A k \in 0..rawCount - 1: at(k) > rawLogged
      BY DEF ReadingsInv, RawInOrder, Queue
    <3> HIDE DEF at
    <3> QED BY <3>1, SensorReadingsAssumption
  <2>2. \A j \in 0..rawCount - 1, k \in 0..rawCount - 1: j < k => at(j) < at(k)
    BY DEF ReadingsInv, RawInOrder, Queue
  <2> HIDE DEF at
  <2>3. \A k \in 1..rawCount - 1: at(k - 1) < at(k)
    BY <2>1, <2>2
  <2>4. RawFramesInOrder <=> /\ \A k \in 0..rawCount - 1: at(k) > rawLogged
                             /\ \A k \in 1..rawCount - 1: at(k - 1) < at(k)
    BY DEF RawFramesInOrder, Slot, at
  <2> QED BY <2>1, <2>3, <2>4
<1> QED BY <1>1, <1>2, <1>3 DEF ReadingsSafe

(* However commits, subscriptions, resets, the publisher's tick and the    *)
(* channel's worker interleave, a follower is given the newest reading, no *)
(* reading pushes another event out and raw frames stay in order           *)
(* (SensorReadingsFrame, SensorEventsPublisher::PublishProcessedReadings). *)
THEOREM ReadingsAreSafe == ReadingsSpec => []ReadingsSafe
<1>1. ReadingsInit => ReadingsInv
  BY ReadingsInitially
<1>2. ReadingsInv /\ [ReadingsNext]_readingsVars => ReadingsInv'
  <2> SUFFICES ASSUME ReadingsInv, [ReadingsNext]_readingsVars PROVE ReadingsInv'
    OBVIOUS
  <2>1. CacheHonest'
    BY CacheStep DEF ReadingsInv
  <2>2. ReadingsTypes' /\ RawInOrder' /\ ChannelHasRoom' /\ ReadingsInOrder'
    BY TypesStep, RawStep, RoomStep, OrderStep DEF ReadingsInv
  <2>3. NewestUnderway'
    BY <2>1, UnderwayStep
  <2> QED BY <2>1, <2>2, <2>3 DEF ReadingsInv
<1>3. ReadingsInv => ReadingsSafe
  BY ReadingsInvSafe
<1> QED BY <1>1, <1>2, <1>3, PTL DEF ReadingsSpec
=============================================================================
