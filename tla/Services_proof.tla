--------------------------- MODULE Services_proof ---------------------------
(***************************************************************************)
(* Proofs about the services a unit is built on.                           *)
(*                                                                         *)
(* The SMP transports: for any number of sources, slots and sequence       *)
(* numbers, any lengths of packets, writes and fragments and any number of *)
(* connections, what is delivered over CAN or dispatched from BLE is one   *)
(* whole packet, the frames of a packet carry one address, the fragments   *)
(* of a response go to one connection, and what waits to be sent is        *)
(* scheduled.                                                              *)
(*                                                                         *)
(* The event bus: for every list of channels, every capacity and every set *)
(* of subscribers, a full channel loses its oldest event and nothing else, *)
(* an idle bus has drained every channel, no channel starves another, and  *)
(* no handler body runs once its owner detached.                           *)
(*                                                                         *)
(* The CAN wrapper: for every set of handlers and filters, every list of   *)
(* bitrates and every length of the frame queue, the detection of the      *)
(* bitrate stays off the wire, every registered handler hears its frames,  *)
(* and none of them belongs to an earlier configuration.                   *)
(*                                                                         *)
(* Firmware images: for any images, sizes of chunks and places of the      *)
(* TLVs, an image that is all in the slot is one for this board; for any   *)
(* probes, delays and wrap of the clock, an image confirms itself only     *)
(* after its probes ran, and not once it has failed.                       *)
(***************************************************************************)
EXTENDS Smp, EventBus, Canbus, Dfu, FiniteSetTheorems, TLAPS

-----------------------------------------------------------------------------
(* Remainders *)

(* Quotient and remainder of a number are unique. *)
LEMMA RemainderUnique ==
  ASSUME NEW M \in Nat \ {0}, NEW q \in Int, NEW r \in 0..M - 1, NEW x \in Int, x = M * q + r
  PROVE  x % M = r
<1> DEFINE d == x \div M
           e == x % M
<1>1. d \in Int /\ e \in 0..M - 1 /\ x = M * d + e
  OBVIOUS
<1> HIDE DEF d, e
<1>2. CASE q > d
  <2>1. q - d >= 1 /\ M * (q - d) = e - r
    BY <1>1, <1>2
  <2>2. M * (q - d) >= M
    BY <2>1, <1>1
  <2> QED BY <2>1, <2>2, <1>1
<1>3. CASE q < d
  <2>1. d - q >= 1 /\ M * (d - q) = r - e
    BY <1>1, <1>3
  <2>2. M * (d - q) >= M
    BY <2>1, <1>1
  <2> QED BY <2>1, <2>2, <1>1
<1>4. CASE q = d
  BY <1>1, <1>4 DEF e
<1> QED BY <1>1, <1>2, <1>3, <1>4

(* A remainder may be taken before or after something is added. *)
LEMMA RemainderOfSum ==
  ASSUME NEW M \in Nat \ {0}, NEW x \in Nat, NEW y \in Nat
  PROVE  ((x % M) + y) % M = (x + y) % M
<1> DEFINE z == (x % M) + y
           r == (x + y) % M
           q == (x + y) \div M
<1>1. x % M \in 0..M - 1 /\ x \div M \in Int /\ x = M * (x \div M) + (x % M)
  OBVIOUS
<1>2. r \in 0..M - 1 /\ q \in Int /\ x + y = M * q + r
  OBVIOUS
<1> HIDE DEF r, q
<1> DEFINE k == q - (x \div M)
<1>3. z = M * k + r /\ k \in Int /\ z \in Int
  BY <1>1, <1>2
<1> HIDE DEF z, k
<1>4. z % M = r
  BY <1>2, <1>3, RemainderUnique
<1> QED BY <1>4 DEF r, z

(* The difference of two numbers with one remainder is a multiple. *)
LEMMA SameRemainder ==
  ASSUME NEW M \in Nat \ {0}, NEW x \in Nat, NEW y \in Nat, x % M = y % M
  PROVE  (x - y) % M = 0
<1>1. x % M \in 0..M - 1 /\ x \div M \in Int /\ x = M * (x \div M) + (x % M)
  OBVIOUS
<1>2. y % M \in 0..M - 1 /\ y \div M \in Int /\ y = M * (y \div M) + (y % M)
  OBVIOUS
<1> DEFINE z == x - y
           q == (x \div M) - (y \div M)
<1>3. z = M * q + 0 /\ z \in Int /\ q \in Int /\ 0 \in 0..M - 1
  BY <1>1, <1>2
<1> HIDE DEF z, q
<1>4. z % M = 0
  BY <1>3, RemainderUnique
<1> QED BY <1>4 DEF z

(* A small number is its own remainder. *)
LEMMA SmallRemainder ==
  ASSUME NEW M \in Nat \ {0}, NEW x \in 0..M - 1
  PROVE  x % M = x
<1>1. x = M * 0 + x
  OBVIOUS
<1> QED BY <1>1, RemainderUnique

-----------------------------------------------------------------------------
(* Sending over CAN *)

SendTypes ==
  /\ address \in Addresses \cup {0} /\ txAddress \in Addresses \cup {0}
  /\ txTask \in {"idle", "queued", "delayed", "running", "requeued"}
  /\ caller \in {"out", "checked", "put"} /\ unbinder \in {"out", "cleared", "cancelled"}
  /\ queued \in Nat /\ hasPacket \in BOOLEAN
  /\ frames \in Seq(Addresses)

(* The address a half-sent packet has to go on with: the one the run has,  *)
(* or the one the next run will read; 0 when that run drops it.            *)
Binding == IF Running THEN txAddress ELSE address

SentUnder ==
  /\ ~hasPacket => frames = <<>>
  /\ Running => address \in {0, txAddress}
  /\ Binding # 0 => \A i \in DOMAIN frames: frames[i] = Binding
  /\ hasPacket => txTask # "idle" \/ unbinder # "out"

SendInv == SendTypes /\ SentUnder /\ PacketKeepsSource /\ WaitingIsScheduled

(* The empty sequence. *)
LEMMA EmptySequence == \A S: <<>> \in Seq(S) /\ DOMAIN <<>> = {} /\ Len(<<>>) = 0
OBVIOUS

(* Nothing waits before the first packet. *)
LEMMA SendStarts == SendInit => SendInv
<1> SUFFICES ASSUME SendInit PROVE SendInv
  OBVIOUS
<1>1. frames \in Seq(Addresses) /\ DOMAIN frames = {} /\ queued \in Nat
  BY DEF SendInit
<1>2. SendTypes
  BY <1>1 DEF SendInit, SendTypes
<1>3. SentUnder /\ PacketKeepsSource /\ WaitingIsScheduled
  BY <1>1 DEF SendInit, SentUnder, PacketKeepsSource, WaitingIsScheduled, Running, Binding
<1> QED BY <1>2, <1>3 DEF SendInv

(* Every step of Enqueue(), Bind(), UnbindLocked() and ProcessTx() leaves  *)
(* a half-sent packet with the address it was begun with, and what waits   *)
(* with somebody who will schedule the task.                               *)
LEMMA SendStep == SendInv /\ [SendNext]_sendVars => SendInv'
<1> SUFFICES ASSUME SendInv, [SendNext]_sendVars PROVE SendInv'
  OBVIOUS
<1> USE SendAssumption DEF SendInv, SendTypes, SentUnder, PacketKeepsSource, WaitingIsScheduled, Binding,
                           Running
<1>1. CASE EnqueueCheck
  BY <1>1 DEF EnqueueCheck
<1>2. CASE EnqueuePut
  BY <1>2 DEF EnqueuePut
<1>3. CASE EnqueueSchedule
  BY <1>3 DEF EnqueueSchedule, Scheduled
<1>4. ASSUME NEW a \in Addresses, BindSend(a) PROVE SendInv'
  BY <1>4 DEF BindSend
<1>5. CASE UnbindClear
  BY <1>5 DEF UnbindClear
<1>6. CASE UnbindCancel
  BY <1>6 DEF UnbindCancel
<1>7. CASE UnbindSchedule
  BY <1>7 DEF UnbindSchedule, Scheduled
<1>8. CASE BeginTx
  BY <1>8 DEF BeginTx
<1>9. CASE TakePacket
  BY <1>9 DEF TakePacket
<1>10. CASE EndTx
  BY <1>10 DEF EndTx, RunEnded
<1>11. CASE SendFrame
  <2> DEFINE sent == Append(frames, txAddress)
  <2>1. Running /\ txAddress \in Addresses /\ txAddress # 0 /\ sent \in Seq(Addresses)
    BY <1>11 DEF SendFrame
  <2>2. \A i \in DOMAIN sent: sent[i] = txAddress
    BY <2>1
  <2>3. frames' = sent \/ frames' = <<>>
    BY <1>11 DEF SendFrame, SourceAddress
  <2>4. frames' \in Seq(Addresses) /\ \A i \in DOMAIN frames': frames'[i] = txAddress
    BY <2>1, <2>2, <2>3, EmptySequence
  <2>5. PacketKeepsSource'
    <3>1. ASSUME NEW i \in DOMAIN frames' PROVE frames'[i] = frames'[1]
      <4>1. DOMAIN frames' = 1..Len(frames') /\ Len(frames') \in Nat
        BY <2>4
      <4>2. 1 \in DOMAIN frames'
        BY <4>1
      <4> QED BY <2>4, <4>2
    <3> QED BY <3>1
  <2>6. hasPacket' \in BOOLEAN /\ (~hasPacket' => frames' = <<>>)
    BY <1>11 DEF SendFrame
  <2>7. UNCHANGED <<address, txTask, txAddress, queued, caller, unbinder>>
    BY <1>11 DEF SendFrame
  <2> HIDE DEF sent
  <2> QED BY <2>1, <2>4, <2>5, <2>6, <2>7
<1>12. CASE SendFails
  BY <1>12, EmptySequence DEF SendFails
<1>13. CASE WaitTx
  BY <1>13 DEF WaitTx
<1>14. ASSUME NEW noBitrate \in BOOLEAN, DropTx(noBitrate) PROVE SendInv'
  <2>1. /\ txTask' \in {"queued", "idle"} /\ frames' = <<>> /\ hasPacket' = FALSE /\ queued' = 0
        /\ UNCHANGED <<address, txAddress, caller, unbinder>>
    BY <1>14 DEF DropTx, RunEnded
  <2>2. frames' \in Seq(Addresses) /\ DOMAIN frames' = {}
    BY <2>1, EmptySequence
  <2>3. SendTypes'
    BY <2>1, <2>2
  <2>4. SentUnder'
    BY <2>1, <2>2
  <2>5. PacketKeepsSource' /\ WaitingIsScheduled'
    BY <2>1, <2>2
  <2> QED BY <2>3, <2>4, <2>5
<1>15. CASE UNCHANGED sendVars
  BY <1>15 DEF sendVars
<1> QED BY <1>1, <1>2, <1>3, <1>4, <1>5, <1>6, <1>7, <1>8, <1>9, <1>10, <1>11, <1>12, <1>13, <1>14, <1>15
        DEF SendNext

-----------------------------------------------------------------------------
(* Receiving over CAN *)

Number(i) == i % SequenceCount

Part == {0, 1} \X Nat
ReassemblySlot == [busy: BOOLEAN, parts: Seq(Part), next: Nat, fd: BOOLEAN]
Place == [packet: {0, 1}, index: Nat]

(* The parts are the first k of packet p. *)
FirstParts(parts, p, k) ==
  /\ parts \in Seq(Part) /\ Len(parts) = k
  /\ \A i \in 1..k: parts[i] = <<p, i - 1>>

(* What separates a source that is at `place` from the k frames of packet  *)
(* p that were received: n frames that went missing, up to the bound of a  *)
(* packet that was given up.                                               *)
Apart(place, p, k, n) ==
  \/ place.packet = p /\ place.index = k + n
  \/ place.packet = 1 - p /\ place.index + FramesOf[p] = k + n
  \/ place.index = 0 /\ n = MaxBurst

(* A slot with k frames of packet p. *)
Gathered(held, place, n, p, k) ==
  /\ k < FramesOf[p]
  /\ FirstParts(held.parts, p, k)
  /\ held.next = Number(k)
  /\ Apart(place, p, k, n)

SlotOK(held, place, n) ==
  held.busy => \E p \in {0, 1}, k \in Nat \ {0}: Gathered(held, place, n, p, k)

PlaceOK(place) == place \in Place /\ place.index < FramesOf[place.packet]

ReceiveInv ==
  /\ bound \in BOOLEAN
  /\ sending \in [Sources -> Place] /\ lost \in [Sources -> 0..MaxBurst]
  /\ slots \in [Sources -> ReassemblySlot]
  /\ \A s \in Sources: PlaceOK(sending[s])
  /\ \A s \in Sources: SlotOK(slots[s], sending[s], lost[s])
  /\ ~bound => \A s \in Sources: ~slots[s].busy
  /\ DeliveredWhole

(* Where a source is after a frame. *)
After(place) == IF place.index + 1 < FramesOf[place.packet]
                THEN [packet |-> place.packet, index |-> place.index + 1]
                ELSE [packet |-> 1 - place.packet, index |-> 0]

(* A free slot. *)
LEMMA FreeSlotOK ==
  ASSUME NEW place, NEW n
  PROVE  FreeSlot \in ReassemblySlot /\ ~FreeSlot.busy /\ SlotOK(FreeSlot, place, n)
<1>1. <<>> \in Seq(Part)
  BY EmptySequence
<1>2. FreeSlot = [busy |-> FALSE, parts |-> <<>>, next |-> 0, fd |-> FALSE]
  BY DEF FreeSlot
<1>3. FreeSlot \in ReassemblySlot
  BY <1>1, <1>2 DEF ReassemblySlot
<1>4. ~FreeSlot.busy
  BY <1>2
<1> QED BY <1>3, <1>4 DEF SlotOK

(* A place after a frame is a place. *)
LEMMA AfterOK ==
  ASSUME NEW place, PlaceOK(place)
  PROVE  /\ PlaceOK(After(place))
         /\ place.index + 1 < FramesOf[place.packet] =>
              After(place).packet = place.packet /\ After(place).index = place.index + 1
         /\ ~(place.index + 1 < FramesOf[place.packet]) =>
              /\ After(place).packet = 1 - place.packet /\ After(place).index = 0
              /\ place.index + 1 = FramesOf[place.packet]
<1>1. place \in Place /\ place.index < FramesOf[place.packet] /\ FramesOf[place.packet] \in Nat \ {0}
      /\ place.packet \in {0, 1} /\ place.index \in Nat
  BY ReceiveAssumption DEF PlaceOK, Place
<1>2. CASE place.index + 1 < FramesOf[place.packet]
  <2>1. After(place) = [packet |-> place.packet, index |-> place.index + 1]
    BY <1>2 DEF After
  <2>2. After(place) \in Place /\ After(place).packet = place.packet /\ After(place).index = place.index + 1
    BY <1>1, <2>1 DEF Place
  <2> QED BY <1>1, <1>2, <2>2 DEF PlaceOK
<1>3. CASE ~(place.index + 1 < FramesOf[place.packet])
  <2>1. After(place) = [packet |-> 1 - place.packet, index |-> 0]
    BY <1>3 DEF After
  <2>2. 1 - place.packet \in {0, 1}
    BY <1>1
  <2>3. After(place) \in Place /\ After(place).packet = 1 - place.packet /\ After(place).index = 0
    BY <2>1, <2>2 DEF Place
  <2>4. FramesOf[1 - place.packet] \in Nat \ {0}
    BY <2>2, ReceiveAssumption
  <2> QED BY <1>1, <1>3, <2>3, <2>4 DEF PlaceOK
<1> QED BY <1>2, <1>3

(* Numbers of frames that are not far apart differ, unless the frames are  *)
(* the same: frame k + n of the packet, with n below the number of         *)
(* numbers.                                                                *)
LEMMA NumbersTell ==
  ASSUME NEW k \in Nat, NEW n \in 0..SequenceCount - 1, Number(k + n) = Number(k)
  PROVE  n = 0
<1>1. SequenceCount \in Nat \ {0}
  BY ReceiveAssumption
<1> DEFINE x == k + n
<1>2. x \in Nat /\ x - k = n /\ x % SequenceCount = k % SequenceCount
  BY DEF Number
<1> HIDE DEF x
<1>3. (x - k) % SequenceCount = 0
  BY <1>1, <1>2, SameRemainder
<1>4. n % SequenceCount = n
  BY <1>1, SmallRemainder
<1> QED BY <1>2, <1>3, <1>4

(* The number after that of k is the number of k + 1. *)
LEMMA NextNumber ==
  ASSUME NEW k \in Nat
  PROVE  (Number(k) + 1) % SequenceCount = Number(k + 1) /\ Number(k) \in Nat
<1>1. SequenceCount \in Nat \ {0}
  BY ReceiveAssumption
<1>2. ((k % SequenceCount) + 1) % SequenceCount = (k + 1) % SequenceCount
  BY <1>1, RemainderOfSum
<1>3. k % SequenceCount \in Nat
  BY <1>1
<1> QED BY <1>2, <1>3 DEF Number

(* A frame that continues a slot's packet is the next frame of it: with    *)
(* any other number of frames missing the numbers or the start flag would  *)
(* have shown it.                                                          *)
LEMMA ContinuesWithNext ==
  ASSUME BurstsAreSeen, NEW held, NEW place, PlaceOK(place), NEW n \in 0..MaxBurst,
         NEW p \in {0, 1}, NEW k \in Nat \ {0}, Gathered(held, place, n, p, k),
         place.index # 0, Number(place.index) = held.next
  PROVE  place.packet = p /\ place.index = k
<1>1. /\ FramesOf[p] \in Nat \ {0} /\ SequenceCount \in Nat \ {0} /\ MaxBurst \in Nat
      /\ place.index \in Nat /\ k < FramesOf[p] /\ Number(place.index) = Number(k)
      /\ MaxBurst < SequenceCount /\ MaxBurst < FramesOf[p]
  BY ReceiveAssumption DEF PlaceOK, Place, Gathered, BurstsAreSeen
<1>2. CASE place.packet = p /\ place.index = k + n
  <2>1. n \in 0..SequenceCount - 1 /\ Number(k + n) = Number(k)
    BY <1>1, <1>2
  <2>2. n = 0
    BY <2>1, NumbersTell
  <2> QED BY <1>1, <1>2, <2>2
<1>3. CASE place.packet = 1 - p /\ place.index + FramesOf[p] = k + n
  <2>1. k - place.index = FramesOf[p] - n
    BY <1>1, <1>3
  <2>2. n \in 2..MaxBurst
    BY <1>1, <1>3
  <2>3. (k - place.index) % SequenceCount = 0
    BY <1>1, SameRemainder DEF Number
  <2>4. (FramesOf[p] - n) % SequenceCount # 0
    BY <2>2 DEF BurstsAreSeen
  <2> QED BY <2>1, <2>3, <2>4
<1> QED BY <1>2, <1>3 DEF Gathered, Apart

(* A frame goes missing: the source is one frame further away. *)
LEMMA MissingOne ==
  ASSUME BurstsAreSeen, NEW held, NEW place, PlaceOK(place), NEW n \in 0..MaxBurst, n < MaxBurst,
         SlotOK(held, place, n)
  PROVE  SlotOK(held, After(place), n + 1)
<1> SUFFICES ASSUME held.busy
             PROVE  \E p \in {0, 1}, k \in Nat \ {0}: Gathered(held, After(place), n + 1, p, k)
  BY DEF SlotOK
<1>1. PICK p \in {0, 1}, k \in Nat \ {0}: Gathered(held, place, n, p, k)
  BY DEF SlotOK
<1>2. /\ FramesOf[p] \in Nat \ {0} /\ FramesOf[1 - p] \in Nat \ {0} /\ MaxBurst \in Nat
      /\ MaxBurst < FramesOf[1 - p] /\ k < FramesOf[p] /\ place.index \in Nat
  <2>1. 1 - p \in {0, 1}
    OBVIOUS
  <2> QED BY <1>1, <2>1, ReceiveAssumption DEF BurstsAreSeen, Gathered, PlaceOK, Place
<1>5. Apart(After(place), p, k, n + 1)
  <2>1. CASE place.packet = p /\ place.index = k + n
    BY <1>2, <2>1, AfterOK DEF Apart
  <2>2. CASE place.packet = 1 - p /\ place.index + FramesOf[p] = k + n
    <3>1. place.index + 1 < FramesOf[1 - p]
      BY <1>2, <2>2
    <3> QED BY <1>2, <2>2, <3>1, AfterOK DEF Apart
  <2>3. ~(place.index = 0 /\ n = MaxBurst)
    BY <1>2
  <2> QED BY <1>1, <2>1, <2>2, <2>3 DEF Gathered, Apart
<1> QED BY <1>1, <1>5 DEF Gathered

(* A packet is given up: its other frames are missing, and the source is   *)
(* at the start of the next one.                                           *)
LEMMA MissingRest ==
  ASSUME BurstsAreSeen, NEW held, NEW place, PlaceOK(place), place.index > 0, NEW n \in 0..MaxBurst,
         SlotOK(held, place, n), NEW m \in Nat, m = n + FramesOf[place.packet] - place.index
  PROVE  SlotOK(held, [packet |-> 1 - place.packet, index |-> 0], IF m < MaxBurst THEN m ELSE MaxBurst)
<1> DEFINE start == [packet |-> 1 - place.packet, index |-> 0]
           missing == IF m < MaxBurst THEN m ELSE MaxBurst
<1>1. start.packet = 1 - place.packet /\ start.index = 0
  OBVIOUS
<1> HIDE DEF start
<1> SUFFICES ASSUME held.busy
             PROVE  \E p \in {0, 1}, k \in Nat \ {0}: Gathered(held, start, missing, p, k)
  BY DEF SlotOK, start
<1>2. PICK p \in {0, 1}, k \in Nat \ {0}: Gathered(held, place, n, p, k)
  BY DEF SlotOK
<1>3. /\ FramesOf[p] \in Nat \ {0} /\ FramesOf[1 - p] \in Nat \ {0} /\ MaxBurst \in Nat
      /\ MaxBurst < FramesOf[1 - p] /\ k < FramesOf[p] /\ place.index \in Nat
  <2>1. 1 - p \in {0, 1}
    OBVIOUS
  <2> QED BY <1>2, <2>1, ReceiveAssumption DEF BurstsAreSeen, Gathered, PlaceOK, Place
<1>4. Apart(start, p, k, missing)
  <2>1. CASE place.packet = p /\ place.index = k + n
    <3>1. m = FramesOf[p] - k
      BY <1>3, <2>1
    <3>2. CASE m < MaxBurst
      BY <1>1, <1>3, <2>1, <3>1, <3>2 DEF Apart
    <3>3. CASE ~(m < MaxBurst)
      BY <1>1, <3>3 DEF Apart
    <3> QED BY <3>2, <3>3
  <2>2. CASE place.packet = 1 - p /\ place.index + FramesOf[p] = k + n
    <3>1. ~(m < MaxBurst)
      BY <1>3, <2>2
    <3> QED BY <1>1, <3>1 DEF Apart
  <2>3. ~(place.index = 0 /\ n = MaxBurst)
    BY <1>3
  <2> QED BY <1>2, <2>1, <2>2, <2>3 DEF Gathered, Apart
<1> HIDE DEF missing
<1> QED BY <1>2, <1>4 DEF Gathered

(* The frame of a source at a place. *)
FrameAt(place, fd) ==
  [start |-> place.index = 0, seq |-> Number(place.index), fd |-> fd,
   packet |-> place.packet, index |-> place.index]

(* One more part. *)
LEMMA OneMorePart ==
  ASSUME NEW parts, NEW p \in {0, 1}, NEW k \in Nat, FirstParts(parts, p, k)
  PROVE  FirstParts(Append(parts, <<p, k>>), p, k + 1)
<1>1. <<p, k>> \in Part /\ parts \in Seq(Part) /\ Len(parts) = k
  BY DEF Part, FirstParts
<1>2. Append(parts, <<p, k>>) \in Seq(Part) /\ Len(Append(parts, <<p, k>>)) = k + 1
  BY <1>1
<1>3. ASSUME NEW i \in 1..k + 1 PROVE Append(parts, <<p, k>>)[i] = <<p, i - 1>>
  BY <1>1 DEF FirstParts
<1> QED BY <1>2, <1>3 DEF FirstParts

(* Accept() of a frame that starts a packet or finds one in progress: the  *)
(* packet is complete and whole, or the slot holds what came of it.        *)
LEMMA AcceptedOK ==
  ASSUME BurstsAreSeen, NEW held \in ReassemblySlot, NEW place, PlaceOK(place), NEW n \in 0..MaxBurst,
         SlotOK(held, place, n), NEW fd \in BOOLEAN
  PROVE  LET a == Accepted(held, FrameAt(place, fd))
         IN  /\ a \in ReassemblySlot
             /\ IsComplete(a) => \E p \in {0, 1}: FirstParts(a.parts, p, FramesOf[p])
             /\ ~IsComplete(a) => SlotOK(a, After(place), 0)
<1> DEFINE frame == FrameAt(place, fd)
           a == Accepted(held, frame)
<1>1. /\ frame.start <=> place.index = 0
      /\ frame.seq = Number(place.index) /\ frame.fd = fd
      /\ frame.packet = place.packet /\ frame.index = place.index
  BY DEF FrameAt
<1>2. place.packet \in {0, 1} /\ place.index \in Nat /\ place.index < FramesOf[place.packet]
      /\ FramesOf \in [{0, 1} -> Nat \ {0}]
  BY ReceiveAssumption DEF PlaceOK, Place
<1> HIDE DEF frame
<1> SUFFICES /\ a \in ReassemblySlot
             /\ IsComplete(a) => \E p \in {0, 1}: FirstParts(a.parts, p, FramesOf[p])
             /\ ~IsComplete(a) => SlotOK(a, After(place), 0)
  BY DEF frame
<1>3. ASSUME a \in ReassemblySlot, a.busy, NEW k \in Nat \ {0}, place.index + 1 = k,
             FirstParts(a.parts, place.packet, k), a.next = Number(k)
      PROVE  /\ IsComplete(a) => \E p \in {0, 1}: FirstParts(a.parts, p, FramesOf[p])
             /\ ~IsComplete(a) => SlotOK(a, After(place), 0)
  <2> HIDE DEF a
  <2>1. a.parts[1][1] = place.packet /\ Len(a.parts) = k
    BY <1>3 DEF FirstParts
  <2>2. IsComplete(a) <=> k = FramesOf[place.packet]
    BY <1>3, <2>1 DEF IsComplete
  <2>3. CASE k = FramesOf[place.packet]
    BY <1>2, <1>3, <2>2, <2>3
  <2>4. CASE k # FramesOf[place.packet]
    <3>1. k < FramesOf[place.packet]
      BY <1>2, <1>3, <2>4
    <3>2. After(place).packet = place.packet /\ After(place).index = k + 0
      BY <1>3, <3>1, AfterOK
    <3>3. Gathered(a, After(place), 0, place.packet, k)
      BY <1>3, <3>1, <3>2 DEF Gathered, Apart
    <3> QED BY <1>2, <2>2, <2>4, <3>3 DEF SlotOK
  <2> QED BY <2>3, <2>4
<1>4. CASE place.index = 0
  <2> DEFINE part == <<frame.packet, frame.index>>
  <2>1. a = [busy |-> TRUE, parts |-> <<part>>, next |-> (frame.seq + 1) % SequenceCount, fd |-> frame.fd]
    BY <1>1, <1>4 DEF Accepted
  <2>2. part = <<place.packet, 0>> /\ part \in Part
    BY <1>1, <1>2, <1>4 DEF Part
  <2>3. (frame.seq + 1) % SequenceCount = Number(1)
    BY <1>1, <1>4, NextNumber
  <2>4. Number(1) \in Nat
    BY NextNumber
  <2> HIDE DEF part
  <2>5. a \in ReassemblySlot /\ a.busy /\ a.parts = <<part>> /\ a.next = Number(1)
    BY <1>1, <2>1, <2>2, <2>3, <2>4 DEF ReassemblySlot
  <2>6. FirstParts(a.parts, place.packet, 1)
    BY <2>2, <2>5 DEF FirstParts
  <2> QED BY <1>2, <1>3, <1>4, <2>5, <2>6
<1>5. CASE place.index # 0 /\ Continues(held, frame)
  <2> DEFINE part == <<frame.packet, frame.index>>
  <2>1. a = [held EXCEPT !.parts = Append(held.parts, part), !.next = (held.next + 1) % SequenceCount]
    BY <1>1, <1>5 DEF Accepted
  <2>2. held.busy /\ Number(place.index) = held.next
    BY <1>1, <1>5 DEF Continues
  <2>3. PICK p \in {0, 1}, k \in Nat \ {0}: Gathered(held, place, n, p, k)
    BY <2>2 DEF SlotOK
  <2>4. place.packet = p /\ place.index = k
    BY <1>5, <2>2, <2>3, ContinuesWithNext
  <2>5. part = <<p, k>>
    BY <1>1, <2>4
  <2>6. FirstParts(Append(held.parts, part), p, k + 1)
    BY <2>3, <2>5, OneMorePart DEF Gathered
  <2>7. (held.next + 1) % SequenceCount = Number(k + 1)
    BY <2>3, NextNumber DEF Gathered
  <2>8. Number(k + 1) \in Nat
    BY NextNumber
  <2> HIDE DEF part
  <2>9. Append(held.parts, part) \in Seq(Part)
    BY <2>6 DEF FirstParts
  <2>10. a \in ReassemblySlot /\ a.busy /\ a.parts = Append(held.parts, part) /\ a.next = Number(k + 1)
    BY <2>1, <2>2, <2>7, <2>8, <2>9 DEF ReassemblySlot
  <2>11. k + 1 \in Nat \ {0} /\ place.index + 1 = k + 1
    BY <2>4
  <2> QED BY <1>3, <2>4, <2>6, <2>10, <2>11
<1>6. CASE place.index # 0 /\ ~Continues(held, frame)
  <2>1. a = FreeSlot
    BY <1>1, <1>6 DEF Accepted
  <2> HIDE DEF a
  <2> QED BY <2>1, FreeSlotOK DEF IsComplete
<1> QED BY <1>4, <1>5, <1>6

(* Nothing is received at first. *)
LEMMA ReceiveStarts == ReceiveInit => ReceiveInv
<1> SUFFICES ASSUME ReceiveInit PROVE ReceiveInv
  OBVIOUS
<1>1. bound \in BOOLEAN /\ (bound = TRUE) /\ lost \in [Sources -> 0..MaxBurst]
  BY ReceiveAssumption DEF ReceiveInit
<1>2. sending \in [Sources -> Place] /\ \A s \in Sources: PlaceOK(sending[s])
  BY ReceiveAssumption DEF ReceiveInit, Place, PlaceOK
<1>3. slots \in [Sources -> ReassemblySlot] /\ \A s \in Sources: SlotOK(slots[s], sending[s], lost[s])
  BY FreeSlotOK DEF ReceiveInit
<1>4. DeliveredWhole
  BY DEF ReceiveInit, DeliveredWhole
<1> QED BY <1>1, <1>2, <1>3, <1>4 DEF ReceiveInv

(* What Advance() does to the places. *)
LEMMA Advanced ==
  ASSUME ReceiveInv, NEW s \in Sources, Advance(s)
  PROVE  /\ sending' \in [Sources -> Place] /\ \A q \in Sources: PlaceOK(sending'[q])
         /\ sending'[s] = After(sending[s])
         /\ \A q \in Sources \ {s}: sending'[q] = sending[q]
<1>1. sending \in [Sources -> Place] /\ \A q \in Sources: PlaceOK(sending[q])
  BY DEF ReceiveInv
<1>2. PlaceOK(After(sending[s]))
  BY <1>1, AfterOK
<1>3. After(sending[s]) \in Place
  BY <1>2 DEF PlaceOK
<1>4. sending' = [sending EXCEPT ![s] = After(sending[s])]
  BY DEF Advance, After
<1> QED BY <1>1, <1>2, <1>3, <1>4

(* OnFrame(): a frame of s, whatever slots expired before it. *)
LEMMA OnFrameOK ==
  ASSUME BurstsAreSeen, ReceiveInv, NEW s \in Sources, NEW fd \in BOOLEAN, NEW buffer \in BOOLEAN,
         NEW expired \in SUBSET Sources, OnFrame(s, fd, expired, buffer)
  PROVE  ReceiveInv'
<1> DEFINE frame == FrameOf(s, fd)
           live == [q \in Sources |-> IF q \in expired THEN FreeSlot ELSE slots[q]]
           mine == IF live[s].busy /\ live[s].fd # fd THEN FreeSlot ELSE live[s]
           room == Cardinality({q \in Sources \ {s}: live[q].busy}) < SlotCount
           after == IF ~mine.busy /\ ~(frame.start /\ room /\ buffer) THEN FreeSlot
                    ELSE Accepted(mine, frame)
<1>1. /\ bound /\ slots' = [live EXCEPT ![s] = IF IsComplete(after) THEN FreeSlot ELSE after]
      /\ delivered' = IF IsComplete(after) THEN after.parts ELSE <<>>
      /\ lost' = [lost EXCEPT ![s] = 0]
      /\ Advance(s)
      /\ UNCHANGED bound
  BY DEF OnFrame
<1>2. /\ slots \in [Sources -> ReassemblySlot] /\ lost \in [Sources -> 0..MaxBurst] /\ bound \in BOOLEAN
      /\ \A q \in Sources: SlotOK(slots[q], sending[q], lost[q]) /\ PlaceOK(sending[q])
  BY DEF ReceiveInv
<1>3. frame = FrameAt(sending[s], fd)
  BY DEF FrameOf, FrameAt, Number
<1>4. \A q \in Sources: live[q] \in ReassemblySlot /\ SlotOK(live[q], sending[q], lost[q])
  BY <1>2, FreeSlotOK
<1> HIDE DEF frame, room
<1>5. live \in [Sources -> ReassemblySlot]
  BY <1>4
<1> HIDE DEF live
<1>6. mine \in ReassemblySlot /\ SlotOK(mine, sending[s], lost[s])
  BY <1>4, FreeSlotOK
<1> HIDE DEF mine
<1>7. /\ after \in ReassemblySlot
      /\ IsComplete(after) => \E p \in {0, 1}: FirstParts(after.parts, p, FramesOf[p])
      /\ ~IsComplete(after) => SlotOK(after, After(sending[s]), 0)
  <2>1. CASE after = FreeSlot
    BY <2>1, FreeSlotOK DEF IsComplete
  <2>2. CASE after = Accepted(mine, frame)
    <3>1. lost[s] \in 0..MaxBurst /\ PlaceOK(sending[s])
      BY <1>2
    <3> QED BY <1>3, <1>6, <2>2, <3>1, AcceptedOK
  <2> QED BY <2>1, <2>2
<1> HIDE DEF after
<1>8. /\ sending' \in [Sources -> Place] /\ \A q \in Sources: PlaceOK(sending'[q])
      /\ sending'[s] = After(sending[s]) /\ \A q \in Sources \ {s}: sending'[q] = sending[q]
  BY <1>1, Advanced
<1>9. lost' \in [Sources -> 0..MaxBurst] /\ lost'[s] = 0 /\ \A q \in Sources \ {s}: lost'[q] = lost[q]
  <2>1. 0 \in 0..MaxBurst
    BY ReceiveAssumption
  <2> QED BY <1>1, <1>2, <2>1
<1>10. /\ slots' \in [Sources -> ReassemblySlot] /\ slots'[s] = IF IsComplete(after) THEN FreeSlot ELSE after
       /\ \A q \in Sources \ {s}: slots'[q] = live[q]
  BY <1>1, <1>5, <1>7, FreeSlotOK
<1>11. \A q \in Sources: SlotOK(slots'[q], sending'[q], lost'[q])
  <2>1. SlotOK(slots'[s], sending'[s], lost'[s])
    BY <1>7, <1>8, <1>9, <1>10, FreeSlotOK
  <2>2. ASSUME NEW q \in Sources \ {s} PROVE SlotOK(slots'[q], sending'[q], lost'[q])
    BY <1>4, <1>8, <1>9, <1>10
  <2> QED BY <2>1, <2>2
<1>12. DeliveredWhole'
  <2>1. CASE IsComplete(after)
    <3>1. PICK p \in {0, 1}: FirstParts(after.parts, p, FramesOf[p])
      BY <1>7, <2>1
    <3>2. delivered' = after.parts /\ FramesOf[p] \in Nat \ {0}
      BY <1>1, <2>1, ReceiveAssumption
    <3>3. /\ Len(delivered') = FramesOf[p] /\ DOMAIN delivered' = 1..FramesOf[p]
          /\ \A i \in DOMAIN delivered': delivered'[i] = <<p, i - 1>>
      BY <3>1, <3>2 DEF FirstParts
    <3>4. delivered'[1][1] = p
      BY <3>2, <3>3
    <3> QED BY <3>3, <3>4 DEF DeliveredWhole
  <2>2. CASE ~IsComplete(after)
    BY <1>1, <2>2 DEF DeliveredWhole
  <2> QED BY <2>1, <2>2
<1>13. bound' \in BOOLEAN /\ bound'
  BY <1>1, <1>2
<1> QED BY <1>8, <1>9, <1>10, <1>11, <1>12, <1>13 DEF ReceiveInv

(* Frames that come, go missing or reach nobody, packets that are given    *)
(* up, Bind() and UnbindLocked(): every slot keeps holding the beginning   *)
(* of one packet.                                                          *)
LEMMA ReceiveStep ==
  ASSUME BurstsAreSeen, ReceiveInv, [ReceiveNext]_receiveVars
  PROVE  ReceiveInv'
<1>1. /\ slots \in [Sources -> ReassemblySlot] /\ lost \in [Sources -> 0..MaxBurst] /\ bound \in BOOLEAN
      /\ sending \in [Sources -> Place] /\ DeliveredWhole
      /\ \A q \in Sources: SlotOK(slots[q], sending[q], lost[q]) /\ PlaceOK(sending[q])
      /\ ~bound => \A q \in Sources: ~slots[q].busy
  BY DEF ReceiveInv
<1>2. ASSUME NEW s \in Sources, FrameLost(s) PROVE ReceiveInv'
  <2>1. /\ lost[s] < MaxBurst /\ lost' = [lost EXCEPT ![s] = @ + 1] /\ Advance(s)
        /\ UNCHANGED <<bound, slots, delivered>>
    BY <1>2 DEF FrameLost
  <2>2. /\ sending' \in [Sources -> Place] /\ \A q \in Sources: PlaceOK(sending'[q])
        /\ sending'[s] = After(sending[s]) /\ \A q \in Sources \ {s}: sending'[q] = sending[q]
    BY <2>1, Advanced
  <2>3. lost[s] \in 0..MaxBurst /\ lost[s] + 1 \in 0..MaxBurst
    BY <1>1, <2>1, ReceiveAssumption
  <2>4. /\ lost' \in [Sources -> 0..MaxBurst] /\ lost'[s] = lost[s] + 1
        /\ \A q \in Sources \ {s}: lost'[q] = lost[q]
    BY <1>1, <2>1, <2>3
  <2>5. SlotOK(slots[s], After(sending[s]), lost[s] + 1)
    BY <1>1, <2>1, <2>3, MissingOne
  <2>6. \A q \in Sources: SlotOK(slots'[q], sending'[q], lost'[q])
    BY <1>1, <2>1, <2>2, <2>4, <2>5
  <2>7. DeliveredWhole'
    BY <1>1, <2>1 DEF DeliveredWhole
  <2> QED BY <1>1, <2>1, <2>2, <2>4, <2>6, <2>7 DEF ReceiveInv
<1>3. ASSUME NEW s \in Sources, GiveUp(s) PROVE ReceiveInv'
  <2> DEFINE place == sending[s]
             m == lost[s] + FramesOf[place.packet] - place.index
             start == [packet |-> 1 - place.packet, index |-> 0]
             missing == IF m < MaxBurst THEN m ELSE MaxBurst
  <2>1. /\ place.index > 0 /\ sending' = [sending EXCEPT ![s] = start]
        /\ lost' = [lost EXCEPT ![s] = missing]
        /\ UNCHANGED <<bound, slots, delivered>>
    BY <1>3 DEF GiveUp
  <2>2. PlaceOK(place) /\ lost[s] \in 0..MaxBurst /\ SlotOK(slots[s], place, lost[s])
    BY <1>1
  <2>3. /\ place.packet \in {0, 1} /\ place.index \in Nat /\ place.index < FramesOf[place.packet]
        /\ FramesOf[place.packet] \in Nat /\ MaxBurst \in Nat
    BY <2>2, ReceiveAssumption DEF PlaceOK, Place
  <2>4. m \in Nat
    BY <2>2, <2>3
  <2> HIDE DEF place
  <2>5. SlotOK(slots[s], start, missing)
    BY <2>1, <2>2, <2>4, MissingRest
  <2>6. 1 - place.packet \in {0, 1}
    BY <2>3
  <2>7. start \in Place /\ PlaceOK(start)
    BY <2>6, ReceiveAssumption DEF Place, PlaceOK
  <2> HIDE DEF m, start
  <2>8. missing \in 0..MaxBurst
    BY <2>3, <2>4
  <2> HIDE DEF missing
  <2>9. /\ sending' \in [Sources -> Place] /\ sending'[s] = start
        /\ \A q \in Sources \ {s}: sending'[q] = sending[q]
        /\ lost' \in [Sources -> 0..MaxBurst] /\ lost'[s] = missing
        /\ \A q \in Sources \ {s}: lost'[q] = lost[q]
    BY <1>1, <2>1, <2>7, <2>8
  <2>10. \A q \in Sources: SlotOK(slots'[q], sending'[q], lost'[q]) /\ PlaceOK(sending'[q])
    BY <1>1, <2>1, <2>5, <2>7, <2>9
  <2>11. DeliveredWhole'
    BY <1>1, <2>1 DEF DeliveredWhole
  <2> QED BY <1>1, <2>1, <2>9, <2>10, <2>11 DEF ReceiveInv
<1>4. ASSUME NEW s \in Sources, FrameIgnored(s) PROVE ReceiveInv'
  <2>1. ~bound /\ Advance(s) /\ UNCHANGED <<bound, slots, lost, delivered>>
    BY <1>4 DEF FrameIgnored
  <2>2. sending' \in [Sources -> Place] /\ \A q \in Sources: PlaceOK(sending'[q])
    BY <2>1, Advanced
  <2>3. \A q \in Sources: SlotOK(slots'[q], sending'[q], lost'[q])
    BY <1>1, <2>1 DEF SlotOK
  <2>4. DeliveredWhole'
    BY <1>1, <2>1 DEF DeliveredWhole
  <2> QED BY <1>1, <2>1, <2>2, <2>3, <2>4 DEF ReceiveInv
<1>5. ASSUME NEW s \in Sources, NEW fd \in BOOLEAN, NEW buffer \in BOOLEAN, NEW expired \in SUBSET Sources,
             OnFrame(s, fd, expired, buffer)
      PROVE  ReceiveInv'
  BY <1>5, OnFrameOK
<1>6. CASE UnbindReceive
  <2>1. bound' = FALSE /\ slots' = [s \in Sources |-> FreeSlot] /\ UNCHANGED <<sending, lost, delivered>>
    BY <1>6 DEF UnbindReceive
  <2>2. /\ slots' \in [Sources -> ReassemblySlot]
        /\ \A q \in Sources: SlotOK(slots'[q], sending'[q], lost'[q]) /\ ~slots'[q].busy
    BY <2>1, FreeSlotOK
  <2>3. DeliveredWhole'
    BY <1>1, <2>1 DEF DeliveredWhole
  <2> QED BY <1>1, <2>1, <2>2, <2>3 DEF ReceiveInv
<1>7. CASE BindReceive \/ UNCHANGED receiveVars
  <2>1. bound' \in BOOLEAN /\ UNCHANGED <<sending, slots, lost, delivered>> /\ (~bound' => ~bound)
    BY <1>1, <1>7 DEF BindReceive, receiveVars
  <2>2. DeliveredWhole'
    BY <1>1, <2>1 DEF DeliveredWhole
  <2> QED BY <1>1, <2>1, <2>2 DEF ReceiveInv
<1> QED BY <1>2, <1>3, <1>4, <1>5, <1>6, <1>7 DEF ReceiveNext

-----------------------------------------------------------------------------
(* Requests over BLE *)

Byte == {0, 1} \X Nat

(* The packet that the byte at b of the stream is of, and its place there. *)
PacketAt(b) == IF b < SizeOf(0) THEN 0 ELSE 1
PlaceAt(b) == IF b < SizeOf(0) THEN b ELSE b - SizeOf(0)

(* What is left of a write begins with the byte at b, and ends before c. *)
Unread(data, b, c) ==
  /\ data \in Seq(Byte) /\ c = (b + Len(data)) % Period
  /\ \A i \in 1..Len(data): data[i] = ByteAt(b + i - 1)

(* n parts of packet p in a row, from its byte k on. *)
RunOf(bytes, p, k, n) ==
  /\ bytes \in Seq(Byte) /\ Len(bytes) = n
  /\ \A i \in 1..n: bytes[i] = <<p, k + i - 1>>

(* What is kept of the packet that the byte at b is of: all that precedes  *)
(* the byte, but for the payload of a packet that is discarded.               *)
Begun(header, remaining, payload, drop, b) ==
  LET p == PacketAt(b)
  IN  /\ payload \in Seq(Byte) /\ remaining \in Nat /\ drop \in BOOLEAN /\ Len(header) \in 0..HeadSize
      /\ RunOf(header, p, 0, Len(header))
      /\ Len(header) < HeadSize =>
           PlaceAt(b) = Len(header) /\ remaining = 0 /\ payload = <<>> /\ ~drop
      /\ Len(header) = HeadSize =>
           /\ remaining \in 1..BodyOf[p] /\ PlaceAt(b) + remaining = SizeOf(p)
           /\ ~drop => RunOf(payload, p, HeadSize, BodyOf[p] - remaining)

Positions == 0..Period - 1

RequestInv ==
  /\ DispatchedWhole
  /\ \E b \in Positions: /\ Unread(rxData, b, client)
                         /\ Begun(rxHead, rxRemaining, rxBody, rxDiscarding, b)

(* The lengths of the packets and of the stream. *)
LEMMA Lengths ==
  /\ SizeOf(0) \in Nat \ {0} /\ SizeOf(1) \in Nat \ {0} /\ Period \in Nat \ {0}
  /\ Period = SizeOf(0) + SizeOf(1)
  /\ \A p \in {0, 1}: BodyOf[p] \in Nat /\ SizeOf(p) = HeadSize + BodyOf[p]
  /\ HeadSize \in Nat \ {0}
BY RouterAssumption DEF SizeOf, Period

(* A position is a place of a packet. *)
LEMMA Position ==
  ASSUME NEW b \in Positions
  PROVE  /\ b \in Nat /\ b < Period
         /\ PacketAt(b) \in {0, 1} /\ PlaceAt(b) \in Nat /\ PlaceAt(b) < SizeOf(PacketAt(b))
         /\ b = PlaceAt(b) + (IF PacketAt(b) = 0 THEN 0 ELSE SizeOf(0))
BY Lengths DEF Positions, PacketAt, PlaceAt

(* Every byte of the stream is one. *)
LEMMA ByteTyped ==
  ASSUME NEW k \in Nat
  PROVE  ByteAt(k) \in Byte
<1> DEFINE m == k % Period
<1>1. m \in Nat
  BY Lengths
<1> HIDE DEF m
<1>2. ByteAt(k) = IF m < SizeOf(0) THEN <<0, m>> ELSE <<1, m - SizeOf(0)>>
  BY DEF ByteAt, m
<1>3. ~(m < SizeOf(0)) => m - SizeOf(0) \in Nat
  BY <1>1, Lengths
<1> QED BY <1>1, <1>2, <1>3 DEF Byte

(* The bytes up to the end of a packet follow each other. *)
LEMMA WithinPacket ==
  ASSUME NEW b \in Positions, NEW j \in Nat, PlaceAt(b) + j < SizeOf(PacketAt(b))
  PROVE  ByteAt(b + j) = <<PacketAt(b), PlaceAt(b) + j>>
<1> DEFINE k == b + j
<1>1. k \in 0..Period - 1
  BY Position, Lengths
<1>2. k \in Nat /\ k < Period
  BY <1>1, Lengths
<1>3. PacketAt(b) = 0 => k < SizeOf(0) /\ k = PlaceAt(b) + j
  BY Position, Lengths
<1>4. PacketAt(b) = 1 => ~(k < SizeOf(0)) /\ k - SizeOf(0) = PlaceAt(b) + j
  BY Position, Lengths
<1> HIDE DEF k
<1>5. k % Period = k
  BY <1>1, Lengths, SmallRemainder
<1>6. ByteAt(k) = IF k < SizeOf(0) THEN <<0, k>> ELSE <<1, k - SizeOf(0)>>
  BY <1>5 DEF ByteAt
<1>7. ByteAt(k) = <<PacketAt(b), PlaceAt(b) + j>>
  BY <1>3, <1>4, <1>6, Position
<1> QED BY <1>7 DEF k

(* n bytes further on, in the same packet or at the start of the next. *)
LEMMA Further ==
  ASSUME NEW b \in Positions, NEW n \in Nat
  PROVE  LET c == (b + n) % Period
         IN  /\ c \in Positions
             /\ PlaceAt(b) + n < SizeOf(PacketAt(b)) =>
                  PacketAt(c) = PacketAt(b) /\ PlaceAt(c) = PlaceAt(b) + n
             /\ PlaceAt(b) + n = SizeOf(PacketAt(b)) => PlaceAt(c) = 0
<1> DEFINE k == b + n
           c == k % Period
<1>1. k \in Nat
  BY Position
<1>2. /\ PacketAt(b) = 0 => k = PlaceAt(b) + n
      /\ PacketAt(b) = 1 => k = PlaceAt(b) + n + SizeOf(0)
  BY Position, Lengths
<1> HIDE DEF k
<1>3. c \in Positions
  BY <1>1, Lengths DEF Positions
<1>4. ASSUME PlaceAt(b) + n < SizeOf(PacketAt(b))
      PROVE  PacketAt(c) = PacketAt(b) /\ PlaceAt(c) = PlaceAt(b) + n
  <2>1. k \in 0..Period - 1
    BY <1>1, <1>2, <1>4, Position, Lengths
  <2>2. c = k
    BY <2>1, Lengths, SmallRemainder
  <2> HIDE DEF c
  <2> QED BY <1>1, <1>2, <1>4, <2>2, Position, Lengths DEF PacketAt, PlaceAt
<1>5. ASSUME PlaceAt(b) + n = SizeOf(PacketAt(b))
      PROVE  PlaceAt(c) = 0
  <2>1. CASE PacketAt(b) = 0
    <3>1. k = SizeOf(0) /\ k \in 0..Period - 1
      BY <1>2, <1>5, <2>1, Lengths
    <3>2. c = k
      BY <3>1, Lengths, SmallRemainder
    <3> HIDE DEF c
    <3> QED BY <3>1, <3>2, Lengths DEF PlaceAt
  <2>2. CASE PacketAt(b) = 1
    <3>1. k = Period /\ k = Period * 1 + 0 /\ 0 \in 0..Period - 1
      BY <1>2, <1>5, <2>2, Position, Lengths
    <3>2. c = 0
      BY <3>1, <1>1, Lengths, RemainderUnique
    <3> HIDE DEF c
    <3> QED BY <3>2, Lengths DEF PlaceAt
  <2> QED BY <2>1, <2>2, Position
<1> QED BY <1>3, <1>4, <1>5 DEF k

(* n bytes are taken: the first ones, and what remains of the write. *)
LEMMA Taken ==
  ASSUME NEW data, NEW c, NEW b \in Positions, Unread(data, b, c), NEW n \in 0..Len(data)
  PROVE  /\ Unread(SubSeq(data, n + 1, Len(data)), (b + n) % Period, c)
         /\ PlaceAt(b) + n <= SizeOf(PacketAt(b)) =>
              RunOf(SubSeq(data, 1, n), PacketAt(b), PlaceAt(b), n)
<1> DEFINE first == SubSeq(data, 1, n)
           rest == SubSeq(data, n + 1, Len(data))
           k == b + n
           d == k % Period
<1>1. data \in Seq(Byte) /\ Len(data) \in Nat /\ n \in Nat /\ n <= Len(data)
  BY DEF Unread
<1>2. rest \in Seq(Byte) /\ Len(rest) = Len(data) - n /\ \A i \in 1..Len(rest): rest[i] = data[n + i]
  BY <1>1
<1>3. first \in Seq(Byte) /\ Len(first) = n /\ \A i \in 1..n: first[i] = data[i]
  BY <1>1
<1> HIDE DEF first, rest
<1>4. b \in Nat /\ k \in Nat /\ d \in Nat /\ PlaceAt(b) \in Nat /\ SizeOf(PacketAt(b)) \in Nat
  <2>1. b \in Nat /\ PlaceAt(b) \in Nat /\ SizeOf(PacketAt(b)) \in Nat
    BY Position, Lengths
  <2>2. k \in Nat
    BY <1>1, <2>1
  <2> HIDE DEF k
  <2>3. d \in Nat
    BY <2>2, Lengths
  <2> QED BY <2>1, <2>2, <2>3
<1>5. c = (d + Len(rest)) % Period
  <2>1. Len(rest) \in Nat /\ k + Len(rest) = b + Len(data)
    BY <1>1, <1>2, <1>4
  <2> HIDE DEF k
  <2>2. (d + Len(rest)) % Period = (k + Len(rest)) % Period
    BY ZenonT(40), <1>4, <2>1, Lengths, RemainderOfSum
  <2> QED BY <2>1, <2>2 DEF Unread
<1>6. ASSUME NEW i \in 1..Len(rest) PROVE rest[i] = ByteAt(d + i - 1)
  <2> DEFINE j == i - 1
             x == k + j
             y == d + j
  <2>1. n + i \in 1..Len(data) /\ rest[i] = data[n + i] /\ j \in Nat
    BY <1>1, <1>2
  <2>2. data[n + i] = ByteAt(b + (n + i) - 1)
    BY <2>1 DEF Unread
  <2>3. b + (n + i) - 1 = x /\ d + i - 1 = y
    BY <1>1, <1>4
  <2> HIDE DEF k, j
  <2>4. x % Period = y % Period
    BY ZenonT(40), <1>4, <2>1, Lengths, RemainderOfSum
  <2>5. ByteAt(x) = ByteAt(y)
    BY <2>4 DEF ByteAt
  <2> QED BY <2>1, <2>2, <2>3, <2>5
<1>7. ASSUME PlaceAt(b) + n <= SizeOf(PacketAt(b))
      PROVE  RunOf(first, PacketAt(b), PlaceAt(b), n)
  <2>1. ASSUME NEW i \in 1..n PROVE first[i] = <<PacketAt(b), PlaceAt(b) + i - 1>>
    <3> DEFINE j == i - 1
    <3>1. j \in Nat /\ PlaceAt(b) + j < SizeOf(PacketAt(b)) /\ i \in 1..Len(data)
      BY <1>1, <1>4, <1>7
    <3>2. first[i] = ByteAt(b + i - 1) /\ b + i - 1 = b + j /\ PlaceAt(b) + i - 1 = PlaceAt(b) + j
      BY <1>3, <1>4, <3>1, Position DEF Unread
    <3> HIDE DEF j
    <3> QED BY <3>1, <3>2, WithinPacket
  <2> QED BY <1>3, <2>1 DEF RunOf
<1>8. Unread(rest, d, c)
  BY <1>2, <1>5, <1>6 DEF Unread
<1> QED BY <1>7, <1>8 DEF first, rest, k, d

(* Two runs, one behind the other. *)
LEMMA RunsJoin ==
  ASSUME NEW x, NEW y, NEW p, NEW k \in Nat, NEW m \in Nat, NEW n \in Nat,
         RunOf(x, p, k, m), RunOf(y, p, k + m, n)
  PROVE  RunOf(x \o y, p, k, m + n)
<1>1. /\ x \in Seq(Byte) /\ Len(x) = m /\ y \in Seq(Byte) /\ Len(y) = n
      /\ \A i \in 1..m: x[i] = <<p, k + i - 1>>
      /\ \A i \in 1..n: y[i] = <<p, k + m + i - 1>>
  BY DEF RunOf
<1>2. x \o y \in Seq(Byte) /\ Len(x \o y) = m + n
  <2>1. x \in Seq(Byte) /\ y \in Seq(Byte)
    BY <1>1
  <2>2. x \o y \in Seq(Byte) /\ Len(x \o y) = Len(x) + Len(y)
    BY <2>1
  <2> QED BY <1>1, <2>2
<1>3. ASSUME NEW i \in 1..m + n PROVE (x \o y)[i] = <<p, k + i - 1>>
  <2>1. CASE i <= m
    BY <1>1, <2>1
  <2>2. CASE i > m
    <3>1. (x \o y)[i] = y[i - m] /\ i - m \in 1..n
      BY <1>1, <2>2
    <3>2. k + m + (i - m) - 1 = k + i - 1
      OBVIOUS
    <3> QED BY <1>1, <3>1, <3>2
  <2>3. i <= m \/ i > m
    OBVIOUS
  <2> QED BY <2>1, <2>2, <2>3
<1> QED BY <1>2, <1>3 DEF RunOf

(* Before the first byte of a packet nothing is kept. *)
LEMMA NothingBegun ==
  ASSUME NEW c \in Positions, PlaceAt(c) = 0
  PROVE  Begun(<<>>, 0, <<>>, FALSE, c)
<1>1. HeadSize \in Nat \ {0} /\ Len(<<>>) = 0 /\ <<>> \in Seq(Byte)
  BY Lengths, EmptySequence
<1>2. RunOf(<<>>, PacketAt(c), 0, Len(<<>>))
  BY <1>1 DEF RunOf
<1> QED BY <1>1, <1>2 DEF Begun

(* Dispatch() and ResetRx() of a packet that is there from its first byte  *)
(* to its last; what follows is the next packet.                           *)
LEMMA PacketDoneOK ==
  ASSUME NEW h, NEW payload, NEW drop \in BOOLEAN, NEW rest, NEW wanted, NEW c \in Positions, NEW p \in {0, 1},
         PacketDone(h, payload, drop, rest, wanted), ~drop => RunOf(h \o payload, p, 0, SizeOf(p)),
         Unread(rest, c, client), PlaceAt(c) = 0
  PROVE  RequestInv'
<1>1. /\ rxHead' = <<>> /\ rxBody' = <<>> /\ rxRemaining' = 0 /\ rxDiscarding' = FALSE
      /\ rxData' = rest /\ client' = client
      /\ dispatched' = IF drop THEN <<>> ELSE h \o payload
  BY DEF PacketDone
<1>2. DispatchedWhole'
  <2>1. CASE drop
    BY <1>1, <2>1 DEF DispatchedWhole
  <2>2. CASE ~drop
    <3>1. RunOf(dispatched', p, 0, SizeOf(p))
      BY <1>1, <2>2
    <3>2. SizeOf(p) \in Nat \ {0}
      BY Lengths
    <3>3. /\ dispatched' \in Seq(Byte) /\ Len(dispatched') = SizeOf(p)
          /\ \A i \in 1..SizeOf(p): dispatched'[i] = <<p, 0 + i - 1>>
      BY <3>1 DEF RunOf
    <3>4. DOMAIN dispatched' = 1..SizeOf(p)
      BY <3>3
    <3>5. \A i \in DOMAIN dispatched': dispatched'[i] = <<p, i - 1>>
      BY <3>3, <3>4
    <3>6. dispatched'[1][1] = p
      BY <3>2, <3>4, <3>5
    <3> QED BY <3>3, <3>5, <3>6 DEF DispatchedWhole
  <2> QED BY <2>1, <2>2
<1>3. Unread(rxData', c, client') /\ Begun(rxHead', rxRemaining', rxBody', rxDiscarding', c)
  BY <1>1, NothingBegun
<1> QED BY <1>2, <1>3 DEF RequestInv

(* The header of a packet, or a piece of it. *)
LEMMA TakeHeadOK ==
  ASSUME RequestInv, NEW drop \in BOOLEAN, NEW wanted \in BOOLEAN, TakeHead(drop, wanted)
  PROVE  RequestInv'
<1>1. PICK b \in Positions: /\ Unread(rxData, b, client)
                            /\ Begun(rxHead, rxRemaining, rxBody, rxDiscarding, b)
  BY DEF RequestInv
<1> DEFINE p == PacketAt(b)
           l == Len(rxHead)
           n == IF HeadSize - l < Len(rxData) THEN HeadSize - l ELSE Len(rxData)
           first == SubSeq(rxData, 1, n)
           h == rxHead \o first
           rest == SubSeq(rxData, n + 1, Len(rxData))
           c == (b + n) % Period
<1>2. /\ l < HeadSize
      /\ IF Len(h) = HeadSize /\ BodyOf[h[1][1]] = 0
         THEN PacketDone(h, <<>>, drop, rest, wanted)
         ELSE /\ rxHead' = h /\ rxData' = rest
              /\ rxRemaining' = IF Len(h) = HeadSize THEN BodyOf[h[1][1]] ELSE 0
              /\ rxDiscarding' = (Len(h) = HeadSize /\ drop)
              /\ dispatched' = <<>>
              /\ client' = client /\ rxBody' = rxBody
  BY DEF TakeHead
<1>3. /\ RunOf(rxHead, p, 0, l) /\ PlaceAt(b) = l /\ rxBody = <<>>
  BY <1>1, <1>2 DEF Begun
<1>4. /\ p \in {0, 1} /\ l \in Nat /\ l < HeadSize /\ HeadSize \in Nat \ {0} /\ BodyOf[p] \in Nat
      /\ SizeOf(p) = HeadSize + BodyOf[p] /\ Len(rxData) \in Nat
  <2>1. p \in {0, 1} /\ l \in Nat
    BY <1>3, Position
  <2>2. Len(rxData) \in Nat
    BY <1>1 DEF Unread
  <2> HIDE DEF p
  <2> QED BY <1>2, <2>1, <2>2, Lengths
<1>5. n \in 0..Len(rxData) /\ n \in Nat /\ l + n <= HeadSize
  BY <1>4
<1> HIDE DEF n, p, l
<1>6. /\ Unread(rest, c, client)
      /\ RunOf(first, p, l, n)
  <2>1. PlaceAt(b) + n <= SizeOf(PacketAt(b))
    BY <1>3, <1>4, <1>5 DEF p
  <2> QED BY <1>1, <1>3, <1>5, <2>1, Taken DEF p
<1> HIDE DEF first, rest
<1>7. RunOf(h, p, 0, l + n)
  <2>1. RunOf(first, p, 0 + l, n)
    BY <1>4, <1>6
  <2> QED BY <1>3, <1>4, <1>5, <2>1, RunsJoin
<1> HIDE DEF h
<1>8. Len(h) = l + n /\ (Len(h) = HeadSize => h[1][1] = p)
  <2>1. Len(h) = l + n /\ \A i \in 1..l + n: h[i] = <<p, 0 + i - 1>>
    BY <1>7 DEF RunOf
  <2>2. ASSUME Len(h) = HeadSize PROVE h[1][1] = p
    <3>1. 1 \in 1..l + n
      BY <1>4, <2>1, <2>2
    <3>2. h[1] = <<p, 0 + 1 - 1>>
      BY <2>1, <3>1
    <3> QED BY <3>2
  <2> QED BY <2>1, <2>2
<1>9. /\ c \in Positions
      /\ l + n < SizeOf(p) => PacketAt(c) = p /\ PlaceAt(c) = l + n
      /\ l + n = SizeOf(p) => PlaceAt(c) = 0
  BY <1>3, <1>5, Further DEF p
<1> HIDE DEF c
<1>10. RunOf(<<>>, p, HeadSize, 0)
  BY EmptySequence DEF RunOf
<1>11. CASE Len(h) = HeadSize /\ BodyOf[p] = 0
  <2>1. PacketDone(h, <<>>, drop, rest, wanted)
    BY <1>2, <1>8, <1>11
  <2>2. PlaceAt(c) = 0
    BY <1>4, <1>8, <1>9, <1>11
  <2>3. RunOf(h \o <<>>, p, 0, SizeOf(p))
    <3>1. RunOf(h, p, 0, HeadSize) /\ RunOf(<<>>, p, 0 + HeadSize, 0)
      BY <1>4, <1>7, <1>8, <1>10, <1>11
    <3>2. RunOf(h \o <<>>, p, 0, HeadSize + 0)
      BY <1>4, <3>1, RunsJoin
    <3>3. HeadSize + 0 = SizeOf(p)
      BY <1>4, <1>11
    <3> QED BY <3>2, <3>3
  <2> QED BY <1>4, <1>6, <1>9, <2>1, <2>2, <2>3, PacketDoneOK
<1>12. CASE ~(Len(h) = HeadSize /\ BodyOf[p] = 0)
  <2>1. /\ rxHead' = h /\ rxData' = rest /\ client' = client /\ rxBody' = <<>> /\ dispatched' = <<>>
        /\ rxRemaining' = IF Len(h) = HeadSize THEN BodyOf[p] ELSE 0
        /\ rxDiscarding' = (Len(h) = HeadSize /\ drop)
    BY <1>2, <1>3, <1>8, <1>12
  <2>2. DispatchedWhole'
    BY <2>1 DEF DispatchedWhole
  <2>3. l + n < SizeOf(p)
    BY <1>4, <1>5, <1>8, <1>12
  <2>4. PacketAt(c) = p /\ PlaceAt(c) = l + n
    BY <1>9, <2>3
  <2>5. Begun(h, rxRemaining', <<>>, rxDiscarding', c)
    <3>1. /\ <<>> \in Seq(Byte) /\ Len(h) \in 0..HeadSize /\ RunOf(h, p, 0, Len(h))
          /\ rxRemaining' \in Nat /\ rxDiscarding' \in BOOLEAN
      <4>1. Len(h) \in 0..HeadSize
        BY <1>4, <1>5, <1>8
      <4>2. rxRemaining' \in Nat /\ rxDiscarding' \in BOOLEAN
        BY <1>4, <2>1
      <4> QED BY <1>7, <1>8, <4>1, <4>2, EmptySequence
    <3>2. ASSUME Len(h) < HeadSize PROVE PlaceAt(c) = Len(h) /\ rxRemaining' = 0 /\ ~rxDiscarding'
      <4>1. Len(h) # HeadSize
        BY <1>4, <3>2
      <4> QED BY <1>8, <2>1, <2>4, <4>1
    <3>3. ASSUME Len(h) = HeadSize
          PROVE  /\ rxRemaining' \in 1..BodyOf[p] /\ PlaceAt(c) + rxRemaining' = SizeOf(p)
                 /\ RunOf(<<>>, p, HeadSize, BodyOf[p] - rxRemaining')
      <4>1. rxRemaining' = BodyOf[p] /\ BodyOf[p] \in Nat \ {0} /\ BodyOf[p] - rxRemaining' = 0
        BY <1>4, <1>12, <2>1, <3>3
      <4> QED BY <1>4, <1>8, <1>10, <2>4, <3>3, <4>1
    <3> QED BY <2>4, <3>1, <3>2, <3>3 DEF Begun
  <2>6. Unread(rxData', c, client') /\ Begun(rxHead', rxRemaining', rxBody', rxDiscarding', c)
    BY <1>6, <2>1, <2>5
  <2> QED BY <1>9, <2>2, <2>6 DEF RequestInv
<1> QED BY <1>11, <1>12

(* The payload of a packet, or a piece of it. *)
LEMMA TakeBodyOK ==
  ASSUME RequestInv, NEW wanted \in BOOLEAN, TakeBody(wanted)
  PROVE  RequestInv'
<1>1. PICK b \in Positions: /\ Unread(rxData, b, client)
                            /\ Begun(rxHead, rxRemaining, rxBody, rxDiscarding, b)
  BY DEF RequestInv
<1> DEFINE p == PacketAt(b)
           n == IF rxRemaining < Len(rxData) THEN rxRemaining ELSE Len(rxData)
           left == rxRemaining - n
           first == SubSeq(rxData, 1, n)
           payload == IF rxDiscarding THEN rxBody ELSE rxBody \o first
           rest == SubSeq(rxData, n + 1, Len(rxData))
           c == (b + n) % Period
<1>2. /\ Len(rxHead) = HeadSize
      /\ IF left = 0 THEN PacketDone(rxHead, payload, rxDiscarding, rest, wanted)
         ELSE /\ rxRemaining' = left /\ rxBody' = payload /\ rxData' = rest
              /\ dispatched' = <<>>
              /\ client' = client /\ rxHead' = rxHead /\ rxDiscarding' = rxDiscarding
  BY DEF TakeBody, LeftOfPacket
<1>3. /\ rxBody \in Seq(Byte) /\ rxDiscarding \in BOOLEAN /\ RunOf(rxHead, p, 0, HeadSize)
      /\ rxRemaining \in 1..BodyOf[p] /\ PlaceAt(b) + rxRemaining = SizeOf(p)
      /\ ~rxDiscarding => RunOf(rxBody, p, HeadSize, BodyOf[p] - rxRemaining)
  BY <1>1, <1>2 DEF Begun
<1>4. /\ p \in {0, 1} /\ PlaceAt(b) \in Nat /\ HeadSize \in Nat \ {0} /\ BodyOf[p] \in Nat
      /\ SizeOf(p) = HeadSize + BodyOf[p] /\ Len(rxData) \in Nat
  <2>1. p \in {0, 1} /\ PlaceAt(b) \in Nat
    BY Position
  <2>2. Len(rxData) \in Nat
    BY <1>1 DEF Unread
  <2> HIDE DEF p
  <2> QED BY <2>1, <2>2, Lengths
<1> DEFINE m == BodyOf[p] - rxRemaining
<1>5. /\ n \in 0..Len(rxData) /\ n \in Nat /\ left \in Nat /\ rxRemaining \in Nat /\ m \in Nat
      /\ left <= BodyOf[p] /\ m + n = BodyOf[p] - left
      /\ PlaceAt(b) = HeadSize + m /\ PlaceAt(b) + n + left = SizeOf(p)
      /\ PlaceAt(b) + n <= SizeOf(p)
  <2> DEFINE r == rxRemaining
             k == Len(rxData)
             z == BodyOf[p]
             q == PlaceAt(b)
  <2>1. r \in Nat /\ r <= z /\ z \in Nat /\ k \in Nat /\ q \in Nat /\ HeadSize \in Nat
    BY <1>3, <1>4
  <2>2. q + r = HeadSize + z /\ SizeOf(p) = HeadSize + z
    BY <1>3, <1>4
  <2>3. n = (IF r < k THEN r ELSE k) /\ left = r - n /\ m = z - r
    OBVIOUS
  <2> HIDE DEF r, k, z, q
  <2>4. n \in Nat /\ n <= k /\ n <= r
    BY <2>1, <2>3
  <2> HIDE DEF n, left, m
  <2>5. /\ left \in Nat /\ m \in Nat /\ left <= z /\ m + n = z - left
        /\ q = HeadSize + m /\ q + n + left = HeadSize + z /\ q + n <= HeadSize + z
    BY <2>1, <2>2, <2>3, <2>4
  <2> QED BY <2>1, <2>2, <2>4, <2>5 DEF r, k, z, q
<1> HIDE DEF n, p, left, m
<1>6. Unread(rest, c, client) /\ RunOf(first, p, HeadSize + m, n)
  <2>1. PlaceAt(b) + n <= SizeOf(PacketAt(b))
    BY <1>5 DEF p
  <2> QED BY <1>1, <1>5, <2>1, Taken DEF p
<1>7. payload \in Seq(Byte) /\ (~rxDiscarding => RunOf(payload, p, HeadSize, BodyOf[p] - left))
  <2>1. CASE rxDiscarding
    BY <1>3, <2>1
  <2>2. CASE ~rxDiscarding
    <3>1. RunOf(rxBody, p, HeadSize, m)
      BY <1>3, <2>2 DEF m
    <3> HIDE DEF first
    <3>2. RunOf(rxBody \o first, p, HeadSize, m + n)
      BY <1>4, <1>5, <1>6, <3>1, RunsJoin
    <3>3. payload = rxBody \o first
      BY <2>2
    <3> HIDE DEF payload
    <3> QED BY <1>5, <3>2, <3>3 DEF RunOf
  <2> QED BY <2>1, <2>2
<1> HIDE DEF first, rest, payload
<1>8. /\ c \in Positions
      /\ PlaceAt(b) + n < SizeOf(p) => PacketAt(c) = p /\ PlaceAt(c) = PlaceAt(b) + n
      /\ PlaceAt(b) + n = SizeOf(p) => PlaceAt(c) = 0
  BY <1>5, Further DEF p
<1> HIDE DEF c
<1>9. CASE left = 0
  <2>1. PacketDone(rxHead, payload, rxDiscarding, rest, wanted)
    BY <1>2, <1>9
  <2>2. PlaceAt(c) = 0
    BY <1>4, <1>5, <1>8, <1>9
  <2>3. ASSUME ~rxDiscarding PROVE RunOf(rxHead \o payload, p, 0, SizeOf(p))
    <3>1. RunOf(payload, p, 0 + HeadSize, BodyOf[p])
      <4>1. 0 + HeadSize = HeadSize /\ BodyOf[p] - left = BodyOf[p]
        BY <1>4, <1>9
      <4> QED BY <1>7, <2>3, <4>1
    <3> QED BY <1>3, <1>4, <3>1, RunsJoin
  <2> QED BY <1>3, <1>4, <1>6, <1>8, <2>1, <2>2, <2>3, PacketDoneOK
<1>10. CASE left # 0
  <2>1. /\ rxRemaining' = left /\ rxBody' = payload /\ rxData' = rest /\ dispatched' = <<>>
        /\ client' = client /\ rxHead' = rxHead /\ rxDiscarding' = rxDiscarding
    BY <1>2, <1>10
  <2>2. DispatchedWhole'
    BY <2>1 DEF DispatchedWhole
  <2>3. PacketAt(c) = p /\ PlaceAt(c) = PlaceAt(b) + n
    BY <1>4, <1>5, <1>8, <1>10
  <2>4. left \in 1..BodyOf[p] /\ PlaceAt(c) + left = SizeOf(p) /\ Len(rxHead) \in 0..HeadSize
    BY <1>2, <1>4, <1>5, <1>10, <2>3
  <2>5. Begun(rxHead, left, payload, rxDiscarding, c)
    BY <1>2, <1>3, <1>4, <1>5, <1>7, <2>3, <2>4 DEF Begun
  <2>6. Unread(rxData', c, client') /\ Begun(rxHead', rxRemaining', rxBody', rxDiscarding', c)
    BY <1>6, <2>1, <2>5
  <2> QED BY <1>8, <2>2, <2>6 DEF RequestInv
<1> QED BY <1>9, <1>10

(* The client starts anew, with the packet after the one it was in. *)
LEMMA StartsAnew ==
  ASSUME RequestInv, rxData = <<>>, client' = NextPacket(client), rxData' = <<>>,
         rxHead' = <<>>, rxBody' = <<>>, rxRemaining' = 0, rxDiscarding' = FALSE, DispatchedWhole'
  PROVE  RequestInv'
<1> DEFINE c == NextPacket(client)
<1>1. c \in Positions /\ PlaceAt(c) = 0
  BY Lengths DEF NextPacket, Positions, PlaceAt
<1> HIDE DEF c
<1>2. c % Period = c /\ c \in Nat
  BY <1>1, Lengths, SmallRemainder DEF Positions
<1>3. c + Len(<<>>) = c /\ <<>> \in Seq(Byte) /\ Len(<<>>) = 0
  BY <1>2, EmptySequence
<1>4. Unread(<<>>, c, c)
  BY <1>2, <1>3 DEF Unread
<1>5. Unread(rxData', c, client') /\ Begun(rxHead', rxRemaining', rxBody', rxDiscarding', c)
  BY <1>1, <1>4, NothingBegun DEF c
<1> QED BY <1>1, <1>5 DEF RequestInv

(* A write of n bytes. *)
LEMMA BleWriteOK ==
  ASSUME RequestInv, NEW n \in 1..MaxWrite, BleWrite(n)
  PROVE  RequestInv'
<1>1. PICK b \in Positions: /\ Unread(rxData, b, client)
                            /\ Begun(rxHead, rxRemaining, rxBody, rxDiscarding, b)
  BY DEF RequestInv
<1>2. /\ rxData = <<>> /\ rxData' = [i \in 1..n |-> ByteAt(client + i - 1)]
      /\ client' = (client + n) % Period /\ dispatched' = <<>>
      /\ UNCHANGED <<rxHead, rxRemaining, rxDiscarding, rxBody>>
  BY DEF BleWrite
<1>3. b \in 0..Period - 1 /\ b \in Nat /\ n \in Nat
  BY Position, Lengths, RouterAssumption DEF Positions
<1>4. client = b
  <2>1. b % Period = b
    BY <1>3, Lengths, SmallRemainder
  <2>2. client = (b + Len(<<>>)) % Period
    BY <1>1, <1>2 DEF Unread
  <2>3. b + Len(<<>>) = b
    BY <1>3, EmptySequence
  <2> QED BY <2>1, <2>2, <2>3
<1>5. \A i \in 1..n: ByteAt(b + i - 1) \in Byte
  <2> SUFFICES ASSUME NEW i \in 1..n PROVE ByteAt(b + i - 1) \in Byte
    OBVIOUS
  <2>1. b + i - 1 \in Nat
    BY <1>3
  <2> QED BY <2>1, ByteTyped
<1>6. /\ rxData' \in Seq(Byte) /\ Len(rxData') = n
      /\ \A i \in 1..n: rxData'[i] = ByteAt(b + i - 1)
  BY <1>2, <1>3, <1>4, <1>5
<1>7. Unread(rxData', b, client')
  BY <1>2, <1>4, <1>6 DEF Unread
<1>8. DispatchedWhole'
  BY <1>2 DEF DispatchedWhole
<1>9. Begun(rxHead', rxRemaining', rxBody', rxDiscarding', b)
  BY <1>1, <1>2
<1> QED BY <1>7, <1>8, <1>9 DEF RequestInv

(* Nothing is received at first. *)
LEMMA RequestsStart == RouterInit => RequestInv
<1> SUFFICES ASSUME RouterInit PROVE RequestInv
  OBVIOUS
<1>1. /\ client = 0 /\ rxData = <<>> /\ rxHead = <<>> /\ rxRemaining = 0 /\ rxDiscarding = FALSE
      /\ rxBody = <<>> /\ dispatched = <<>>
  BY DEF RouterInit
<1>2. 0 \in Positions /\ PlaceAt(0) = 0 /\ 0 % Period = 0 /\ 0 + Len(<<>>) = 0
  <2>1. 0 \in 0..Period - 1
    BY Lengths
  <2>2. 0 % Period = 0
    BY <2>1, Lengths, SmallRemainder
  <2> QED BY <2>1, <2>2, Lengths, EmptySequence DEF Positions, PlaceAt
<1>3. Unread(<<>>, 0, 0)
  BY <1>2, EmptySequence DEF Unread
<1>4. DispatchedWhole
  BY <1>1 DEF DispatchedWhole
<1> QED BY <1>1, <1>2, <1>3, <1>4, NothingBegun DEF RequestInv

(* Every step of the router keeps what it has of a packet together. *)
LEMMA RequestStep ==
  ASSUME RequestInv, [RouterNext]_routerVars
  PROVE  RequestInv'
<1>1. ASSUME NEW n \in 1..MaxWrite, BleWrite(n) PROVE RequestInv'
  BY <1>1, BleWriteOK
<1>2. ASSUME NEW drop \in BOOLEAN, NEW wanted \in BOOLEAN, TakeHead(drop, wanted) PROVE RequestInv'
  BY <1>2, TakeHeadOK
<1>3. ASSUME NEW wanted \in BOOLEAN, TakeBody(wanted) PROVE RequestInv'
  BY <1>3, TakeBodyOK
<1>4. CASE RxTimeout
  <2>1. DispatchedWhole'
    BY <1>4 DEF RxTimeout, RequestInv, DispatchedWhole
  <2> QED BY <1>4, <2>1, StartsAnew DEF RxTimeout
<1>5. CASE OnDisconnected
  <2>1. DispatchedWhole'
    BY <1>5 DEF OnDisconnected, DispatchedWhole
  <2> QED BY <1>5, <2>1, StartsAnew DEF OnDisconnected
<1>6. ASSUME UNCHANGED rxVars PROVE RequestInv'
  BY <1>6 DEF rxVars, RequestInv, DispatchedWhole
<1>7. CASE BleOutput \/ OnNotificationSent \/ TakeResponse
  BY <1>6, <1>7 DEF BleOutput, OnNotificationSent, TakeResponse
<1>8. ASSUME NEW listening \in BOOLEAN, NEW result \in {"sent", "full", "error"},
             SendFragment(listening, result)
      PROVE  RequestInv'
  BY <1>6, <1>8 DEF SendFragment
<1>9. CASE UNCHANGED routerVars
  BY <1>6, <1>9 DEF routerVars
<1> QED BY <1>1, <1>2, <1>3, <1>4, <1>5, <1>7, <1>8, <1>9 DEF RouterNext

-----------------------------------------------------------------------------
(* Responses over BLE *)

Response == [valid: BOOLEAN, generation: Nat, offset: Nat, went: SUBSET Nat]

(* What was sent of a response that is not over went to the connection its *)
(* request came from, and some of it is left.                              *)
ResponseInv ==
  /\ generation \in Nat /\ serving \in Seq(Nat) /\ txQueue \in Seq(Nat)
  /\ txPacket \in Response
  /\ txPacket.valid => txPacket.went \subseteq {txPacket.generation} /\ txPacket.offset < ResponseSize
  /\ FragmentsStayTogether
  /\ ResponseIsScheduled

(* Nothing is there at first. *)
LEMMA ResponsesStart == RouterInit => ResponseInv
<1> SUFFICES ASSUME RouterInit PROVE ResponseInv
  OBVIOUS
<1>1. txPacket \in Response /\ ~txPacket.valid /\ txPacket.went = {}
  BY DEF RouterInit, NoPacket, Response
<1>2. /\ generation \in Nat /\ serving \in Seq(Nat) /\ txQueue \in Seq(Nat) /\ txQueue = <<>>
  BY EmptySequence DEF RouterInit
<1> QED BY <1>1, <1>2 DEF ResponseInv, FragmentsStayTogether, ResponseIsScheduled

(* A request is served with the connection it came from. *)
LEMMA ServedOK ==
  ASSUME ResponseInv, NEW h, NEW payload, NEW drop, NEW rest, NEW wanted,
         PacketDone(h, payload, drop, rest, wanted)
  PROVE  ResponseInv'
<1>1. serving' \in Seq(Nat) /\ UNCHANGED <<generation, txQueue, txPacket, txWork>>
  BY DEF PacketDone, ResponseInv
<1> QED BY <1>1 DEF ResponseInv, FragmentsStayTogether, ResponseIsScheduled

(* A fragment, or the end of a response. *)
LEMMA SendFragmentOK ==
  ASSUME ResponseInv, NEW listening \in BOOLEAN, NEW result \in {"sent", "full", "error"},
         SendFragment(listening, result)
  PROVE  ResponseInv'
<1> DEFINE left == ResponseSize - txPacket.offset
           n == IF MaxFragment < left THEN MaxFragment ELSE left
           stale == IsStale(listening)
<1>1. /\ generation \in Nat /\ serving \in Seq(Nat) /\ txQueue \in Seq(Nat) /\ txPacket \in Response
      /\ txPacket.valid => txPacket.went \subseteq {txPacket.generation} /\ txPacket.offset < ResponseSize
      /\ FragmentsStayTogether
  BY DEF ResponseInv
<1>2. /\ txPacket.valid
      /\ IF stale \/ result = "error" \/ (result = "sent" /\ n = left)
         THEN txPacket' = [NoPacket EXCEPT !.went = IF stale \/ result = "error" THEN {}
                                                    ELSE txPacket.went \cup {generation}]
         ELSE IF result = "sent"
         THEN txPacket' = [txPacket EXCEPT !.offset = @ + n, !.went = @ \cup {generation}]
         ELSE UNCHANGED txPacket
      /\ txWork' = IF ~stale /\ result = "full" THEN RetryLater ELSE "queued"
      /\ UNCHANGED <<generation, serving, txQueue>>
  BY DEF SendFragment
<1>3. ~stale => txPacket.generation = generation
  BY DEF IsStale
<1> HIDE DEF stale
<1>4. txPacket.offset \in Nat /\ ResponseSize \in Nat /\ MaxFragment \in Nat /\ txPacket.offset < ResponseSize
  BY <1>1, <1>2, RouterAssumption DEF Response
<1>5. n \in Nat /\ n <= left /\ left = ResponseSize - txPacket.offset
  BY <1>4
<1> HIDE DEF n, left
<1>6. ResponseIsScheduled'
  BY <1>2 DEF ResponseIsScheduled, RetryLater
<1>7. CASE stale \/ result = "error" \/ (result = "sent" /\ n = left)
  <2> DEFINE went == IF stale \/ result = "error" THEN {} ELSE txPacket.went \cup {generation}
  <2>1. txPacket' = [NoPacket EXCEPT !.went = went]
    BY <1>2, <1>7
  <2>2. went \subseteq {generation} /\ went \in SUBSET Nat
    BY <1>1, <1>2, <1>3
  <2> HIDE DEF went
  <2>3. txPacket' \in Response /\ ~txPacket'.valid /\ txPacket'.went = went
    BY <2>1, <2>2 DEF NoPacket, Response
  <2>4. FragmentsStayTogether'
    BY <2>2, <2>3 DEF FragmentsStayTogether
  <2> QED BY <1>1, <1>2, <1>6, <2>3, <2>4 DEF ResponseInv
<1>8. CASE ~(stale \/ result = "error" \/ (result = "sent" /\ n = left)) /\ result = "sent"
  <2>1. txPacket' = [txPacket EXCEPT !.offset = @ + n, !.went = @ \cup {generation}]
    BY <1>2, <1>8
  <2>2. txPacket.offset + n \in Nat /\ txPacket.offset + n < ResponseSize
    BY <1>4, <1>5, <1>8
  <2>3. txPacket.went \cup {generation} \in SUBSET Nat
    BY <1>1 DEF Response
  <2>4. /\ txPacket' \in Response /\ txPacket'.generation = generation
        /\ txPacket'.went = txPacket.went \cup {generation} /\ txPacket'.offset = txPacket.offset + n
    BY <1>1, <1>3, <1>8, <2>1, <2>2, <2>3 DEF Response
  <2>5. txPacket'.went \subseteq {generation}
    BY <1>1, <1>2, <1>3, <1>8, <2>4
  <2>6. FragmentsStayTogether'
    BY <2>5 DEF FragmentsStayTogether
  <2> QED BY <1>1, <1>2, <1>6, <2>2, <2>4, <2>5, <2>6 DEF ResponseInv
<1>9. CASE ~(stale \/ result = "error" \/ (result = "sent" /\ n = left)) /\ result # "sent"
  <2>1. UNCHANGED txPacket
    BY <1>2, <1>9
  <2> QED BY <1>1, <1>2, <1>6, <2>1 DEF ResponseInv, FragmentsStayTogether
<1> QED BY <1>7, <1>8, <1>9

(* Every step of the router sends a response to one connection, and leaves *)
(* none that waits without the work that sends it.                         *)
LEMMA ResponseStep ==
  ASSUME ResponseInv, [RouterNext]_routerVars
  PROVE  ResponseInv'
<1>1. /\ generation \in Nat /\ serving \in Seq(Nat) /\ txQueue \in Seq(Nat) /\ txPacket \in Response
      /\ txPacket.valid => txPacket.went \subseteq {txPacket.generation} /\ txPacket.offset < ResponseSize
      /\ FragmentsStayTogether /\ ResponseIsScheduled
  BY DEF ResponseInv
<1>2. ASSUME UNCHANGED <<generation, txVars>> PROVE ResponseInv'
  BY <1>1, <1>2 DEF txVars, ResponseInv, FragmentsStayTogether, ResponseIsScheduled
<1>3. ASSUME NEW n \in 1..MaxWrite, BleWrite(n) PROVE ResponseInv'
  BY <1>2, <1>3 DEF BleWrite
<1>4. ASSUME NEW drop \in BOOLEAN, NEW wanted \in BOOLEAN, TakeHead(drop, wanted) PROVE ResponseInv'
  BY <1>2, <1>4, ServedOK DEF TakeHead
<1>5. ASSUME NEW wanted \in BOOLEAN, TakeBody(wanted) PROVE ResponseInv'
  BY <1>2, <1>5, ServedOK DEF TakeBody
<1>6. CASE RxTimeout
  BY <1>2, <1>6 DEF RxTimeout
<1>7. CASE OnDisconnected
  <2>1. generation' = generation + 1 /\ txWork' = "queued" /\ UNCHANGED <<txQueue, txPacket>>
    BY <1>7 DEF OnDisconnected
  <2>2. serving' \in Seq(Nat)
    <3>1. CASE serving = <<>>
      BY <1>1, <1>7, <3>1 DEF OnDisconnected
    <3>2. CASE serving # <<>>
      <4>1. Head(serving) \in Nat
        BY <1>1, <3>2
      <4>2. serving' = <<Head(serving)>>
        BY <1>7, <3>2 DEF OnDisconnected
      <4> QED BY <4>1, <4>2
    <3> QED BY <3>1, <3>2
  <2>3. ResponseIsScheduled'
    BY <2>1 DEF ResponseIsScheduled
  <2> QED BY <1>1, <2>1, <2>2, <2>3 DEF ResponseInv, FragmentsStayTogether
<1>8. CASE BleOutput
  <2>1. /\ serving # <<>> /\ serving' = Tail(serving) /\ txQueue' = Append(txQueue, Head(serving))
        /\ txWork' = (IF txWork = "idle" THEN "queued" ELSE txWork) /\ UNCHANGED <<generation, txPacket>>
    BY <1>8 DEF BleOutput
  <2>2. serving' \in Seq(Nat) /\ Head(serving) \in Nat
    BY <1>1, <2>1
  <2>3. txQueue' \in Seq(Nat)
    BY <1>1, <2>1, <2>2
  <2>4. ResponseIsScheduled'
    BY <2>1 DEF ResponseIsScheduled
  <2> QED BY <1>1, <2>1, <2>2, <2>3, <2>4 DEF ResponseInv, FragmentsStayTogether
<1>9. CASE OnNotificationSent
  <2>1. txWork' = "queued" /\ UNCHANGED <<generation, serving, txQueue, txPacket>>
    BY <1>9 DEF OnNotificationSent
  <2> QED BY <1>1, <2>1 DEF ResponseInv, FragmentsStayTogether, ResponseIsScheduled
<1>10. CASE TakeResponse
  <2>1. /\ ~txPacket.valid /\ UNCHANGED <<generation, serving>>
        /\ IF txQueue = <<>> THEN txWork' = "idle" /\ UNCHANGED <<txQueue, txPacket>>
           ELSE /\ txQueue' = Tail(txQueue) /\ txWork' = "queued"
                /\ txPacket' = [NoPacket EXCEPT !.valid = TRUE, !.generation = Head(txQueue)]
    BY <1>10 DEF TakeResponse
  <2>2. CASE txQueue = <<>>
    BY <1>1, <2>1, <2>2 DEF ResponseInv, FragmentsStayTogether, ResponseIsScheduled
  <2>3. CASE txQueue # <<>>
    <3> DEFINE g == Head(txQueue)
    <3>1. txQueue' \in Seq(Nat) /\ g \in Nat
      <4>1. txQueue \in Seq(Nat) /\ txQueue # <<>> /\ txQueue' = Tail(txQueue)
        BY <1>1, <2>1, <2>3
      <4>2. Tail(txQueue) \in Seq(Nat) /\ Head(txQueue) \in Nat
        BY <4>1
      <4> QED BY <4>1, <4>2
    <3>2. txPacket' \in Response /\ txPacket'.went = {} /\ txPacket'.offset = 0
      <4>1. txPacket' = [NoPacket EXCEPT !.valid = TRUE, !.generation = g]
        BY <2>1, <2>3
      <4> HIDE DEF g
      <4>2. txPacket' = [valid |-> TRUE, generation |-> g, offset |-> 0, went |-> {}]
        BY <4>1 DEF NoPacket
      <4> QED BY <3>1, <4>2 DEF Response
    <3>3. 0 < ResponseSize
      BY RouterAssumption
    <3>4. FragmentsStayTogether' /\ ResponseIsScheduled'
      BY <2>1, <2>3, <3>2 DEF FragmentsStayTogether, ResponseIsScheduled
    <3> QED BY <1>1, <2>1, <3>1, <3>2, <3>3, <3>4 DEF ResponseInv
  <2> QED BY <2>2, <2>3
<1>11. ASSUME NEW listening \in BOOLEAN, NEW result \in {"sent", "full", "error"},
              SendFragment(listening, result)
       PROVE  ResponseInv'
  BY <1>11, SendFragmentOK
<1>12. CASE UNCHANGED routerVars
  BY <1>2, <1>12 DEF routerVars
<1> QED BY <1>3, <1>4, <1>5, <1>6, <1>7, <1>8, <1>9, <1>10, <1>11, <1>12 DEF RouterNext

-----------------------------------------------------------------------------
(* SMP over CAN and over BLE: as long as the bursts of missing CAN frames  *)
(* are short enough to be seen in the sequence numbers, what is delivered  *)
(* or dispatched is one whole packet of its sender, the frames of a packet *)
(* sent carry one address, the fragments of a response go to one           *)
(* connection, and what waits to be sent has its work scheduled.  The      *)
(* number of a connection is taken not to come back while a response       *)
(* waits.                                                                  *)
THEOREM SmpIsWhole ==
  ASSUME BurstsAreSeen
  PROVE  SmpSpec => []SmpPacketsWhole
<1> DEFINE IInv == ReceiveInv /\ SendInv /\ RequestInv /\ ResponseInv
<1>1. SmpInit => IInv
  BY ReceiveStarts, SendStarts, RequestsStart, ResponsesStart DEF SmpInit
<1>2. IInv /\ [SmpNext]_smpVars => IInv'
  <2> SUFFICES ASSUME IInv, [SmpNext]_smpVars PROVE IInv'
    OBVIOUS
  <2>1. [ReceiveNext]_receiveVars /\ [SendNext]_sendVars /\ [RouterNext]_routerVars
    BY DEF SmpNext, smpVars
  <2> QED BY <2>1, ReceiveStep, SendStep, RequestStep, ResponseStep
<1>3. IInv => SmpPacketsWhole
  BY DEF ReceiveInv, SendInv, RequestInv, ResponseInv, SmpPacketsWhole
<1> QED BY <1>1, <1>2, <1>3, PTL DEF SmpSpec

(* Whatever bursts of frames go missing: the frames of a packet sent over  *)
(* CAN carry one address, requests over BLE are dispatched whole, the      *)
(* fragments of a response go to one connection, and what waits to be sent *)
(* has its work scheduled.                                                 *)
THEOREM SendingAndRouting ==
  SmpSpec => [](/\ PacketKeepsSource /\ WaitingIsScheduled
                /\ DispatchedWhole /\ FragmentsStayTogether /\ ResponseIsScheduled)
<1> DEFINE IInv == SendInv /\ RequestInv /\ ResponseInv
           Good == /\ PacketKeepsSource /\ WaitingIsScheduled
                   /\ DispatchedWhole /\ FragmentsStayTogether /\ ResponseIsScheduled
<1>1. SmpInit => IInv
  BY SendStarts, RequestsStart, ResponsesStart DEF SmpInit
<1>2. IInv /\ [SmpNext]_smpVars => IInv'
  <2> SUFFICES ASSUME IInv, [SmpNext]_smpVars PROVE IInv'
    OBVIOUS
  <2>1. [SendNext]_sendVars /\ [RouterNext]_routerVars
    BY DEF SmpNext, smpVars
  <2> QED BY <2>1, SendStep, RequestStep, ResponseStep
<1>3. IInv => Good
  BY DEF SendInv, RequestInv, ResponseInv
<1> QED BY <1>1, <1>2, <1>3, PTL DEF SmpSpec

-----------------------------------------------------------------------------
(* The event bus *)

Slots == 1..Len(Channels)

BusTypes ==
  /\ ring \in [Names -> [0..Capacity - 1 -> Nat]]
  /\ head \in [Names -> 0..Capacity - 1]
  /\ count \in [Names -> 0..Capacity]
  /\ published \in [Names -> Nat] /\ drained \in [Names -> Nat] /\ passed \in [Names -> Nat]
  /\ waking \subseteq Names
  /\ work \in {"idle", "queued", "running", "requeued"}
  /\ channelScan \in [at: 0..Len(Channels) + 1, dispatched: BOOLEAN]

OwnerTypes ==
  /\ subscribed \subseteq Subscribers
  /\ owner \in [Subscribers -> {"attached", "detached", "gone"}]
  /\ snapshot \in [Threads -> SUBSET Subscribers]
  /\ body \in [Threads -> Subscribers \cup {Nobody}]

(* The slot of the ring an index falls on. *)
Slot(i) == i % Capacity

(* The ring of one channel: the newest n of the events published so far,   *)
(* from the slot h on, and what was drained came before them.              *)
RingOK(r, h, n, p, d) ==
  /\ n <= p /\ d <= p - n
  /\ \A k \in 0..n - 1: r[Slot(h + k)] = p - n + 1 + k

Rings == \A c \in Names: RingOK(ring[c], head[c], count[c], published[c], drained[c])

(* The slots a round has yet to visit hold the events that nobody will     *)
(* wake the bus for, unless the round has dispatched and is not the last.  *)
Ahead(c) == \E i \in Slots: channelScan.at <= i /\ Channels[i] = c

Rounds ==
  /\ work \in {"idle", "queued"} <=> channelScan.at = 0
  /\ work = "idle" => \A c \in Names: count[c] # 0 => c \in waking
  /\ work = "running" /\ ~channelScan.dispatched =>
       \A c \in Names: count[c] # 0 => c \in waking \/ Ahead(c)

(* The turns the other slots can have had since slot p had its own, when   *)
(* the round is at slot a.                                                 *)
Turns(a, p) == IF a > p THEN a - p - 1
               ELSE IF a = 0 THEN Len(Channels) - p
               ELSE Len(Channels) + a - p - 1

Fair ==
  /\ \A c \in Names: count[c] = 0 => passed[c] = 0
  /\ \A p \in Slots: passed[Channels[p]] <= Turns(channelScan.at, p)

BusInv == BusTypes /\ OwnerTypes /\ Rings /\ Rounds /\ Fair /\ NoBodyAfterDetach

-----------------------------------------------------------------------------
(* The ring *)

(* A number has one quotient and remainder. *)
LEMMA QuotientUnique ==
  ASSUME NEW C \in Nat \ {0}, NEW a \in Int, NEW b \in Int, NEW r \in 0..C - 1, NEW s \in 0..C - 1,
         C * a + r = C * b + s
  PROVE  a = b
<1>1. CASE a > b
  <2>1. a - b >= 1 /\ C * (a - b) = s - r
    BY <1>1
  <2>2. C * (a - b) >= C
    BY <2>1
  <2> QED BY <2>1, <2>2
<1>2. CASE a < b
  <2>1. b - a >= 1 /\ C * (b - a) = r - s
    BY <1>2
  <2>2. C * (b - a) >= C
    BY <2>1
  <2> QED BY <2>1, <2>2
<1> QED BY <1>1, <1>2

(* A slot past the end of the ring is one of its beginning. *)
LEMMA RingSlot ==
  ASSUME NEW i \in Nat, i < 2 * Capacity
  PROVE  Slot(i) = IF i < Capacity THEN i ELSE i - Capacity
<1>1. Capacity \in Nat \ {0}
  BY EventBusAssumption
<1>2. i % Capacity \in 0..Capacity - 1 /\ i \div Capacity \in Int
      /\ i = Capacity * (i \div Capacity) + (i % Capacity)
  BY <1>1
<1>3. CASE i < Capacity
  BY <1>1, <1>3 DEF Slot
<1>4. CASE i >= Capacity
  <2>1. i = Capacity * 1 + (i - Capacity) /\ i - Capacity \in 0..Capacity - 1
    BY <1>1, <1>4
  <2>2. i \div Capacity = 1
    BY <1>1, <1>2, <2>1, QuotientUnique
  <2> QED BY <1>1, <1>2, <1>4, <2>2 DEF Slot
<1> QED BY <1>1, <1>3, <1>4

(* PublishAsync() keeps the newest events: on a full ring it overwrites    *)
(* the oldest.                                                             *)
LEMMA QueuedOK ==
  ASSUME NEW r \in [0..Capacity - 1 -> Nat], NEW h \in 0..Capacity - 1, NEW n \in 0..Capacity,
         NEW p \in Nat, NEW d \in Nat, RingOK(r, h, n, p, d)
  PROVE  LET q == Queued(r, h, n, p + 1)
         IN  /\ q.ring \in [0..Capacity - 1 -> Nat] /\ q.head \in 0..Capacity - 1
             /\ q.count \in 1..Capacity
             /\ RingOK(q.ring, q.head, q.count, p + 1, d)
<1> DEFINE shed == n = Capacity
           h2   == IF shed THEN Slot(h + 1) ELSE h
           n2   == IF shed THEN n - 1 ELSE n
           last == Slot(h2 + n2)
           r2   == [r EXCEPT ![last] = p + 1]
           q    == Queued(r, h, n, p + 1)
<1>1. Capacity \in Nat /\ Capacity >= 1
  BY EventBusAssumption
<1>2. q.ring = r2 /\ q.head = h2 /\ q.count = n2 + 1
  BY DEF Queued, Slot
<1>3. h2 \in 0..Capacity - 1 /\ n2 \in 0..Capacity - 1
  BY <1>1, RingSlot
<1>4. last \in 0..Capacity - 1
  BY SMTT(30), <1>1, <1>3, RingSlot
<1>5. r2 \in [0..Capacity - 1 -> Nat]
  BY <1>4
<1>6. n2 + 1 <= p + 1 /\ d <= (p + 1) - (n2 + 1)
  BY <1>1 DEF RingOK
<1>7. ASSUME NEW k \in 0..n2 PROVE r2[Slot(h2 + k)] = (p + 1) - (n2 + 1) + 1 + k
  <2>1. CASE k = n2
    BY <1>1, <1>3, <1>4, <2>1
  <2>2. CASE k # n2
    <3>1. Slot(h2 + k) \in 0..Capacity - 1 /\ Slot(h2 + k) # last
      <4> HIDE DEF h2, n2
      <4>1. h2 + k \in Nat /\ h2 + k < 2 * Capacity /\ h2 + n2 \in Nat /\ h2 + n2 < 2 * Capacity
        BY <1>1, <1>3, <1>7
      <4>2. /\ Slot(h2 + k) = IF h2 + k < Capacity THEN h2 + k ELSE h2 + k - Capacity
            /\ last = IF h2 + n2 < Capacity THEN h2 + n2 ELSE h2 + n2 - Capacity
        BY <1>1, <1>3, <1>7, <4>1, RingSlot
      <4> HIDE DEF last
      <4> QED BY <1>1, <1>3, <1>7, <2>2, <4>2
    <3>2. r2[Slot(h2 + k)] = r[Slot(h2 + k)]
      BY <1>4, <3>1
    <3>3. r[Slot(h2 + k)] = p - n2 + 1 + k
      <4>1. CASE shed
        <5>1. Slot(h2 + k) = Slot(h + (k + 1))
          <6>1. h + 1 \in Nat /\ h + 1 < 2 * Capacity /\ k + 1 < Capacity /\ h2 = Slot(h + 1)
            BY <1>1, <1>3, <1>7, <2>2, <4>1
          <6> HIDE DEF h2, n2
          <6>2. h2 = IF h + 1 < Capacity THEN h + 1 ELSE h + 1 - Capacity
            BY <1>1, <6>1, RingSlot
          <6>3. Slot(h2 + k) = IF h2 + k < Capacity THEN h2 + k ELSE h2 + k - Capacity
            BY <1>1, <1>3, <6>1, RingSlot
          <6>4. Slot(h + (k + 1)) = IF h + (k + 1) < Capacity THEN h + (k + 1) ELSE h + (k + 1) - Capacity
            BY <1>1, <6>1, RingSlot
          <6>5. k \in Nat
            BY <1>3, <1>7
          <6>6. CASE h + 1 < Capacity
            <7>1. h2 + k = h + (k + 1)
              BY <1>1, <1>3, <6>2, <6>5, <6>6
            <7> QED BY <7>1
          <6>7. CASE ~(h + 1 < Capacity)
            BY <1>1, <6>1, <6>2, <6>3, <6>4, <6>5, <6>7
          <6> QED BY <6>6, <6>7
        <5>2. k + 1 \in 0..n - 1
          BY <1>1, <1>7, <2>2, <4>1
        <5>3. r[Slot(h + (k + 1))] = p - n + 1 + (k + 1)
          BY <5>2 DEF RingOK
        <5> QED BY <1>1, <4>1, <5>1, <5>3
      <4>2. CASE ~shed
        BY <1>1, <1>7, <2>2, <4>2 DEF RingOK
      <4> QED BY <4>1, <4>2
    <3> QED BY <1>1, <1>3, <3>2, <3>3
  <2> QED BY <2>1, <2>2
<1> HIDE DEF q, r2, h2, n2
<1>8. RingOK(q.ring, q.head, q.count, p + 1, d)
  <2>1. (n2 + 1) - 1 = n2
    BY <1>3
  <2> QED BY <1>2, <1>3, <1>6, <1>7, <2>1 DEF RingOK
<1>9. q.ring \in [0..Capacity - 1 -> Nat] /\ q.head \in 0..Capacity - 1 /\ q.count \in 1..Capacity
  BY <1>1, <1>2, <1>3, <1>5
<1> QED BY <1>8, <1>9 DEF q

(* DrainOne() takes the oldest event of the ring. *)
LEMMA DrainedOK ==
  ASSUME NEW r \in [0..Capacity - 1 -> Nat], NEW h \in 0..Capacity - 1, NEW n \in 1..Capacity,
         NEW p \in Nat, NEW d \in Nat, RingOK(r, h, n, p, d)
  PROVE  /\ RingOK(r, Slot(h + 1), n - 1, p, r[h])
         /\ Slot(h + 1) \in 0..Capacity - 1 /\ r[h] \in Nat
<1>1. Capacity \in Nat /\ Capacity >= 1
  BY EventBusAssumption
<1>2. Slot(h + 1) \in 0..Capacity - 1 /\ Slot(h + 0) = h
  BY <1>1, RingSlot
<1>3. r[h] = p - n + 1
  <2>1. 0 \in 0..n - 1
    BY <1>1
  <2>2. r[Slot(h + 0)] = p - n + 1 + 0
    BY <2>1 DEF RingOK
  <2> QED BY <1>1, <1>2, <2>2
<1>4. ASSUME NEW k \in 0..(n - 1) - 1
      PROVE  r[Slot(Slot(h + 1) + k)] = p - (n - 1) + 1 + k
  <2>1. Slot(Slot(h + 1) + k) = Slot(h + (k + 1))
    <3> DEFINE h2 == Slot(h + 1)
    <3>1. h2 = (IF h + 1 < Capacity THEN h + 1 ELSE h + 1 - Capacity) /\ k + 1 < Capacity
      BY <1>1, <1>4, RingSlot
    <3>2. h2 \in 0..Capacity - 1
      BY <1>2
    <3> HIDE DEF h2
    <3>3. Slot(h2 + k) = IF h2 + k < Capacity THEN h2 + k ELSE h2 + k - Capacity
      BY <1>1, <3>1, <3>2, RingSlot
    <3>4. Slot(h + (k + 1)) = IF h + (k + 1) < Capacity THEN h + (k + 1) ELSE h + (k + 1) - Capacity
      BY <1>1, <3>1, RingSlot
    <3>5. Slot(h2 + k) = Slot(h + (k + 1))
      BY <1>1, <3>1, <3>2, <3>3, <3>4
    <3> QED BY <3>5 DEF h2
  <2>2. k + 1 \in 0..n - 1
    BY <1>1, <1>4
  <2>3. r[Slot(h + (k + 1))] = p - n + 1 + (k + 1)
    BY <2>2 DEF RingOK
  <2> QED BY <1>1, <2>1, <2>3
<1>5. n - 1 <= p /\ r[h] <= p - (n - 1)
  BY <1>1, <1>3 DEF RingOK
<1> QED BY <1>2, <1>4, <1>5 DEF RingOK

-----------------------------------------------------------------------------
(* The channels *)

(* The channels are the entries of a list. *)
LEMMA ChannelFacts ==
  /\ Len(Channels) \in Nat
  /\ \A i \in Slots: Channels[i] \in Names
  /\ \A c \in Names: \E i \in Slots: Channels[i] = c
BY EventBusAssumption DEF Names, Slots

(* The initial state: nothing is published, nothing is subscribed. *)
LEMMA BusInitInv == EventBusInit => BusInv
<1> SUFFICES ASSUME EventBusInit PROVE BusInv
  OBVIOUS
<1> USE DEF EventBusInit
<1>1. Capacity \in Nat /\ Capacity >= 1 /\ Len(Channels) \in Nat
  BY EventBusAssumption, ChannelFacts
<1>2. BusTypes
  BY <1>1 DEF BusTypes
<1>3. OwnerTypes /\ NoBodyAfterDetach
  BY DEF OwnerTypes, NoBodyAfterDetach
<1>4. Rings
  BY DEF Rings, RingOK
<1>5. Rounds
  BY DEF Rounds
<1>6. Fair
  BY <1>1, ChannelFacts DEF Fair, Turns, Slots
<1> QED BY <1>2, <1>3, <1>4, <1>5, <1>6 DEF BusInv

(* What the owners and the handlers do leaves the channels alone. *)
LEMMA ChannelsStand ==
  ASSUME BusTypes, Rings, Rounds, Fair, UNCHANGED <<busRingVars, waking, workVars>>
  PROVE  BusTypes' /\ Rings' /\ Rounds' /\ Fair'
BY DEF BusTypes, Rings, Rounds, Fair, Ahead, busRingVars, workVars

(* What the channels do leaves the owners alone. *)
LEMMA OwnersStand ==
  ASSUME OwnerTypes, NoBodyAfterDetach, UNCHANGED <<ownerVars, snapshot, body>>
  PROVE  OwnerTypes' /\ NoBodyAfterDetach'
BY DEF OwnerTypes, NoBodyAfterDetach, ownerVars

(* PublishAsync(): the publisher is about to wake the bus for what it      *)
(* queued.                                                                 *)
LEMMA PublishAsyncPreserves ==
  ASSUME BusInv, NEW c \in Names, PublishAsync(c)
  PROVE  BusInv'
<1> USE DEF BusInv
<1> DEFINE q == Queued(ring[c], head[c], count[c], published[c] + 1)
<1>1. /\ ring' = [ring EXCEPT ![c] = q.ring]
      /\ head' = [head EXCEPT ![c] = q.head]
      /\ count' = [count EXCEPT ![c] = q.count]
      /\ published' = [published EXCEPT ![c] = published[c] + 1]
      /\ waking' = waking \cup {c}
      /\ UNCHANGED <<workVars, ownerVars, snapshot, body>>
  BY DEF PublishAsync
<1>2. UNCHANGED <<work, channelScan, drained, passed>>
  BY <1>1 DEF workVars
<1>3. /\ ring[c] \in [0..Capacity - 1 -> Nat] /\ head[c] \in 0..Capacity - 1 /\ count[c] \in 0..Capacity
      /\ published[c] \in Nat /\ drained[c] \in Nat
      /\ RingOK(ring[c], head[c], count[c], published[c], drained[c])
  BY DEF BusTypes, Rings
<1>4. /\ q.ring \in [0..Capacity - 1 -> Nat] /\ q.head \in 0..Capacity - 1 /\ q.count \in 1..Capacity
      /\ RingOK(q.ring, q.head, q.count, published[c] + 1, drained[c])
  BY <1>3, QueuedOK
<1> HIDE DEF q
<1>5. Capacity \in Nat
  BY EventBusAssumption
<1>6. BusTypes'
  <2>1. q.count \in 0..Capacity
    BY <1>4, <1>5
  <2>2. ring' \in [Names -> [0..Capacity - 1 -> Nat]]
    BY <1>1, <1>4 DEF BusTypes
  <2>3. head' \in [Names -> 0..Capacity - 1] /\ count' \in [Names -> 0..Capacity]
    BY <1>1, <1>4, <2>1 DEF BusTypes
  <2>4. published' \in [Names -> Nat] /\ waking' \subseteq Names
    BY <1>1, <1>3 DEF BusTypes
  <2> QED BY <1>2, <2>2, <2>3, <2>4 DEF BusTypes
<1>7. Rings'
  <2> SUFFICES ASSUME NEW d \in Names
               PROVE  RingOK(ring'[d], head'[d], count'[d], published'[d], drained'[d])
    BY DEF Rings
  <2>1. CASE d = c
    BY <1>1, <1>2, <1>4, <2>1 DEF BusTypes
  <2>2. CASE d # c
    BY <1>1, <1>2, <2>2 DEF BusTypes, Rings
  <2> QED BY <2>1, <2>2
<1>8. count'[c] # 0 /\ \A d \in Names \ {c}: count'[d] = count[d]
  BY <1>1, <1>4 DEF BusTypes
<1>9. Rounds'
  BY <1>1, <1>2, <1>8 DEF Rounds, Ahead
<1>10. Fair'
  BY <1>2, <1>8 DEF Fair
<1> QED BY <1>1, <1>6, <1>7, <1>9, <1>10, OwnersStand

(* Wake(): a bus at work comes back, an idle one is queued. *)
LEMMA WakePreserves ==
  ASSUME BusInv, NEW c \in Names, Wake(c)
  PROVE  BusInv'
<1> USE DEF BusInv
<1>1. /\ waking' = waking \ {c} /\ work' = Woken
      /\ UNCHANGED <<ring, head, count, published, channelScan, drained, passed>>
      /\ UNCHANGED <<ownerVars, snapshot, body>>
  BY DEF Wake, busRingVars
<1>2. BusTypes'
  BY <1>1 DEF BusTypes, Woken
<1>3. Rings' /\ Fair'
  BY <1>1 DEF Rings, Fair
<1>4. Rounds'
  BY <1>1 DEF Rounds, Ahead, Woken, BusTypes
<1> QED BY <1>1, <1>2, <1>3, <1>4, OwnersStand

(* The task begins with the first channel. *)
LEMMA BeginPreserves == BusInv /\ BeginWork => BusInv'
<1> SUFFICES ASSUME BusInv, BeginWork PROVE BusInv'
  OBVIOUS
<1> USE DEF BusInv
<1>1. /\ work = "queued" /\ work' = "running" /\ channelScan' = [at |-> 1, dispatched |-> FALSE]
      /\ UNCHANGED <<ring, head, count, published, waking, drained, passed>>
      /\ UNCHANGED <<ownerVars, snapshot, body>>
  BY DEF BeginWork, busRingVars
<1>2. channelScan'.at = 1 /\ channelScan.at = 0
  BY <1>1 DEF Rounds
<1>3. BusTypes'
  BY <1>1, ChannelFacts DEF BusTypes
<1>4. Rings'
  BY <1>1 DEF Rings
<1>5. Rounds'
  <2>1. \A c \in Names: Ahead(c)'
    BY <1>2, ChannelFacts DEF Ahead, Slots
  <2> QED BY <1>1, <1>2, <2>1 DEF Rounds
<1>6. Fair'
  BY <1>1, <1>2, ChannelFacts DEF Fair, Turns, Slots
<1> QED BY <1>1, <1>3, <1>4, <1>5, <1>6, OwnersStand

(* One more turn for every slot but the one that had it. *)
LEMMA TurnPasses ==
  ASSUME NEW a \in Slots, NEW p \in Slots
  PROVE  /\ Turns(a + 1, p) \in Nat
         /\ p # a => Turns(a, p) \in Nat /\ Turns(a + 1, p) = Turns(a, p) + 1
BY ChannelFacts DEF Slots, Turns

(* No slot waits for as many turns as there are slots. *)
LEMMA TurnsBounded ==
  ASSUME NEW a \in 0..Len(Channels) + 1, NEW p \in Slots
  PROVE  Turns(a, p) \in Int /\ Turns(a, p) < Len(Channels)
BY ChannelFacts DEF Slots, Turns

(* DrainOne(): the round goes on to the next slot, with one event of this  *)
(* channel drained if it had any.                                          *)
LEMMA DrainPreserves == BusInv /\ DrainOne => BusInv'
<1> SUFFICES ASSUME BusInv, DrainOne PROVE BusInv'
  OBVIOUS
<1> USE DEF BusInv
<1> DEFINE a == channelScan.at
           c == Channels[a]
<1>1. /\ a \in Slots
      /\ UNCHANGED <<ring, published, waking, work, body>> /\ UNCHANGED ownerVars
  BY DEF DrainOne, Slots
<1>2. c \in Names /\ Len(Channels) \in Nat /\ a \in Nat /\ a + 1 \in 0..Len(Channels) + 1
  BY <1>1, ChannelFacts DEF Slots
<1>3. work \notin {"idle", "queued"}
  BY <1>1 DEF Rounds, Slots
<1>4. CASE count[c] = 0
  <2>1. /\ channelScan' = [channelScan EXCEPT !.at = a + 1]
        /\ UNCHANGED <<head, count, snapshot, drained, passed>>
    BY <1>4 DEF DrainOne
  <2>2. channelScan'.at = a + 1 /\ channelScan'.dispatched = channelScan.dispatched
    BY <2>1 DEF BusTypes
  <2>3. BusTypes'
    BY <1>1, <1>2, <2>1 DEF BusTypes
  <2>4. Rings'
    BY <1>1, <2>1 DEF Rings
  <2>5. ASSUME NEW d \in Names, count[d] # 0, Ahead(d) PROVE Ahead(d)'
    <3>1. PICK i \in Slots: a <= i /\ Channels[i] = d
      BY <2>5 DEF Ahead
    <3>2. a + 1 <= i
      BY <1>1, <1>4, <2>5, <3>1 DEF Slots
    <3> QED BY <2>2, <3>1, <3>2 DEF Ahead
  <2>6. Rounds'
    BY <1>1, <1>2, <1>3, <2>1, <2>2, <2>5 DEF Rounds
  <2>7. Fair'
    <3> SUFFICES ASSUME NEW p \in Slots PROVE passed[Channels[p]] <= Turns(a + 1, p)
      BY <2>1, <2>2 DEF Fair
    <3>1. passed[Channels[p]] \in Nat
      BY ChannelFacts DEF BusTypes
    <3>2. CASE p = a
      <4>1. passed[Channels[p]] = 0
        BY <1>2, <1>4, <3>2 DEF Fair
      <4> QED BY <1>1, <4>1, TurnPasses
    <3>3. CASE p # a
      <4>1. passed[Channels[p]] <= Turns(a, p)
        BY DEF Fair
      <4>2. Turns(a, p) \in Nat /\ Turns(a + 1, p) = Turns(a, p) + 1
        BY <1>1, <3>3, TurnPasses
      <4> QED BY <3>1, <4>1, <4>2
    <3> QED BY <3>2, <3>3
  <2> QED BY <1>1, <2>1, <2>3, <2>4, <2>6, <2>7, OwnersStand
<1>5. CASE count[c] # 0
  <2>1. /\ head' = [head EXCEPT ![c] = (head[c] + 1) % Capacity]
        /\ count' = [count EXCEPT ![c] = count[c] - 1]
        /\ snapshot' = [snapshot EXCEPT !["bus"] = Matching(c)]
        /\ channelScan' = [at |-> a + 1, dispatched |-> TRUE]
        /\ drained' = [drained EXCEPT ![c] = ring[c][head[c]]]
        /\ passed' = [d \in Names |-> IF d = c \/ count[d] = 0 THEN 0 ELSE passed[d] + 1]
    BY <1>5 DEF DrainOne, NextSlot
  <2>2. channelScan'.at = a + 1 /\ channelScan'.dispatched = TRUE
    BY <2>1
  <2>3. /\ ring[c] \in [0..Capacity - 1 -> Nat] /\ head[c] \in 0..Capacity - 1 /\ count[c] \in 1..Capacity
        /\ published[c] \in Nat /\ drained[c] \in Nat
        /\ RingOK(ring[c], head[c], count[c], published[c], drained[c])
    <3>1. count[c] \in 0..Capacity
      BY <1>2 DEF BusTypes
    <3>2. count[c] \in 1..Capacity
      BY <1>5, <3>1, EventBusAssumption
    <3> QED BY <1>2, <3>2 DEF BusTypes, Rings
  <2>4. /\ Slot(head[c] + 1) \in 0..Capacity - 1 /\ ring[c][head[c]] \in Nat
        /\ RingOK(ring[c], Slot(head[c] + 1), count[c] - 1, published[c], ring[c][head[c]])
    BY <2>3, DrainedOK
  <2>5. head' = [head EXCEPT ![c] = Slot(head[c] + 1)]
    BY <2>1 DEF Slot
  <2>6. BusTypes'
    <3> HIDE DEF c
    <3>1. count[c] - 1 \in 0..Capacity
      <4>1. Capacity \in Nat
        BY EventBusAssumption
      <4>2. count[c] \in 1..Capacity
        BY <2>3
      <4> QED BY <4>1, <4>2
    <3>2. head' \in [Names -> 0..Capacity - 1] /\ count' \in [Names -> 0..Capacity]
          /\ drained' \in [Names -> Nat]
      BY <1>2, <2>1, <2>4, <2>5, <3>1 DEF BusTypes
    <3>3. passed' \in [Names -> Nat]
      BY <2>1 DEF BusTypes
    <3>4. channelScan' \in [at: 0..Len(Channels) + 1, dispatched: BOOLEAN]
      BY <1>2, <2>1
    <3> QED BY <1>1, <3>2, <3>3, <3>4 DEF BusTypes
  <2>7. Rings'
    <3> SUFFICES ASSUME NEW d \in Names
                 PROVE  RingOK(ring'[d], head'[d], count'[d], published'[d], drained'[d])
      BY DEF Rings
    <3> HIDE DEF c
    <3>1. CASE d = c
      <4>1. head'[d] = Slot(head[c] + 1) /\ count'[d] = count[c] - 1 /\ drained'[d] = ring[c][head[c]]
        BY <2>1, <2>5, <3>1 DEF BusTypes
      <4> QED BY <1>1, <2>4, <3>1, <4>1
    <3>2. CASE d # c
      <4>1. head'[d] = head[d] /\ count'[d] = count[d] /\ drained'[d] = drained[d]
        BY <2>1, <2>5, <3>2 DEF BusTypes
      <4> QED BY <1>1, <4>1 DEF Rings
    <3> QED BY <3>1, <3>2
  <2>8. Rounds'
    BY <1>1, <1>2, <1>3, <2>2 DEF Rounds
  <2>9. Fair'
    <3>1. \A d \in Names: count'[d] = 0 => passed'[d] = 0
      BY <2>1 DEF BusTypes
    <3>2. ASSUME NEW p \in Slots PROVE passed'[Channels[p]] <= Turns(a + 1, p)
      <4>1. Channels[p] \in Names /\ passed[Channels[p]] \in Nat
        BY ChannelFacts DEF BusTypes
      <4>2. CASE Channels[p] = c
        <5>1. passed'[Channels[p]] = 0
          BY <2>1, <4>1, <4>2
        <5> QED BY <1>1, <5>1, TurnPasses
      <4>3. CASE Channels[p] # c
        <5>1. passed'[Channels[p]] \in {0, passed[Channels[p]] + 1}
          BY <2>1, <4>1
        <5>2. passed[Channels[p]] <= Turns(a, p)
          BY DEF Fair
        <5>3. Turns(a, p) \in Nat /\ Turns(a + 1, p) = Turns(a, p) + 1
          BY <1>1, <4>3, TurnPasses
        <5> QED BY <4>1, <5>1, <5>2, <5>3
      <4> QED BY <4>2, <4>3
    <3> QED BY <2>2, <3>1, <3>2 DEF Fair
  <2>10. OwnerTypes' /\ NoBodyAfterDetach'
    BY <1>1, <2>1 DEF OwnerTypes, NoBodyAfterDetach, ownerVars, Matching
  <2> QED BY <2>6, <2>7, <2>8, <2>9, <2>10
<1> QED BY <1>4, <1>5

(* The end of a round: another one, or the task ends. *)
LEMMA EndRoundPreserves == BusInv /\ EndRound => BusInv'
<1> SUFFICES ASSUME BusInv, EndRound PROVE BusInv'
  OBVIOUS
<1> USE DEF BusInv
<1>1. /\ channelScan.at = Len(Channels) + 1
      /\ UNCHANGED <<ring, head, count, published, waking, drained, passed>>
      /\ UNCHANGED <<ownerVars, snapshot, body>>
  BY DEF EndRound, busRingVars
<1>2. Len(Channels) \in Nat
  BY ChannelFacts
<1>3. Rings'
  BY <1>1 DEF Rings
<1>4. \A p \in Slots: passed[Channels[p]] <= Len(Channels) - p
  BY <1>1, <1>2 DEF Fair, Turns, Slots
<1>5. CASE channelScan.dispatched
  <2>1. channelScan' = [at |-> 1, dispatched |-> FALSE] /\ work' = work
    BY <1>5 DEF EndRound
  <2>2. channelScan'.at = 1
    BY <2>1
  <2>3. BusTypes'
    BY <1>1, <1>2, <2>1 DEF BusTypes
  <2>4. \A c \in Names: Ahead(c)'
    BY <2>2, ChannelFacts DEF Ahead, Slots
  <2>5. Rounds'
    BY <1>1, <1>2, <2>1, <2>2, <2>4 DEF Rounds
  <2>6. Fair'
    BY <1>1, <1>2, <1>4, <2>2 DEF Fair, Turns, Slots
  <2> QED BY <1>1, <1>3, <2>3, <2>5, <2>6, OwnersStand
<1>6. CASE ~channelScan.dispatched
  <2>1. channelScan' = [channelScan EXCEPT !.at = 0] /\ work' = AfterRun
    BY <1>6 DEF EndRound
  <2>2. channelScan'.at = 0 /\ channelScan'.dispatched = channelScan.dispatched
    BY <2>1 DEF BusTypes
  <2>3. work' \in {"idle", "queued"} /\ (work' = "idle" => work # "requeued")
    BY <2>1 DEF AfterRun
  <2>4. BusTypes'
    <3>1. channelScan' \in [at: 0..Len(Channels) + 1, dispatched: BOOLEAN]
      <4>1. channelScan \in [at: 0..Len(Channels) + 1, dispatched: BOOLEAN]
        BY DEF BusTypes
      <4>2. 0 \in 0..Len(Channels) + 1
        BY <1>2
      <4> QED BY <2>1, <4>1, <4>2
    <3> QED BY <1>1, <2>3, <3>1 DEF BusTypes
  <2>5. \A c \in Names: ~Ahead(c)
    BY <1>1, <1>2 DEF Ahead, Slots
  <2>6. work \in {"running", "requeued"}
    BY <1>1, <1>2 DEF Rounds, BusTypes
  <2>7. Rounds'
    BY <1>1, <1>6, <2>2, <2>3, <2>5, <2>6 DEF Rounds
  <2>8. Fair'
    BY <1>1, <1>2, <1>4, <2>2 DEF Fair, Turns, Slots
  <2> QED BY <1>1, <1>3, <2>4, <2>7, <2>8, OwnersStand
<1> QED BY <1>5, <1>6

-----------------------------------------------------------------------------
(* The owners *)

(* Handlers, their owners and the guard. *)
LEMMA OwnersPreserve ==
  ASSUME BusInv,
         \/ \E c \in Names: Publish(c)
         \/ \E s \in Subscribers: Attach(s) \/ Subscribe(s) \/ Detach(s) \/ Unsubscribe(s)
         \/ \E t \in Threads: LeaveBody(t) \/ \E s \in Subscribers: EnterBody(t, s)
  PROVE  BusInv'
<1> USE DEF BusInv
<1>1. UNCHANGED <<busRingVars, waking, workVars>>
  BY DEF Publish, Attach, Subscribe, Detach, Unsubscribe, LeaveBody, EnterBody
<1>2. ASSUME NEW c \in Names, Publish(c)
      PROVE  OwnerTypes' /\ NoBodyAfterDetach'
  <2>1. UNCHANGED <<subscribed, owner, body>> /\ snapshot' = [snapshot EXCEPT !["sync"] = Matching(c)]
    BY <1>2 DEF Publish, ownerVars
  <2>2. Matching(c) \in SUBSET Subscribers
    BY DEF Matching, OwnerTypes
  <2>3. snapshot' \in [Threads -> SUBSET Subscribers]
    BY <2>1, <2>2 DEF OwnerTypes
  <2> QED BY <2>1, <2>3 DEF OwnerTypes, NoBodyAfterDetach
<1>3. ASSUME NEW s \in Subscribers, Attach(s) \/ Subscribe(s) \/ Detach(s) \/ Unsubscribe(s)
      PROVE  OwnerTypes' /\ NoBodyAfterDetach'
  <2>1. UNCHANGED <<snapshot, body>> /\ subscribed' \subseteq Subscribers
    BY <1>3 DEF Attach, Subscribe, Detach, Unsubscribe, OwnerTypes
  <2>2. CASE Subscribe(s)
    BY <2>1, <2>2 DEF Subscribe, OwnerTypes, NoBodyAfterDetach
  <2>3. CASE Attach(s) \/ Detach(s) \/ Unsubscribe(s)
    <3>1. PICK o \in {"attached", "detached", "gone"}: owner' = [owner EXCEPT ![s] = o]
      BY <2>3 DEF Attach, Detach, Unsubscribe
    <3>2. o = "attached" \/ \A t \in Threads: body[t] = Nobody \/ body[t] # s
      BY <2>3, <3>1 DEF Attach, Detach, Unsubscribe, OwnerTypes, NoBodyAfterDetach
    <3>3. owner'[s] = o /\ \A u \in Subscribers \ {s}: owner'[u] = owner[u]
      BY <3>1 DEF OwnerTypes
    <3>4. OwnerTypes'
      BY <2>1, <3>1 DEF OwnerTypes
    <3>5. NoBodyAfterDetach'
      BY <2>1, <3>2, <3>3 DEF OwnerTypes, NoBodyAfterDetach
    <3> QED BY <3>4, <3>5
  <2> QED BY <1>3, <2>2, <2>3
<1>4. ASSUME NEW t \in Threads, LeaveBody(t)
      PROVE  OwnerTypes' /\ NoBodyAfterDetach'
  BY <1>4 DEF LeaveBody, OwnerTypes, NoBodyAfterDetach, ownerVars
<1>5. ASSUME NEW t \in Threads, NEW s \in Subscribers, EnterBody(t, s)
      PROVE  OwnerTypes' /\ NoBodyAfterDetach'
  <2>1. /\ UNCHANGED <<subscribed, owner>>
        /\ snapshot' = [snapshot EXCEPT ![t] = snapshot[t] \ {s}]
        /\ body' = [body EXCEPT ![t] = IF owner[s] = "attached" THEN s ELSE Nobody]
    BY <1>5 DEF EnterBody, ownerVars, Runs
  <2> QED BY <2>1 DEF OwnerTypes, NoBodyAfterDetach
<1>6. OwnerTypes' /\ NoBodyAfterDetach'
  BY <1>2, <1>3, <1>4, <1>5
<1> QED BY <1>1, <1>6, ChannelsStand

-----------------------------------------------------------------------------
(* The invariant implies what the bus promises. *)
LEMMA BusInvImplies == BusInv => EventBusSafe
<1> SUFFICES ASSUME BusInv PROVE EventBusSafe
  OBVIOUS
<1> USE DEF BusInv
<1>1. KeepsNewest
  BY DEF KeepsNewest, Rings, RingOK, Slot
<1>2. IdleMeansDrained
  BY DEF IdleMeansDrained, Rounds
<1>3. RoundRobin
  <2> SUFFICES ASSUME NEW c \in Names PROVE passed[c] < Len(Channels)
    BY DEF RoundRobin
  <2>1. PICK p \in Slots: Channels[p] = c
    BY ChannelFacts
  <2>2. channelScan.at \in 0..Len(Channels) + 1 /\ passed[c] \in Nat
    BY DEF BusTypes
  <2>3. Turns(channelScan.at, p) \in Int /\ Turns(channelScan.at, p) < Len(Channels)
    BY <2>2, TurnsBounded
  <2>4. passed[c] <= Turns(channelScan.at, p)
    BY <2>1 DEF Fair
  <2> QED BY <2>2, <2>3, <2>4, ChannelFacts
<1> QED BY <1>1, <1>2, <1>3 DEF EventBusSafe

(* For every list of channels, every capacity and every set of             *)
(* subscribers: a full channel sheds its oldest event and keeps the        *)
(* newest in order, the bus never goes idle over a queued event that       *)
(* nobody is about to wake it for, no channel waits for more turns than    *)
(* there are other channels, and no handler body runs after Detach().      *)
THEOREM EventBusIsSafe == EventBusSpec => []EventBusSafe
<1>1. BusInv /\ [EventBusNext]_eventBusVars => BusInv'
  <2> SUFFICES ASSUME BusInv, [EventBusNext]_eventBusVars PROVE BusInv'
    OBVIOUS
  <2>1. CASE \E c \in Names: PublishAsync(c) \/ Wake(c)
    BY <2>1, PublishAsyncPreserves, WakePreserves
  <2>2. CASE BeginWork \/ DrainOne \/ EndRound
    BY <2>2, BeginPreserves, DrainPreserves, EndRoundPreserves
  <2>3. CASE UNCHANGED eventBusVars
    BY <2>3, ChannelsStand, OwnersStand DEF eventBusVars, BusInv
  <2> QED BY <2>1, <2>2, <2>3, OwnersPreserve DEF EventBusNext
<1> QED BY <1>1, BusInitInv, BusInvImplies, PTL DEF EventBusSpec

-----------------------------------------------------------------------------
(* The CAN wrapper *)

Entry == [handlers: SUBSET Handlers, installed: BOOLEAN]

Places == {"none", "loop", "next", "listen", "found", "install", "report"}

CanbusTypes ==
  /\ service \in {"stopped", "running", "stopping"}
  /\ busPhase \in {"up", "stop", "configure", "start"}
  /\ ready \in BOOLEAN /\ detected \in BOOLEAN /\ detecting \in BOOLEAN
  /\ controller \in [on: BOOLEAN, quiet: BOOLEAN, rate: Nat]
  /\ thread \in [at: Places, try: 0..Len(Rates)]
  /\ epoch \in {0, 1}
  /\ rxFrames \in Seq([id: FrameIds, epoch: {0, 1}])
  /\ DOMAIN entries \subseteq Filters
  /\ \A f \in DOMAIN entries: entries[f] \in Entry

(* Where the thread is when the bitrate is not known yet. *)
Looking == thread.at \in {"next", "listen", "found"}

(* The controller stays as it is once the bitrate is known: only a thread  *)
(* that looks for the bitrate switches it on and off.                      *)
ControllerSettled ==
  /\ OffTheWire
  /\ detected => controller.on /\ ~controller.quiet
  /\ thread.at = "listen" => controller.on
  /\ thread.at = "found" => controller.on /\ ~controller.quiet
  /\ Looking => ~detected
  /\ thread.at \in {"install", "report"} => detected
  /\ thread.at = "next" => thread.try \in 1..Len(Rates)
  /\ service = "stopped" => thread = NoThread

(* Nobody is registered while the channel is reconfigured. *)
EntriesSettled ==
  /\ busPhase # "up" => DOMAIN entries = {}
  /\ detected /\ thread.at # "install" => DOMAIN entries \subseteq Installed \cup refusedFilters

(* No frame is accepted by two filters. *)
FiltersDisjoint ==
  \A f \in DOMAIN entries, g \in DOMAIN entries: f # g => f \cap g = {}

CanbusInv ==
  CanbusTypes /\ ControllerSettled /\ EntriesSettled /\ FiltersDisjoint /\ FramesAreCurrent

-----------------------------------------------------------------------------
(* What the assumptions say of the bitrates: there is one, and none is 0. *)
LEMMA RateFacts ==
  /\ Len(Rates) \in Nat \ {0}
  /\ \A i \in 1..Len(Rates): Rates[i] \in Nat
  /\ BusRate \in Nat \ {0}
<1>1. Rates \in Seq(Nat \ {0})
  BY CanbusAssumption
<1>2. DOMAIN Rates = 1..Len(Rates) /\ Len(Rates) \in Nat
  BY <1>1
<1>3. \A i \in 1..Len(Rates): Rates[i] \in Nat \ {0}
  BY <1>1, <1>2
<1>4. PICK i \in 1..Len(Rates): BusRate = Rates[i]
  BY <1>2, CanbusAssumption
<1> QED BY <1>2, <1>3, <1>4

(* The bitrate after the last is the first. *)
LEMMA NextTryInRange ==
  ASSUME NEW t \in 0..Len(Rates)
  PROVE  (t % Len(Rates)) + 1 \in 1..Len(Rates)
<1>1. Len(Rates) \in Nat \ {0} /\ t \in Nat
  BY RateFacts
<1>2. t % Len(Rates) \in 0..Len(Rates) - 1
  BY <1>1
<1> QED BY <1>1, <1>2

(* Filters that do not overlap let a frame through at most once. *)
LEMMA DisjointDeliversOnce ==
  ASSUME FiltersDisjoint
  PROVE  DeliveredOnce
<1> SUFFICES ASSUME NEW id \in FrameIds
             PROVE  Cardinality({f \in Installed: id \in f}) <= 1
  BY DEF DeliveredOnce
<1> DEFINE S == {f \in Installed: id \in f}
<1>1. CASE S = {}
  <2>1. Cardinality({}) = 0
    BY FS_EmptySet
  <2>2. Cardinality(S) = 0
    BY <1>1, <2>1
  <2> QED BY <2>2
<1>2. CASE S # {}
  <2>1. PICK f \in S: TRUE
    BY <1>2
  <2>2. \A g \in S: g = f
    BY <2>1 DEF FiltersDisjoint, Installed
  <2>3. S = {f}
    BY <2>1, <2>2
  <2>4. Cardinality({f}) = 1
    BY FS_Singleton
  <2>5. Cardinality(S) = 1
    BY <2>3, <2>4
  <2> QED BY <2>5
<1> QED BY <1>1, <1>2

(* The invariant gives what the wrapper promises. *)
LEMMA CanbusInvSafe == CanbusInv => CanbusSafe
<1> SUFFICES ASSUME CanbusInv PROVE CanbusSafe
  OBVIOUS
<1>1. OffTheWire /\ MaySendMeansUp
  BY DEF CanbusInv, ControllerSettled, MaySendMeansUp, MaySend
<1>2. HandlersHear
  BY DEF CanbusInv, EntriesSettled, HandlersHear
<1>3. DeliveredOnce
  BY DisjointDeliversOnce DEF CanbusInv
<1> QED BY <1>1, <1>2, <1>3 DEF CanbusInv, CanbusSafe

-----------------------------------------------------------------------------
(* A wrapper that has not been configured. *)
LEMMA CanbusInitially == CanbusInit => CanbusInv
<1> SUFFICES ASSUME CanbusInit PROVE CanbusInv
  OBVIOUS
<1>1. entries = <<>> /\ DOMAIN entries = {} /\ rxFrames = <<>>
  BY DEF CanbusInit
<1>2. CanbusTypes
  <2>1. controller \in [on: BOOLEAN, quiet: BOOLEAN, rate: Nat]
    BY DEF CanbusInit, OffController
  <2>2. thread \in [at: Places, try: 0..Len(Rates)]
    BY RateFacts DEF CanbusInit, NoThread, Places
  <2>3. rxFrames \in Seq([id: FrameIds, epoch: {0, 1}])
    BY <1>1
  <2>4. DOMAIN entries \subseteq Filters /\ \A f \in DOMAIN entries: entries[f] \in Entry
    BY <1>1
  <2> QED BY <2>1, <2>2, <2>3, <2>4 DEF CanbusInit, CanbusTypes
<1>3. ControllerSettled
  BY DEF CanbusInit, ControllerSettled, OffTheWire, Looking, OffController, NoThread
<1>4. EntriesSettled /\ FiltersDisjoint /\ FramesAreCurrent
  BY <1>1 DEF CanbusInit, EntriesSettled, FiltersDisjoint, FramesAreCurrent
<1> QED BY <1>2, <1>3, <1>4 DEF CanbusInv

(* A handler registers: its filter is new and overlaps no other, or is     *)
(* there already; it is installed at once when the bitrate is known.       *)
LEMMA RegisterPreserves ==
  ASSUME CanbusInv, NEW h \in Handlers, RegisterFrameReceivedHandler(h)
  PROVE  CanbusInv'
<1> DEFINE f == FilterOf[h]
           known == f \in DOMAIN entries
           others == IF known THEN entries[f].handlers ELSE {}
           has == known /\ entries[f].installed
           e == [handlers |-> others \cup {h}, installed |-> has \/ ~Defers]
<1>1. /\ busPhase = "up" /\ (known \/ ~HasOverlap(f))
      /\ entries' = [g \in DOMAIN entries \cup {f} |-> IF g = f THEN e ELSE entries[g]]
      /\ UNCHANGED <<service, busPhase, ready, rate, detected, detecting, controller, rxFrames,
                     thread, refusedFilters, epoch>>
  BY DEF RegisterFrameReceivedHandler
<1>2. f \in Filters
  BY DEF Filters
<1>3. DOMAIN entries' = DOMAIN entries \cup {f}
  BY <1>1
<1>4. entries'[f] = e /\ \A g \in DOMAIN entries: g # f => entries'[g] = entries[g]
  BY <1>1
<1>5. e \in Entry
  <2>1. others \subseteq Handlers
    BY DEF CanbusInv, CanbusTypes, Entry
  <2>2. (has \/ ~Defers) \in BOOLEAN
    OBVIOUS
  <2> HIDE DEF others, has
  <2> QED BY <2>1, <2>2 DEF Entry
<1>6. detected => e.installed
  BY DEF Defers
<1> HIDE DEF e
<1>7. CanbusTypes'
  <2>1. DOMAIN entries' \subseteq Filters /\ \A g \in DOMAIN entries': entries'[g] \in Entry
    BY <1>2, <1>3, <1>4, <1>5 DEF CanbusInv, CanbusTypes
  <2> QED BY <1>1, <2>1 DEF CanbusInv, CanbusTypes
<1>8. ControllerSettled'
  BY <1>1 DEF CanbusInv, ControllerSettled, OffTheWire, Looking
<1>9. EntriesSettled'
  BY <1>1, <1>3, <1>4, <1>6 DEF CanbusInv, EntriesSettled, Installed
<1>10. FiltersDisjoint'
  BY <1>1, <1>3 DEF CanbusInv, FiltersDisjoint, HasOverlap
<1> QED BY <1>1, <1>7, <1>8, <1>9, <1>10 DEF CanbusInv, FramesAreCurrent

(* A handler leaves: its filter goes with the last one, and the filters    *)
(* that stay are installed as they were.                                   *)
LEMMA RemovePreserves ==
  ASSUME CanbusInv, NEW h \in Handlers, RemoveFrameReceivedHandler(h)
  PROVE  CanbusInv'
<1> DEFINE f == FilterOf[h]
<1>1. /\ busPhase = "up" /\ f \in DOMAIN entries
      /\ UNCHANGED <<service, busPhase, ready, rate, detected, detecting, controller, rxFrames,
                     thread, epoch>>
  BY DEF RemoveFrameReceivedHandler
<1>2. /\ DOMAIN entries' \subseteq DOMAIN entries
      /\ refusedFilters \cap DOMAIN entries' \subseteq refusedFilters'
      /\ \A g \in DOMAIN entries': entries'[g] \in Entry /\ entries'[g].installed = entries[g].installed
  <2>1. CASE entries[f].handlers = {h}
    <3>1. entries' = [g \in DOMAIN entries \ {f} |-> entries[g]] /\ refusedFilters' = refusedFilters \ {f}
      BY <2>1 DEF RemoveFrameReceivedHandler
    <3> QED BY <3>1 DEF CanbusInv, CanbusTypes
  <2>2. CASE entries[f].handlers # {h}
    <3>1. /\ entries' = [entries EXCEPT ![f].handlers = @ \ {h}]
          /\ refusedFilters' = refusedFilters
      BY <2>2 DEF RemoveFrameReceivedHandler
    <3>2. entries[f] \in Entry
      BY <1>1 DEF CanbusInv, CanbusTypes
    <3>3. /\ entries'[f] = [handlers |-> entries[f].handlers \ {h}, installed |-> entries[f].installed]
          /\ DOMAIN entries' = DOMAIN entries
          /\ \A g \in DOMAIN entries: g # f => entries'[g] = entries[g]
      BY <1>1, <3>1, <3>2 DEF Entry
    <3>4. entries'[f] \in Entry /\ entries'[f].installed = entries[f].installed
      BY <3>2, <3>3 DEF Entry
    <3> QED BY <3>1, <3>3, <3>4 DEF CanbusInv, CanbusTypes
  <2> QED BY <2>1, <2>2
<1>3. CanbusTypes'
  BY <1>1, <1>2 DEF CanbusInv, CanbusTypes
<1>4. ControllerSettled'
  BY <1>1 DEF CanbusInv, ControllerSettled, OffTheWire, Looking
<1>5. EntriesSettled'
  BY <1>1, <1>2 DEF CanbusInv, EntriesSettled, Installed
<1>6. FiltersDisjoint'
  BY <1>2 DEF CanbusInv, FiltersDisjoint
<1> QED BY <1>1, <1>3, <1>4, <1>5, <1>6 DEF CanbusInv, FramesAreCurrent

-----------------------------------------------------------------------------
(* Frames *)

(* A frame comes in under the present configuration, and the oldest goes   *)
(* out.                                                                    *)
LEMMA FramesPreserve ==
  ASSUME CanbusInv, (\E id \in FrameIds: CanFrameReceivedCallback(id)) \/ ProcessFramesTask
  PROVE  CanbusInv'
<1>1. UNCHANGED <<service, busPhase, ready, rate, detected, detecting, controller, entries, thread,
                  refusedFilters, epoch>>
  BY DEF CanFrameReceivedCallback, ProcessFramesTask
<1>2. rxFrames \in Seq([id: FrameIds, epoch: {0, 1}]) /\ epoch \in {0, 1}
  BY DEF CanbusInv, CanbusTypes
<1>3. /\ rxFrames' \in Seq([id: FrameIds, epoch: {0, 1}])
      /\ \A i \in DOMAIN rxFrames': rxFrames'[i].epoch = epoch
  <2>1. ASSUME NEW id \in FrameIds, CanFrameReceivedCallback(id) PROVE <1>3!:
    <3>1. rxFrames' = Append(rxFrames, [id |-> id, epoch |-> epoch])
      BY <2>1 DEF CanFrameReceivedCallback
    <3>2. [id |-> id, epoch |-> epoch] \in [id: FrameIds, epoch: {0, 1}]
      BY <1>2
    <3> DEFINE T == [id: FrameIds, epoch: {0, 1}]
               r == [id |-> id, epoch |-> epoch]
    <3>3. r.epoch = epoch
      OBVIOUS
    <3> HIDE DEF T, r
    <3>4. Append(rxFrames, r) \in Seq(T)
      BY <1>2, <3>2 DEF T, r
    <3>5. \A i \in DOMAIN Append(rxFrames, r):
             Append(rxFrames, r)[i] = r \/ (i \in DOMAIN rxFrames /\ Append(rxFrames, r)[i] = rxFrames[i])
      <4>1. rxFrames \in Seq(T) /\ r \in T
        BY <1>2, <3>2 DEF T, r
      <4> QED BY <4>1
    <3>6. rxFrames' = Append(rxFrames, r)
      BY <3>1 DEF r
    <3> QED BY <3>3, <3>4, <3>5, <3>6 DEF CanbusInv, FramesAreCurrent, T
  <2>2. CASE ProcessFramesTask
    <3>1. rxFrames' = Tail(rxFrames) /\ rxFrames # <<>>
      BY <2>2 DEF ProcessFramesTask
    <3> DEFINE T == [id: FrameIds, epoch: {0, 1}]
    <3> HIDE DEF T
    <3>2. rxFrames \in Seq(T)
      BY <1>2 DEF T
    <3>3. Tail(rxFrames) \in Seq(T)
      BY <3>1, <3>2
    <3>4. \A i \in DOMAIN Tail(rxFrames):
             i + 1 \in DOMAIN rxFrames /\ Tail(rxFrames)[i] = rxFrames[i + 1]
      BY <3>1, <3>2
    <3> QED BY <3>1, <3>3, <3>4 DEF CanbusInv, FramesAreCurrent, T
  <2> QED BY <2>1, <2>2
<1>4. CanbusTypes' /\ FramesAreCurrent'
  BY <1>1, <1>3 DEF CanbusInv, CanbusTypes, FramesAreCurrent
<1>5. ControllerSettled' /\ EntriesSettled' /\ FiltersDisjoint'
  BY <1>1 DEF CanbusInv, ControllerSettled, OffTheWire, Looking, EntriesSettled, Installed,
              FiltersDisjoint
<1> QED BY <1>4, <1>5 DEF CanbusInv

-----------------------------------------------------------------------------
(* The thread *)

(* A step of the thread that leaves the handlers, the queue and the        *)
(* service alone keeps what is said of them, as long as a bitrate that is  *)
(* found leads to the installation of the filters.                         *)
LEMMA ThreadStepKeepsHandlers ==
  ASSUME CanbusInv,
         UNCHANGED <<service, busPhase, ready, entries, rxFrames, refusedFilters, epoch>>,
         detected' /\ thread'.at # "install" => detected /\ thread.at # "install"
  PROVE  EntriesSettled' /\ FiltersDisjoint' /\ FramesAreCurrent'
BY DEF CanbusInv, EntriesSettled, Installed, FiltersDisjoint, FramesAreCurrent

(* ... and its types. *)
LEMMA ThreadStepKeepsTypes ==
  ASSUME CanbusInv,
         UNCHANGED <<service, busPhase, ready, entries, rxFrames, refusedFilters, epoch>>,
         detected' \in BOOLEAN, detecting' \in BOOLEAN,
         controller' \in [on: BOOLEAN, quiet: BOOLEAN, rate: Nat],
         thread' \in [at: Places, try: 0..Len(Rates)]
  PROVE  CanbusTypes'
BY DEF CanbusInv, CanbusTypes

(* The thread begins, ends or gives up a bitrate: the controller is off or *)
(* listens, and the bitrate is not known.                                  *)
LEMMA DetectionPreserves ==
  ASSUME CanbusInv, BeginAutodetect \/ EndAutodetect \/ TestBitrate \/ TestFails
  PROVE  CanbusInv'
<1>1. UNCHANGED <<service, busPhase, ready, rate, detected, entries, rxFrames, refusedFilters, epoch>>
  BY DEF BeginAutodetect, EndAutodetect, TestBitrate, TestFails
<1>2. Len(Rates) \in Nat \ {0}
  BY RateFacts
<1>3. thread \in [at: Places, try: 0..Len(Rates)]
  BY DEF CanbusInv, CanbusTypes
<1>4. /\ ~detected \/ (thread'.at = "loop" /\ thread.at = "next")
      /\ service # "stopped"
  <2>1. thread # NoThread /\ (Looking \/ (detecting /\ ~detected))
    BY DEF BeginAutodetect, EndAutodetect, TestBitrate, TestFails, Looking, NoThread, Defers
  <2> QED BY <2>1 DEF CanbusInv, ControllerSettled
<1>5. ~detected
  BY <1>4 DEF CanbusInv, ControllerSettled, Looking
<1>6. TryNext \in [at: {"next"}, try: 1..Len(Rates)]
  BY <1>3, NextTryInRange DEF TryNext
<1>7. /\ detecting' \in BOOLEAN
      /\ controller' \in [on: BOOLEAN, quiet: BOOLEAN, rate: Nat]
      /\ controller'.on /\ ~controller'.quiet => controller' = controller
      /\ thread' \in [at: {"loop", "next", "listen"}, try: 0..Len(Rates)]
      /\ thread'.at = "next" => thread'.try \in 1..Len(Rates)
      /\ thread'.at = "listen" => controller'.on
  <2>1. CASE BeginAutodetect \/ EndAutodetect
    <3>1. /\ controller' = controller /\ detecting' \in {FALSE, detecting}
          /\ thread' \in {[at |-> "next", try |-> 1], [at |-> "loop", try |-> 0]}
      BY <2>1 DEF BeginAutodetect, EndAutodetect
    <3>2. /\ controller \in [on: BOOLEAN, quiet: BOOLEAN, rate: Nat]
          /\ detecting' \in BOOLEAN
      BY <3>1 DEF CanbusInv, CanbusTypes
    <3>3. 1 \in 1..Len(Rates) /\ 0 \in 0..Len(Rates) /\ 1 \in 0..Len(Rates)
      BY <1>2
    <3>4. /\ thread' \in [at: {"loop", "next", "listen"}, try: 0..Len(Rates)]
          /\ thread'.at = "next" => thread'.try \in 1..Len(Rates)
          /\ thread'.at # "listen"
      BY <3>1, <3>3
    <3> QED BY <3>1, <3>2, <3>4
  <2>2. CASE TestBitrate
    <3>1. thread.at = "next" /\ thread.try \in 1..Len(Rates) /\ detecting' = detecting
      BY <2>2 DEF TestBitrate, CanbusInv, ControllerSettled
    <3>2. CASE /\ controller' = [on |-> TRUE, quiet |-> ProbesQuietly, rate |-> Rates[thread.try]]
               /\ thread' = [thread EXCEPT !.at = "listen"]
      <4>1. Rates[thread.try] \in Nat
        BY <3>1, RateFacts
      <4>2. thread' = [at |-> "listen", try |-> thread.try]
        BY <3>2, <1>3
      <4> QED BY <3>1, <3>2, <4>1, <4>2 DEF ProbesQuietly, CanbusInv, CanbusTypes
    <3>3. CASE thread' = TryNext /\ UNCHANGED controller
      BY <1>2, <1>6, <3>1, <3>3 DEF CanbusInv, CanbusTypes
    <3> QED BY <2>2, <3>2, <3>3 DEF TestBitrate
  <2>3. CASE TestFails
    <3>1. controller' = OffController /\ thread' = TryNext /\ detecting' = detecting
      BY <2>3 DEF TestFails
    <3> QED BY <1>2, <1>6, <3>1 DEF OffController, CanbusInv, CanbusTypes
  <2> QED BY <2>1, <2>2, <2>3
<1>8. CanbusTypes'
  BY <1>1, <1>7, ThreadStepKeepsTypes DEF Places, CanbusInv, CanbusTypes
<1>9. ControllerSettled'
  BY <1>1, <1>4, <1>5, <1>7 DEF CanbusInv, ControllerSettled, OffTheWire, Looking
<1> QED BY <1>1, <1>5, <1>8, <1>9, ThreadStepKeepsHandlers DEF CanbusInv

(* The bitrate is found: the controller stays at it and takes part.        *)
LEMMA FoundPreserves ==
  ASSUME CanbusInv, TestSucceeds \/ AutoDetectBitrate
  PROVE  CanbusInv'
<1>1. UNCHANGED <<service, busPhase, ready, detecting, entries, rxFrames, refusedFilters, epoch>>
  BY DEF TestSucceeds, AutoDetectBitrate
<1>2. /\ thread \in [at: Places, try: 0..Len(Rates)]
      /\ controller \in [on: BOOLEAN, quiet: BOOLEAN, rate: Nat]
      /\ detected \in BOOLEAN /\ detecting \in BOOLEAN
  BY DEF CanbusInv, CanbusTypes
<1>3. CASE TestSucceeds
  <2>1. /\ thread.at = "listen" /\ controller.rate = BusRate /\ detected' = detected
        /\ controller' = [controller EXCEPT !.quiet = FALSE]
        /\ thread' = [thread EXCEPT !.at = "found"]
    BY <1>3 DEF TestSucceeds, Hears, AfterProbe
  <2>2. controller' = [on |-> controller.on, quiet |-> FALSE, rate |-> BusRate]
    BY <1>2, <2>1
  <2>3. thread' = [at |-> "found", try |-> thread.try]
    BY <1>2, <2>1
  <2>4. ~detected /\ service # "stopped" /\ controller.on
    BY <2>1 DEF CanbusInv, ControllerSettled, Looking, NoThread
  <2>5. CanbusTypes'
    BY <1>1, <1>2, <2>1, <2>2, <2>3, RateFacts, ThreadStepKeepsTypes DEF Places
  <2>6. ControllerSettled'
    BY <1>1, <2>1, <2>2, <2>3, <2>4 DEF ControllerSettled, OffTheWire, Looking
  <2> QED BY <1>1, <2>1, <2>4, <2>5, <2>6, ThreadStepKeepsHandlers DEF CanbusInv
<1>4. CASE AutoDetectBitrate
  <2>1. /\ thread.at = "found" /\ detected' = TRUE /\ controller' = controller
        /\ thread' = [thread EXCEPT !.at = "install"]
    BY <1>4 DEF AutoDetectBitrate
  <2>2. thread' = [at |-> "install", try |-> thread.try]
    BY <1>2, <2>1
  <2>3. CanbusTypes'
    BY <1>1, <1>2, <2>1, <2>2, ThreadStepKeepsTypes DEF Places
  <2>4. ControllerSettled'
    BY <1>1, <2>1, <2>2 DEF CanbusInv, ControllerSettled, OffTheWire, Looking, NoThread
  <2> QED BY <1>1, <2>1, <2>2, <2>3, <2>4, ThreadStepKeepsHandlers DEF CanbusInv
<1> QED BY <1>3, <1>4

(* The filters that had to wait are installed, or refused by the driver.   *)
LEMMA InstallPreserves ==
  ASSUME CanbusInv, InstallDeferredFilters
  PROVE  CanbusInv'
<1>1. /\ thread.at = "install"
      /\ UNCHANGED <<service, busPhase, ready, rate, detected, detecting, controller, rxFrames, epoch>>
      /\ thread' = [thread EXCEPT !.at = "report"]
  BY DEF InstallDeferredFilters
<1>2. PICK no \in SUBSET (DOMAIN entries \ Installed):
        /\ entries' = [f \in DOMAIN entries |-> [entries[f] EXCEPT !.installed = f \notin no]]
        /\ refusedFilters' = refusedFilters \cup no
  BY DEF InstallDeferredFilters
<1>3. DOMAIN entries' = DOMAIN entries
  BY <1>2
<1>4. \A f \in DOMAIN entries: entries'[f] \in Entry /\ entries'[f].installed = (f \notin no)
  <2> SUFFICES ASSUME NEW f \in DOMAIN entries
               PROVE  entries'[f] \in Entry /\ entries'[f].installed = (f \notin no)
    OBVIOUS
  <2>1. entries[f] \in Entry
    BY DEF CanbusInv, CanbusTypes
  <2>2. entries'[f] = [entries[f] EXCEPT !.installed = f \notin no]
    BY <1>2
  <2>3. entries'[f] = [handlers |-> entries[f].handlers, installed |-> f \notin no]
    BY <2>1, <2>2 DEF Entry
  <2>4. entries[f].handlers \in SUBSET Handlers /\ (f \notin no) \in BOOLEAN
    BY <2>1 DEF Entry
  <2>5. entries'[f] \in Entry
    BY <2>3, <2>4 DEF Entry
  <2> QED BY <2>3, <2>5
<1>5. thread' = [at |-> "report", try |-> thread.try]
  BY <1>1 DEF CanbusInv, CanbusTypes
<1>6. CanbusTypes'
  <2>1. thread' \in [at: Places, try: 0..Len(Rates)]
    BY <1>5 DEF CanbusInv, CanbusTypes, Places
  <2> QED BY <1>1, <1>3, <1>4, <2>1 DEF CanbusInv, CanbusTypes
<1>7. ControllerSettled'
  BY <1>1, <1>5 DEF CanbusInv, ControllerSettled, OffTheWire, Looking, NoThread
<1>8. EntriesSettled'
  <2>1. busPhase' # "up" => DOMAIN entries' = {}
    BY <1>1, <1>3 DEF CanbusInv, EntriesSettled
  <2> QED BY <1>2, <1>3, <1>4, <2>1 DEF EntriesSettled, Installed
<1> QED BY <1>1, <1>3, <1>6, <1>7, <1>8 DEF CanbusInv, FiltersDisjoint, FramesAreCurrent

(* The detection reports, or the thread ends. *)
LEMMA ThreadEndPreserves ==
  ASSUME CanbusInv, ReportBitrate \/ ThreadEnds
  PROVE  CanbusInv'
<1>1. /\ UNCHANGED <<service, busPhase, ready, rate, detected, controller, entries, rxFrames,
                     refusedFilters, epoch>>
      /\ thread.at \in {"report", "loop"} /\ detecting' \in {FALSE, detecting}
      /\ thread' \in {[at |-> "loop", try |-> 0], NoThread}
  BY DEF ReportBitrate, ThreadEnds
<1>2. thread'.at \in {"loop", "none"} /\ thread' \in [at: Places, try: 0..Len(Rates)]
  BY <1>1, RateFacts DEF NoThread, Places
<1>3. CanbusTypes'
  BY <1>1, <1>2, ThreadStepKeepsTypes DEF CanbusInv, CanbusTypes
<1>4. ControllerSettled'
  BY <1>1, <1>2 DEF CanbusInv, ControllerSettled, OffTheWire, Looking, NoThread
<1> QED BY <1>1, <1>2, <1>3, <1>4, ThreadStepKeepsHandlers DEF CanbusInv

-----------------------------------------------------------------------------
(* The reconfiguration *)

(* The consumers stop and drop their handlers. *)
LEMMA StopConsumersPreserves == CanbusInv /\ StopConsumers => CanbusInv'
<1> SUFFICES ASSUME CanbusInv, StopConsumers PROVE CanbusInv'
  OBVIOUS
<1>1. /\ busPhase' = "stop" /\ DOMAIN entries' = {}
      /\ UNCHANGED <<service, ready, rate, detected, detecting, controller, rxFrames, thread, epoch>>
  BY DEF StopConsumers
<1>2. CanbusTypes'
  BY <1>1 DEF CanbusInv, CanbusTypes
<1>3. ControllerSettled'
  BY <1>1 DEF CanbusInv, ControllerSettled, OffTheWire, Looking
<1>4. EntriesSettled' /\ FiltersDisjoint' /\ FramesAreCurrent'
  BY <1>1 DEF CanbusInv, EntriesSettled, FiltersDisjoint, FramesAreCurrent
<1> QED BY <1>2, <1>3, <1>4 DEF CanbusInv

(* The wrapper is told to stop, or is stopped already. *)
LEMMA BeginStopPreserves ==
  ASSUME CanbusInv, BeginStop \/ AlreadyStopped
  PROVE  CanbusInv'
<1>1. /\ busPhase = "stop"
      /\ UNCHANGED <<ready, rate, detected, controller, entries, rxFrames, thread, refusedFilters,
                     epoch>>
  BY DEF BeginStop, AlreadyStopped
<1>2. /\ service' \in {service, "stopping"} /\ detecting' \in {FALSE, detecting}
      /\ busPhase' \in {busPhase, "configure"}
  BY DEF BeginStop, AlreadyStopped
<1>3. CanbusTypes'
  BY <1>1, <1>2 DEF CanbusInv, CanbusTypes
<1>4. ControllerSettled'
  BY <1>1, <1>2 DEF CanbusInv, ControllerSettled, OffTheWire, Looking
<1>5. EntriesSettled' /\ FiltersDisjoint' /\ FramesAreCurrent'
  BY <1>1, <1>2 DEF CanbusInv, EntriesSettled, Installed, FiltersDisjoint, FramesAreCurrent
<1> QED BY <1>3, <1>4, <1>5 DEF CanbusInv

(* DoStop() forgets the handlers, the bitrate and the frames. *)
LEMMA DoStopPreserves == CanbusInv /\ DoStop => CanbusInv'
<1> SUFFICES ASSUME CanbusInv, DoStop PROVE CanbusInv'
  OBVIOUS
<1>1. /\ service' = "stopped" /\ busPhase' = "configure" /\ controller' = OffController
      /\ DOMAIN entries' = {} /\ rxFrames' = <<>> /\ ready' = FALSE /\ detected' = FALSE
      /\ epoch' = 1 - epoch /\ thread = NoThread /\ thread' = thread /\ detecting' = detecting
  BY DEF DoStop, Purged
<1>2. CanbusTypes'
  <2>1. controller' \in [on: BOOLEAN, quiet: BOOLEAN, rate: Nat]
    BY <1>1 DEF OffController
  <2>2. epoch' \in {0, 1}
    BY <1>1 DEF CanbusInv, CanbusTypes
  <2>3. rxFrames' \in Seq([id: FrameIds, epoch: {0, 1}])
    BY <1>1
  <2> QED BY <1>1, <2>1, <2>2, <2>3 DEF CanbusInv, CanbusTypes
<1>3. ControllerSettled'
  BY <1>1 DEF ControllerSettled, OffTheWire, Looking, OffController, NoThread
<1>4. EntriesSettled' /\ FiltersDisjoint' /\ FramesAreCurrent'
  BY <1>1 DEF EntriesSettled, FiltersDisjoint, FramesAreCurrent
<1> QED BY <1>2, <1>3, <1>4 DEF CanbusInv

(* A new configuration: the bitrate of the bus, or none, or it fails. *)
LEMMA ConfigurePreserves ==
  ASSUME CanbusInv, NEW to \in {0, BusRate}, Configure0(to)
  PROVE  CanbusInv'
<1>1. /\ busPhase = "configure" /\ service = "stopped"
      /\ UNCHANGED <<service, entries, rxFrames, thread, refusedFilters, epoch>>
      /\ busPhase' \in {"start", "up"}
  BY DEF Configure0
<1>2. thread.at = "none" /\ DOMAIN entries = {}
  BY <1>1 DEF CanbusInv, ControllerSettled, EntriesSettled, NoThread
<1>3. /\ ready' \in BOOLEAN /\ detected' \in BOOLEAN /\ detecting' \in BOOLEAN
      /\ controller' \in [on: BOOLEAN, quiet: BOOLEAN, rate: Nat]
      /\ detected' => controller'.on /\ ~controller'.quiet
      /\ OffTheWire'
  <2>1. CASE UNCHANGED <<ready, rate, detected, detecting, controller>>
    BY <2>1 DEF CanbusInv, CanbusTypes, ControllerSettled, OffTheWire
  <2>2. CASE to = 0 /\ ready' = TRUE /\ detected' = FALSE /\ detecting' = TRUE /\ controller' = OffController
    BY <2>2 DEF OffController, OffTheWire
  <2>3. CASE /\ to = BusRate /\ ready' = TRUE /\ detected' = TRUE /\ detecting' = FALSE
             /\ controller' = [on |-> TRUE, quiet |-> FALSE, rate |-> BusRate]
    BY <2>3, RateFacts DEF OffTheWire
  <2>4. BusRate # 0
    BY RateFacts
  <2> QED BY <2>1, <2>2, <2>3, <2>4 DEF Configure0
<1>4. CanbusTypes'
  BY <1>1, <1>3 DEF CanbusInv, CanbusTypes
<1>5. ControllerSettled'
  BY <1>1, <1>2, <1>3 DEF CanbusInv, ControllerSettled, Looking
<1>6. EntriesSettled' /\ FiltersDisjoint' /\ FramesAreCurrent'
  BY <1>1, <1>2 DEF CanbusInv, EntriesSettled, FiltersDisjoint, FramesAreCurrent
<1> QED BY <1>4, <1>5, <1>6 DEF CanbusInv

(* The wrapper starts, with nobody registered. *)
LEMMA DoStartPreserves == CanbusInv /\ DoStart => CanbusInv'
<1> SUFFICES ASSUME CanbusInv, DoStart PROVE CanbusInv'
  OBVIOUS
<1>1. /\ busPhase = "start" /\ service' = "running" /\ busPhase' = "up"
      /\ thread' = [at |-> "loop", try |-> 0]
      /\ UNCHANGED <<ready, rate, detected, detecting, controller, entries, rxFrames,
                     refusedFilters, epoch>>
  BY DEF DoStart
<1>2. DOMAIN entries = {}
  BY <1>1 DEF CanbusInv, EntriesSettled
<1>3. CanbusTypes'
  <2>1. thread' \in [at: Places, try: 0..Len(Rates)]
    BY <1>1, RateFacts DEF Places
  <2> QED BY <1>1, <2>1 DEF CanbusInv, CanbusTypes
<1>4. ControllerSettled'
  BY <1>1 DEF CanbusInv, ControllerSettled, OffTheWire, Looking
<1>5. EntriesSettled' /\ FiltersDisjoint' /\ FramesAreCurrent'
  BY <1>1, <1>2 DEF CanbusInv, EntriesSettled, FiltersDisjoint, FramesAreCurrent
<1> QED BY <1>3, <1>4, <1>5 DEF CanbusInv

-----------------------------------------------------------------------------
(* Every step of the wrapper, its thread and the reconfiguration keeps the *)
(* invariant.                                                              *)
LEMMA CanbusStep == CanbusInv /\ [CanbusNext]_busVars => CanbusInv'
<1> SUFFICES ASSUME CanbusInv, [CanbusNext]_busVars PROVE CanbusInv'
  OBVIOUS
<1>1. CASE UNCHANGED busVars
  BY <1>1 DEF busVars, CanbusInv, CanbusTypes, ControllerSettled, OffTheWire, Looking,
              EntriesSettled, Installed, FiltersDisjoint, FramesAreCurrent
<1>2. CASE \E h \in Handlers: RegisterFrameReceivedHandler(h) \/ RemoveFrameReceivedHandler(h)
  BY <1>2, RegisterPreserves, RemovePreserves
<1>3. CASE (\E id \in FrameIds: CanFrameReceivedCallback(id)) \/ ProcessFramesTask
  BY <1>3, FramesPreserve
<1>4. CASE BeginAutodetect \/ EndAutodetect \/ TestBitrate \/ TestFails
  BY <1>4, DetectionPreserves
<1>5. CASE TestSucceeds \/ AutoDetectBitrate
  BY <1>5, FoundPreserves
<1>6. CASE InstallDeferredFilters
  BY <1>6, InstallPreserves
<1>7. CASE ReportBitrate \/ ThreadEnds
  BY <1>7, ThreadEndPreserves
<1>8. CASE StopConsumers \/ DoStop \/ DoStart
  BY <1>8, StopConsumersPreserves, DoStopPreserves, DoStartPreserves
<1>9. CASE BeginStop \/ AlreadyStopped
  BY <1>9, BeginStopPreserves
<1>10. CASE \E to \in {0, BusRate}: Configure0(to)
  BY <1>10, ConfigurePreserves
<1> QED BY <1>1, <1>2, <1>3, <1>4, <1>5, <1>6, <1>7, <1>8, <1>9, <1>10 DEF CanbusNext

(* However registrations, the detection of the bitrate, frames and         *)
(* reconfigurations interleave, the wrapper keeps its promises             *)
(* (Canbus::Initialize, AutoDetectBitrate, RegisterFrameReceivedHandler,   *)
(* InstallDeferredFilters, DoStop).                                        *)
THEOREM CanbusIsSafe == CanbusSpec => []CanbusSafe
<1>1. CanbusInit => CanbusInv
  BY CanbusInitially
<1>2. CanbusInv /\ [CanbusNext]_busVars => CanbusInv'
  BY CanbusStep
<1>3. CanbusInv => CanbusSafe
  BY CanbusInvSafe
<1> QED BY <1>1, <1>2, <1>3, PTL DEF CanbusSpec

-----------------------------------------------------------------------------
(* The clock *)

Moments == 0..ClockWrap - 1

(* A moment n milliseconds later, in the clock's range or once around. *)
LEMMA LaterIs ==
  ASSUME NEW x \in Moments, NEW n \in 0..ClockWrap
  PROVE  /\ Later(x, n) \in Moments
         /\ Later(x, n) = IF x + n < ClockWrap THEN x + n ELSE x + n - ClockWrap
<1>1. ClockWrap \in Nat \ {0} /\ x \in Nat /\ n \in Nat /\ x < ClockWrap /\ n <= ClockWrap
  BY ConfirmationAssumption DEF Moments
<1> DEFINE y == x + n
<1>2. CASE y < ClockWrap
  <2>1. y \in 0..ClockWrap - 1 /\ y = ClockWrap * 0 + y /\ y \in Int
    BY <1>1, <1>2
  <2> HIDE DEF y
  <2>2. y % ClockWrap = y
    BY <1>1, <2>1, RemainderUnique
  <2> QED BY <1>2, <2>1, <2>2 DEF Later, Moments, y
<1>3. CASE ~(y < ClockWrap)
  <2> DEFINE r == y - ClockWrap
  <2>1. r \in 0..ClockWrap - 1 /\ y = ClockWrap * 1 + r /\ y \in Int
    BY <1>1, <1>3
  <2> HIDE DEF y, r
  <2>2. y % ClockWrap = r
    BY <1>1, <2>1, RemainderUnique
  <2>3. Later(x, n) = r
    BY <2>2 DEF Later, y
  <2>4. r = x + n - ClockWrap /\ ~(x + n < ClockWrap)
    BY <1>1, <1>3 DEF y, r
  <2> QED BY <2>1, <2>3, <2>4 DEF Moments
<1> QED BY <1>2, <1>3

(* Delays add up. *)
LEMMA LaterAdds ==
  ASSUME NEW x \in Moments, NEW m \in Nat, NEW n \in Nat, m + n <= ClockWrap
  PROVE  Later(Later(x, m), n) = Later(x, m + n)
<1>1. ClockWrap \in Nat \ {0} /\ x \in Nat /\ x < ClockWrap
  BY ConfirmationAssumption DEF Moments
<1> DEFINE k == m + n
           y == Later(x, m)
<1>2. m \in 0..ClockWrap /\ n \in 0..ClockWrap /\ k \in 0..ClockWrap
  BY <1>1
<1>3. y \in Moments /\ y = IF x + m < ClockWrap THEN x + m ELSE x + m - ClockWrap
  BY <1>2, LaterIs
<1> HIDE DEF k, y
<1>4. Later(x, k) = IF x + k < ClockWrap THEN x + k ELSE x + k - ClockWrap
  BY <1>2, LaterIs
<1>5. Later(y, n) = IF y + n < ClockWrap THEN y + n ELSE y + n - ClockWrap
  BY <1>2, <1>3, LaterIs
<1>6. k = m + n /\ y \in Nat /\ y < ClockWrap
  BY <1>1, <1>3 DEF k, Moments
<1>7. Later(y, n) = Later(x, k)
  BY <1>1, <1>3, <1>4, <1>5, <1>6
<1> QED BY <1>7 DEF k, y

(* A moment that is up to half of the clock's range ahead is not reached. *)
LEMMA NotYetReached ==
  ASSUME NEW now \in Moments, NEW d \in Nat, 1 <= d, 2 * d <= ClockWrap
  PROVE  ~IsReached(now, Later(now, d))
<1>1. ClockWrap \in Nat \ {0} /\ now \in Nat /\ now < ClockWrap /\ d \in 0..ClockWrap
  BY ConfirmationAssumption DEF Moments
<1> DEFINE at == Later(now, d)
           r == ClockWrap - d
           x == now - at
<1>2. at \in Moments /\ at = IF now + d < ClockWrap THEN now + d ELSE now + d - ClockWrap
  BY <1>1, LaterIs
<1>3. at \in Nat
  BY <1>1, <1>2 DEF Moments
<1> HIDE DEF at
<1>4. r \in 0..ClockWrap - 1 /\ x \in Int /\ (x = r \/ x = -d)
  BY <1>1, <1>2, <1>3
<1>5. x % ClockWrap = r
  <2>1. CASE x = r
    <3>1. x = ClockWrap * 0 + r
      BY <1>1, <1>4, <2>1
    <3> HIDE DEF x, r
    <3> QED BY <1>1, <1>4, <3>1, RemainderUnique
  <2>2. CASE x = -d
    <3>1. x = ClockWrap * (-1) + r
      BY <1>1, <2>2
    <3> HIDE DEF x, r
    <3> QED BY <1>1, <1>4, <3>1, RemainderUnique
  <2> QED BY <1>4, <2>1, <2>2
<1>6. ~(r < ClockWrap \div 2)
  BY <1>1
<1> QED BY <1>5, <1>6 DEF IsReached, at

-----------------------------------------------------------------------------
(* Confirmation *)

Probe == [known: BOOLEAN, armed: BOOLEAN, at: Moments, ran: BOOLEAN, proven: BOOLEAN]

States == {"off", "VERIFYING", "CONFIRMING", "CONFIRMED", "FAILED"}

TickStates == [pc: {"idle", "deadline", "probes", "feed", "confirm"}, state: States,
               now: Moments, allRan: BOOLEAN]

ConfirmationTypes ==
  /\ dfuState \in States
  /\ clock \in Moments /\ scheduled \in BOOLEAN /\ tickIn \in Int /\ -MaxLate <= tickIn
  /\ probe \in [Probes -> Probe]
  /\ tick \in TickStates
  /\ report \in [pc: {"idle", "exchange", "done"}, now: Moments]

AllProven == \A p \in Known: probe[p].proven

(* Before Initialize() nothing runs, and an image is being confirmed only  *)
(* once its boot was reported.                                             *)
Progress ==
  /\ dfuState = "off" => report.pc = "idle" /\ tick.pc = "idle"
  /\ dfuState = "CONFIRMING" => report.pc = "done"

(* A report that is about to exchange the state, within the deadline: the  *)
(* delay it has set is not over.                                           *)
ReportInTime ==
  report.pc = "exchange" /\ ~IsReached(report.now, deadline) =>
    /\ confirmAt = Later(report.now, ConfirmDelay)
    /\ \E left \in 1..ConfirmDelay: confirmAt = Later(clock, left)

(* The time a tick goes by is not older than the tick is late. *)
TickInTime ==
  tick.pc # "idle" =>
    /\ scheduled /\ tickIn \in -MaxLate..0
    /\ \E age \in 0..-tickIn: clock = Later(tick.now, age)

(* What a tick that gets as far as the confirmation has seen. *)
TickHasSeen ==
  /\ tick.pc = "feed" /\ dfuState = "CONFIRMING" /\ tick.allRan /\ IsReached(tick.now, confirmAt)
       => AllProven
  /\ tick.pc = "confirm" => dfuState = "CONFIRMING" /\ AllProven

ConfirmationInv == ConfirmationTypes /\ Progress /\ ReportInTime /\ TickInTime /\ TickHasSeen

(* The bounds as numbers. *)
LEMMA Bounds ==
  /\ ClockWrap \in Nat \ {0} /\ ConfirmDelay \in Nat \ {0} /\ MaxLate \in Nat
  /\ 2 * (ConfirmDelay + MaxLate) <= ClockWrap
  /\ ConfirmDelay < ClockWrap /\ 0 \in Moments
  /\ BootDeadline \in 0..ClockWrap /\ ConfirmDelay \in 0..ClockWrap /\ 1 \in 0..ClockWrap
BY ConfirmationAssumption DEF Moments

(* Later() by nothing. *)
LEMMA LaterByNothing == \A x \in Moments: Later(x, 0) = x
<1> SUFFICES ASSUME NEW x \in Moments PROVE Later(x, 0) = x
  OBVIOUS
<1>1. 0 \in 0..ClockWrap /\ x + 0 < ClockWrap /\ x + 0 = x
  BY Bounds DEF Moments
<1> QED BY <1>1, LaterIs

(* Before the first boot. *)
LEMMA ConfirmationStarts == ConfirmationInit => ConfirmationInv
<1> SUFFICES ASSUME ConfirmationInit PROVE ConfirmationInv
  OBVIOUS
<1>1. /\ dfuState = "off" /\ clock = 0 /\ tickIn = TickInterval /\ scheduled = FALSE
      /\ probe = [p \in Probes |-> NoProbe] /\ tick = NoTick /\ report = [pc |-> "idle", now |-> 0]
  BY DEF ConfirmationInit
<1>2. ConfirmationTypes
  <2>1. NoProbe \in Probe
    BY Bounds DEF NoProbe, Probe
  <2>2. NoTick \in TickStates
    BY Bounds DEF NoTick, TickStates, States
  <2>3. report \in [pc: {"idle", "exchange", "done"}, now: Moments]
    BY <1>1, Bounds
  <2>4. tickIn \in Int /\ -MaxLate <= tickIn
    BY <1>1, ConfirmationAssumption
  <2>5. dfuState \in States /\ clock \in Moments /\ scheduled \in BOOLEAN
    BY <1>1, Bounds DEF States
  <2> QED BY <1>1, <2>1, <2>2, <2>3, <2>4, <2>5 DEF ConfirmationTypes
<1>3. tick.pc = "idle" /\ report.pc = "idle"
  BY <1>1 DEF NoTick
<1> QED BY <1>1, <1>2, <1>3 DEF ConfirmationInv, Progress, ReportInTime, TickInTime, TickHasSeen

(* A tick that is over. *)
LEMMA TickIsOver ==
  ASSUME ConfirmationInv, NEW state, NEW armed, TickDone(state, armed),
         dfuState' \in States,
         dfuState # "off", dfuState' # "off", dfuState' = "CONFIRMING" => dfuState = "CONFIRMING",
         probe' \in [Probes -> Probe], UNCHANGED <<clock, deadline, confirmAt, report>>
  PROVE  ConfirmationInv'
<1>1. tick' = NoTick /\ scheduled' \in BOOLEAN /\ tickIn' \in Int /\ -MaxLate <= tickIn'
  BY ConfirmationAssumption DEF TickDone
<1>2. tick'.pc = "idle" /\ tick' \in TickStates
  BY <1>1, Bounds DEF NoTick, TickStates, States
<1>3. ConfirmationTypes'
  BY <1>1, <1>2, ConfirmationAssumption DEF ConfirmationInv, ConfirmationTypes
<1>4. Progress'
  BY DEF ConfirmationInv, Progress
<1>5. ReportInTime'
  BY DEF ConfirmationInv, ReportInTime
<1>6. TickInTime' /\ TickHasSeen'
  BY <1>2 DEF TickInTime, TickHasSeen
<1> QED BY <1>3, <1>4, <1>5, <1>6 DEF ConfirmationInv

(* Tick() up to the reading of the clock. *)
LEMMA TickStartOK ==
  ASSUME ConfirmationInv, NEW off \in BOOLEAN, TickStart(off)
  PROVE  ConfirmationInv'
<1>1. /\ dfuState # "off" /\ tick.pc = "idle" /\ scheduled /\ tickIn <= 0
      /\ UNCHANGED <<clock, deadline, confirmAt, probe, report>>
  BY DEF TickStart
<1>2. ConfirmationTypes /\ Progress /\ ReportInTime /\ TickInTime /\ TickHasSeen
  BY DEF ConfirmationInv
<1>3. probe' \in [Probes -> Probe]
  BY <1>1, <1>2 DEF ConfirmationTypes
<1>4. CASE dfuState = "CONFIRMED" \/ confirmed # "nobody"
  <2>1. dfuState' = "CONFIRMED" /\ TickDone("CONFIRMED", dogArmed')
    BY <1>4 DEF TickStart
  <2> QED BY <1>1, <1>3, <2>1, TickIsOver DEF States
<1>5. CASE ~(dfuState = "CONFIRMED" \/ confirmed # "nobody") /\ dfuState = "FAILED"
  <2>1. dfuState' = dfuState /\ TickDone("FAILED", dogArmed)
    BY <1>5 DEF TickStart
  <2> QED BY <1>1, <1>3, <1>5, <2>1, TickIsOver DEF States
<1>6. CASE ~(dfuState = "CONFIRMED" \/ confirmed # "nobody") /\ dfuState # "FAILED"
  <2>1. /\ dfuState' = dfuState /\ UNCHANGED <<scheduled, tickIn>>
        /\ tick' = [pc |-> IF DeadlineMissed THEN "deadline" ELSE "probes",
                    state |-> dfuState, now |-> clock, allRan |-> TRUE]
    BY <1>6 DEF TickStart
  <2>2. clock \in Moments /\ dfuState \in States /\ tickIn \in Int /\ -MaxLate <= tickIn
    BY <1>2 DEF ConfirmationTypes
  <2>3. tick' \in TickStates /\ tick'.pc \in {"deadline", "probes"} /\ tick'.now = clock
    BY <2>1, <2>2 DEF TickStates
  <2>4. ConfirmationTypes'
    BY <1>1, <1>2, <2>1, <2>3 DEF ConfirmationTypes
  <2>5. Progress' /\ ReportInTime'
    BY <1>1, <1>2, <2>1 DEF Progress, ReportInTime
  <2>6. TickHasSeen'
    BY <2>3 DEF TickHasSeen
  <2>7. TickInTime'
    <3>1. clock' = Later(tick'.now, 0)
      BY <1>1, <2>2, <2>3, LaterByNothing
    <3>2. 0 \in 0..-tickIn'
      BY <1>1, <2>1, <2>2
    <3>3. tickIn' \in -MaxLate..0
      BY <1>1, <2>1, <2>2, Bounds
    <3> QED BY <1>1, <2>1, <3>1, <3>2, <3>3 DEF TickInTime
  <2> QED BY <2>4, <2>5, <2>6, <2>7 DEF ConfirmationInv
<1> QED BY <1>4, <1>5, <1>6

(* The rest of Tick(): the deadline, the probes, the watchdog's food and   *)
(* the confirmation.                                                       *)
LEMMA TickGoesOn ==
  ASSUME ConfirmationInv,
         TickDeadline \/ TickProbes \/ TickFeed \/ \E done, off \in BOOLEAN: TickConfirm(done, off)
  PROVE  ConfirmationInv'
<1>1. ConfirmationTypes /\ Progress /\ ReportInTime /\ TickInTime /\ TickHasSeen
  BY DEF ConfirmationInv
<1>2. tick.pc # "idle" /\ dfuState # "off" /\ UNCHANGED <<clock, deadline, confirmAt, report>>
  BY <1>1 DEF TickDeadline, TickProbes, TickFeed, TickConfirm, Progress
<1>3. probe \in [Probes -> Probe] /\ dfuState \in States /\ tick \in TickStates
  BY <1>1 DEF ConfirmationTypes
<1>4. ASSUME dfuState' = dfuState, UNCHANGED <<scheduled, tickIn>>, tick' \in TickStates,
             tick'.now = tick.now, tick'.pc # "idle", probe' \in [Probes -> Probe], TickHasSeen'
      PROVE  ConfirmationInv'
  <2>1. ConfirmationTypes'
    BY <1>1, <1>2, <1>4 DEF ConfirmationTypes
  <2>2. Progress' /\ ReportInTime'
    BY <1>1, <1>2, <1>4 DEF Progress, ReportInTime
  <2>3. TickInTime'
    BY <1>1, <1>2, <1>4 DEF TickInTime
  <2> QED BY <1>4, <2>1, <2>2, <2>3 DEF ConfirmationInv
<1>5. CASE TickDeadline
  <2>1. UNCHANGED probe /\ dfuState' = IF dfuState = "VERIFYING" THEN "FAILED" ELSE dfuState
    BY <1>5 DEF TickDeadline, Exchange
  <2>2. CASE dfuState \in {"VERIFYING", "FAILED"}
    <3>1. TickDone("FAILED", dogArmed) /\ dfuState' = "FAILED"
      BY <1>5, <2>1, <2>2 DEF TickDeadline
    <3> QED BY <1>2, <1>3, <2>1, <3>1, TickIsOver DEF States
  <2>3. CASE dfuState \notin {"VERIFYING", "FAILED"}
    <3>1. /\ tick' = [tick EXCEPT !.pc = "probes"] /\ UNCHANGED <<scheduled, tickIn>>
          /\ dfuState' = dfuState
      BY <1>5, <2>1, <2>3 DEF TickDeadline
    <3>2. tick' \in TickStates /\ tick'.now = tick.now /\ tick'.pc = "probes"
      BY <1>3, <3>1 DEF TickStates
    <3>3. TickHasSeen'
      BY <3>2 DEF TickHasSeen
    <3> QED BY <1>3, <1>4, <2>1, <3>1, <3>2, <3>3
  <2> QED BY <2>2, <2>3
<1>6. CASE TickProbes
  <2>1. CASE dfuState # "CONFIRMING"
    <3>1. tick' = [tick EXCEPT !.pc = "feed"] /\ UNCHANGED <<dfuState, probe, scheduled, tickIn>>
      BY <1>6, <2>1 DEF TickProbes
    <3>2. tick' \in TickStates /\ tick'.now = tick.now /\ tick'.pc = "feed"
      BY <1>3, <3>1 DEF TickStates
    <3>3. TickHasSeen'
      BY <2>1, <3>1, <3>2 DEF TickHasSeen
    <3> QED BY <1>3, <1>4, <3>1, <3>2, <3>3
  <2>2. CASE dfuState = "CONFIRMING"
    <3> DEFINE late == {p \in Known: Waits(p) /\ Age(p) >= WatchdogTimeout \div 2}
               Rearmed(p) == IF p \notin Known THEN probe[p]
                             ELSE IF Waits(p) THEN [probe[p] EXCEPT !.proven = FALSE]
                             ELSE [probe[p] EXCEPT !.armed = TRUE, !.at = tick.now, !.ran = FALSE,
                                                   !.proven = probe[p].armed]
    <3>1. /\ probe' = [p \in Probes |-> Rearmed(p)]
          /\ IF late # {} THEN dfuState' = "FAILED" /\ TickDone("FAILED", dogArmed)
             ELSE /\ tick' = [tick EXCEPT !.pc = "feed", !.allRan = AllRan]
                  /\ UNCHANGED <<dfuState, scheduled, tickIn>>
      BY <1>6, <2>2 DEF TickProbes
    <3>2. \A p \in Probes: /\ Rearmed(p) \in Probe /\ Rearmed(p).known = probe[p].known
                           /\ probe[p].known /\ probe[p].armed /\ probe[p].ran => Rearmed(p).proven
      <4> SUFFICES ASSUME NEW p \in Probes
                   PROVE  /\ Rearmed(p) \in Probe /\ Rearmed(p).known = probe[p].known
                          /\ probe[p].known /\ probe[p].armed /\ probe[p].ran => Rearmed(p).proven
        OBVIOUS
      <4>1. probe[p] \in Probe /\ tick.now \in Moments
        BY <1>3 DEF TickStates
      <4>2. CASE p \notin Known
        BY <4>1, <4>2 DEF Known
      <4>3. CASE p \in Known /\ Waits(p)
        BY <4>1, <4>3 DEF Waits, Probe
      <4>4. CASE p \in Known /\ ~Waits(p)
        BY <4>1, <4>4 DEF Waits, Probe
      <4> QED BY <4>2, <4>3, <4>4
    <3> HIDE DEF Rearmed
    <3>3. probe' \in [Probes -> Probe]
      BY <3>1, <3>2
    <3>4. CASE late # {}
      BY <1>2, <3>1, <3>3, <3>4, TickIsOver DEF States
    <3>5. CASE late = {}
      <4>1. tick' = [tick EXCEPT !.pc = "feed", !.allRan = AllRan] /\ UNCHANGED <<dfuState, scheduled, tickIn>>
        BY <3>1, <3>5
      <4>2. AllRan \in BOOLEAN
        BY DEF AllRan
      <4>3. /\ tick' \in TickStates /\ tick'.now = tick.now /\ tick'.pc = "feed"
            /\ tick'.allRan = AllRan
        BY <1>3, <4>1, <4>2 DEF TickStates
      <4>4. ASSUME AllRan PROVE AllProven'
        <5> SUFFICES ASSUME NEW p \in Probes, probe'[p].known PROVE probe'[p].proven
          BY DEF AllProven, Known
        <5>1. probe'[p] = Rearmed(p)
          BY <3>1
        <5>2. probe[p].known
          BY <3>2, <5>1
        <5>3. probe[p].armed /\ probe[p].ran
          BY <4>4, <5>2 DEF AllRan, Known
        <5> QED BY <3>2, <5>1, <5>2, <5>3
      <4>5. TickHasSeen'
        BY <4>3, <4>4 DEF TickHasSeen
      <4> QED BY <1>4, <3>3, <4>1, <4>3, <4>5
    <3> QED BY <3>4, <3>5
  <2> QED BY <2>1, <2>2
<1>7. CASE TickFeed
  <2>1. UNCHANGED <<dfuState, probe>> /\ tick.pc = "feed"
    BY <1>7 DEF TickFeed
  <2>2. CASE dfuState = "CONFIRMING" /\ IsReached(tick.now, confirmAt) /\ tick.allRan
    <3>1. tick' = [tick EXCEPT !.pc = "confirm"] /\ UNCHANGED <<scheduled, tickIn>>
      BY <1>7, <2>2 DEF TickFeed
    <3>2. tick' \in TickStates /\ tick'.now = tick.now /\ tick'.pc = "confirm"
      BY <1>3, <3>1 DEF TickStates
    <3>3. AllProven
      BY <1>1, <2>1, <2>2 DEF TickHasSeen
    <3>4. TickHasSeen'
      BY <2>1, <2>2, <3>2, <3>3 DEF TickHasSeen, AllProven, Known
    <3> QED BY <1>3, <1>4, <2>1, <3>1, <3>2, <3>4
  <2>3. CASE ~(dfuState = "CONFIRMING" /\ IsReached(tick.now, confirmAt) /\ tick.allRan)
    <3>1. TickDone(dfuState, dogArmed)
      BY <1>7, <2>3 DEF TickFeed
    <3> QED BY <1>2, <1>3, <2>1, <3>1, TickIsOver
  <2> QED BY <2>2, <2>3
<1>8. ASSUME NEW done \in BOOLEAN, NEW off \in BOOLEAN, TickConfirm(done, off) PROVE ConfirmationInv'
  <2>1. UNCHANGED probe
    BY <1>8 DEF TickConfirm
  <2>2. CASE done
    <3>1. dfuState' = "CONFIRMED" /\ TickDone("CONFIRMED", dogArmed')
      BY <1>8, <2>2 DEF TickConfirm
    <3> QED BY <1>2, <1>3, <2>1, <3>1, TickIsOver DEF States
  <2>3. CASE ~done
    <3>1. dfuState' = dfuState /\ TickDone(dfuState, dogArmed)
      BY <1>8, <2>3 DEF TickConfirm
    <3> QED BY <1>2, <1>3, <2>1, <3>1, TickIsOver
  <2> QED BY <2>2, <2>3
<1> QED BY <1>5, <1>6, <1>7, <1>8

(* ReportBootComplete(): a tick that went past the probes before the       *)
(* exchange, with the time it has read, does not find the delay over.      *)
LEMMA ReportOK ==
  ASSUME ConfirmationInv, ReportBootComplete \/ ReportExchange
  PROVE  ConfirmationInv'
<1>1. ConfirmationTypes /\ Progress /\ ReportInTime /\ TickInTime /\ TickHasSeen
  BY DEF ConfirmationInv
<1>2. UNCHANGED <<clock, deadline, probe, tick, scheduled, tickIn>>
  BY DEF ReportBootComplete, ReportExchange
<1>3. clock \in Moments /\ report \in [pc: {"idle", "exchange", "done"}, now: Moments] /\ tick \in TickStates
  BY <1>1 DEF ConfirmationTypes
<1>4. TickInTime'
  BY <1>1, <1>2 DEF TickInTime
<1>5. CASE ReportBootComplete
  <2>1. /\ dfuState # "off" /\ report.pc = "idle" /\ dfuState' = dfuState
        /\ report' = [pc |-> IF dfuState = "VERIFYING" THEN "exchange" ELSE "done", now |-> clock]
        /\ confirmAt' = IF dfuState = "VERIFYING" /\ ~IsReached(clock, deadline)
                        THEN Later(clock, ConfirmDelay) ELSE confirmAt
    BY <1>5 DEF ReportBootComplete
  <2>2. /\ report' \in [pc: {"idle", "exchange", "done"}, now: Moments] /\ report'.now = clock
        /\ report'.pc = (IF dfuState = "VERIFYING" THEN "exchange" ELSE "done")
    BY <1>3, <2>1
  <2>3. ConfirmationTypes'
    BY <1>1, <1>2, <2>1, <2>2 DEF ConfirmationTypes
  <2>4. dfuState # "CONFIRMING"
    BY <1>1, <2>1 DEF Progress
  <2>5. Progress' /\ TickHasSeen'
    BY <1>1, <1>2, <2>1, <2>2, <2>4 DEF Progress, TickHasSeen
  <2>6. ReportInTime'
    <3> SUFFICES ASSUME report'.pc = "exchange", ~IsReached(report'.now, deadline')
                 PROVE  /\ confirmAt' = Later(report'.now, ConfirmDelay)
                        /\ \E left \in 1..ConfirmDelay: confirmAt' = Later(clock', left)
      BY DEF ReportInTime
    <3>1. confirmAt' = Later(clock, ConfirmDelay)
      BY <1>2, <2>1, <2>2
    <3>2. ConfirmDelay \in 1..ConfirmDelay
      BY Bounds
    <3> QED BY <1>2, <2>2, <3>1, <3>2
  <2> QED BY <1>4, <2>3, <2>5, <2>6 DEF ConfirmationInv
<1>6. CASE ReportExchange
  <2>1. /\ report.pc = "exchange" /\ report' = [report EXCEPT !.pc = "done"] /\ confirmAt' = confirmAt
        /\ dfuState' = IF dfuState = "VERIFYING"
                       THEN IF IsReached(report.now, deadline) THEN "FAILED" ELSE "CONFIRMING"
                       ELSE dfuState
    BY <1>6 DEF ReportExchange, Exchange
  <2>2. report' \in [pc: {"idle", "exchange", "done"}, now: Moments] /\ report'.pc = "done"
    BY <1>3, <2>1
  <2>3. ConfirmationTypes'
    BY <1>1, <1>2, <2>1, <2>2 DEF ConfirmationTypes, States
  <2>4. dfuState # "off" /\ dfuState # "CONFIRMING"
    BY <1>1, <2>1 DEF Progress
  <2>5. Progress' /\ ReportInTime'
    BY <2>1, <2>2, <2>4 DEF Progress, ReportInTime
  <2>6. tick.pc # "confirm"
    BY <1>1, <2>4 DEF TickHasSeen
  <2>7. ASSUME tick.pc = "feed", dfuState' = "CONFIRMING" PROVE ~IsReached(tick.now, confirmAt)
    <3>1. ~IsReached(report.now, deadline)
      BY <2>1, <2>4, <2>7
    <3>2. PICK left \in 1..ConfirmDelay: confirmAt = Later(clock, left)
      BY <1>1, <2>1, <3>1 DEF ReportInTime
    <3>3. tickIn \in -MaxLate..0
      BY <1>1, <2>7 DEF TickInTime
    <3>4. PICK age \in 0..-tickIn: clock = Later(tick.now, age)
      BY <1>1, <2>7 DEF TickInTime
    <3> DEFINE d == age + left
    <3>5. /\ age \in Nat /\ left \in Nat /\ d \in Nat /\ 1 <= d
          /\ d <= ConfirmDelay + MaxLate
      BY <3>2, <3>3, <3>4, Bounds
    <3>6. 2 * d <= ClockWrap /\ d <= ClockWrap
      BY <3>5, Bounds
    <3>7. tick.now \in Moments
      BY <1>3 DEF TickStates
    <3>8. confirmAt = Later(tick.now, d)
      BY <3>2, <3>4, <3>5, <3>6, <3>7, LaterAdds
    <3> HIDE DEF d
    <3> QED BY <3>5, <3>6, <3>7, <3>8, NotYetReached
  <2>8. TickHasSeen'
    BY <1>2, <2>1, <2>6, <2>7 DEF TickHasSeen
  <2> QED BY <1>4, <2>3, <2>5, <2>8 DEF ConfirmationInv
<1> QED BY <1>5, <1>6

(* A millisecond. *)
LEMMA TimePassesOK ==
  ASSUME ConfirmationInv, TimePasses
  PROVE  ConfirmationInv'
<1>1. ConfirmationTypes /\ Progress /\ ReportInTime /\ TickInTime /\ TickHasSeen
  BY DEF ConfirmationInv
<1>2. /\ tickIn > -MaxLate
      /\ report.pc = "exchange" => Later(clock, 1) # Later(report.now, ConfirmDelay)
      /\ clock' = IF scheduled \/ report.pc = "exchange" THEN Later(clock, 1) ELSE clock
      /\ tickIn' = IF scheduled THEN tickIn - 1 ELSE tickIn
      /\ UNCHANGED <<dfuState, deadline, confirmAt, probe, tick, scheduled, report>>
  BY DEF TimePasses
<1>3. clock \in Moments /\ tickIn \in Int /\ -MaxLate <= tickIn /\ tick \in TickStates
  BY <1>1 DEF ConfirmationTypes
<1>4. Later(clock, 1) \in Moments
  BY <1>3, Bounds, LaterIs
<1>5. clock' \in Moments /\ tickIn' \in Int /\ -MaxLate <= tickIn'
  BY <1>2, <1>3, <1>4, Bounds
<1>6. ConfirmationTypes'
  BY <1>1, <1>2, <1>5 DEF ConfirmationTypes
<1>7. Progress' /\ TickHasSeen'
  BY <1>1, <1>2 DEF Progress, TickHasSeen, AllProven, Known
<1>8. ReportInTime'
  <2> SUFFICES ASSUME report'.pc = "exchange", ~IsReached(report'.now, deadline')
               PROVE  /\ confirmAt' = Later(report'.now, ConfirmDelay)
                      /\ \E left \in 1..ConfirmDelay: confirmAt' = Later(clock', left)
    BY DEF ReportInTime
  <2>1. confirmAt = Later(report.now, ConfirmDelay) /\ clock' = Later(clock, 1)
    BY <1>1, <1>2 DEF ReportInTime
  <2>2. PICK left \in 1..ConfirmDelay: confirmAt = Later(clock, left)
    BY <1>1, <1>2 DEF ReportInTime
  <2>3. left # 1
    BY <1>2, <2>1, <2>2
  <2> DEFINE less == left - 1
  <2>4. less \in 1..ConfirmDelay /\ less \in Nat /\ 1 + less = left /\ 1 + less <= ClockWrap
    BY <2>2, <2>3, Bounds
  <2> HIDE DEF less
  <2>5. Later(Later(clock, 1), less) = Later(clock, left)
    BY <1>3, <2>4, LaterAdds
  <2> QED BY <1>2, <2>1, <2>2, <2>4, <2>5
<1>9. TickInTime'
  <2> SUFFICES ASSUME tick.pc # "idle"
               PROVE  /\ scheduled' /\ tickIn' \in -MaxLate..0
                      /\ \E age \in 0..-tickIn': clock' = Later(tick'.now, age)
    BY <1>2 DEF TickInTime
  <2>1. scheduled /\ tickIn \in -MaxLate..0
    BY <1>1 DEF TickInTime
  <2>2. PICK age \in 0..-tickIn: clock = Later(tick.now, age)
    BY <1>1 DEF TickInTime
  <2>3. clock' = Later(clock, 1) /\ tickIn' = tickIn - 1 /\ tick' = tick
    BY <1>2, <2>1
  <2> DEFINE more == age + 1
  <2>4. more \in 0..-tickIn' /\ age \in Nat /\ age + 1 <= ClockWrap
    BY <1>2, <1>3, <2>1, <2>2, <2>3, Bounds
  <2>5. tick.now \in Moments
    BY <1>3 DEF TickStates
  <2>6. Later(Later(tick.now, age), 1) = Later(tick.now, more)
    BY <2>4, <2>5, LaterAdds
  <2>7. tickIn' \in -MaxLate..0
    BY <1>2, <1>3, <2>1, <2>3, Bounds
  <2> QED BY <1>2, <2>1, <2>2, <2>3, <2>4, <2>6, <2>7
<1> QED BY <1>6, <1>7, <1>8, <1>9 DEF ConfirmationInv

(* Every step keeps the invariant. *)
LEMMA ConfirmationStep ==
  ASSUME ConfirmationInv, [ConfirmationNext]_confirmationVars
  PROVE  ConfirmationInv'
<1>1. ConfirmationTypes /\ Progress /\ ReportInTime /\ TickInTime /\ TickHasSeen
  BY DEF ConfirmationInv
<1>2. ASSUME NEW armed \in BOOLEAN, Initialize(armed) PROVE ConfirmationInv'
  <2>1. /\ dfuState = "off" /\ dfuState' \in {"CONFIRMED", "VERIFYING"} /\ scheduled' \in {TRUE, scheduled}
        /\ UNCHANGED <<clock, confirmAt, probe, tick, tickIn, report>>
    BY <1>2 DEF Initialize
  <2>2. report.pc = "idle" /\ tick.pc = "idle"
    BY <1>1, <2>1 DEF Progress
  <2>3. ConfirmationTypes'
    BY <1>1, <2>1 DEF ConfirmationTypes, States
  <2> QED BY <2>1, <2>2, <2>3 DEF ConfirmationInv, Progress, ReportInTime, TickInTime, TickHasSeen
<1>3. ASSUME NEW p \in Probes, AddProbe(p) PROVE ConfirmationInv'
  <2>1. /\ report.pc = "idle" /\ probe' = [probe EXCEPT ![p].known = TRUE]
        /\ UNCHANGED <<dfuState, clock, deadline, confirmAt, tick, scheduled, tickIn, report>>
    BY <1>3 DEF AddProbe
  <2>2. dfuState # "CONFIRMING"
    BY <1>1, <2>1 DEF Progress
  <2>3. probe' \in [Probes -> Probe]
    BY <1>1, <2>1 DEF ConfirmationTypes, Probe
  <2>4. ConfirmationTypes'
    BY <1>1, <2>1, <2>3 DEF ConfirmationTypes
  <2>5. Progress' /\ ReportInTime' /\ TickInTime'
    BY <1>1, <2>1 DEF Progress, ReportInTime, TickInTime
  <2>6. TickHasSeen'
    BY <1>1, <2>1, <2>2 DEF TickHasSeen
  <2> QED BY <2>4, <2>5, <2>6 DEF ConfirmationInv
<1>4. ASSUME NEW p \in Probes, ProbeRuns(p) PROVE ConfirmationInv'
  <2>1. /\ probe' = [probe EXCEPT ![p].ran = TRUE]
        /\ UNCHANGED <<dfuState, clock, deadline, confirmAt, tick, scheduled, tickIn, report>>
    BY <1>4 DEF ProbeRuns
  <2>2. /\ probe' \in [Probes -> Probe]
        /\ \A q \in Probes: probe'[q].known = probe[q].known /\ probe'[q].proven = probe[q].proven
    BY <1>1, <2>1 DEF ConfirmationTypes, Probe
  <2>3. ConfirmationTypes'
    BY <1>1, <2>1, <2>2 DEF ConfirmationTypes
  <2>4. Progress' /\ ReportInTime' /\ TickInTime'
    BY <1>1, <2>1 DEF Progress, ReportInTime, TickInTime
  <2>5. AllProven => AllProven'
    BY <2>2 DEF AllProven, Known
  <2>6. TickHasSeen'
    BY <1>1, <2>1, <2>5 DEF TickHasSeen
  <2> QED BY <2>3, <2>4, <2>6 DEF ConfirmationInv
<1>5. CASE ReportBootComplete \/ ReportExchange
  BY <1>5, ReportOK
<1>6. CASE TickDeadline \/ TickProbes \/ TickFeed
  BY <1>6, TickGoesOn
<1>7. ASSUME NEW off \in BOOLEAN, TickStart(off) PROVE ConfirmationInv'
  BY <1>7, TickStartOK
<1>8. ASSUME NEW done \in BOOLEAN, NEW off \in BOOLEAN, TickConfirm(done, off) PROVE ConfirmationInv'
  BY <1>8, TickGoesOn
<1>9. CASE ClientConfirms \/ UNCHANGED confirmationVars
  <2>1. UNCHANGED <<dfuState, clock, deadline, confirmAt, probe, tick, scheduled, tickIn, report>>
    BY <1>9 DEF ClientConfirms, confirmationVars
  <2>2. ConfirmationTypes'
    BY <1>1, <2>1 DEF ConfirmationTypes
  <2> QED BY <1>1, <2>1, <2>2
          DEF ConfirmationInv, Progress, ReportInTime, TickInTime, TickHasSeen, AllProven, Known
<1>10. CASE TimePasses
  BY <1>10, TimePassesOK
<1>11. CASE Resets
  <2>1. /\ dfuState' = "off" /\ clock' = 0 /\ tickIn' = TickInterval /\ scheduled' = FALSE
        /\ probe' = [p \in Probes |-> NoProbe] /\ tick' = NoTick /\ report' = [pc |-> "idle", now |-> 0]
    BY <1>11 DEF Resets
  <2>2. ConfirmationTypes'
    <3>1. NoProbe \in Probe
      BY Bounds DEF NoProbe, Probe
    <3>2. NoTick \in TickStates
      BY Bounds DEF NoTick, TickStates, States
    <3>3. report' \in [pc: {"idle", "exchange", "done"}, now: Moments]
      BY <2>1, Bounds
    <3>4. tickIn' \in Int /\ -MaxLate <= tickIn'
      BY <2>1, ConfirmationAssumption
    <3>5. dfuState' \in States /\ clock' \in Moments /\ scheduled' \in BOOLEAN
      BY <2>1, Bounds DEF States
    <3> QED BY <2>1, <3>1, <3>2, <3>3, <3>4, <3>5 DEF ConfirmationTypes
  <2>3. tick'.pc = "idle" /\ report'.pc = "idle"
    BY <2>1 DEF NoTick
  <2> QED BY <2>1, <2>2, <2>3 DEF ConfirmationInv, Progress, ReportInTime, TickInTime, TickHasSeen
<1> QED BY <1>2, <1>3, <1>4, <1>5, <1>6, <1>7, <1>8, <1>9, <1>10, <1>11 DEF ConfirmationNext

(* What a step may do to the state and to the confirmation. *)
LEMMA ConfirmationMoves ==
  ASSUME ConfirmationInv, [ConfirmationNext]_confirmationVars
  PROVE  /\ confirmed' = "itself" /\ confirmed = "nobody" => dfuState = "CONFIRMING" /\ AllProven
         /\ dfuState = "FAILED" => dfuState' \in {"FAILED", "off"} \/ confirmed # "nobody"
<1>1. TickHasSeen
  BY DEF ConfirmationInv
<1>2. ASSUME NEW armed \in BOOLEAN, Initialize(armed)
      PROVE  dfuState # "FAILED" /\ confirmed' = confirmed
  BY <1>2 DEF Initialize
<1>3. ASSUME NEW p \in Probes, AddProbe(p) \/ ProbeRuns(p)
      PROVE  dfuState' = dfuState /\ confirmed' = confirmed
  BY <1>3 DEF AddProbe, ProbeRuns
<1>4. CASE ReportBootComplete \/ ReportExchange
  BY <1>4 DEF ReportBootComplete, ReportExchange, Exchange
<1>5. CASE TickDeadline \/ TickProbes \/ TickFeed
  BY <1>5 DEF TickDeadline, TickProbes, TickFeed, Exchange
<1>6. ASSUME NEW off \in BOOLEAN, TickStart(off)
      PROVE  /\ confirmed' = confirmed
             /\ dfuState = "FAILED" => dfuState' = "FAILED" \/ confirmed # "nobody"
  BY <1>6 DEF TickStart
<1>7. ASSUME NEW done \in BOOLEAN, NEW off \in BOOLEAN, TickConfirm(done, off)
      PROVE  dfuState = "CONFIRMING" /\ AllProven
  BY <1>1, <1>7 DEF TickConfirm, TickHasSeen
<1>8. CASE ClientConfirms \/ TimePasses \/ Resets
  BY <1>8 DEF ClientConfirms, TimePasses, Resets
<1>9. CASE UNCHANGED confirmationVars
  BY <1>9 DEF confirmationVars
<1> QED BY <1>2, <1>3, <1>4, <1>5, <1>6, <1>7, <1>8, <1>9 DEF ConfirmationNext

-----------------------------------------------------------------------------
(* Uploads *)

WindowPlaces == 0..(HeaderSize + TlvSize - 1)

(* The TLVs of the image that were received are in the window. *)
TlvsHeld(w, r, image) ==
  \A i \in 0..TlvSize - 1: TlvStart + i < r => w[i] = <<image, TlvStart + i>>

(* What the collector knows of an image, r bytes of which it has seen. *)
ScanOK(s, v, r, w, image) ==
  /\ s \in {"HEADER", "TLVS", "DECIDED"} /\ r \in Nat
  /\ s = "HEADER" => v = "NEED_MORE" /\ r < HeaderSize
  /\ s = "TLVS" => /\ v = "NEED_MORE" /\ Verdict[image] \in TlvVerdicts
                   /\ r < TlvStart + TlvSize /\ TlvsHeld(w, r, image)
  /\ s = "DECIDED" => v # "NEED_MORE" /\ (v = "match" => Verdict[image] = "match")

(* An upload goes on only behind a chunk that is in the slot. *)
UploadOK ==
  /\ upload.off \in Nat
  /\ upload.off > 0 => /\ upload.image \in Images /\ hasWritten /\ slot.header = upload.image
                       /\ ScanOK(scan, verdict, received, window, upload.image)

(* An image that is not for this board is not all there. *)
SlotHoldsImage == slot.header # NoImage =>
            /\ slot.header \in Images /\ slot.bytes \in Nat
            /\ Verdict[slot.header] = "match" \/ slot.bytes < Size[slot.header]

GuardInv ==
  /\ DOMAIN window = WindowPlaces
  /\ UploadOK /\ SlotHoldsImage /\ RefusedIsErased

(* The sizes as numbers. *)
LEMMA Sizes ==
  /\ HeaderSize \in Nat \ {0} /\ TlvStart \in Nat /\ TlvSize \in Nat \ {0}
  /\ HeaderSize <= TlvStart
  /\ \A i \in Images: Size[i] \in Nat /\ HeaderSize <= Size[i]
  /\ \A i \in Images: Verdict[i] \in HeaderVerdicts \cup TlvVerdicts
  /\ \A i \in Images: Verdict[i] \in TlvVerdicts => TlvStart + TlvSize <= Size[i]
BY GuardAssumption

(* Nothing is uploaded at first. *)
LEMMA GuardStarts == GuardInit => GuardInv
<1> SUFFICES ASSUME GuardInit PROVE GuardInv
  OBVIOUS
<1>1. DOMAIN window = WindowPlaces
  BY DEF GuardInit, WindowPlaces
<1>2. upload.off = 0 /\ slot.header = NoImage /\ refused = NoImage
  BY DEF GuardInit
<1> QED BY <1>1, <1>2 DEF GuardInv, UploadOK, SlotHoldsImage, RefusedIsErased

(* CopyToWindow() of a chunk that begins within the bytes received. *)
LEMMA CopiedHolds ==
  ASSUME NEW w, DOMAIN w = WindowPlaces, NEW image, NEW from \in Nat, NEW to \in Nat, NEW r0 \in Nat,
         from <= r0, TlvsHeld(w, r0, image), NEW r \in Nat, r = IF to > r0 THEN to ELSE r0
  PROVE  TlvsHeld(Copied(w, "TLVS", image, from, to), r, image)
<1> DEFINE c == Copied(w, "TLVS", image, from, to)
<1> SUFFICES ASSUME NEW i \in 0..TlvSize - 1, TlvStart + i < r PROVE c[i] = <<image, TlvStart + i>>
  BY DEF TlvsHeld
<1>1. i \in WindowPlaces /\ i < TlvSize /\ i \in Nat
  BY Sizes DEF WindowPlaces
<1>2. c[i] = IF TlvStart + i >= from /\ TlvStart + i < to THEN <<image, TlvStart + i>> ELSE w[i]
  BY <1>1 DEF Copied, WindowStart, WindowSize
<1>3. CASE TlvStart + i < r0
  BY <1>2, <1>3 DEF TlvsHeld
<1>4. CASE ~(TlvStart + i < r0)
  BY <1>1, <1>2, <1>4, Sizes
<1> QED BY <1>3, <1>4

(* The window keeps its size. *)
LEMMA CopiedDomain ==
  ASSUME NEW w, DOMAIN w = WindowPlaces, NEW p, NEW image, NEW from, NEW to
  PROVE  DOMAIN Copied(w, p, image, from, to) = WindowPlaces
BY DEF Copied

(* Feed() of the next chunk, or of the first: the collector never takes    *)
(* the bytes of another image or part for the TLVs, and accepts the last   *)
(* chunk only of an image for this board.                                  *)
LEMMA FeedOK ==
  ASSUME NEW image \in Images, NEW from \in Nat, NEW to \in Nat, from < to, to <= Size[image],
         DOMAIN window = WindowPlaces, from > 0 => ScanOK(scan, verdict, received, window, image),
         NEW f \in Feed(image, from, to)
  PROVE  /\ DOMAIN f.window = WindowPlaces
         /\ ScanOK(f.scan, f.verdict, f.received, f.window, image)
         /\ Accepts(f.verdict) => Verdict[image] = "match" \/ to < Size[image]
<1> DEFINE p0 == IF from = 0 THEN "HEADER" ELSE scan
           v0 == IF from = 0 THEN "NEED_MORE" ELSE verdict
           r0 == IF from = 0 THEN 0 ELSE received
           r  == IF to > r0 THEN to ELSE r0
           w1 == Copied(window, p0, image, from, to)
           readHeader == p0 = "HEADER" /\ IsWindowComplete("HEADER", r)
           p1 == IF readHeader THEN IF Verdict[image] \in HeaderVerdicts THEN "DECIDED" ELSE "TLVS"
                 ELSE p0
           w2 == IF readHeader /\ p1 = "TLVS" THEN CopyAgain(w1, image, from, to) ELSE w1
           readTlvs == p1 = "TLVS" /\ IsWindowComplete("TLVS", r)
           Verdicts == IF readTlvs
                       THEN IF Holds(w2, "TLVS", image) THEN {Verdict[image]} ELSE TlvVerdicts
                       ELSE IF p1 = "DECIDED" THEN {Verdict[image]} ELSE {v0}
<1>1. f \in IF p0 = "DECIDED"
            THEN {[scan |-> p0, verdict |-> v0, received |-> r0, window |-> window]}
            ELSE IF from > r0
            THEN {[scan |-> "DECIDED", verdict |-> "skipped", received |-> r0, window |-> window]}
            ELSE {[scan |-> IF readTlvs THEN "DECIDED" ELSE p1, verdict |-> v, received |-> r,
                   window |-> w2]: v \in Verdicts}
  BY DEF Feed
<1>2. ScanOK(p0, v0, r0, window, image)
  BY Sizes DEF ScanOK
<1>3. r0 \in Nat /\ r \in Nat /\ to <= r /\ Size[image] \in Nat /\ HeaderSize <= Size[image]
  BY <1>2, Sizes DEF ScanOK
<1> HIDE DEF p0, v0, r0
<1>4. CASE p0 = "DECIDED"
  <2>1. f = [scan |-> p0, verdict |-> v0, received |-> r0, window |-> window]
    BY <1>1, <1>4
  <2>2. v0 # "NEED_MORE" /\ (v0 = "match" => Verdict[image] = "match")
    BY <1>2, <1>4 DEF ScanOK
  <2> QED BY <1>2, <2>1, <2>2 DEF Accepts
<1>5. CASE p0 # "DECIDED" /\ from > r0
  <2>1. f = [scan |-> "DECIDED", verdict |-> "skipped", received |-> r0, window |-> window]
    BY <1>1, <1>5
  <2> QED BY <1>3, <2>1 DEF Accepts, ScanOK
<1>6. CASE p0 # "DECIDED" /\ ~(from > r0)
  <2>1. PICK v \in Verdicts: f = [scan |-> IF readTlvs THEN "DECIDED" ELSE p1, verdict |-> v,
                                  received |-> r, window |-> w2]
    BY <1>1, <1>6
  <2>2. from <= r0 /\ p0 \in {"HEADER", "TLVS"} /\ v0 = "NEED_MORE"
    BY <1>2, <1>3, <1>6 DEF ScanOK
  <2>3. DOMAIN w1 = WindowPlaces
    BY CopiedDomain
  <2>4. DOMAIN w2 = WindowPlaces
    BY <2>3, CopiedDomain DEF CopyAgain
  <2>5. r >= HeaderSize <=> IsWindowComplete("HEADER", r)
    BY <1>3, Sizes DEF IsWindowComplete, WindowStart, WindowSize
  <2>6. r >= TlvStart + TlvSize <=> IsWindowComplete("TLVS", r)
    BY <1>3, Sizes DEF IsWindowComplete, WindowStart, WindowSize
  <2>7. p1 = "TLVS" => Verdict[image] \in TlvVerdicts /\ TlvsHeld(w2, r, image)
    <3>1. CASE p0 = "TLVS"
      <4>1. TlvsHeld(window, r0, image) /\ Verdict[image] \in TlvVerdicts
        BY <1>2, <3>1 DEF ScanOK
      <4>2. w2 = Copied(window, "TLVS", image, from, to)
        BY <3>1
      <4> QED BY <1>3, <2>2, <4>1, <4>2, CopiedHolds
    <3>2. CASE p0 = "HEADER"
      <4> SUFFICES ASSUME p1 = "TLVS"
                   PROVE  Verdict[image] \in TlvVerdicts /\ TlvsHeld(w2, r, image)
        OBVIOUS
      <4>1. readHeader /\ Verdict[image] \in TlvVerdicts
        BY <3>2, Sizes
      <4>2. w2 = Copied(w1, "TLVS", image, from, to)
        BY <4>1 DEF CopyAgain
      <4>3. r0 < HeaderSize
        BY <1>2, <3>2 DEF ScanOK
      <4>4. TlvsHeld(w1, r0, image)
        BY <1>3, <4>3, Sizes DEF TlvsHeld
      <4> HIDE DEF w1, w2
      <4> QED BY <1>3, <2>2, <2>3, <4>1, <4>2, <4>4, CopiedHolds
    <3> QED BY <2>2, <3>1, <3>2
  <2> HIDE DEF w1, w2, r
  <2>8. CASE readTlvs
    <3>1. Verdict[image] \in TlvVerdicts /\ TlvsHeld(w2, r, image) /\ r >= TlvStart + TlvSize
      BY <2>6, <2>7, <2>8
    <3>2. Holds(w2, "TLVS", image)
      BY <1>3, <3>1, Sizes DEF Holds, TlvsHeld, WindowStart, WindowSize
    <3>3. v = Verdict[image]
      BY <2>1, <2>8, <3>2
    <3>4. f.scan = "DECIDED" /\ f.verdict = v /\ f.received = r /\ f.window = w2
      BY <2>1, <2>8
    <3>5. v # "NEED_MORE"
      BY <3>1, <3>3 DEF TlvVerdicts
    <3> QED BY <1>3, <2>4, <3>3, <3>4, <3>5 DEF ScanOK, Accepts
  <2>9. CASE ~readTlvs /\ p1 = "DECIDED"
    <3>1. readHeader /\ Verdict[image] \in HeaderVerdicts /\ v = Verdict[image]
      BY <2>1, <2>2, <2>9
    <3>2. f.scan = "DECIDED" /\ f.verdict = v /\ f.received = r /\ f.window = w2
      BY <2>1, <2>9
    <3>3. v # "NEED_MORE" /\ v # "match"
      BY <3>1 DEF HeaderVerdicts
    <3> QED BY <1>3, <2>4, <3>2, <3>3 DEF ScanOK, Accepts
  <2>10. CASE ~readTlvs /\ p1 = "TLVS"
    <3>1. f.scan = "TLVS" /\ f.verdict = "NEED_MORE" /\ f.received = r /\ f.window = w2
      BY <2>1, <2>2, <2>10
    <3>2. r < TlvStart + TlvSize /\ TlvStart + TlvSize <= Size[image]
      BY <1>3, <2>6, <2>7, <2>10, Sizes
    <3>3. to < Size[image]
      BY <1>3, <3>2, Sizes
    <3> QED BY <1>3, <2>4, <2>7, <2>10, <3>1, <3>2, <3>3 DEF ScanOK
  <2>11. CASE ~readTlvs /\ p1 = "HEADER"
    <3>1. f.scan = "HEADER" /\ f.verdict = "NEED_MORE" /\ f.received = r /\ f.window = w2
      BY <2>1, <2>2, <2>11
    <3>2. r < HeaderSize
      BY <1>3, <2>2, <2>5, <2>11, Sizes
    <3>3. to < Size[image]
      BY <1>3, <3>2, Sizes
    <3> QED BY <1>3, <2>4, <3>1, <3>2, <3>3 DEF ScanOK
  <2>12. p1 \in {"HEADER", "TLVS", "DECIDED"}
    BY <2>2
  <2> QED BY <2>8, <2>9, <2>10, <2>11, <2>12
<1> QED BY <1>4, <1>5, <1>6

(* A chunk is accepted and written, or not, or the upload is refused. *)
LEMMA CheckChunkOK ==
  ASSUME GuardInv, NEW image \in Images, NEW n \in 1..MaxChunk, NEW erased \in BOOLEAN,
         NEW written \in BOOLEAN, NEW from \in {0, upload.off},
         CheckChunk(image, from, n, erased, written)
  PROVE  GuardInv'
<1> DEFINE to == IF from + n < Size[image] THEN from + n ELSE Size[image]
<1>1. DOMAIN window = WindowPlaces /\ UploadOK /\ SlotHoldsImage /\ RefusedIsErased
  BY DEF GuardInv
<1>2. from \in Nat /\ n \in Nat /\ n > 0 /\ Size[image] \in Nat /\ from < Size[image]
  BY <1>1, Sizes, GuardAssumption DEF UploadOK, CheckChunk
<1>3. from > 0 => /\ image = upload.image /\ from = upload.off /\ hasWritten
                  /\ slot.header = image /\ ScanOK(scan, verdict, received, window, image)
  BY <1>1, <1>2 DEF UploadOK, CheckChunk
<1>4. to \in Nat /\ from < to /\ to <= Size[image]
  BY <1>2
<1>5. PICK f \in Feed(image, from, to):
        /\ scan' = f.scan /\ verdict' = f.verdict /\ received' = f.received
        /\ window' = f.window
        /\ IF Accepts(f.verdict)
           THEN /\ hasWritten' = TRUE
                /\ upload' = [image |-> image, off |-> IF written THEN to ELSE from]
                /\ slot' = IF written
                           THEN [header |-> IF from = 0 THEN image ELSE slot.header, bytes |-> to]
                           ELSE IF from = 0 THEN [header |-> NoImage, bytes |-> 0] ELSE slot
                /\ refused' = IF from = 0 THEN NoImage ELSE refused
           ELSE /\ hasWritten' = FALSE
                /\ upload' = [image |-> NoImage, off |-> 0]
                /\ slot' = IF WrittenBefore(from) THEN EraseHeaderSector(erased) ELSE slot
                /\ refused' = IF from > 0 /\ erased THEN image ELSE NoImage
  BY DEF CheckChunk
<1> HIDE DEF to
<1>6. /\ DOMAIN f.window = WindowPlaces
      /\ ScanOK(f.scan, f.verdict, f.received, f.window, image)
      /\ Accepts(f.verdict) => Verdict[image] = "match" \/ to < Size[image]
  BY <1>1, <1>2, <1>3, <1>4, FeedOK
<1>7. DOMAIN window' = WindowPlaces
  BY <1>5, <1>6
<1>8. CASE Accepts(f.verdict) /\ written
  <2>1. /\ hasWritten' = TRUE /\ upload'.image = image /\ upload'.off = to
        /\ slot'.header = image /\ slot'.bytes = to /\ refused' = IF from = 0 THEN NoImage ELSE refused
    BY <1>2, <1>3, <1>5, <1>8
  <2>2. ScanOK(scan', verdict', received', window', image)
    BY <1>5, <1>6
  <2>3. UploadOK'
    BY <1>4, <2>1, <2>2 DEF UploadOK, ScanOK, TlvsHeld
  <2>4. SlotHoldsImage'
    BY <1>4, <1>6, <1>8, <2>1 DEF SlotHoldsImage
  <2>5. RefusedIsErased'
    BY <1>1, <1>2, <1>3, <2>1 DEF RefusedIsErased
  <2> QED BY <1>7, <2>3, <2>4, <2>5 DEF GuardInv, WindowPlaces
<1>9. CASE Accepts(f.verdict) /\ ~written /\ from = 0
  <2>1. upload'.off = 0 /\ slot'.header = NoImage /\ refused' = NoImage
    BY <1>5, <1>9
  <2> QED BY <1>7, <2>1 DEF GuardInv, WindowPlaces, UploadOK, SlotHoldsImage, RefusedIsErased
<1>10. CASE Accepts(f.verdict) /\ ~written /\ from > 0
  <2>1. /\ hasWritten' = TRUE /\ upload'.image = image /\ upload'.off = from
        /\ slot' = slot /\ refused' = refused
    BY <1>2, <1>5, <1>10
  <2>2. ScanOK(scan', verdict', received', window', image)
    BY <1>5, <1>6
  <2>3. UploadOK'
    BY <1>2, <1>3, <1>10, <2>1, <2>2 DEF UploadOK, ScanOK, TlvsHeld
  <2>4. SlotHoldsImage' /\ RefusedIsErased'
    BY <1>1, <2>1 DEF SlotHoldsImage, RefusedIsErased
  <2> QED BY <1>7, <2>3, <2>4 DEF GuardInv, WindowPlaces
<1>11. CASE ~Accepts(f.verdict)
  <2>1. /\ upload'.off = 0 /\ slot' = IF WrittenBefore(from) THEN EraseHeaderSector(erased) ELSE slot
        /\ refused' = IF from > 0 /\ erased THEN image ELSE NoImage
    BY <1>5, <1>11
  <2>2. UploadOK'
    BY <2>1 DEF UploadOK
  <2>3. slot' = slot \/ slot'.header = NoImage
    BY <2>1 DEF EraseHeaderSector
  <2>4. SlotHoldsImage'
    BY <1>1, <2>3 DEF SlotHoldsImage
  <2>5. from > 0 /\ erased => slot'.header = NoImage
    BY <1>2, <1>3, <2>1 DEF WrittenBefore, EraseHeaderSector
  <2>6. RefusedIsErased'
    BY <2>1, <2>5 DEF RefusedIsErased
  <2> QED BY <1>7, <2>2, <2>4, <2>6 DEF GuardInv, WindowPlaces
<1> QED BY <1>2, <1>8, <1>9, <1>10, <1>11

(* Every step keeps the invariant. *)
LEMMA GuardStep ==
  ASSUME GuardInv, [GuardNext]_guardVars
  PROVE  GuardInv'
<1>1. ASSUME NEW image \in Images, NEW n \in 1..MaxChunk, NEW erased \in BOOLEAN,
             NEW written \in BOOLEAN, NEW from \in {0, upload.off},
             CheckChunk(image, from, n, erased, written)
      PROVE  GuardInv'
  BY <1>1, CheckChunkOK
<1>2. CASE GuardRestart
  <2>1. upload'.off = 0 /\ UNCHANGED <<window, slot, refused>>
    BY <1>2 DEF GuardRestart
  <2> QED BY <2>1 DEF GuardInv, WindowPlaces, UploadOK, SlotHoldsImage, RefusedIsErased
<1>3. CASE UNCHANGED guardVars
  BY <1>3 DEF guardVars, GuardInv, WindowPlaces, UploadOK, SlotHoldsImage, RefusedIsErased, ScanOK, TlvsHeld
<1> QED BY <1>1, <1>2, <1>3 DEF GuardNext

(* The invariant says of an image that is all there what it promises. *)
LEMMA GuardPromises == GuardInv => CompleteIsOurs /\ RefusedIsErased
<1> SUFFICES ASSUME GuardInv PROVE CompleteIsOurs
  BY DEF GuardInv
<1>1. SlotHoldsImage
  BY DEF GuardInv
<1> QED BY <1>1, Sizes DEF SlotHoldsImage, CompleteIsOurs

-----------------------------------------------------------------------------
(* For any images and sizes of chunks, for any probes, delays and wrap of  *)
(* the clock: an image that is all in the slot is one for this board and a *)
(* refused one has no header there (ImageUploadGuard::CheckChunk()); an    *)
(* image confirms itself only on a tick that saw all its probes run, and   *)
(* one that failed stays failed, however Tick() and ReportBootComplete()   *)
(* interleave.                                                             *)
THEOREM ImagesAreSafe == DfuSpec => ImagesSafe
<1> DEFINE Proven == confirmed' = "itself" /\ confirmed = "nobody" =>
                       dfuState = "CONFIRMING" /\ \A p \in Known: probe[p].proven
           Failed == dfuState = "FAILED" => dfuState' \in {"FAILED", "off"} \/ confirmed # "nobody"
<1>1. DfuInit => ConfirmationInv /\ GuardInv
  BY ConfirmationStarts, GuardStarts DEF DfuInit
<1>2. [DfuNext]_dfuVars => [ConfirmationNext]_confirmationVars /\ [GuardNext]_guardVars
  BY DEF DfuNext, dfuVars
<1>3. (ConfirmationInv /\ GuardInv) /\ [DfuNext]_dfuVars => (ConfirmationInv /\ GuardInv)'
  BY <1>2, ConfirmationStep, GuardStep
<1>4. ConfirmationInv /\ [DfuNext]_dfuVars => [Proven]_confirmationVars /\ [Failed]_confirmationVars
  BY <1>2, ConfirmationMoves DEF AllProven
<1>5. GuardInv => CompleteIsOurs /\ RefusedIsErased
  BY GuardPromises
<1> QED BY <1>1, <1>3, <1>4, <1>5, PTL DEF DfuSpec, ImagesSafe, ConfirmsProven, FailedStaysFailed
=============================================================================
