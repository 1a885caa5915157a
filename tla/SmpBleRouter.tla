---------------------------- MODULE SmpBleRouter ----------------------------
(***************************************************************************)
(* SMP between a BLE central and this unit.  Requests come as a stream of  *)
(* writes whose boundaries say nothing: a packet spans several writes, and *)
(* a write may end one packet and start the next.  Responses leave as      *)
(* fragments, on a link that runs out of buffers, and whose connection may *)
(* be another one by then.                                                 *)
(*                                                                         *)
(* A byte is <<packet, index>>: which packet of the client it is of and    *)
(* its place there; packets alternate between 0 and 1.  The threads that   *)
(* run ProcessTx() and OnReceive() are cooperative: neither interrupts the *)
(* other between two calls of the model.                                   *)
(***************************************************************************)
EXTENDS Naturals, Sequences

CONSTANTS HeadSize,      \* 1 + SmpHeader::SIZE
          BodyOf,        \* length of packet 0, 1 behind its rxHead
          MaxWrite,      \* bound: bytes of a write
          ResponseSize,  \* 1 + length of a response
          MaxFragment,   \* GetMaxNotificationSize()
          MaxPending,    \* bound: requests in flight, as GetInfo() tells the client
          MaxConnection  \* bound: connections

ASSUME RouterAssumption ==
  /\ HeadSize \in Nat \ {0} /\ BodyOf \in [{0, 1} -> Nat] /\ MaxWrite \in Nat
  /\ ResponseSize \in Nat \ {0} /\ MaxFragment \in Nat \ {0}
  /\ MaxPending \in Nat /\ MaxConnection \in Nat

VARIABLES client,       \* where in its stream the central is
          rxData,       \* what is left of the write in OnReceive()
          rxHead,       \* rx_head_
          rxRemaining,  \* rx_remaining_
          rxDiscarding, \* rx_discarding_
          rxBody,       \* rx_packet_ behind its header
          dispatched,   \* ghost: the packet dispatched last
          generation,   \* generation_, the connection
          serving,      \* generations of the requests in the SMP server
          txQueue,      \* generations of the responses in tx_queue_
          txPacket,     \* tx_packet_, tx_offset_ and where its fragments went
          txWork        \* tx_work_: "idle", "queued" or "delayed"

rxVars == <<client, rxData, rxHead, rxRemaining, rxDiscarding, rxBody, dispatched>>
txVars == <<serving, txQueue, txPacket, txWork>>
routerVars == <<rxVars, generation, txVars>>

NoPacket == [valid |-> FALSE, generation |-> 0, offset |-> 0, went |-> {}]

RouterInit ==
  /\ client = 0
  /\ rxData = <<>> /\ rxHead = <<>> /\ rxRemaining = 0 /\ rxDiscarding = FALSE
  /\ rxBody = <<>> /\ dispatched = <<>>
  /\ generation = 0
  /\ serving = <<>> /\ txQueue = <<>> /\ txPacket = NoPacket /\ txWork = "idle"

-----------------------------------------------------------------------------
\* Receiving.

SizeOf(p) == HeadSize + BodyOf[p]

(* The client's stream repeats the two packets.  Its byte at k. *)
Period == SizeOf(0) + SizeOf(1)

ByteAt(k) == LET m == k % Period
             IN  IF m < SizeOf(0) THEN <<0, m>> ELSE <<1, m - SizeOf(0)>>

(* Where the packet after the one of the byte at k begins. *)
NextPacket(k) == IF k < SizeOf(0) THEN SizeOf(0) ELSE 0

(* OnReceive() of a write of n bytes. *)
BleWrite(n) ==
  /\ rxData = <<>>
  /\ rxData' = [i \in 1..n |-> ByteAt(client + i - 1)]
  /\ client' = (client + n) % Period
  /\ dispatched' = <<>>
  /\ UNCHANGED <<rxHead, rxRemaining, rxDiscarding, rxBody, generation, txVars>>

(* The packet the loop has all of: Dispatch(), unless it is discarded.     *)
(* ResetRx() comes first.  `wanted`: the route is this unit's.             *)
PacketDone(h, b, drop, rest, wanted) ==
  /\ rxHead' = <<>> /\ rxBody' = <<>> /\ rxRemaining' = 0 /\ rxDiscarding' = FALSE
  /\ rxData' = rest
  /\ dispatched' = IF drop THEN <<>> ELSE h \o b
  /\ serving' = IF drop \/ ~wanted \/ Len(serving) + Len(txQueue) >= MaxPending THEN serving
                ELSE Append(serving, generation)
  /\ UNCHANGED <<client, generation, txQueue, txPacket, txWork>>

(* The rxHead, in as many writes as it takes; OnHeader() of a complete one.  *)
(* A packet that is no request, too large or finds no buffer is discarded, *)
(* which still counts its bytes.                                           *)
TakeHead(drop, wanted) ==
  LET n == IF HeadSize - Len(rxHead) < Len(rxData) THEN HeadSize - Len(rxHead) ELSE Len(rxData)
      h == rxHead \o SubSeq(rxData, 1, n)
      rest == SubSeq(rxData, n + 1, Len(rxData))
  IN  /\ rxData # <<>> /\ Len(rxHead) < HeadSize
      /\ IF Len(h) = HeadSize /\ BodyOf[h[1][1]] = 0
         THEN PacketDone(h, <<>>, drop, rest, wanted)
         ELSE /\ rxHead' = h /\ rxData' = rest
              /\ rxRemaining' = IF Len(h) = HeadSize THEN BodyOf[h[1][1]] ELSE 0
              /\ rxDiscarding' = (Len(h) = HeadSize /\ drop)
              /\ dispatched' = <<>>
              /\ UNCHANGED <<client, rxBody, generation, txVars>>

(* What is left of the packet after n of its bytes. *)
LeftOfPacket(n) == rxRemaining - n

TakeBody(wanted) ==
  LET n == IF rxRemaining < Len(rxData) THEN rxRemaining ELSE Len(rxData)
      b == IF rxDiscarding THEN rxBody ELSE rxBody \o SubSeq(rxData, 1, n)
      rest == SubSeq(rxData, n + 1, Len(rxData))
  IN  /\ rxData # <<>> /\ Len(rxHead) = HeadSize
      /\ IF LeftOfPacket(n) = 0 THEN PacketDone(rxHead, b, rxDiscarding, rest, wanted)
         ELSE /\ rxRemaining' = LeftOfPacket(n) /\ rxBody' = b /\ rxData' = rest
              /\ dispatched' = <<>>
              /\ UNCHANGED <<client, rxHead, rxDiscarding, generation, txVars>>

(* The client gives a packet up; its next write comes after the timeout,   *)
(* so what is there of the packet is dropped.                              *)
RxTimeout ==
  /\ rxData = <<>> /\ ByteAt(client)[2] > 0
  /\ client' = NextPacket(client)
  /\ rxHead' = <<>> /\ rxBody' = <<>> /\ rxRemaining' = 0 /\ rxDiscarding' = FALSE
  /\ UNCHANGED <<rxData, dispatched, generation, txVars>>

(* Mutant: what is there of a packet outlives its connection. *)
MutantKeepsPartial ==
  /\ rxData = <<>> /\ generation < MaxConnection
  /\ generation' = generation + 1
  /\ client' = NextPacket(client)
  /\ dispatched' = <<>>
  /\ serving' = <<>>
  /\ txWork' = "queued"
  /\ UNCHANGED <<rxData, rxHead, rxRemaining, rxDiscarding, rxBody, txQueue, txPacket>>

(* OnDisconnected(), and the next connection, whose client starts anew.    *)
(* smp_rx_clear() drops requests that wait; one that is served goes on.    *)
OnDisconnected ==
  /\ rxData = <<>> /\ generation < MaxConnection
  /\ generation' = generation + 1
  /\ client' = NextPacket(client)
  /\ rxHead' = <<>> /\ rxBody' = <<>> /\ rxRemaining' = 0 /\ rxDiscarding' = FALSE
  /\ dispatched' = <<>>
  /\ serving' = IF serving = <<>> THEN <<>> ELSE <<Head(serving)>>
  /\ txWork' = "queued"
  /\ UNCHANGED <<rxData, txQueue, txPacket>>

-----------------------------------------------------------------------------
\* Responding.

(* BleOutput(): the SMP server answers with the request's generation.         *)
(* EnqueueTx() keeps a retry delay that is pending.                        *)
BleOutput ==
  /\ serving # <<>>
  /\ serving' = Tail(serving)
  /\ txQueue' = Append(txQueue, Head(serving))
  /\ txWork' = IF txWork = "idle" THEN "queued" ELSE txWork
  /\ UNCHANGED <<rxVars, generation, txPacket>>

OnNotificationSent ==
  /\ txWork' = "queued"
  /\ UNCHANGED <<rxVars, generation, serving, txQueue, txPacket>>

(* ProcessTx(), one pass of its loop, which lasts until there is nothing   *)
(* to send or no buffer.                                                   *)
TakeResponse ==
  /\ txWork # "idle" /\ ~txPacket.valid
  /\ IF txQueue = <<>> THEN txWork' = "idle" /\ UNCHANGED <<txQueue, txPacket>>
     ELSE /\ txQueue' = Tail(txQueue)
          /\ txPacket' = [NoPacket EXCEPT !.valid = TRUE, !.generation = Head(txQueue)]
          /\ txWork' = "queued"
  /\ UNCHANGED <<rxVars, generation, serving>>

(* Mutant: the connection is looked at for the first fragment only. *)
MutantChecksFirst(subscribed) ==
  (txPacket.offset = 0 /\ txPacket.generation # generation) \/ ~subscribed

(* A response of an earlier connection, or nobody listens. *)
IsStale(subscribed) == txPacket.generation # generation \/ ~subscribed

(* Mutant: a full link is left to OnNotificationSent() alone. *)
MutantWaitsForNotification == "idle"

(* No buffer is free: the work comes back after TX_RETRY_DELAY_MS. *)
RetryLater == "delayed"

(* Notify() of the next fragment, or the packet is dropped. *)
SendFragment(subscribed, result) ==
  LET left == ResponseSize - txPacket.offset
      n    == IF MaxFragment < left THEN MaxFragment ELSE left
  IN  /\ txWork # "idle" /\ txPacket.valid
      /\ IF IsStale(subscribed) \/ result = "error" \/ (result = "sent" /\ n = left)
         THEN txPacket' = [NoPacket EXCEPT !.went = IF IsStale(subscribed) \/ result = "error" THEN {}
                                                    ELSE txPacket.went \cup {generation}]
         ELSE IF result = "sent"
         THEN txPacket' = [txPacket EXCEPT !.offset = @ + n, !.went = @ \cup {generation}]
         ELSE UNCHANGED txPacket
      /\ txWork' = IF ~IsStale(subscribed) /\ result = "full" THEN RetryLater ELSE "queued"
      /\ UNCHANGED <<rxVars, generation, serving, txQueue>>

RouterNext ==
  \/ \E n \in 1..MaxWrite: BleWrite(n)
  \/ \E drop, wanted \in BOOLEAN: TakeHead(drop, wanted)
  \/ \E wanted \in BOOLEAN: TakeBody(wanted)
  \/ RxTimeout
  \/ OnDisconnected
  \/ BleOutput
  \/ OnNotificationSent
  \/ TakeResponse
  \/ \E subscribed \in BOOLEAN, result \in {"sent", "full", "error"}:
       SendFragment(subscribed, result)

-----------------------------------------------------------------------------
(* However the writes cut the stream up, whatever was discarded, timed out *)
(* or cut off by a disconnect before, what is dispatched is one packet of  *)
(* the client, whole.                                                      *)
DispatchedWhole ==
  dispatched # <<>> =>
    /\ Len(dispatched) = SizeOf(dispatched[1][1])
    /\ \A i \in DOMAIN dispatched: dispatched[i] = <<dispatched[1][1], i - 1>>

(* The fragments of a response all reach one connection: one that was cut  *)
(* short by a disconnect is not continued on the next, whose client would  *)
(* take the rest for a packet.                                             *)
FragmentsStayTogether == \A g, h \in txPacket.went: g = h

(* No wake-up is lost: a response that waits has the work scheduled. *)
ResponseIsScheduled == (txQueue # <<>> \/ txPacket.valid) => txWork # "idle"
=============================================================================
