------------------------------- MODULE SmpCan -------------------------------
(***************************************************************************)
(* SMP packets over CAN, the two directions of one transport.              *)
(***************************************************************************)
EXTENDS Naturals, Sequences, FiniteSets

(***************************************************************************)
(* Reception of SMP packets over CAN: each packet comes as numbered frames *)
(* and is put together in one of a few slots, one per source.  Frames get  *)
(* lost, sources fall silent in the middle of a packet, slots and buffers  *)
(* run out, and the transport is unbound and bound again.                  *)
(*                                                                         *)
(* A frame is [start, seq, fd, packet, index]: the last two, which packet  *)
(* it is of and which part of it, are ghosts that say what its data is.    *)
(* The first frame holds the SMP header and with it the packet's length.   *)
(***************************************************************************)

CONSTANTS Sources,    \* other units
          SlotCount,  \* CONFIG_EERIE_LEAP_SMP_CAN_RX_SLOTS
          SequenceCount, \* SEQUENCE_MASK + 1
          FramesOf,   \* number of frames of packet 0, 1: the packets alternate
          MaxBurst    \* bound: frames of a source missing in a row

ASSUME ReceiveAssumption ==
  /\ SlotCount \in Nat /\ SequenceCount \in Nat \ {0, 1} /\ MaxBurst \in Nat
  /\ FramesOf \in [{0, 1} -> Nat \ {0}]

VARIABLES bound,      \* the CAN filter is registered
          sending,    \* what each source sends next
          slots,      \* rx_slots_, by source
          lost,       \* ghost: frames of a source missing since the last one received
          delivered   \* ghost: the packet delivered with the last frame

receiveVars == <<bound, sending, slots, lost, delivered>>

(* A slot: free while it has no packet. *)
FreeSlot == [busy |-> FALSE, parts |-> <<>>, next |-> 0, fd |-> FALSE]

ReceiveInit ==
  /\ bound = TRUE
  /\ sending = [s \in Sources |-> [packet |-> 0, index |-> 0]]
  /\ slots = [s \in Sources |-> FreeSlot]
  /\ lost = [s \in Sources |-> 0]
  /\ delivered = <<>>

-----------------------------------------------------------------------------
(* SmpCanFramer: the frame a source sends, and the one after it. *)
FrameOf(s, fd) ==
  [start |-> sending[s].index = 0, seq |-> sending[s].index % SequenceCount, fd |-> fd,
   packet |-> sending[s].packet, index |-> sending[s].index]

Advance(s) ==
  sending' = [sending EXCEPT ![s] =
    IF @.index + 1 < FramesOf[@.packet] THEN [packet |-> @.packet, index |-> @.index + 1]
    ELSE [packet |-> 1 - @.packet, index |-> 0]]

(* A unit gives a packet up, after a failed send or a restart: the frames  *)
(* it did not send are missing like lost ones, and the next frame starts a *)
(* packet.                                                                 *)
GiveUp(s) ==
  /\ sending[s].index > 0
  /\ lost' = [lost EXCEPT ![s] = LET missing == @ + FramesOf[sending[s].packet] - sending[s].index
                                 IN  IF missing < MaxBurst THEN missing ELSE MaxBurst]
  /\ sending' = [sending EXCEPT ![s] = [packet |-> 1 - @.packet, index |-> 0]]
  /\ UNCHANGED <<bound, slots, delivered>>

FrameLost(s) ==
  /\ lost[s] < MaxBurst
  /\ lost' = [lost EXCEPT ![s] = @ + 1]
  /\ Advance(s)
  /\ UNCHANGED <<bound, slots, delivered>>

-----------------------------------------------------------------------------
(* Mutant: only the start flag is looked at, not the number. *)
MutantAnySequence(slot, frame) == slot.busy

(* Whether a frame that starts no packet continues the slot's packet. *)
Continues(slot, frame) == slot.busy /\ frame.seq = slot.next

(* Accept(): the slot after a frame.  A start frame begins anew whatever   *)
(* was there, a frame out of order drops the packet.                       *)
Accepted(slot, frame) ==
  IF frame.start
  THEN [busy |-> TRUE, parts |-> <<<<frame.packet, frame.index>>>>,
        next |-> (frame.seq + 1) % SequenceCount, fd |-> frame.fd]
  ELSE IF Continues(slot, frame)
  THEN [slot EXCEPT !.parts = Append(@, <<frame.packet, frame.index>>),
                    !.next = (@ + 1) % SequenceCount]
  ELSE FreeSlot

(* Append(): the length of the packet is in its start frame. *)
IsComplete(slot) == slot.busy /\ Len(slot.parts) = FramesOf[slot.parts[1][1]]

(* OnFrame(): slots whose packet made no progress for too long are freed   *)
(* first; a frame of another format drops its source's packet; without a   *)
(* packet in progress only a start frame is taken, if there are a slot and *)
(* a buffer.                                                               *)
OnFrame(s, fd, expired, buffer) ==
  LET frame == FrameOf(s, fd)
      live  == [q \in Sources |-> IF q \in expired THEN FreeSlot ELSE slots[q]]
      mine  == IF live[s].busy /\ live[s].fd # fd THEN FreeSlot ELSE live[s]
      room  == Cardinality({q \in Sources \ {s}: live[q].busy}) < SlotCount
      after == IF ~mine.busy /\ ~(frame.start /\ room /\ buffer) THEN FreeSlot
               ELSE Accepted(mine, frame)
  IN  /\ bound
      /\ expired \subseteq {q \in Sources: slots[q].busy}
      /\ slots' = [live EXCEPT ![s] = IF IsComplete(after) THEN FreeSlot ELSE after]
      /\ delivered' = IF IsComplete(after) THEN after.parts ELSE <<>>
      /\ lost' = [lost EXCEPT ![s] = 0]
      /\ Advance(s)
      /\ UNCHANGED bound

(* UnbindLocked(): no handler runs any more, and the slots are freed. *)
UnbindReceive ==
  /\ bound
  /\ bound' = FALSE
  /\ slots' = [s \in Sources |-> FreeSlot]
  /\ UNCHANGED <<sending, lost, delivered>>

(* Bind(). *)
BindReceive ==
  /\ ~bound
  /\ bound' = TRUE
  /\ UNCHANGED <<sending, slots, lost, delivered>>

(* A frame sent while nothing is bound reaches no slot; it breaks no packet *)
(* either, so it is not one of the lost ones.                              *)
FrameIgnored(s) ==
  /\ ~bound
  /\ Advance(s)
  /\ UNCHANGED <<bound, slots, lost, delivered>>

ReceiveNext ==
  \/ \E s \in Sources: \/ FrameLost(s) \/ GiveUp(s) \/ FrameIgnored(s)
                       \/ \E fd, buffer \in BOOLEAN, expired \in SUBSET Sources:
                            OnFrame(s, fd, expired, buffer)
  \/ UnbindReceive
  \/ BindReceive

-----------------------------------------------------------------------------
(* What is delivered is one packet of one source, whole and in order:      *)
(* frames missing in a row, fewer of them than a packet has, lost or never *)
(* sent by a source that gave up, changes of format, and slots taken over  *)
(* by other sources never make a packet of two.                            *)
DeliveredWhole ==
  delivered # <<>> =>
    /\ Len(delivered) = FramesOf[delivered[1][1]]
    /\ \A i \in DOMAIN delivered: delivered[i] = <<delivered[1][1], i - 1>>

-----------------------------------------------------------------------------
(***************************************************************************)
(* Sending of SMP packets over CAN: packets are queued by any thread and   *)
(* sent frame by frame by a task of the CDMP work queue, paced to a share  *)
(* of the bus, while the transport is bound to an address, unbound and     *)
(* bound to another one.                                                   *)
(*                                                                         *)
(* Bind() is called from the status handler of CDMP, on the work queue the *)
(* task was queued to by the Unbind() before it: the task has run by then. *)
(***************************************************************************)

CONSTANTS Addresses,    \* addresses this unit may get; 0 is none
          FrameCount,   \* frames of a packet
          BurstFrames,  \* CONFIG_EERIE_LEAP_SMP_CAN_TX_BURST_FRAMES
          MaxQueued     \* bound: packets queued

ASSUME SendAssumption ==
  0 \notin Addresses /\ FrameCount \in Nat \ {0} /\ BurstFrames \in Nat \ {0} /\ MaxQueued \in Nat

VARIABLES address,    \* address_
          txTask,     \* the TX task: "idle", "queued", "delayed", "running", "requeued"
          txAddress,  \* the address ProcessTx() read when it began
          queued,     \* packets in tx_queue_
          frames,     \* tx_packet_: the source addresses of the frames sent of it
          hasPacket,  \* tx_packet_ != nullptr
          credit,     \* the pacer's credit, in frames
          caller,     \* a thread in Enqueue(): "out", "checked" or "put"
          unbinder    \* a thread in UnbindLocked(): "out", "cleared", "cancelled"

sendVars == <<address, txTask, txAddress, queued, frames, hasPacket, credit, caller, unbinder>>

SendInit ==
  /\ address = 0
  /\ txTask = "idle" /\ txAddress = 0
  /\ queued = 0
  /\ frames = <<>> /\ hasPacket = FALSE
  /\ credit = BurstFrames
  /\ caller = "out" /\ unbinder = "out"

(* The task's handler runs; "requeued" when it was scheduled again since. *)
Running == txTask \in {"running", "requeued"}

(* k_work_schedule(): nothing happens to a task that is scheduled already. *)
Scheduled ==
  CASE txTask = "idle" -> "queued" [] txTask = "running" -> "requeued" [] OTHER -> txTask

(* What a run leaves behind that does not ask to be called again. *)
RunEnded == IF txTask = "requeued" THEN "queued" ELSE "idle"

-----------------------------------------------------------------------------
(* Enqueue(): the address is looked at, the packet put, the task scheduled,*)
(* which a cancellation in progress refuses.                               *)
EnqueueCheck ==
  /\ caller = "out" /\ address # 0 /\ queued < MaxQueued
  /\ caller' = "checked"
  /\ UNCHANGED <<address, txTask, txAddress, queued, frames, hasPacket, credit, unbinder>>

EnqueuePut ==
  /\ caller = "checked"
  /\ caller' = "put"
  /\ queued' = queued + 1
  /\ UNCHANGED <<address, txTask, txAddress, frames, hasPacket, credit, unbinder>>

EnqueueSchedule ==
  /\ caller = "put"
  /\ caller' = "out"
  /\ \/ txTask' = Scheduled
     \/ unbinder = "cleared" /\ txTask' = txTask
  /\ UNCHANGED <<address, txAddress, queued, frames, hasPacket, credit, unbinder>>

-----------------------------------------------------------------------------
(* Bind(). *)
BindSend(a) ==
  /\ address = 0 /\ unbinder = "out" /\ txTask = "idle"
  /\ address' = a
  /\ UNCHANGED <<txTask, txAddress, queued, frames, hasPacket, credit, caller, unbinder>>

(* UnbindLocked(): the address first, then the TX run that still saw it is *)
(* waited for, then the task is left to drop the queue itself.             *)
UnbindClear ==
  /\ address # 0 /\ unbinder = "out"
  /\ address' = 0
  /\ unbinder' = "cleared"
  /\ UNCHANGED <<txTask, txAddress, queued, frames, hasPacket, credit, caller>>

UnbindCancel ==
  /\ unbinder = "cleared" /\ ~Running
  /\ txTask' = "idle"
  /\ unbinder' = "cancelled"
  /\ UNCHANGED <<address, txAddress, queued, frames, hasPacket, credit, caller>>

(* Mutant: the task is not scheduled to drop what is left. *)
MutantLeavesQueue ==
  /\ unbinder = "cancelled"
  /\ unbinder' = "out"
  /\ UNCHANGED <<address, txTask, txAddress, queued, frames, hasPacket, credit, caller>>

UnbindSchedule ==
  /\ unbinder = "cancelled"
  /\ txTask' = Scheduled
  /\ unbinder' = "out"
  /\ UNCHANGED <<address, txAddress, queued, frames, hasPacket, credit, caller>>

-----------------------------------------------------------------------------
(* ProcessTx() begins: it reads the address and refills the pacer. *)
BeginTx ==
  /\ txTask \in {"queued", "delayed"}
  /\ txTask' = "running"
  /\ txAddress' = address
  /\ credit' \in credit..BurstFrames
  /\ UNCHANGED <<address, queued, frames, hasPacket, caller, unbinder>>

(* Unbound, or the bus has no bitrate yet: DropTx(). *)
DropTx(noBitrate) ==
  /\ Running
  /\ txAddress = 0 \/ noBitrate
  /\ queued' = 0 /\ hasPacket' = FALSE /\ frames' = <<>>
  /\ txTask' = RunEnded
  /\ UNCHANGED <<address, txAddress, credit, caller, unbinder>>

TakePacket ==
  /\ Running /\ txAddress # 0 /\ ~hasPacket /\ queued > 0
  /\ queued' = queued - 1
  /\ hasPacket' = TRUE /\ frames' = <<>>
  /\ UNCHANGED <<address, txTask, txAddress, credit, caller, unbinder>>

(* The queue is empty: the run ends. *)
EndTx ==
  /\ Running /\ txAddress # 0 /\ ~hasPacket /\ queued = 0
  /\ txTask' = RunEnded
  /\ UNCHANGED <<address, txAddress, queued, frames, hasPacket, credit, caller, unbinder>>

(* Mutant: the address is read anew for every frame. *)
MutantReadsAddress == address

(* The source a frame is sent with: the address the run began with. *)
SourceAddress == txAddress

(* A frame is sent; the last one ends the packet. *)
SendFrame ==
  LET sent == Append(frames, SourceAddress)
  IN  /\ Running /\ txAddress # 0 /\ hasPacket /\ credit > 0
      /\ credit' = credit - 1
      /\ hasPacket' = (Len(sent) < FrameCount)
      /\ frames' = IF hasPacket' THEN sent ELSE <<>>
      /\ UNCHANGED <<address, txTask, txAddress, queued, caller, unbinder>>

(* The send failed: the packet is dropped. *)
SendFails ==
  /\ Running /\ txAddress # 0 /\ hasPacket /\ credit > 0
  /\ hasPacket' = FALSE /\ frames' = <<>>
  /\ UNCHANGED <<address, txTask, txAddress, queued, credit, caller, unbinder>>

(* No credit, or the controller's queue is full (-EAGAIN): the task comes  *)
(* back after a delay.                                                     *)
WaitTx ==
  /\ Running /\ txAddress # 0 /\ hasPacket
  /\ txTask' = "delayed"
  /\ UNCHANGED <<address, txAddress, queued, frames, hasPacket, credit, caller, unbinder>>

SendNext ==
  \/ EnqueueCheck \/ EnqueuePut \/ EnqueueSchedule
  \/ \E a \in Addresses: BindSend(a)
  \/ UnbindClear \/ UnbindCancel \/ UnbindSchedule
  \/ BeginTx \/ TakePacket \/ EndTx \/ SendFrame \/ SendFails \/ WaitTx
  \/ \E noBitrate \in BOOLEAN: DropTx(noBitrate)

-----------------------------------------------------------------------------
(* The frames of a packet all carry one source address: a packet that was  *)
(* under way when the transport was unbound is never continued under the   *)
(* next address, where its receiver would not know it.                     *)
PacketKeepsSource == \A i \in DOMAIN frames: frames[i] = frames[1]

(* No wake-up is lost: a packet that waits, in the queue or half sent, has *)
(* the task scheduled, running, or a thread on its way to schedule it,     *)
(* whatever the orders of Enqueue(), Unbind() and the task's runs.         *)
WaitingIsScheduled ==
  (queued > 0 \/ hasPacket) =>
     txTask # "idle" \/ caller = "put" \/ unbinder # "out"
=============================================================================
