-------------------------------- MODULE Smp ---------------------------------
(***************************************************************************)
(* The SMP transports of a unit side by side: packets that come over CAN,  *)
(* packets sent over CAN, and the router of the BLE connection.  They have *)
(* no state in common, so a step of one leaves the others alone.           *)
(***************************************************************************)
EXTENDS SmpCan, SmpBleRouter

smpVars == <<receiveVars, sendVars, routerVars>>

SmpInit == ReceiveInit /\ SendInit /\ RouterInit

SmpNext ==
  \/ ReceiveNext /\ UNCHANGED <<sendVars, routerVars>>
  \/ SendNext /\ UNCHANGED <<receiveVars, routerVars>>
  \/ RouterNext /\ UNCHANGED <<receiveVars, sendVars>>

SmpSpec == SmpInit /\ [][SmpNext]_smpVars

(* Bursts of missing frames are short enough for the numbers to show them: *)
(* fewer frames than there are numbers and than a packet has, and none     *)
(* that makes a packet fall short by a multiple of the numbers.  With one  *)
(* frame missing at a time this always holds of packets of two frames and  *)
(* more.                                                                   *)
BurstsAreSeen ==
  /\ MaxBurst < SequenceCount
  /\ \A p \in {0, 1}: /\ MaxBurst < FramesOf[p]
                       /\ \A n \in 2..MaxBurst: (FramesOf[p] - n) % SequenceCount # 0

(* SMP over CAN and over BLE: what is delivered is a packet somebody sent, *)
(* whole and under its sender's address, whatever frames, connections and  *)
(* bindings are lost in between; what waits to be sent is scheduled; and   *)
(* the fragments of a response go to one connection.                       *)
SmpPacketsWhole ==
  /\ DeliveredWhole /\ PacketKeepsSource /\ WaitingIsScheduled
  /\ DispatchedWhole /\ FragmentsStayTogether /\ ResponseIsScheduled
=============================================================================
