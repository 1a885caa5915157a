----------------------------- MODULE MCCdmpUnit -----------------------------
(***************************************************************************)
(* What one unit does over CDMP, on small instances: the records it shares *)
(* (two slots for three types and a counter of 8 versions, which meets the *)
(* static_assert with equality), its transactions, and its control of the  *)
(* units that log.  The parts share no state: one of them runs, and the    *)
(* others stand still in one initial state.                                *)
(***************************************************************************)
EXTENDS CdmpLocalRecords, CdmpCommands, RemoteLogging

VARIABLE part

unitPartVars == <<part, localVars, commandsVars, remoteVars>>

(* The loggers are alike: which of them is up first makes no difference. *)
UnitInit ==
  /\ part \in {"records", "commands", "remote"}
  /\ LocalInit /\ CommandsInit /\ RemoteInit
  /\ IF part = "remote" THEN table # {"b"} ELSE table = {} /\ task = "idle"

UnitNext ==
  /\ UNCHANGED part
  /\ \/ part = "records" /\ LocalNext /\ UNCHANGED <<commandsVars, remoteVars>>
     \/ part = "commands" /\ CommandsNext /\ UNCHANGED <<localVars, remoteVars>>
     \/ part = "remote" /\ RemoteNext /\ UNCHANGED <<localVars, commandsVars>>

UnitSpec == UnitInit /\ [][UnitNext]_unitPartVars
=============================================================================
