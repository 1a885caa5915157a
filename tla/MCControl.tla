----------------------------- MODULE MCControl -----------------------------
(* Triggers and configurations, the readings they rest on, the log files   *)
(* they end in and what a central sees of them, on small instances.  The   *)
(* parts share no state: one of them runs, and the others stand still in   *)
(* one initial state.                                                      *)
EXTENDS LoggingTriggers, Configurations, SensorReadings,
        Mdf4Layout, Mdf4Log, LogEndTimes, BleLink, LiveData

VARIABLE part

controlledVars == <<part, triggerVars, configGroupVars, storeVars, readingsVars, layoutVars,
                    logVars, endVars, linkVars, liveVars>>

MCTarget  == [t \in {"s1"} |-> "all"]
\* Two processed sensors, a filter throws on one of them; then a raw one.
MCLayouts == {{"a", "b"}, {"r"}}
\* Loggers with as many record IDs as fit a byte, with more and with fewer.
MCKindsOf     == [a |-> "value", b |-> "formula", c |-> "can", d |-> "documented", e |-> "can"]
MCSensorLists == {<<>>, <<"a">>, <<"a", "b">>, <<"c", "a", "d">>, <<"b", "c">>, <<"c", "e">>}

(* Where a part that does not run stands. *)
StandingStart ==
  /\ part = "triggers" \/ \A t \in Triggers : sw[t] = 0
  /\ part = "store" \/ file = NoFile
  /\ part = "readings" \/ layout = {"r"}
  /\ part = "log" \/ now = 1

ControlInit ==
  /\ part \in {"triggers", "config", "store", "readings", "layout", "log", "ends", "link", "live"}
  /\ TriggersInit /\ ConfigGroupInit /\ StoreInit /\ ReadingsInit /\ LayoutInit
  /\ LogInit /\ EndTimesInit /\ LinkInit /\ LiveInit
  /\ StandingStart

(* Every part but the one that runs. *)
OthersStand ==
  /\ UNCHANGED part
  /\ IF part = "triggers" THEN TRUE ELSE UNCHANGED triggerVars
  /\ IF part = "config" THEN TRUE ELSE UNCHANGED configGroupVars
  /\ IF part = "store" THEN TRUE ELSE UNCHANGED storeVars
  /\ IF part = "readings" THEN TRUE ELSE UNCHANGED readingsVars
  /\ IF part = "layout" THEN TRUE ELSE UNCHANGED layoutVars
  /\ IF part = "log" THEN TRUE ELSE UNCHANGED logVars
  /\ IF part = "ends" THEN TRUE ELSE UNCHANGED endVars
  /\ IF part = "link" THEN TRUE ELSE UNCHANGED linkVars
  /\ IF part = "live" THEN TRUE ELSE UNCHANGED liveVars

ControlNext ==
  \/ part = "triggers" /\ TriggersNext /\ OthersStand
  \/ part = "config" /\ ConfigGroupNext /\ OthersStand
  \/ part = "store" /\ StoreNext /\ OthersStand
  \/ part = "readings" /\ ReadingsNext /\ OthersStand
  \/ part = "layout" /\ LayoutNext /\ OthersStand
  \/ part = "log" /\ LogNext /\ OthersStand
  \/ part = "ends" /\ EndTimesNext /\ OthersStand
  \/ part = "link" /\ LinkNext /\ OthersStand
  \/ part = "live" /\ LiveNext /\ OthersStand

ControlSpec == ControlInit /\ [][ControlNext]_controlledVars

-----------------------------------------------------------------------------
\* What each group of components promises.

(* Log files: a header is laid out whole and its record IDs fit            *)
(* (Mdf4Layout); master times increase, a file marked final is complete,   *)
(* frames find their payloads (Mdf4Log); the index of log ends is right or *)
(* silent, stays readable and survives a restart (LogEndTimes).            *)
LogFilesSafe ==
  /\ [](RecordIdsFit /\ HeaderIsLaidOut)
  /\ [](MasterTimesIncrease /\ FinalMeansComplete /\ FramesFindPayloads)
  /\ [](RightOrAbsent /\ FileStaysReadable /\ RestartForgetsNothing)

(* Bluetooth: processing that was paused is resumed and a pause that       *)
(* stands is not, the connection interval follows the traffic, every       *)
(* central is greeted and a free radio advertises, a calibration's result  *)
(* is of its channel (BleLink); live data goes to who asked, is sampled    *)
(* while subscribed, and shows its gaps (LiveData).                        *)
BluetoothSafe ==
  /\ [](PauseIsReturned /\ PausesStand /\ FastEnds /\ FastIsAsked)
  /\ [](CentralIsGreeted /\ FreeMeansAdvertising /\ ResultIsOfChannel)
  /\ [](FlightReturns /\ SubscribedIsSampled /\ OnlyWhoAsked) /\ GapsShowDrops
=============================================================================
