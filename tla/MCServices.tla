----------------------------- MODULE MCServices -----------------------------
(* Services of one unit on small instances.  The parts share no state: one *)
(* of them runs, and the others stand still in their initial state.        *)
EXTENDS AssetFiles, FsService, Smp, Dfu, EventBus, Canbus,
        SensorInputs, RateGroups, IndicatorConditioning, SensorPipelines

VARIABLE part

serviceVars == <<part, listVars, readerVars, streamVars, receiveVars, sendVars,
                 routerVars, confirmationVars, guardVars, eventBusVars, busVars,
                 inputVars, gpioVars, groupVars, condVars, pipelineVars, volumeVars>>

\* Directories with shadowed files (x, y), taken names and entries that are no assets.
MCDirectories ==
  {<<"x", "n", "p", "y", "q">>, <<"n", "x", "x1", "m", "x2", "p">>,
   <<"m", "n", "m2", "p">>, <<"p", "q", "r", "x">>, <<>>}
MCBuiltInNames == <<"x", "y", "z">>
MCMovedNames   == [n \in {"x", "y", "z"} |->
                     CASE n = "x" -> <<"x1", "x2">> [] n = "y" -> <<"z", "y2">> [] OTHER -> <<>>]
\* One packet shorter than the sequence numbers, one that wraps around them.
MCFramesOf == [p \in {0, 1} |-> IF p = 0 THEN 3 ELSE 5]
\* The hypothesis of the theorem on SMP packets holds of the instance.
ASSUME MCBurstsAssumption == BurstsAreSeen
\* A packet whose head is all of it.
MCBodyOf   == [p \in {0, 1} |-> IF p = 0 THEN 3 ELSE 0]
MCSize     == [i \in {"ours", "theirs", "bare"} |-> 7]
MCVerdict  == [i \in {"ours", "theirs", "bare"} |->
                 CASE i = "ours" -> "match" [] i = "theirs" -> "wrong board" [] OTHER -> "no tlvs"]

\* Two channels on the bus, one with a subscriber.
MCChannels  == <<"sensors", "logging">>
MCChannelOf == [s \in {"x"} |-> "sensors"]
\* Handlers whose filters overlap, and two bitrates of which the bus uses the second.
MCFilterOf == [com |-> {1}, smp |-> {2, 3}, isr |-> {3}, raw |-> {2, 3}]
MCRates    == <<500, 250>>
\* Groups that are due together at every other tick.
MCPeriods  == <<1, 2>>
\* Two indicators, of which the slower settles at once.
MCModes    == <<"Level", "Toggle">>
MCDebounce == <<2, 1>>

\* Spellings of the entries a, b and c that FAT folds; one of them leaves the volume.
MCSpellings == {"a", "A", "./a", "a.", "b", "c", "../a"}
MCFoldedOf  == [p \in MCSpellings |-> CASE p \in {"a", "A", "./a"} -> "a" [] OTHER -> p]
MCEntryOf   == [p \in MCSpellings |-> IF p \in {"b", "c"} THEN p ELSE "a"]

\* Sensors as a user edits them; the inputs of a virtual sensor are a and another one.
MCSensor(id, kind, has) ==
  [id |-> id, kind |-> kind, enabled |-> TRUE, has |-> has, wrong |-> {}, vars |-> {},
   usesX |-> FALSE]
MCVirtual(id, due, vars) == [MCSensor(id, "virtual", {"expression"} \cup due) EXCEPT !.vars = vars]
MCAdc     == MCSensor("a", "adc", {"channel", "interpolation", "rate"})
MCPolled  == MCSensor("a", "gpio", {"channel", "rate"})
MCInputs  == {MCAdc, [MCAdc EXCEPT !.enabled = FALSE], [MCAdc EXCEPT !.has = @ \ {"rate"}],
              [MCAdc EXCEPT !.wrong = {"rate"}], [MCPolled EXCEPT !.wrong = {"rate"}],
              MCSensor("a", "raw", {"connection"}), MCSensor("a", "control", {}),
              MCSensor("a", "signal", {"connection", "rate"})}
MCDerived(id, other) ==
  {MCVirtual(id, due, vars) : due \in {{}, {"rate"}}, vars \in SUBSET {"a", other}}
MCOdd(id) ==
  {[MCVirtual(id, {}, {"a"}) EXCEPT !.enabled = FALSE],
   [MCVirtual(id, {}, {"a"}) EXCEPT !.usesX = TRUE],
   [MCSensor(id, "control", {"expression"}) EXCEPT !.usesX = TRUE, !.vars = {"a"}],
   MCVirtual(id, {}, {"z"})}
MCSensorLists ==
  {<<>>} \cup
  {<<c, b, a>> : a \in MCInputs, b \in MCDerived("b", "c") \cup MCOdd("b"),
                 c \in {MCVirtual("c", {}, vars) : vars \in SUBSET {"a", "b"}}}
  \cup {<<b, a, s>> : a \in {MCAdc}, b \in MCDerived("b", "s"),
                     s \in {MCSensor(id, "control", {}) : id \in {"s", "a", "a2"}}}
  \cup {<<MCPolled, MCVirtual("b", {}, {"a"}), MCVirtual("c", {}, {"b"}), MCVirtual("d", {}, {"c"})>>}
MCHashOf == [i \in {"a", "a2", "b", "c", "d", "s"} |-> IF i = "a2" THEN "a" ELSE i]

ServicesInit ==
  /\ part \in {"listing", "reader", "stream", "receive", "send", "router", "dfu", "guard", "bus",
               "can", "inputs", "gpio", "groups", "conditioning", "pipelines", "volume"}
  /\ ListInit /\ ReaderInit /\ StreamInit /\ ReceiveInit /\ SendInit /\ RouterInit
  /\ ConfirmationInit /\ GuardInit /\ EventBusInit /\ CanbusInit /\ SensorInputsInit
  /\ GpioInit /\ RateGroupsInit /\ ConditioningInit /\ FsVolumeInit
  /\ part = "inputs" \/ inputKind = "indicator"
  /\ PipelinesInit /\ (part = "pipelines" \/ (stored = <<>> /\ ~saving))

(* Every part but the one that runs. *)
OthersStand ==
  /\ UNCHANGED part
  /\ IF part = "listing" THEN TRUE ELSE UNCHANGED listVars
  /\ IF part = "reader" THEN TRUE ELSE UNCHANGED readerVars
  /\ IF part = "stream" THEN TRUE ELSE UNCHANGED streamVars
  /\ IF part = "receive" THEN TRUE ELSE UNCHANGED receiveVars
  /\ IF part = "send" THEN TRUE ELSE UNCHANGED sendVars
  /\ IF part = "router" THEN TRUE ELSE UNCHANGED routerVars
  /\ IF part = "dfu" THEN TRUE ELSE UNCHANGED confirmationVars
  /\ IF part = "guard" THEN TRUE ELSE UNCHANGED guardVars
  /\ IF part = "bus" THEN TRUE ELSE UNCHANGED eventBusVars
  /\ IF part = "can" THEN TRUE ELSE UNCHANGED busVars
  /\ IF part = "inputs" THEN TRUE ELSE UNCHANGED inputVars
  /\ IF part = "gpio" THEN TRUE ELSE UNCHANGED gpioVars
  /\ IF part = "groups" THEN TRUE ELSE UNCHANGED groupVars
  /\ IF part = "conditioning" THEN TRUE ELSE UNCHANGED condVars
  /\ IF part = "pipelines" THEN TRUE ELSE UNCHANGED pipelineVars
  /\ IF part = "volume" THEN TRUE ELSE UNCHANGED volumeVars

ServicesNext ==
  \/ part = "listing" /\ ListNext /\ OthersStand
  \/ part = "reader" /\ ReaderNext /\ OthersStand
  \/ part = "stream" /\ StreamNext /\ OthersStand
  \/ part = "receive" /\ ReceiveNext /\ OthersStand
  \/ part = "send" /\ SendNext /\ OthersStand
  \/ part = "router" /\ RouterNext /\ OthersStand
  \/ part = "dfu" /\ ConfirmationNext /\ OthersStand
  \/ part = "guard" /\ GuardNext /\ OthersStand
  \/ part = "bus" /\ EventBusNext /\ OthersStand
  \/ part = "can" /\ CanbusNext /\ OthersStand
  \/ part = "inputs" /\ SensorInputsNext /\ OthersStand
  \/ part = "gpio" /\ GpioNext /\ OthersStand
  \/ part = "groups" /\ RateGroupsNext /\ OthersStand
  \/ part = "conditioning" /\ ConditioningNext /\ OthersStand
  \/ part = "pipelines" /\ PipelinesNext /\ OthersStand
  \/ part = "volume" /\ FsVolumeNext /\ OthersStand

(* The clock runs, and with it the watchdog; ReportBootComplete() returns. *)
ConfirmationFairness ==
  /\ WF_confirmationVars(part = "dfu" /\ TimePasses)
  /\ WF_confirmationVars(part = "dfu" /\ Resets)
  /\ WF_confirmationVars(part = "dfu" /\ ReportExchange)

(* The worker runs, handlers return, and a publisher goes on to Wake(). *)
EventBusFairness ==
  /\ WF_eventBusVars(part = "bus" /\ (BeginWork \/ DrainOne \/ EndRound))
  /\ \A c \in Names : WF_eventBusVars(part = "bus" /\ Wake(c))
  /\ \A t \in Threads :
       /\ WF_eventBusVars(part = "bus" /\ LeaveBody(t))
       /\ \A s \in Subscribers : SF_eventBusVars(part = "bus" /\ EnterBody(t, s))

ServicesSpec ==
  ServicesInit /\ [][ServicesNext]_serviceVars /\ ConfirmationFairness /\ EventBusFairness

-----------------------------------------------------------------------------
\* What each group of components promises; those of Smp, Dfu, EventBus and Canbus are in their modules.

(* Asset files: a paged listing shows every asset once, a file moved out   *)
(* of a built-in's way replaces nothing, and a reader gives the bytes that *)
(* were asked for, after a failed seek or read too (AssetFiles); a stream  *)
(* keeps what it accepted, writes nothing behind a failed write and reads  *)
(* in order, and a rename loses no file (FsService).                       *)
AssetFilesSafe ==
  /\ [](ListsEachOnce /\ ReadsWhatWasAsked /\ AcceptedIsKept /\ ReadsInOrder)
  /\ MovesLoseNothing /\ NoWriteAfterFailure /\ RenameKeepsFiles

(* Sensor processing: at rest the newest input is processed, presses in    *)
(* order, and nothing while paused or down (SensorInputs); rate groups     *)
(* keep ticking in phase and are quiet once stopped (RateGroups);          *)
(* indicators accept what was held and lose no switch                      *)
(* (IndicatorConditioning); and an accepted configuration has no sensor    *)
(* that stays silent, derived values follow their inputs and no others,    *)
(* and what was saved loads (SensorPipelines).                             *)
SensorProcessingSafe ==
  /\ [](NewestAtRest /\ NothingWhilePaused /\ QuietWhenDown /\ SensesThePin)
  /\ [](StoppedIsQuiet /\ KeepsTicking /\ KeepsPhase)
  /\ [](HeldIsScheduled /\ NoSettleLeft /\ SwitchesSurvive /\ DerivedFollows)
  /\ [](DerivedIsFresh /\ NoSilentSensor /\ ValuesOfItsInputs /\ SavedLoads)
  /\ PressesInOrder /\ AcceptedWasHeld
=============================================================================
