--------------------------- MODULE Logging_proof ---------------------------
(***************************************************************************)
(* Proofs about the control of logging, for any set of triggers or of      *)
(* loggers and any number of events.                                       *)
(*                                                                         *)
(* LoggingTriggers: logging starts and stops as the switches, the requests *)
(* and the stored configurations say, in whatever order the storing        *)
(* thread, the rebuild, the bus thread and the publisher run.              *)
(*                                                                         *)
(* RemoteLogging: a unit without a log writer starts the ones that have    *)
(* one, and a start that is wanted reaches each of them however it came    *)
(* back: by a request, by the status the units share, or by the report of  *)
(* the restart monitor.                                                    *)
(***************************************************************************)
EXTENDS LoggingTriggers, RemoteLogging, Integers, TLAPS

-----------------------------------------------------------------------------
\* Triggers: the inductive invariant.

Threads == {"bus", "store", "other"}
Halves  == {"writer", "network"}
Wanted  == {"Start", "Stop"}
Reading == [t: Triggers, v: 0..1]
Trigger == [last: 0..2, first: {"OneStarts", "IsBaseline"}, withdrawn: BOOLEAN]
Route   == [halves: SUBSET Halves, want: Wanted, by: Triggers \cup {"none", "other", "update"}]
ReportStep ==
  [at: {"idle", "handler", "flag", "lock", "baseline", "stop", "route"},
   kind: Types \cup {"none"}, known: SUBSET (Triggers \cup {"all"})]

TriggerTypes ==
  /\ sw \in [Triggers -> 0..1] /\ sensors \subseteq Triggers /\ live \subseteq Triggers
  /\ marked \subseteq Triggers /\ pubTaken \subseteq Reading /\ busEvents \in Seq(Reading)
  /\ dispatch = NoEvent \/ dispatch \in [is: {TRUE}, t: Triggers, v: 0..1]
  /\ tset = NoSet \/ tset \in [Triggers -> Trigger]
  /\ report \in ReportStep /\ wants \in [Halves -> Wanted] /\ leftOn \subseteq Triggers
  /\ route \in [Threads -> Route] /\ \A thread \in Threads: route[thread].halves = {} => route[thread] = NoRoute

(* Who holds what: a set that is gone has nothing under way, a rebuild and *)
(* a report have the set to themselves, the guard is a delivery's.         *)
Holding ==
  /\ setGuard <=> route["bus"] # NoRoute
  /\ tset = NoSet => route["bus"] = NoRoute /\ ~dispatch.is
  /\ rebuild \in {"building", "again"} => tset = NoSet /\ setLock = "rebuild"
  /\ report.at = "baseline" => tset # NoSet /\ setLock = "report"

(* What a step of the teardown may rely on. *)
TearingDown ==
  /\ phase \in {"built", "started", "noStop", "noTask", "noInputs", "gone"}
  /\ phase \notin {"built", "started"} => report.at \in {"idle", "handler"}
  /\ phase \in {"noTask", "noInputs", "gone"} => rebuild = "idle"
  /\ phase \in {"noInputs", "gone"} => tset = NoSet /\ route["other"] = NoRoute
  /\ GoneMeansStopped

(* The report: its stop is the only request of the storing thread. *)
Reporting ==
  /\ route["store"] # NoRoute => report.at = "route"
  /\ route["store"].want = "Stop"
  /\ report.at \in {"lock", "baseline", "stop", "route"} => isUpdated
  /\ report.at = "baseline" /\ report.kind # "Sensors" => report.known = {"all"}
  /\ report.at = "idle" => report.kind = "none"

(* Without a request since the baselines, a half is stopped, or will be by *)
(* the stop that is on its way.                                            *)
Stopping ==
  clean => /\ route["bus"] = NoRoute /\ route["other"] = NoRoute
           /\ report.at # "stop" => \A h \in Halves: wants[h] = "Stop" \/ h \in route["store"].halves

(* A value that is set before the last update's stop starts nothing. *)
Baselines ==
  report.at \in {"stop", "route"} \/ leftOn # {} =>
    isUpdated /\ \A t \in DOMAIN tset: tset[t].first = "IsBaseline"

(* A switch that stayed on was not seen off: neither by its trigger nor by *)
(* a reading on its way to it.                                             *)
SeenOff(t) ==
  \/ \E r \in pubTaken: r.t = t /\ r.v = 0
  \/ \E i \in 1..Len(busEvents): busEvents[i].t = t /\ busEvents[i].v = 0
  \/ dispatch.is /\ dispatch.t = t /\ dispatch.v = 0
  \/ tset # NoSet /\ tset[t].last = 0

StayedOn == \A t \in leftOn: sw[t] = 1 /\ ~SeenOff(t)

(* A trigger's readings on their way: one at most, beside the one that is  *)
(* being delivered.                                                        *)
Queued(t) == \E i \in 1..Len(busEvents): busEvents[i].t = t
Taken(t)  == \E r \in pubTaken: r.t = t

OneEach ==
  /\ \A r, s \in pubTaken: r.t = s.t => r = s
  /\ \A r \in pubTaken: ~Queued(r.t)
  /\ \A i, j \in 1..Len(busEvents): busEvents[i].t = busEvents[j].t => i = j

(* The newest value of a trigger's switch is on its way, or known. *)
Underway(t) ==
  \/ t \in marked
  \/ \E r \in pubTaken: r.t = t /\ r.v = sw[t]
  \/ \E i \in 1..Len(busEvents): busEvents[i].t = t /\ busEvents[i].v = sw[t]
  \/ ~Taken(t) /\ ~Queued(t) /\ dispatch.is /\ dispatch.t = t /\ dispatch.v = sw[t]
  \/ ~Taken(t) /\ ~Queued(t) /\ ~(dispatch.is /\ dispatch.t = t) /\ tset[t].last = sw[t]

NewestUnderway ==
  tset # NoSet /\ ~restart /\ report.kind # "Sensors" => \A t \in live: Underway(t) \/ tset[t].withdrawn

TriggersInv ==
  /\ TriggerTypes /\ Holding /\ TearingDown /\ Reporting /\ Stopping
  /\ Baselines /\ StayedOn /\ OneEach /\ NewestUnderway

-----------------------------------------------------------------------------

-----------------------------------------------------------------------------
(* A switch is turned: its reading is marked, unless its sensor is not processed. *)
LEMMA TurnKeeps ==
  ASSUME TriggersInv, NEW t \in Triggers, Turn(t)
  PROVE  TriggersInv'
<1> USE DEF TriggersInv, TriggerTypes, Turn, Spend, Reading, Trigger, Route, ReportStep, Types,
            NoSet,
            NoEvent, NoRoute, NoReport, Unknown, sensorVars, publishVars, setVars, askVars,
            Threads, Halves, Wanted
<1>1. TriggerTypes'
  <2>1. sw' \in [Triggers -> 0..1]
    OBVIOUS
  <2> QED BY <2>1
<1>2. Holding'
  BY DEF Holding
<1>3. TearingDown'
  BY DEF TearingDown, GoneMeansStopped
<1>4. Reporting'
  BY DEF Reporting
<1>5. Stopping'
  BY DEF Stopping
<1>6. Baselines'
  BY DEF Baselines
<1>7. StayedOn'
  BY DEF StayedOn, SeenOff
<1>8. OneEach'
  BY DEF OneEach, Queued
<1>9. NewestUnderway'
  BY DEF NewestUnderway, Underway, Queued, Taken
<1> QED BY <1>1, <1>2, <1>3, <1>4, <1>5, <1>6, <1>7, <1>8, <1>9

(* The sensors restart: every reading is marked. *)
LEMMA SensorsRestartKeeps ==
  ASSUME TriggersInv, SensorsRestart
  PROVE  TriggersInv'
<1> USE DEF TriggersInv, TriggerTypes, SensorsRestart, Reading, Trigger, Route, ReportStep, Types,
            NoSet, NoEvent, NoRoute, NoReport, Unknown, sensorVars, publishVars, setVars, askVars,
            Threads, Halves, Wanted
<1>1. TriggerTypes'
  OBVIOUS
<1>2. Holding'
  BY DEF Holding
<1>3. TearingDown'
  BY DEF TearingDown, GoneMeansStopped
<1>4. Reporting'
  BY DEF Reporting
<1>5. Stopping'
  BY DEF Stopping
<1>6. Baselines'
  BY DEF Baselines
<1>7. StayedOn'
  BY DEF StayedOn, SeenOff
<1>8. OneEach'
  BY DEF OneEach, Queued
<1>9. NewestUnderway'
  BY DEF NewestUnderway, Underway, Queued, Taken
<1> QED BY <1>1, <1>2, <1>3, <1>4, <1>5, <1>6, <1>7, <1>8, <1>9

(* A tick takes the marked readings: none of their triggers has another before it. *)
LEMMA TakeReadingsKeeps ==
  ASSUME TriggersInv, TakeReadings
  PROVE  TriggersInv'
<1> USE DEF TriggersInv, TriggerTypes, TakeReadings, Reading, Trigger, Route, ReportStep, Types,
            NoSet,
            NoEvent, NoRoute, NoReport, Unknown, sensorVars, publishVars, setVars, askVars,
            Threads, Halves, Wanted
<1>1. TriggerTypes'
  <2>1. pubTaken' \subseteq Reading
    OBVIOUS
  <2> QED BY <2>1
<1>2. Holding'
  BY DEF Holding
<1>3. TearingDown'
  BY DEF TearingDown, GoneMeansStopped
<1>4. Reporting'
  BY DEF Reporting
<1>5. Stopping'
  BY DEF Stopping
<1>6. Baselines'
  BY DEF Baselines
<1>7. StayedOn'
  BY DEF StayedOn, SeenOff
<1>8. OneEach'
  BY DEF OneEach, Queued
<1>9. NewestUnderway'
  <2> SUFFICES ASSUME tset # NoSet, ~restart, report.kind # "Sensors", NEW t \in live, ~tset[t].withdrawn
               PROVE  Underway(t)'
    BY DEF NewestUnderway
  <2>1. Underway(t)
    BY DEF NewestUnderway
  <2>2. CASE t \in marked
    <3>1. [t |-> t, v |-> sw[t]] \in pubTaken'
      BY <2>2
    <3> QED BY <3>1 DEF Underway
  <2>3. CASE t \notin marked
    <3>1. ~Taken(t)' /\ ~Queued(t)'
      BY <2>3 DEF Taken, Queued
    <3> QED BY <3>1, <2>1, <2>3 DEF Underway
  <2> QED BY <2>2, <2>3
<1> QED BY <1>1, <1>2, <1>3, <1>4, <1>5, <1>6, <1>7, <1>8, <1>9

(* An event at the end of the channel. *)
LEMMA Appended ==
  ASSUME NEW s \in Seq(Reading), NEW r \in Reading
  PROVE  /\ Len(Append(s, r)) = Len(s) + 1 /\ Append(s, r) \in Seq(Reading)
         /\ Append(s, r)[Len(s) + 1] = r /\ \A i \in 1..Len(s): Append(s, r)[i] = s[i]
OBVIOUS

(* The events behind the oldest. *)
LEMMA Taking ==
  ASSUME NEW s \in Seq(Reading), s # <<>>
  PROVE  /\ Tail(s) \in Seq(Reading) /\ Len(Tail(s)) = Len(s) - 1 /\ Len(s) \in Nat \ {0}
         /\ Head(s) = s[1] /\ Head(s) \in Reading /\ \A i \in 1..Len(s) - 1: Tail(s)[i] = s[i + 1]
OBVIOUS

(* A reading goes from the publisher to the channel. *)
LEMMA PublishReadingKeeps ==
  ASSUME TriggersInv, NEW r \in pubTaken, PublishReading(r)
  PROVE  TriggersInv'
<1> USE DEF TriggersInv, TriggerTypes, PublishReading, Reading, Trigger, Route, ReportStep, Types,
            NoSet, NoEvent, NoRoute, NoReport, Unknown, sensorVars, publishVars, setVars, askVars,
            Threads, Halves, Wanted
<1>1. TriggerTypes'
  <2>1. busEvents' \in Seq(Reading)
    BY Appended
  <2>2. pubTaken' \subseteq Reading
    OBVIOUS
  <2> QED BY <2>1, <2>2
<1>2. Holding'
  BY DEF Holding
<1>3. TearingDown'
  BY DEF TearingDown, GoneMeansStopped
<1>4. Reporting'
  BY DEF Reporting
<1>5. Stopping'
  BY DEF Stopping
<1>6. Baselines'
  BY DEF Baselines
<1>7. StayedOn'
  BY DEF StayedOn, SeenOff
<1>8. OneEach'
  <2> HIDE DEF Reading
  <2>1. \A s, u \in pubTaken': s.t = u.t => s = u
    BY DEF OneEach
  <2>2. CASE tset = NoSet
    BY <2>1, <2>2 DEF OneEach, Queued
  <2>3. CASE tset # NoSet
    <3>1. r \in Reading /\ busEvents \in Seq(Reading) /\ busEvents' = Append(busEvents, r)
      BY <2>3
    <3>2. /\ Len(busEvents') = Len(busEvents) + 1 /\ Len(busEvents) \in Nat
          /\ busEvents'[Len(busEvents) + 1] = r /\ \A i \in 1..Len(busEvents): busEvents'[i] = busEvents[i]
      BY <3>1, Appended
    <3>3. ASSUME NEW s \in pubTaken' PROVE ~Queued(s.t)'
      <4>1. s \in pubTaken /\ s # r /\ s.t # r.t /\ ~Queued(s.t)
        BY <3>3 DEF OneEach
      <4> QED BY <4>1, <3>2 DEF Queued
    <3>4. ~Queued(r.t)
      BY DEF OneEach
    <3>5. \A i, j \in 1..Len(busEvents): busEvents[i].t = busEvents[j].t => i = j
      BY DEF OneEach
    <3>6. \A i, j \in 1..Len(busEvents'): busEvents'[i].t = busEvents'[j].t => i = j
      BY <3>2, <3>4, <3>5 DEF Queued
    <3> QED BY <2>1, <3>3, <3>6 DEF OneEach
  <2> QED BY <2>2, <2>3
<1>9. NewestUnderway'
  <2> HIDE DEF Reading
  <2> SUFFICES ASSUME tset # NoSet, ~restart, report.kind # "Sensors", NEW t \in live, ~tset[t].withdrawn
               PROVE  Underway(t)'
    BY DEF NewestUnderway
  <2>1. Underway(t)
    BY DEF NewestUnderway
  <2>2. r \in Reading /\ busEvents \in Seq(Reading) /\ busEvents' = Append(busEvents, r)
    OBVIOUS
  <2>3. /\ Len(busEvents') = Len(busEvents) + 1 /\ Len(busEvents) \in Nat
        /\ busEvents'[Len(busEvents) + 1] = r /\ \A i \in 1..Len(busEvents): busEvents'[i] = busEvents[i]
    BY <2>2, Appended
  <2>4. CASE r.t = t
    <3>1. Taken(t) /\ ~Queued(t) /\ \A s \in pubTaken: s.t = t => s = r
      BY <2>4 DEF Taken, OneEach
    <3>2. t \in marked \/ r.v = sw[t]
      BY <2>1, <3>1 DEF Underway, Queued
    <3> QED BY <3>2, <2>3, <2>4 DEF Underway
  <2>5. CASE r.t # t
    <3>1. (Taken(t)' <=> Taken(t)) /\ (Queued(t)' <=> Queued(t))
      BY <2>3, <2>5 DEF Taken, Queued
    <3>2. ASSUME NEW s \in pubTaken, s.t = t PROVE s \in pubTaken'
      BY <3>2, <2>5
    <3>3. \A i \in 1..Len(busEvents): i \in 1..Len(busEvents') /\ busEvents'[i] = busEvents[i]
      BY <2>3
    <3> QED BY <2>1, <3>1, <3>2, <3>3 DEF Underway
  <2> QED BY <2>4, <2>5
<1> QED BY <1>1, <1>2, <1>3, <1>4, <1>5, <1>6, <1>7, <1>8, <1>9

(* The bus thread takes the oldest reading. *)
LEMMA TakeEventKeeps ==
  ASSUME TriggersInv, TakeEvent
  PROVE  TriggersInv'
<1> USE DEF TriggersInv, TriggerTypes, TakeEvent, Reading, Trigger, Route, ReportStep, Types, NoSet,
            NoEvent, NoRoute, NoReport, Unknown, sensorVars, publishVars, setVars, askVars,
            Threads, Halves, Wanted
<1>1. TriggerTypes'
  <2>1. /\ busEvents' \in Seq(Reading) /\ Head(busEvents) \in Reading
    BY Taking
  <2>2. dispatch' = NoEvent \/ dispatch' \in [is: {TRUE}, t: Triggers, v: 0..1]
    BY <2>1
  <2> QED BY <2>1, <2>2
<1>2. Holding'
  BY DEF Holding
<1>3. TearingDown'
  BY DEF TearingDown, GoneMeansStopped
<1>4. Reporting'
  BY DEF Reporting
<1>5. Stopping'
  BY DEF Stopping
<1>6. Baselines'
  BY DEF Baselines
<1>7. StayedOn'
  BY DEF StayedOn, SeenOff
<1>8. OneEach'
  BY DEF OneEach, Queued
<1>9. NewestUnderway'
  <2> HIDE DEF Reading
  <2> SUFFICES ASSUME tset # NoSet, ~restart, report.kind # "Sensors", NEW t \in live, ~tset[t].withdrawn
               PROVE  Underway(t)'
    BY DEF NewestUnderway
  <2>1. Underway(t) /\ ~dispatch.is
    BY DEF NewestUnderway
  <2>2. /\ Len(busEvents') = Len(busEvents) - 1 /\ Len(busEvents) \in Nat \ {0}
        /\ Head(busEvents) = busEvents[1] /\ \A i \in 1..Len(busEvents) - 1: busEvents'[i] = busEvents[i + 1]
    BY Taking
  <2>3. dispatch'.is /\ dispatch'.t = busEvents[1].t /\ dispatch'.v = busEvents[1].v
    BY <2>2
  <2>4. Taken(t)' <=> Taken(t)
    BY DEF Taken
  <2>5. CASE busEvents[1].t = t
    <3>1. Queued(t) /\ \A i \in 1..Len(busEvents): busEvents[i].t = t => i = 1
      BY <2>2, <2>5 DEF Queued, OneEach
    <3>2. ~Queued(t)' /\ ~Taken(t)
      BY <2>2, <3>1 DEF Queued, Taken, OneEach
    <3>3. t \in marked \/ busEvents[1].v = sw[t]
      BY <2>1, <3>1, <3>2 DEF Underway, Taken
    <3> QED BY <2>3, <2>4, <2>5, <3>2, <3>3 DEF Underway
  <2>6. CASE busEvents[1].t # t
    <3>1. ASSUME NEW i \in 1..Len(busEvents), busEvents[i].t = t
          PROVE  i - 1 \in 1..Len(busEvents') /\ busEvents'[i - 1] = busEvents[i]
      BY <2>2, <2>6, <3>1
    <3>2. \A i \in 1..Len(busEvents'): i + 1 \in 1..Len(busEvents) /\ busEvents'[i] = busEvents[i + 1]
      BY <2>2
    <3>3. Queued(t)' => Queued(t)
      <4> SUFFICES ASSUME NEW i \in 1..Len(busEvents'), busEvents'[i].t = t PROVE Queued(t)
        BY DEF Queued
      <4> QED BY <3>2 DEF Queued
    <3>4. CASE \E i \in 1..Len(busEvents): busEvents[i].t = t /\ busEvents[i].v = sw[t]
      <4>1. PICK i \in 1..Len(busEvents): busEvents[i].t = t /\ busEvents[i].v = sw[t]
        BY <3>4
      <4>2. i - 1 \in 1..Len(busEvents') /\ busEvents'[i - 1] = busEvents[i]
        BY <3>1, <4>1
      <4>3. \E j \in 1..Len(busEvents'): busEvents'[j].t = t /\ busEvents'[j].v = sw'[t]
        BY <4>1, <4>2
      <4> QED BY <4>3 DEF Underway
    <3>5. CASE ~\E i \in 1..Len(busEvents): busEvents[i].t = t /\ busEvents[i].v = sw[t]
      <4>1. \/ t \in marked
            \/ \E s \in pubTaken: s.t = t /\ s.v = sw[t]
            \/ ~Taken(t) /\ ~Queued(t) /\ tset[t].last = sw[t]
        BY <2>1, <3>5 DEF Underway
      <4> QED BY <4>1, <2>3, <2>4, <2>6, <3>3 DEF Underway
    <3> QED BY <3>4, <3>5
  <2> QED BY <2>5, <2>6
<1> QED BY <1>1, <1>2, <1>3, <1>4, <1>5, <1>6, <1>7, <1>8, <1>9

(* A thread's route is replaced. *)
LEMMA OneRoute ==
  ASSUME route \in [Threads -> Route], NEW thread \in Threads, NEW r \in Route, route' = [route EXCEPT ![thread] = r]
  PROVE  route' \in [Threads -> Route] /\ route'[thread] = r /\ \A u \in Threads: u # thread => route'[u] = route[u]
OBVIOUS

(* Route() asks the writer or the network half at least. *)
LEMMA SomeHalves ==
  ASSUME NEW target PROVE HalvesOf(target) \in (SUBSET Halves) \ {{}}
BY DEF HalvesOf, Halves

(* Nothing is on its way to the set. *)
LEMMA NoEventIsNone == ~NoEvent.is
BY DEF NoEvent

(* A delivery to a set that is there: the value is noted, unless the       *)
(* trigger is withdrawn, and one that acts begins a request.               *)
LEMMA DeliverFacts ==
  ASSUME TriggerTypes, Holding, Deliver
  PROVE  /\ dispatch.is /\ dispatch.t \in Triggers /\ dispatch.v \in 0..1 /\ route["bus"] = NoRoute
         /\ dispatch' = NoEvent /\ tset # NoSet /\ tset' # NoSet
         /\ tset \in [Triggers -> Trigger] /\ tset' \in [Triggers -> Trigger]
         /\ \A t \in Triggers: /\ t # dispatch.t => tset'[t] = tset[t]
                               /\ tset'[t].first = tset[t].first /\ tset'[t].withdrawn = tset[t].withdrawn
         /\ tset[dispatch.t].withdrawn \/ tset'[dispatch.t].last = dispatch.v
         /\ tset'[dispatch.t].last \in {dispatch.v, tset[dispatch.t].last}
         /\ route' \in [Threads -> Route] /\ route'["store"] = route["store"] /\ route'["other"] = route["other"]
         /\ \/ route' = route /\ (clean' => clean) /\ ~setGuard'
            \/ /\ route'["bus"].halves # {} /\ ~clean' /\ setGuard'
               /\ route'["bus"].by = dispatch.t
               /\ route'["bus"].want = (IF dispatch.v = 1 THEN "Start" ELSE "Stop")
               /\ TriggerActs(tset[dispatch.t], dispatch.v)
<1> DEFINE d == dispatch.t
           acts == TriggerActs(tset[d], dispatch.v)
           r == [halves |-> HalvesOf(Target[d]), by |-> d, want |-> IF dispatch.v = 1 THEN "Start" ELSE "Stop"]
<1>1. dispatch.is /\ d \in Triggers /\ dispatch.v \in 0..1 /\ ~setGuard
  <2>1. dispatch.is /\ ~setGuard
    BY DEF Deliver
  <2>2. dispatch # NoEvent
    BY <2>1, NoEventIsNone
  <2> QED BY <2>1, <2>2 DEF TriggerTypes
<1>2. tset # NoSet /\ tset \in [Triggers -> Trigger] /\ route["bus"] = NoRoute
  BY <1>1 DEF Holding, TriggerTypes
<1>3. tset[d] \in Trigger /\ route \in [Threads -> Route] /\ dispatch' = NoEvent
  BY <1>1, <1>2 DEF TriggerTypes, Deliver
<1>4. CASE tset[d].withdrawn
  <2>1. tset' = tset /\ route' = route /\ clean' = clean /\ setGuard' = setGuard
    BY <1>4 DEF Deliver
  <2> QED BY <1>1, <1>2, <1>3, <1>4, <2>1
<1>5. CASE ~tset[d].withdrawn
  <2>1. /\ tset' = [tset EXCEPT ![d].last = dispatch.v] /\ setGuard' = acts
        /\ clean' = (clean /\ ~acts) /\ route' = IF ~acts THEN route ELSE [route EXCEPT !["bus"] = r]
    BY <1>5 DEF Deliver
  <2>2. r \in Route /\ r.halves # {} /\ r.by = d /\ r.want = (IF dispatch.v = 1 THEN "Start" ELSE "Stop")
    BY <1>1, SomeHalves DEF Route, Wanted
  <2> HIDE DEF r, acts
  <2>3. /\ tset' \in [Triggers -> Trigger] /\ tset'[d].last = dispatch.v
        /\ tset'[d].first = tset[d].first /\ tset'[d].withdrawn = tset[d].withdrawn
        /\ \A t \in Triggers: t # d => tset'[t] = tset[t]
    BY <1>1, <1>2, <1>3, <2>1 DEF Trigger
  <2>4. tset' # NoSet
    BY <1>1, <2>3 DEF NoSet
  <2>5. CASE ~acts
    <3>1. route' = route /\ (clean' => clean) /\ ~setGuard'
      BY <2>1, <2>5
    <3> QED BY <1>1, <1>2, <1>3, <1>5, <2>3, <2>4, <3>1
  <2>6. CASE acts
    <3>1. route' = [route EXCEPT !["bus"] = r] /\ ~clean' /\ setGuard'
      BY <2>1, <2>6
    <3>2. route' \in [Threads -> Route] /\ route'["bus"] = r /\ \A u \in Threads: u # "bus" => route'[u] = route[u]
      BY <3>1, <1>3, <2>2, OneRoute DEF Threads
    <3>3. route'["store"] = route["store"] /\ route'["other"] = route["other"]
      BY <3>2 DEF Threads
    <3> QED BY <1>1, <1>2, <1>3, <2>2, <2>3, <2>4, <2>6, <3>1, <3>2, <3>3 DEF acts
  <2> QED BY <2>5, <2>6
<1> QED BY <1>4, <1>5

(* A delivery: what was on its way is known, and a request begins. *)
LEMMA DeliverKeeps ==
  ASSUME TriggersInv, Deliver
  PROVE  TriggersInv'
<1> USE DEF TriggersInv, TriggerTypes, Deliver, Reading, Trigger, Route, ReportStep, Types, NoSet,
            NoEvent, NoRoute, NoReport, Unknown, sensorVars, publishVars, setVars, askVars,
            Threads, Halves, Wanted
<1>1. TriggerTypes'
  <2> HIDE DEF Deliver
  <2>1. UNCHANGED <<sw, sensors, live, marked, pubTaken, busEvents, report, wants, leftOn>>
    BY DEF Deliver
  <2> HIDE DEF Route, ReportStep, Trigger, Reading, NoSet, NoRoute
  <2>2. \A thread \in Threads: route'[thread].halves = {} => route'[thread] = NoRoute
    <3>1. \/ route' = route \/ route'["bus"].halves # {}
      BY DeliverFacts
    <3> QED BY <3>1, DeliverFacts
  <2> QED BY <2>1, <2>2, DeliverFacts
<1>2. Holding'
  <2>1. setGuard' <=> route'["bus"] # NoRoute
    <3>1. route'["bus"].halves # {} => route'["bus"] # NoRoute
      OBVIOUS
    <3> HIDE DEF Deliver, Route, NoRoute
    <3> QED BY <3>1, DeliverFacts DEF Holding
  <2>2. UNCHANGED <<rebuild, setLock, report>>
    OBVIOUS
  <2> HIDE DEF Deliver
  <2> QED BY <2>1, <2>2, DeliverFacts DEF Holding
<1>3. TearingDown'
  BY DEF TearingDown, GoneMeansStopped
<1>4. Reporting'
  BY DEF Reporting
<1>5. Stopping'
  BY DEF Stopping
<1>6. Baselines'
  <2>1. UNCHANGED <<report, leftOn, isUpdated>>
    OBVIOUS
  <2> HIDE DEF Deliver
  <2>2. DOMAIN tset = Triggers /\ DOMAIN tset' = Triggers /\ \A t \in Triggers: tset'[t].first = tset[t].first
    BY DeliverFacts
  <2> QED BY <2>1, <2>2 DEF Baselines
<1>7. StayedOn'
  BY DEF StayedOn, SeenOff
<1>8. OneEach'
  BY DEF OneEach, Queued
<1>9. NewestUnderway'
  <2> SUFFICES ASSUME ~restart, report.kind # "Sensors", NEW t \in live, ~tset[t].withdrawn
               PROVE  Underway(t)'
    BY DeliverFacts DEF NewestUnderway
  <2>1. Underway(t) /\ t \in Triggers
    BY DeliverFacts DEF NewestUnderway
  <2>2. UNCHANGED <<sw, marked, pubTaken, busEvents>>
    OBVIOUS
  <2> HIDE DEF Deliver
  <2>3. (Taken(t)' <=> Taken(t)) /\ (Queued(t)' <=> Queued(t))
    BY <2>2 DEF Taken, Queued
  <2> HIDE DEF Route, ReportStep, Trigger, Reading, NoSet, NoRoute, NoEvent
  <2>4. ~dispatch'.is
    BY DeliverFacts, NoEventIsNone
  <2>5. CASE dispatch.t = t
    <3>1. tset'[t].last = dispatch.v
      BY <2>5, DeliverFacts
    <3> QED BY <2>1, <2>2, <2>3, <2>4, <2>5, <3>1, DeliverFacts DEF Underway
  <2>6. CASE dispatch.t # t
    <3>1. tset'[t].last = tset[t].last
      BY <2>1, <2>6, DeliverFacts
    <3> QED BY <2>1, <2>2, <2>3, <2>4, <2>6, <3>1 DEF Underway
  <2> QED BY <2>5, <2>6
<1> QED BY <1>1, <1>2, <1>3, <1>4, <1>5, <1>6, <1>7, <1>8, <1>9

(* One half is asked, and the rest of the route is left. *)
LEMMA RouteNextFacts ==
  ASSUME TriggerTypes, NEW thread \in Threads, RouteNext(thread)
  PROVE  /\ route[thread] # NoRoute /\ route' \in [Threads -> Route]
         /\ \A u \in Threads: u # thread => route'[u] = route[u]
         /\ route'[thread].halves = {} => route'[thread] = NoRoute
         /\ setGuard' = IF thread = "bus" THEN route'[thread] # NoRoute ELSE setGuard
         /\ \E half \in Halves:
              /\ wants' = [wants EXCEPT ![half] = route[thread].want] /\ route[thread].want \in Wanted
              /\ route'[thread].halves = route[thread].halves \ {half}
              /\ route'[thread] = NoRoute \/ route'[thread].want = route[thread].want
<1> DEFINE half == IF "writer" \in route[thread].halves THEN "writer" ELSE "network"
           rest == route[thread].halves \ {half}
           r == IF rest = {} THEN NoRoute ELSE [route[thread] EXCEPT !.halves = rest]
<1>1. route \in [Threads -> Route] /\ route[thread] \in Route /\ route[thread].halves # {}
  BY DEF TriggerTypes, RouteNext
<1>2. half \in Halves /\ route[thread].want \in Wanted /\ rest \in SUBSET Halves
  BY <1>1 DEF Route, Halves
<1>3. /\ wants' = [wants EXCEPT ![half] = route[thread].want] /\ route' = [route EXCEPT ![thread] = r]
      /\ setGuard' = IF thread = "bus" THEN rest # {} ELSE setGuard
  BY <1>1 DEF RouteNext
<1> HIDE DEF half, rest
<1>4. /\ r \in Route /\ r.halves = rest /\ (rest = {} => r = NoRoute)
      /\ (rest # {} => r.want = route[thread].want /\ r # NoRoute)
  BY <1>1, <1>2 DEF Route, NoRoute, Halves, Wanted
<1> HIDE DEF r
<1>5. route' \in [Threads -> Route] /\ route'[thread] = r /\ \A u \in Threads: u # thread => route'[u] = route[u]
  BY <1>1, <1>3, <1>4, OneRoute
<1>6. route[thread] # NoRoute
  BY <1>1 DEF NoRoute
<1>7. /\ wants' = [wants EXCEPT ![half] = route[thread].want] /\ route[thread].want \in Wanted
      /\ route'[thread].halves = route[thread].halves \ {half}
      /\ route'[thread] = NoRoute \/ route'[thread].want = route[thread].want
  BY <1>2, <1>3, <1>4, <1>5 DEF rest
<1>8. setGuard' = IF thread = "bus" THEN route'[thread] # NoRoute ELSE setGuard
  BY <1>3, <1>4, <1>5
<1> QED BY <1>2, <1>4, <1>5, <1>6, <1>7, <1>8

(* A thread asks one half. *)
LEMMA RouteNextKeeps ==
  ASSUME TriggersInv, NEW thread \in Threads, RouteNext(thread)
  PROVE  TriggersInv'
<1> USE DEF TriggersInv, TriggerTypes, RouteNext, Reading, Trigger, Route, ReportStep, Types, NoSet,
            NoEvent, NoRoute, NoReport, Unknown, sensorVars, publishVars, setVars, askVars,
            Threads, Halves, Wanted
<1>1. TriggerTypes'
  <2> HIDE DEF RouteNext
  <2> HIDE DEF Route, ReportStep, Trigger, Reading, NoSet, NoRoute
  <2>1. wants' \in [Halves -> Wanted]
    <3>1. PICK half \in Halves: wants' = [wants EXCEPT ![half] = route[thread].want] /\ route[thread].want \in Wanted
      <4> HIDE DEF Wanted, Halves
      <4> QED BY RouteNextFacts
    <3> QED BY <3>1
  <2>2. UNCHANGED <<sw, sensors, live, marked, pubTaken, busEvents, dispatch, tset, report, leftOn>>
    BY DEF RouteNext
  <2>3. ASSUME NEW u \in Threads, route'[u].halves = {} PROVE route'[u] = NoRoute
    BY <2>3, RouteNextFacts
  <2> QED BY <2>1, <2>2, <2>3, RouteNextFacts
<1>2. Holding'
  <2>1. UNCHANGED <<dispatch, tset, report, rebuild, setLock>>
    OBVIOUS
  <2> HIDE DEF RouteNext
  <2>2. setGuard' <=> route'["bus"] # NoRoute
    <3> HIDE DEF Route, NoRoute, Wanted, Halves
    <3> QED BY RouteNextFacts DEF Holding
  <2>3. tset = NoSet => route'["bus"] = NoRoute
    BY RouteNextFacts DEF Holding
  <2> QED BY <2>1, <2>2, <2>3 DEF Holding
<1>3. TearingDown'
  <2>1. UNCHANGED <<phase, report, rebuild, tset>>
    OBVIOUS
  <2> HIDE DEF RouteNext
  <2>2. phase \notin {"noInputs", "gone"}
    BY RouteNextFacts DEF TearingDown, Reporting, Holding
  <2> QED BY <2>1, <2>2 DEF TearingDown, GoneMeansStopped
<1>4. Reporting'
  <2>1. UNCHANGED <<report, isUpdated>>
    OBVIOUS
  <2> HIDE DEF RouteNext
  <2>2. route'["store"] # NoRoute => route["store"] # NoRoute
    BY RouteNextFacts
  <2>3. route'["store"].want = "Stop"
    <3>1. CASE thread = "store"
      <4>1. route'["store"] = NoRoute \/ route'["store"].want = route["store"].want
        <5> HIDE DEF Route, NoRoute, Wanted, Halves
        <5> QED BY <3>1, RouteNextFacts
      <4> QED BY <4>1 DEF Reporting
    <3>2. CASE thread # "store"
      <4> HIDE DEF Route, NoRoute
      <4>1. route'["store"] = route["store"]
        BY <3>2, RouteNextFacts
      <4> QED BY <4>1 DEF Reporting
    <3> QED BY <3>1, <3>2
  <2> QED BY <2>1, <2>2, <2>3 DEF Reporting
<1>5. Stopping'
  <2>1. UNCHANGED <<report, clean>>
    OBVIOUS
  <2> HIDE DEF RouteNext
  <2> SUFFICES ASSUME clean
               PROVE  /\ route'["bus"] = NoRoute /\ route'["other"] = NoRoute
                      /\ report.at # "stop" => \A h \in Halves: wants'[h] = "Stop" \/ h \in route'["store"].halves
    BY <2>1 DEF Stopping
  <2>2. thread = "store"
    <3> HIDE DEF Route, NoRoute, Wanted, Halves
    <3> QED BY RouteNextFacts DEF Stopping
  <2>3. route'["bus"] = NoRoute /\ route'["other"] = NoRoute
    BY <2>2, RouteNextFacts DEF Stopping
  <2>4. PICK half \in Halves:
          /\ wants' = [wants EXCEPT ![half] = route["store"].want]
          /\ route'["store"].halves = route["store"].halves \ {half}
    <3> HIDE DEF Route, NoRoute, Wanted, Halves
    <3> QED BY <2>2, RouteNextFacts
  <2>5. ASSUME report.at # "stop", NEW h \in Halves PROVE wants'[h] = "Stop" \/ h \in route'["store"].halves
    BY <2>4, <2>5 DEF Stopping, Reporting
  <2> QED BY <2>3, <2>5
<1>6. Baselines'
  BY DEF Baselines
<1>7. StayedOn'
  BY DEF StayedOn, SeenOff
<1>8. OneEach'
  BY DEF OneEach, Queued
<1>9. NewestUnderway'
  BY DEF NewestUnderway, Underway, Queued, Taken
<1> QED BY <1>1, <1>2, <1>3, <1>4, <1>5, <1>6, <1>7, <1>8, <1>9

(* A command or a request of the SMP group. *)
LEMMA AskKeeps ==
  ASSUME TriggersInv, NEW want \in Wanted, NEW halves \in (SUBSET Halves) \ {{}},
         phase \in {"built", "started", "noStop", "noTask"}, Ask(want, halves)
  PROVE  TriggersInv'
<1> USE DEF TriggersInv, TriggerTypes, Ask, Spend, Reading, Trigger, Route, ReportStep, Types,
            NoSet,
            NoEvent, NoRoute, NoReport, Unknown, sensorVars, publishVars, setVars, askVars,
            Threads, Halves, Wanted
<1>1. TriggerTypes'
  OBVIOUS
<1>2. Holding'
  BY DEF Holding
<1>3. TearingDown'
  BY DEF TearingDown, GoneMeansStopped
<1>4. Reporting'
  BY DEF Reporting
<1>5. Stopping'
  BY DEF Stopping
<1>6. Baselines'
  BY DEF Baselines
<1>7. StayedOn'
  BY DEF StayedOn, SeenOff
<1>8. OneEach'
  BY DEF OneEach, Queued
<1>9. NewestUnderway'
  BY DEF NewestUnderway, Underway, Queued, Taken
<1> QED BY <1>1, <1>2, <1>3, <1>4, <1>5, <1>6, <1>7, <1>8, <1>9

(* A configuration is stored. *)
LEMMA StoreConfigurationKeeps ==
  ASSUME TriggersInv, NEW kind \in Types, StoreConfiguration(kind)
  PROVE  TriggersInv'
<1> USE DEF TriggersInv, TriggerTypes, StoreConfiguration, Spend, Reading, Trigger, Route,
            ReportStep,
            Types, NoSet, NoEvent, NoRoute, NoReport, Unknown, sensorVars, publishVars, setVars,
            askVars, Threads, Halves, Wanted
<1>1. TriggerTypes'
  OBVIOUS
<1>2. Holding'
  BY DEF Holding
<1>3. TearingDown'
  BY DEF TearingDown, GoneMeansStopped
<1>4. Reporting'
  BY DEF Reporting
<1>5. Stopping'
  BY DEF Stopping
<1>6. Baselines'
  BY DEF Baselines
<1>7. StayedOn'
  BY DEF StayedOn, SeenOff
<1>8. OneEach'
  BY DEF OneEach, Queued
<1>9. NewestUnderway'
  <2>1. report.kind = "none" /\ report'.kind = kind
    BY DEF Reporting
  <2> QED BY <2>1 DEF NewestUnderway, Underway, Queued, Taken
<1> QED BY <1>1, <1>2, <1>3, <1>4, <1>5, <1>6, <1>7, <1>8, <1>9

(* The flag for a rebuild. *)
LEMMA ReportFlagKeeps ==
  ASSUME TriggersInv, ReportFlag
  PROVE  TriggersInv'
<1> USE DEF TriggersInv, TriggerTypes, ReportFlag, Reading, Trigger, Route, ReportStep, Types,
            NoSet,
            NoEvent, NoRoute, NoReport, Unknown, sensorVars, publishVars, setVars, askVars,
            Threads, Halves, Wanted
<1>1. TriggerTypes'
  OBVIOUS
<1>2. Holding'
  BY DEF Holding
<1>3. TearingDown'
  BY DEF TearingDown, GoneMeansStopped
<1>4. Reporting'
  BY DEF Reporting
<1>5. Stopping'
  BY DEF Stopping
<1>6. Baselines'
  BY DEF Baselines
<1>7. StayedOn'
  BY DEF StayedOn, SeenOff
<1>8. OneEach'
  BY DEF OneEach, Queued
<1>9. NewestUnderway'
  BY DEF NewestUnderway, Underway, Queued, Taken
<1> QED BY <1>1, <1>2, <1>3, <1>4, <1>5, <1>6, <1>7, <1>8, <1>9

(* What is under way is so while nothing of it moves. *)
LEMMA NewestStands ==
  ASSUME NewestUnderway, UNCHANGED <<tset, live, marked, pubTaken, busEvents, dispatch, sw>>,
         ~restart' /\ report'.kind # "Sensors" => ~restart /\ report.kind # "Sensors"
  PROVE  NewestUnderway'
<1>1. \A t: (Queued(t)' <=> Queued(t)) /\ (Taken(t)' <=> Taken(t))
  BY DEF Queued, Taken
<1>2. \A t: Underway(t)' <=> Underway(t)
  BY <1>1 DEF Underway
<1> QED BY <1>2 DEF NewestUnderway

(* Without a set the report goes on to its stop; with one it holds the     *)
(* lock, and only sensors that were checked tell the triggers apart.       *)
LEMMA ReportResolveFacts ==
  ASSUME TriggerTypes, NEW checked \in BOOLEAN, ReportResolve(checked)
  PROVE  /\ report.at = "lock" /\ report' \in ReportStep /\ report'.kind = report.kind
         /\ \/ tset = NoSet /\ report'.at = "stop" /\ (clean' => route["other"] = NoRoute) /\ setLock' = setLock
            \/ /\ tset # NoSet /\ report'.at = "baseline" /\ setLock' = "report" /\ clean' = clean
               /\ report.kind # "Sensors" => report'.known = {"all"}
<1> DEFINE known == IF checked THEN sensors ELSE {"all"}
<1>1. /\ report.at = "lock" /\ known \in SUBSET (Triggers \cup {"all"}) /\ report \in ReportStep
      /\ report.kind # "Sensors" => known = {"all"}
  BY DEF ReportResolve, TriggerTypes
<1>2. CASE tset = NoSet
  <2>1. report' = [report EXCEPT !.at = "stop"] /\ clean' = (route["other"] = NoRoute) /\ setLock' = setLock
    BY <1>2 DEF ReportResolve
  <2> QED BY <1>1, <1>2, <2>1 DEF ReportStep
<1>3. CASE tset # NoSet
  <2>1. /\ report' = [[report EXCEPT !.at = "baseline"] EXCEPT !.known = known]
        /\ setLock' = "report" /\ clean' = clean
    BY <1>3 DEF ReportResolve
  <2> HIDE DEF known
  <2> DEFINE r == [report EXCEPT !.at = "baseline"]
  <2>2. r \in ReportStep /\ r.kind = report.kind /\ r.at = "baseline"
    BY <1>1 DEF ReportStep
  <2>3. report' = [r EXCEPT !.known = known]
    BY <2>1
  <2> HIDE DEF r
  <2>4. report' \in ReportStep /\ report'.kind = r.kind /\ report'.at = r.at /\ report'.known = known
    BY <1>1, <2>2, <2>3 DEF ReportStep
  <2> QED BY <1>1, <1>3, <2>1, <2>2, <2>4
<1> QED BY <1>2, <1>3

(* Which triggers keep their sensor. *)
LEMMA ReportResolveKeeps ==
  ASSUME TriggersInv, NEW checked \in BOOLEAN, ReportResolve(checked)
  PROVE  TriggersInv'
<1> USE DEF TriggersInv, TriggerTypes, ReportResolve, Reading, Trigger, Route, ReportStep, Types,
            NoSet, NoEvent, NoRoute, NoReport, Unknown, sensorVars, publishVars, setVars, askVars,
            Threads, Halves, Wanted
<1>1. TriggerTypes'
  <2>1. UNCHANGED <<sw, sensors, live, marked, pubTaken, busEvents, dispatch, tset, wants, leftOn, route>>
    OBVIOUS
  <2> HIDE DEF ReportResolve, ReportStep, Route
  <2> QED BY <2>1, ReportResolveFacts
<1>2. Holding'
  <2>1. UNCHANGED <<setGuard, route, tset, dispatch, rebuild>>
    OBVIOUS
  <2> HIDE DEF ReportResolve, ReportStep, Route
  <2> QED BY <2>1, ReportResolveFacts DEF Holding
<1>3. TearingDown'
  BY DEF TearingDown, GoneMeansStopped
<1>4. Reporting'
  <2>1. UNCHANGED <<route, isUpdated>>
    OBVIOUS
  <2> HIDE DEF ReportResolve, ReportStep, Route
  <2> QED BY <2>1, ReportResolveFacts DEF Reporting
<1>5. Stopping'
  <2>1. UNCHANGED <<route, wants>>
    OBVIOUS
  <2> HIDE DEF ReportResolve, ReportStep, Route
  <2> QED BY <2>1, ReportResolveFacts DEF Stopping, Holding
<1>6. Baselines'
  <2>1. UNCHANGED <<leftOn, isUpdated, tset>>
    OBVIOUS
  <2> HIDE DEF ReportResolve, ReportStep, Route
  <2> QED BY <2>1, ReportResolveFacts DEF Baselines, Reporting
<1>7. StayedOn'
  BY DEF StayedOn, SeenOff
<1>8. OneEach'
  BY DEF OneEach, Queued
<1>9. NewestUnderway'
  <2>1. UNCHANGED <<tset, restart, live, marked, pubTaken, busEvents, dispatch, sw>>
    OBVIOUS
  <2> HIDE DEF ReportResolve, ReportStep, Route
  <2>2. report'.kind = report.kind
    BY ReportResolveFacts
  <2> QED BY <2>1, <2>2, NewestStands
<1> QED BY <1>1, <1>2, <1>3, <1>4, <1>5, <1>6, <1>7, <1>8, <1>9

(* The baselines. *)
LEMMA ReportBaselineKeeps ==
  ASSUME TriggersInv, ReportBaseline
  PROVE  TriggersInv'
<1> USE DEF TriggersInv, TriggerTypes, ReportBaseline, GuardFree, Baselined, Reading, Trigger,
            Route, ReportStep, Types, NoSet, NoEvent, NoRoute, NoReport, Unknown, sensorVars,
            publishVars, setVars, askVars, Threads, Halves, Wanted
<1>1. TriggerTypes'
  <2>1. tset # NoSet /\ tset \in [Triggers -> Trigger]
    BY DEF Holding
  <2>2. ASSUME NEW t \in Triggers PROVE Baselined(t) \in Trigger
    <3>1. tset[t].last \in 0..2 /\ tset[t].withdrawn \in BOOLEAN
      BY <2>1
    <3>2. (IF report.known = {"all"} \/ t \in report.known \/ tset[t].withdrawn THEN tset[t].last ELSE Unknown) \in 0..2
      BY <3>1
    <3>3. (IF report.known = {"all"} THEN tset[t].withdrawn ELSE t \notin report.known) \in BOOLEAN
      BY <3>1
    <3> QED BY <3>2, <3>3
  <2>3. tset' \in [Triggers -> Trigger] /\ report' \in ReportStep
    BY <2>2
  <2> QED BY <2>3
<1>2. Holding'
  BY DEF Holding
<1>3. TearingDown'
  BY DEF TearingDown, GoneMeansStopped
<1>4. Reporting'
  BY DEF Reporting
<1>5. Stopping'
  BY DEF Stopping, Holding
<1>6. Baselines'
  BY DEF Baselines, Reporting
<1>7. StayedOn'
  <2>1. tset # NoSet
    BY DEF Holding
  <2>2. \A t \in Triggers: tset'[t].last \in {tset[t].last, 2}
    OBVIOUS
  <2>3. UNCHANGED <<leftOn, sw, pubTaken, busEvents, dispatch>> /\ leftOn \subseteq Triggers
    OBVIOUS
  <2> HIDE DEF ReportBaseline, Baselined
  <2> QED BY <2>1, <2>2, <2>3 DEF StayedOn, SeenOff
<1>8. OneEach'
  BY DEF OneEach, Queued
<1>9. NewestUnderway'
  <2> SUFFICES ASSUME ~restart, report.kind # "Sensors", NEW t \in live, ~tset'[t].withdrawn
               PROVE  Underway(t)'
    BY DEF NewestUnderway
  <2>1. t \in Triggers /\ report.known = {"all"} /\ tset # NoSet
    BY DEF Reporting, Holding
  <2>2. tset'[t].last = tset[t].last /\ tset'[t].withdrawn = tset[t].withdrawn
    BY <2>1
  <2>3. UNCHANGED <<sw, marked, pubTaken, busEvents, dispatch>>
    OBVIOUS
  <2> HIDE DEF ReportBaseline, Baselined
  <2>4. Underway(t)
    BY <2>1, <2>2 DEF NewestUnderway
  <2> QED BY <2>2, <2>3, <2>4 DEF Underway, Queued, Taken
<1> QED BY <1>1, <1>2, <1>3, <1>4, <1>5, <1>6, <1>7, <1>8, <1>9

(* The stop of an update. *)
LEMMA ReportStopKeeps ==
  ASSUME TriggersInv, ReportStop
  PROVE  TriggersInv'
<1> USE DEF TriggersInv, TriggerTypes, ReportStop, Reading, Trigger, Route, ReportStep, Types,
            NoSet,
            NoEvent, NoRoute, NoReport, Unknown, sensorVars, publishVars, setVars, askVars,
            Threads, Halves, Wanted
<1>1. TriggerTypes'
  <2> DEFINE r == [halves |-> HalvesOf("all"), want |-> "Stop", by |-> "update"]
  <2>1. r \in Route /\ r.halves # {}
    BY SomeHalves
  <2>2. route' \in [Threads -> Route] /\ \A thread \in Threads: route'[thread].halves = {} => route'[thread] = NoRoute
    BY <2>1, OneRoute
  <2>3. report' \in ReportStep /\ leftOn' \subseteq Triggers
    OBVIOUS
  <2> QED BY <2>2, <2>3
<1>2. Holding'
  BY DEF Holding
<1>3. TearingDown'
  BY DEF TearingDown, GoneMeansStopped
<1>4. Reporting'
  BY DEF Reporting
<1>5. Stopping'
  BY DEF Stopping, HalvesOf
<1>6. Baselines'
  BY DEF Baselines
<1>7. StayedOn'
  <2> SUFFICES ASSUME NEW t \in leftOn' PROVE sw[t] = 1 /\ ~SeenOff(t)
    BY DEF StayedOn, SeenOff
  <2>1. t \in Triggers /\ sw[t] = 1 /\ ~SawOff(t)
    OBVIOUS
  <2> HIDE DEF ReportStop
  <2>2. \A r \in Reading: r.t = t /\ r.v = 0 => r = [t |-> t, v |-> 0]
    OBVIOUS
  <2> HIDE DEF Reading
  <2>3. \A i \in 1..Len(busEvents): busEvents[i] \in Reading
    OBVIOUS
  <2> QED BY <2>1, <2>2, <2>3 DEF SawOff, Flying, SeenOff
<1>8. OneEach'
  BY DEF OneEach, Queued
<1>9. NewestUnderway'
  BY DEF NewestUnderway, Underway, Queued, Taken
<1> QED BY <1>1, <1>2, <1>3, <1>4, <1>5, <1>6, <1>7, <1>8, <1>9

(* The handler of the store itself. *)
LEMMA ReportEndKeeps ==
  ASSUME TriggersInv, ReportEnd
  PROVE  TriggersInv'
<1> USE DEF TriggersInv, TriggerTypes, ReportEnd, Rebuilding, Reading, Trigger, Route, ReportStep,
            Types, NoSet, NoEvent, NoRoute, NoReport, Unknown, sensorVars, publishVars, setVars,
            askVars, Threads, Halves, Wanted
<1>1. TriggerTypes'
  OBVIOUS
<1>2. Holding'
  BY DEF Holding
<1>3. TearingDown'
  BY DEF TearingDown, GoneMeansStopped
<1>4. Reporting'
  BY DEF Reporting
<1>5. Stopping'
  BY DEF Stopping
<1>6. Baselines'
  BY DEF Baselines
<1>7. StayedOn'
  BY DEF StayedOn, SeenOff
<1>8. OneEach'
  BY DEF OneEach, Queued
<1>9. NewestUnderway'
  <2>1. /\ UNCHANGED <<tset, live, marked, pubTaken, busEvents, dispatch, sw>>
        /\ ~restart' => ~restart /\ report.kind # "Sensors"
    OBVIOUS
  <2> QED BY <2>1, NewestStands
<1> QED BY <1>1, <1>2, <1>3, <1>4, <1>5, <1>6, <1>7, <1>8, <1>9

(* The old set goes. *)
LEMMA RebuildResetKeeps ==
  ASSUME TriggersInv, RebuildReset
  PROVE  TriggersInv'
<1> USE DEF TriggersInv, TriggerTypes, RebuildReset, Detachable, Reading, Trigger, Route,
            ReportStep,
            Types, NoSet, NoEvent, NoRoute, NoReport, Unknown, sensorVars, publishVars, setVars,
            askVars, Threads, Halves, Wanted
<1>1. TriggerTypes'
  OBVIOUS
<1>2. Holding'
  BY DEF Holding
<1>3. TearingDown'
  BY DEF TearingDown, GoneMeansStopped
<1>4. Reporting'
  BY DEF Reporting
<1>5. Stopping'
  BY DEF Stopping
<1>6. Baselines'
  BY DEF Baselines
<1>7. StayedOn'
  BY DEF StayedOn, SeenOff
<1>8. OneEach'
  BY DEF OneEach, Queued
<1>9. NewestUnderway'
  BY DEF NewestUnderway, Underway, Queued, Taken
<1> QED BY <1>1, <1>2, <1>3, <1>4, <1>5, <1>6, <1>7, <1>8, <1>9

(* The new set comes, with every reading marked, or none. *)
LEMMA RebuildSetKeeps ==
  ASSUME TriggersInv, NEW built \in BOOLEAN, RebuildSet(built)
  PROVE  TriggersInv'
<1> USE DEF TriggersInv, TriggerTypes, RebuildSet, NewSet, Replay, Reading, Trigger, Route,
            ReportStep,
            Types, NoSet, NoEvent, NoRoute, NoReport, Unknown, sensorVars, publishVars, setVars,
            askVars, Threads, Halves, Wanted
<1>1. TriggerTypes'
  <2>1. tset' = NoSet \/ tset' \in [Triggers -> Trigger]
    OBVIOUS
  <2> QED BY <2>1
<1>2. Holding'
  BY DEF Holding
<1>3. TearingDown'
  BY DEF TearingDown, GoneMeansStopped
<1>4. Reporting'
  BY DEF Reporting
<1>5. Stopping'
  BY DEF Stopping
<1>6. Baselines'
  BY DEF Baselines
<1>7. StayedOn'
  BY DEF StayedOn, SeenOff
<1>8. OneEach'
  BY DEF OneEach, Queued
<1>9. NewestUnderway'
  BY DEF NewestUnderway, Underway, Queued, Taken
<1> QED BY <1>1, <1>2, <1>3, <1>4, <1>5, <1>6, <1>7, <1>8, <1>9

(* Start(). *)
LEMMA StartControllerKeeps ==
  ASSUME TriggersInv, StartController
  PROVE  TriggersInv'
<1> USE DEF TriggersInv, TriggerTypes, StartController, Reading, Trigger, Route, ReportStep, Types,
            NoSet, NoEvent, NoRoute, NoReport, Unknown, sensorVars, publishVars, setVars, askVars,
            Threads, Halves, Wanted
<1>1. TriggerTypes'
  OBVIOUS
<1>2. Holding'
  BY DEF Holding
<1>3. TearingDown'
  BY DEF TearingDown, GoneMeansStopped
<1>4. Reporting'
  BY DEF Reporting
<1>5. Stopping'
  BY DEF Stopping
<1>6. Baselines'
  BY DEF Baselines
<1>7. StayedOn'
  BY DEF StayedOn, SeenOff
<1>8. OneEach'
  BY DEF OneEach, Queued
<1>9. NewestUnderway'
  BY DEF NewestUnderway, Underway, Queued, Taken
<1> QED BY <1>1, <1>2, <1>3, <1>4, <1>5, <1>6, <1>7, <1>8, <1>9

(* The update stop goes. *)
LEMMA DropUpdateStopKeeps ==
  ASSUME TriggersInv, DropUpdateStop
  PROVE  TriggersInv'
<1> USE DEF TriggersInv, TriggerTypes, DropUpdateStop, Reading, Trigger, Route, ReportStep, Types,
            NoSet, NoEvent, NoRoute, NoReport, Unknown, sensorVars, publishVars, setVars, askVars,
            Threads, Halves, Wanted
<1>1. TriggerTypes'
  OBVIOUS
<1>2. Holding'
  BY DEF Holding
<1>3. TearingDown'
  BY DEF TearingDown, GoneMeansStopped
<1>4. Reporting'
  BY DEF Reporting
<1>5. Stopping'
  BY DEF Stopping
<1>6. Baselines'
  BY DEF Baselines
<1>7. StayedOn'
  BY DEF StayedOn, SeenOff
<1>8. OneEach'
  BY DEF OneEach, Queued
<1>9. NewestUnderway'
  BY DEF NewestUnderway, Underway, Queued, Taken
<1> QED BY <1>1, <1>2, <1>3, <1>4, <1>5, <1>6, <1>7, <1>8, <1>9

(* The rebuild task goes. *)
LEMMA CancelRebuildKeeps ==
  ASSUME TriggersInv, CancelRebuild
  PROVE  TriggersInv'
<1> USE DEF TriggersInv, TriggerTypes, CancelRebuild, Reading, Trigger, Route, ReportStep, Types,
            NoSet, NoEvent, NoRoute, NoReport, Unknown, sensorVars, publishVars, setVars, askVars,
            Threads, Halves, Wanted
<1>1. TriggerTypes'
  OBVIOUS
<1>2. Holding'
  BY DEF Holding
<1>3. TearingDown'
  BY DEF TearingDown, GoneMeansStopped
<1>4. Reporting'
  BY DEF Reporting
<1>5. Stopping'
  BY DEF Stopping
<1>6. Baselines'
  BY DEF Baselines
<1>7. StayedOn'
  BY DEF StayedOn, SeenOff
<1>8. OneEach'
  BY DEF OneEach, Queued
<1>9. NewestUnderway'
  BY DEF NewestUnderway, Underway, Queued, Taken
<1> QED BY <1>1, <1>2, <1>3, <1>4, <1>5, <1>6, <1>7, <1>8, <1>9

(* The triggers go. *)
LEMMA DropInputsKeeps ==
  ASSUME TriggersInv, DropInputs
  PROVE  TriggersInv'
<1> USE DEF TriggersInv, TriggerTypes, DropInputs, Detachable, Reading, Trigger, Route, ReportStep,
            Types, NoSet, NoEvent, NoRoute, NoReport, Unknown, sensorVars, publishVars, setVars,
            askVars, Threads, Halves, Wanted
<1>1. TriggerTypes'
  OBVIOUS
<1>2. Holding'
  BY DEF Holding, TearingDown
<1>3. TearingDown'
  BY DEF TearingDown, GoneMeansStopped
<1>4. Reporting'
  BY DEF Reporting
<1>5. Stopping'
  BY DEF Stopping
<1>6. Baselines'
  BY DEF Baselines
<1>7. StayedOn'
  BY DEF StayedOn, SeenOff
<1>8. OneEach'
  BY DEF OneEach, Queued
<1>9. NewestUnderway'
  BY DEF NewestUnderway, Underway, Queued, Taken
<1> QED BY <1>1, <1>2, <1>3, <1>4, <1>5, <1>6, <1>7, <1>8, <1>9

(* The writer is stopped. *)
LEMMA StopLogWriterKeeps ==
  ASSUME TriggersInv, StopLogWriter
  PROVE  TriggersInv'
<1> USE DEF TriggersInv, TriggerTypes, StopLogWriter, Reading, Trigger, Route, ReportStep, Types,
            NoSet, NoEvent, NoRoute, NoReport, Unknown, sensorVars, publishVars, setVars, askVars,
            Threads, Halves, Wanted
<1>1. TriggerTypes'
  OBVIOUS
<1>2. Holding'
  BY DEF Holding
<1>3. TearingDown'
  BY DEF TearingDown, GoneMeansStopped
<1>4. Reporting'
  BY DEF Reporting
<1>5. Stopping'
  BY DEF Stopping
<1>6. Baselines'
  BY DEF Baselines
<1>7. StayedOn'
  BY DEF StayedOn, SeenOff
<1>8. OneEach'
  BY DEF OneEach, Queued
<1>9. NewestUnderway'
  BY DEF NewestUnderway, Underway, Queued, Taken
<1> QED BY <1>1, <1>2, <1>3, <1>4, <1>5, <1>6, <1>7, <1>8, <1>9
-----------------------------------------------------------------------------
(* The invariant holds at first. *)
LEMMA TriggersInvInit == TriggersInit => TriggersInv
<1> SUFFICES ASSUME TriggersInit PROVE TriggersInv
  OBVIOUS
<1> USE DEF TriggersInit, Reading, Trigger, Route, ReportStep, Types, NoSet, NoEvent, NoRoute,
            NoReport,
            Unknown, Threads, Halves, Wanted, NewSet
<1>1. TriggerTypes
  <2>1. busEvents \in Seq(Reading)
    OBVIOUS
  <2> QED BY <2>1 DEF TriggerTypes
<1>2. Holding
  BY DEF Holding
<1>3. TearingDown
  BY DEF TearingDown, GoneMeansStopped
<1>4. Reporting /\ Stopping /\ Baselines /\ StayedOn
  BY DEF Reporting, Stopping, Baselines, StayedOn
<1>5. OneEach
  BY DEF OneEach, Queued
<1>6. NewestUnderway
  BY DEF NewestUnderway, Underway
<1> QED BY <1>1, <1>2, <1>3, <1>4, <1>5, <1>6 DEF TriggersInv

(* Every request of a command or of the SMP group is an Ask(). *)
LEMMA RequestsAsk ==
  ASSUME NEW want \in Wanted, HandleLoggingCommand(want) \/ \E target: MgmtRequest(want, target)
  PROVE  phase \in {"built", "started", "noStop", "noTask"} /\ \E halves \in (SUBSET Halves) \ {{}}: Ask(want, halves)
BY SomeHalves DEF HandleLoggingCommand, MgmtRequest

(* So is the stop of an upload. *)
LEMMA UploadsAsk ==
  ASSUME OnUploadStarted
  PROVE  phase \in {"built", "started", "noStop", "noTask"} /\ \E halves \in (SUBSET Halves) \ {{}}: Ask("Stop", halves)
BY SomeHalves DEF OnUploadStarted

(* Every step keeps the invariant. *)
LEMMA TriggersInvStep == TriggersInv /\ [TriggersNext]_triggerVars => TriggersInv'
<1> SUFFICES ASSUME TriggersInv, [TriggersNext]_triggerVars PROVE TriggersInv'
  OBVIOUS
<1>1. CASE UNCHANGED triggerVars
  <2>1. /\ UNCHANGED sensorVars /\ UNCHANGED publishVars /\ UNCHANGED setVars /\ UNCHANGED askVars
        /\ UNCHANGED <<report, phase, leftOn, clean>>
    BY <1>1 DEF triggerVars
  <2> USE <2>1 DEF sensorVars, publishVars, setVars, askVars, TriggersInv
  <2>2. TriggerTypes' /\ Holding'
    BY DEF TriggerTypes, Holding
  <2>3. TearingDown' /\ Reporting' /\ Stopping' /\ Baselines'
    BY DEF TearingDown, GoneMeansStopped, Reporting, Stopping, Baselines
  <2>4. StayedOn' /\ OneEach'
    BY DEF StayedOn, SeenOff, OneEach, Queued
  <2>5. NewestUnderway'
    BY DEF NewestUnderway, Underway, Queued, Taken
  <2> QED BY <2>2, <2>3, <2>4, <2>5
<1>2. CASE \/ \E t \in Triggers: Turn(t)
           \/ SensorsRestart \/ TakeReadings \/ (\E r \in pubTaken: PublishReading(r)) \/ TakeEvent \/ Deliver
  BY <1>2, TurnKeeps, SensorsRestartKeeps, TakeReadingsKeeps, PublishReadingKeeps, TakeEventKeeps,
     DeliverKeeps
<1>3. CASE \E thread \in Threads: RouteNext(thread)
  BY <1>3, RouteNextKeeps
<1>4. CASE \E want \in Wanted: HandleLoggingCommand(want) \/ \E target \in {"all", "own", "other"}: MgmtRequest(want, target)
  BY <1>4, RequestsAsk, AskKeeps
<1>5. CASE OnUploadStarted
  BY <1>5, UploadsAsk, AskKeeps DEF Wanted
<1>6. CASE \/ \E kind \in Types: StoreConfiguration(kind)
           \/ ReportFlag \/ (\E checked \in BOOLEAN: ReportResolve(checked)) \/ ReportBaseline
           \/ ReportStop \/ ReportEnd
  BY <1>6, StoreConfigurationKeeps, ReportFlagKeeps, ReportResolveKeeps, ReportBaselineKeeps,
     ReportStopKeeps,
     ReportEndKeeps
<1>7. CASE RebuildReset \/ (\E built \in BOOLEAN: RebuildSet(built))
  BY <1>7, RebuildResetKeeps, RebuildSetKeeps
<1>8. CASE StartController \/ DropUpdateStop \/ CancelRebuild \/ DropInputs \/ StopLogWriter
  BY <1>8, StartControllerKeeps, DropUpdateStopKeeps, CancelRebuildKeeps, DropInputsKeeps,
     StopLogWriterKeeps
<1> QED BY <1>1, <1>2, <1>3, <1>4, <1>5, <1>6, <1>7, <1>8 DEF TriggersNext, Threads, Wanted

(* What the invariant says of the states. *)
LEMMA TriggersInvSafe == TriggersInv => UpdateStops /\ KnowsItsSwitch /\ GoneMeansStopped
<1> SUFFICES ASSUME TriggersInv PROVE UpdateStops /\ KnowsItsSwitch /\ GoneMeansStopped
  OBVIOUS
<1>1. UpdateStops
  <2> SUFFICES ASSUME clean, report.at \in {"idle", "handler"}
               PROVE  wants = [h \in {"writer", "network"} |-> "Stop"]
    BY DEF UpdateStops
  <2>1. route["store"].halves = {}
    BY DEF TriggersInv, Reporting, NoRoute
  <2>2. \A h \in Halves: wants[h] = "Stop"
    BY <2>1 DEF TriggersInv, Stopping
  <2> QED BY <2>2 DEF TriggersInv, TriggerTypes, Halves
<1>2. KnowsItsSwitch
  <2> SUFFICES ASSUME tset # NoSet, marked = {}, pubTaken = {}, busEvents = <<>>, ~dispatch.is, ~restart,
                      report = NoReport, NEW t \in live, ~tset[t].withdrawn
               PROVE  tset[t].last = sw[t]
    BY DEF KnowsItsSwitch
  <2>1. Underway(t)
    BY DEF TriggersInv, NewestUnderway, NoReport
  <2> QED BY <2>1 DEF Underway
<1> QED BY <1>1, <1>2 DEF TriggersInv, TearingDown

(* A start by a trigger: nothing but a delivery begins one, and the switch *)
(* was turned since the stop of the last update.                           *)
LEMMA StartNeedsTurn ==
  ASSUME TriggersInv, [TriggersNext]_triggerVars, route["bus"] = NoRoute, route'["bus"] # NoRoute,
         route'["bus"].want = "Start"
  PROVE  route'["bus"].by \notin leftOn
<1>1. CASE Deliver
  <2>1. TriggerTypes /\ Holding
    BY DEF TriggersInv
  <2>2. /\ dispatch.is /\ dispatch.v = 1 /\ route'["bus"].by = dispatch.t /\ dispatch.t \in DOMAIN tset
        /\ TriggerActs(tset[dispatch.t], dispatch.v) /\ tset # NoSet /\ tset[dispatch.t].last \in 0..2
    BY <1>1, <2>1, DeliverFacts DEF Trigger
  <2> SUFFICES ASSUME dispatch.t \in leftOn PROVE FALSE
    BY <2>2
  <2>3. tset[dispatch.t].first = "IsBaseline" /\ tset[dispatch.t].last # 0
    BY <2>2 DEF TriggersInv, Baselines, StayedOn, SeenOff
  <2> QED BY <2>2, <2>3 DEF TriggerActs, Unknown
<1>2. CASE \E thread \in Threads: RouteNext(thread)
  <2>1. PICK thread \in Threads: RouteNext(thread)
    BY <1>2
  <2>2. thread = "bus"
    BY <2>1, RouteNextFacts DEF TriggersInv, Threads
  <2> QED BY <2>1, <2>2, RouteNextFacts DEF TriggersInv
<1>3. CASE (\E want, halves: Ask(want, halves)) \/ ReportStop
  BY <1>3 DEF Ask, ReportStop, TriggersInv, TriggerTypes, Threads
<1>4. CASE UNCHANGED route
  BY <1>4
<1>5. \/ Deliver \/ (\E thread \in Threads: RouteNext(thread)) \/ (\E want, halves: Ask(want, halves))
      \/ ReportStop \/ UNCHANGED route
  <2>1. ASSUME ~UNCHANGED triggerVars
        PROVE  \/ Deliver \/ (\E thread \in Threads: RouteNext(thread)) \/ (\E want, halves: Ask(want, halves))
               \/ ReportStop \/ UNCHANGED askVars \/ UNCHANGED route
    <3>1. TriggersNext
      BY <2>1
    <3> QED BY <3>1 DEF TriggersNext, Threads, Turn, SensorsRestart, TakeReadings, PublishReading,
               TakeEvent,
               HandleLoggingCommand, MgmtRequest, OnUploadStarted, StoreConfiguration, ReportFlag, ReportResolve,
               ReportBaseline, ReportEnd, RebuildReset, RebuildSet, StartController, DropUpdateStop,
               CancelRebuild, DropInputs, StopLogWriter
  <2>2. UNCHANGED askVars \/ UNCHANGED triggerVars => UNCHANGED route
    BY DEF askVars, triggerVars
  <2> QED BY <2>1, <2>2
<1> QED BY <1>1, <1>2, <1>3, <1>4, <1>5

(* Logging starts and stops as it should: only a turn of a switch after an *)
(* update starts it (TriggerActs), an update leaves both halves stopped    *)
(* (ReportStop), triggers know their switches once all is delivered        *)
(* (Replay), and a controller that is gone leaves the writer stopped.      *)
THEOREM TriggersAreSafe == TriggersSpec => LoggingTriggersSafe
<1>1. TriggersInv /\ [TriggersNext]_triggerVars =>
        [route["bus"] = NoRoute /\ route'["bus"] # NoRoute /\ route'["bus"].want = "Start"
           => route'["bus"].by \notin leftOn]_triggerVars
  BY StartNeedsTurn
<1> QED BY <1>1, TriggersInvInit, TriggersInvStep, TriggersInvSafe, PTL
        DEF TriggersSpec, LoggingTriggersSafe, StartsByALaterTurn

-----------------------------------------------------------------------------
\* Remote logging: the inductive invariant.

Status  == {"Active", "Stopped", "Failed"}
Network == Status \cup {"Unavailable"}
Desire  == {"None", "Start", "Stop"}
Unit    == [run: {"down", "booting", "ready"}, status: Status]
Copy    == [has: BOOLEAN, status: Status, stale: BOOLEAN]
Goal    == [uid: Loggers \cup {"none", "all"}, wanted: Desire, due: BOOLEAN]
Slots   == [1..SlotCount -> Goal]

Waiting == task \in {"due", "resend"}
Sending == task \in {"sending", "resend"}

RemoteTypes ==
  /\ unit \in [Loggers -> Unit] /\ heard \in [Loggers -> Desire \cup {"own"}]
  /\ wish \in [Loggers -> Desire] /\ copy \in [Loggers -> Copy]
  /\ table \subseteq Loggers /\ hasLogging \subseteq table /\ armed \subseteq Loggers
  /\ restarted \subseteq Loggers /\ task \in {"idle", "due", "sending", "resend"}
  /\ bus \in Seq(Network) /\ published \in Network \cup {"none"}
  /\ notify \in BOOLEAN /\ statusEmpty \in BOOLEAN /\ unavailable \in BOOLEAN
  /\ all \in Goal /\ slots \in Slots
  /\ Sending => taken.all \in Goal /\ taken.slots \in Slots

(* What a logger has told this unit: a copy goes when it leaves, features  *)
(* come with a heartbeat, and after a boot only this boot's status counts. *)
Told ==
  \A u \in Loggers:
    /\ copy[u].has => u \in table
    /\ unit[u].run = "booting" => u \notin hasLogging
    /\ unit[u].run # "down" /\ heard[u] = "None" =>
         /\ unit[u].status = "Stopped"
         /\ copy[u].has /\ ~copy[u].stale => copy[u].status = "Stopped"

(* The statuses on their way end with the one published last, which is the *)
(* copies' unless a handler call is scheduled.                             *)
Stream ==
  /\ ~notify => published = Combine(copy)
  /\ statusEmpty => published = "Unavailable"
  /\ bus = <<>> => (unavailable <=> published = "Unavailable")
  /\ bus # <<>> => bus[Len(bus)] = published

(* A unit has one slot, and one set after the request for all is due too. *)
OneSlot(s) ==
  \A i, j \in 1..SlotCount: s[i].uid = s[j].uid /\ s[i].wanted # "None" /\ s[j].wanted # "None" => i = j
SlotsLater(a, s) == a.due => \A i \in 1..SlotCount: s[i].wanted # "None" => s[i].due

(* The targets want a unit to log. *)
SlotOf(s, u, wanted) == \E i \in 1..SlotCount: s[i].uid = u /\ s[i].wanted = wanted
SlotDue(s, u) == \E i \in 1..SlotCount: s[i].uid = u /\ s[i].wanted = "Start" /\ s[i].due
Wanting(a, s, u) == SlotOf(s, u, "Start") \/ (a.wanted = "Start" /\ ~SlotOf(s, u, "Stop"))
StartDue(a, s, u) == (a.wanted = "Start" /\ a.due) \/ SlotDue(s, u)

Pending(u) == Waiting /\ StartDue(all, slots, u)

Targets ==
  /\ OneSlot(slots) /\ SlotsLater(all, slots)
  /\ Sending => OneSlot(taken.slots) /\ SlotsLater(taken.all, taken.slots)
  /\ \A u \in Loggers: wish[u] = "Start" =>
       /\ Wanting(all, slots, u)
       /\ Sending => Wanting(taken.all, taken.slots, u) \/ Pending(u)

(* Process() holds what makes it send the start. *)
InHand(u) ==
  /\ Sending /\ Wanting(taken.all, taken.slots, u)
  /\ taken.reassert \/ u \in taken.restarted \/ StartDue(taken.all, taken.slots, u)

(* The status rule: Unavailable, then Stopped. *)
RuleAt(k) == bus[k] = "Stopped" /\ (IF k = 1 THEN unavailable ELSE bus[k - 1] = "Unavailable")
RuleDue   == (reassert /\ Waiting) \/ \E k \in 1..Len(bus): RuleAt(k)

(* A logger that is wanted to log and was not told to since it booted. *)
Untold(u) ==
  /\ unit[u].run = "ready" /\ unit[u].status = "Stopped"
  /\ wish[u] = "Start" /\ heard[u] \in {"None", "Stop"}

Coming(u) ==
  \/ u \notin hasLogging \/ u \in armed \/ Pending(u) \/ InHand(u)
  \/ (u \in restarted /\ Waiting) \/ RuleDue

StartsComing == \A u \in Loggers: Untold(u) => Coming(u)

(* A current copy says that it is stopped, unless a request is on its way. *)
CopyTells ==
  \A u \in Loggers:
    /\ Untold(u) /\ u \in hasLogging
    /\ copy[u].has /\ ~copy[u].stale /\ copy[u].status # "Stopped"
    => Pending(u) \/ InHand(u)

RemoteInv == RemoteTypes /\ Told /\ Stream /\ Targets /\ StartsComing /\ CopyTells

-----------------------------------------------------------------------------
(* What the task is asked for while it runs makes it run again. *)
LEMMA ControlGrows ==
  ASSUME task \in {"idle", "due", "sending", "resend"}, task' \in {task, Rescheduled},
         UNCHANGED <<all, slots, taken>>
  PROVE  /\ task' \in {"idle", "due", "sending", "resend"} /\ (Sending' <=> Sending)
         /\ (Waiting => Waiting') /\ (task' = Rescheduled => Waiting')
         /\ \A u: (Pending(u) => Pending(u)') /\ (InHand(u)' <=> InHand(u))
<1>1. /\ task' \in {"idle", "due", "sending", "resend"} /\ (Sending' <=> Sending)
      /\ (Waiting => Waiting') /\ (task' = Rescheduled => Waiting')
  BY DEF Sending, Waiting, Rescheduled
<1>2. ASSUME NEW u PROVE (Pending(u) => Pending(u)') /\ (InHand(u)' <=> InHand(u))
  <2>1. (StartDue(all, slots, u))' <=> StartDue(all, slots, u)
    BY DEF StartDue, SlotDue
  <2>2. (StartDue(taken.all, taken.slots, u))' <=> StartDue(taken.all, taken.slots, u)
    BY DEF StartDue, SlotDue
  <2>3. (Wanting(taken.all, taken.slots, u))' <=> Wanting(taken.all, taken.slots, u)
    BY DEF Wanting, SlotOf
  <2> QED BY <1>1, <2>1, <2>2, <2>3 DEF Pending, InHand
<1> QED BY <1>1, <1>2

(* Then the targets are as they were. *)
LEMMA TargetsStand ==
  ASSUME Targets, task \in {"idle", "due", "sending", "resend"}, task' \in {task, Rescheduled},
         UNCHANGED <<all, slots, taken, wish>>
  PROVE  Targets'
<1>1. (OneSlot(slots))' /\ (SlotsLater(all, slots))'
  BY DEF Targets, OneSlot, SlotsLater
<1>2. ASSUME Sending' PROVE (OneSlot(taken.slots))' /\ (SlotsLater(taken.all, taken.slots))'
  BY <1>2, ControlGrows DEF Targets, OneSlot, SlotsLater
<1>3. ASSUME NEW u \in Loggers, wish'[u] = "Start"
      PROVE  (Wanting(all, slots, u))' /\ (Sending' => (Wanting(taken.all, taken.slots, u))' \/ Pending(u)')
  <2>1. (Wanting(all, slots, u))' <=> Wanting(all, slots, u)
    BY DEF Wanting, SlotOf
  <2>2. (Wanting(taken.all, taken.slots, u))' <=> Wanting(taken.all, taken.slots, u)
    BY DEF Wanting, SlotOf
  <2> QED BY <1>3, <2>1, <2>2, ControlGrows DEF Targets
<1> QED BY <1>1, <1>2, <1>3 DEF Targets

(* Combine() looks at the statuses that are there. *)
LEMMA CombineIs ==
  ASSUME NEW c
  PROVE  /\ Combine(c) \in Network /\ (Combine(c) = "Unavailable" <=> Holders(c) = {})
BY DEF Combine, Holders, Network, Status

LEMMA CombineSame ==
  ASSUME NEW c, NEW d, \A u \in Loggers: (c[u].has <=> d[u].has) /\ (c[u].has => c[u].status = d[u].status)
  PROVE  Combine(c) = Combine(d)
<1>1. Holders(c) = Holders(d)
  BY DEF Holders
<1>2. \A u \in Holders(c): c[u].status = d[u].status
  BY DEF Holders
<1> QED BY <1>1, <1>2 DEF Combine

(* One more status at the end. *)
LEMMA StatusAppended ==
  ASSUME NEW s \in Seq(Network), NEW e \in Network
  PROVE  /\ Append(s, e) \in Seq(Network) /\ Append(s, e) # <<>> /\ Len(Append(s, e)) = Len(s) + 1 /\ Len(s) \in Nat
         /\ Append(s, e)[Len(s) + 1] = e /\ \A k \in 1..Len(s): Append(s, e)[k] = s[k]
OBVIOUS

(* The statuses behind the first. *)
LEMMA StatusTaken ==
  ASSUME NEW s \in Seq(Network), s # <<>>
  PROVE  /\ Tail(s) \in Seq(Network) /\ Len(Tail(s)) = Len(s) - 1 /\ Len(s) \in Nat \ {0} /\ Head(s) = s[1]
         /\ (Tail(s) = <<>> <=> Len(s) = 1) /\ \A k \in 1..Len(s) - 1: Tail(s)[k] = s[k + 1]
<1>1. Len(s) \in Nat \ {0} /\ Head(s) = s[1]
  OBVIOUS
<1>2. Tail(s) \in Seq(Network) /\ Len(Tail(s)) = Len(s) - 1
  BY <1>1
<1>3. Tail(s) = <<>> <=> Len(Tail(s)) = 0
  BY <1>2
<1>4. \A k \in 1..Len(s) - 1: Tail(s)[k] = s[k + 1]
  BY <1>1, <1>2
<1> QED BY <1>1, <1>2, <1>3, <1>4

(* The rule waits for its status while others are published. *)
LEMMA RuleWaits ==
  ASSUME bus \in Seq(Network), NEW e \in Network, bus' \in {bus, Append(bus, e)}, UNCHANGED <<unavailable, reassert>>,
         Waiting => Waiting', RuleDue
  PROVE  RuleDue'
<1>1. CASE reassert /\ Waiting
  BY <1>1 DEF RuleDue
<1>2. CASE \E k \in 1..Len(bus): RuleAt(k)
  <2>1. PICK k \in 1..Len(bus): RuleAt(k)
    BY <1>2
  <2>2. Len(bus) \in Nat /\ k \in 1..Len(bus') /\ \A j \in 1..Len(bus): bus'[j] = bus[j]
    BY StatusAppended
  <2>3. RuleAt(k)'
    BY <2>1, <2>2 DEF RuleAt
  <2> QED BY <2>2, <2>3 DEF RuleDue
<1> QED BY <1>1, <1>2 DEF RuleDue

(* The commands: what is in hand is sent, and what is wanted is not undone; *)
(* a slot that remembers a stop keeps every start away but a new one.      *)
LEMMA OrderFacts ==
  ASSUME RemoteTypes, Targets, Sending, NEW u \in Loggers, Resolves(u)
  PROVE  /\ Wanting(taken.all, taken.slots, u) => Order(u) # "Stop"
         /\ InHand(u) => Order(u) = "Start"
         /\ SlotOf(taken.slots, u, "Stop") /\ ~taken.all.due => Order(u) # "Start"
<1>1. (u \in Want("Start") <=> SlotOf(taken.slots, u, "Start")) /\ (u \in Want("Stop") <=> SlotOf(taken.slots, u, "Stop"))
  BY DEF Want, SlotOf
<1>2. (u \in Due("Start") <=> SlotDue(taken.slots, u)) /\ (u \in Due("Stop") => u \in Want("Stop"))
  BY DEF Due, Want, SlotDue
<1>3. ~(u \in Want("Start") /\ u \in Want("Stop")) /\ (u \in Due("Start") => u \in Want("Start"))
  BY DEF Targets, OneSlot, Want, Due
<1>4. taken.all.due /\ u \in Want("Start") => u \in Due("Start")
  BY DEF Targets, SlotsLater, Want, Due
<1>5. (u \in StoppedAlone <=> u \in Want("Stop")) /\ (WantedBack(u) <=> (AllWant /\ u \notin Want("Stop")) \/ u \in Want("Start"))
  BY DEF StoppedAlone, WantedBack
<1>6. (BroadcastStart => AllWant /\ (taken.all.due \/ StoppedAlone = {})) /\ (AllWant /\ taken.all.due => BroadcastStart)
  BY DEF BroadcastStart
<1>7. u \in Starts <=> \/ u \in Due("Start") \/ BroadcastStart
                       \/ taken.reassert /\ (IF AllWant THEN u \notin StoppedAlone ELSE u \in Want("Start"))
                       \/ u \in taken.restarted /\ WantedBack(u)
  <2> HIDE DEF Resolves
  <2>1. u \in {v \in Due("Start"): Resolves(v)} <=> u \in Due("Start")
    OBVIOUS
  <2>2. u \in {v \in taken.restarted: WantedBack(v)} <=> u \in taken.restarted /\ WantedBack(u)
    OBVIOUS
  <2>3. u \in {v \in Loggers: Resolves(v)} \ StoppedAlone <=> u \notin StoppedAlone
    OBVIOUS
  <2>4. u \in {v \in Want("Start"): Resolves(v)} <=> u \in Want("Start")
    OBVIOUS
  <2>5. BroadcastStart => AllWant
    BY <1>6
  <2> QED BY <2>1, <2>2, <2>3, <2>4, <2>5, Zenon DEF Starts
<1>8. u \in Stops => u \in Due("Stop") \/ (taken.all.due /\ taken.all.wanted = "Stop")
  BY DEF Stops
<1>9. (Order(u) = "Stop" => u \in Due("Stop") \/ (u \in Stops /\ u \notin Starts))
      /\ (Order(u) = "Start" => u \in Starts) /\ (u \in Starts /\ u \notin Due("Stop") => Order(u) = "Start")
  BY DEF Order
<1>10. ASSUME Wanting(taken.all, taken.slots, u)
       PROVE  u \notin Want("Stop") /\ (u \in Want("Start") \/ AllWant)
  BY <1>1, <1>3, <1>10 DEF Wanting, AllWant
<1>11. ASSUME Wanting(taken.all, taken.slots, u) PROVE Order(u) # "Stop"
  BY <1>2, <1>4, <1>7, <1>8, <1>9, <1>10, <1>11 DEF AllWant
<1>12. ASSUME InHand(u) PROVE Order(u) = "Start"
  <2>1. Wanting(taken.all, taken.slots, u) /\ (taken.reassert \/ u \in taken.restarted \/ StartDue(taken.all, taken.slots, u))
    BY <1>12 DEF InHand
  <2>2. StartDue(taken.all, taken.slots, u) => (AllWant /\ taken.all.due) \/ u \in Due("Start")
    BY <1>2 DEF StartDue, AllWant
  <2> QED BY <2>1, <2>2, <1>2, <1>5, <1>6, <1>7, <1>9, <1>10
<1>13. ASSUME SlotOf(taken.slots, u, "Stop"), ~taken.all.due PROVE Order(u) # "Start"
  BY <1>1, <1>3, <1>5, <1>6, <1>7, <1>9, <1>13
<1> QED BY <1>11, <1>12, <1>13

(* A copy that is marked stale. *)
LEMMA StaleCopy ==
  ASSUME NEW c \in Copy
  PROVE  [c EXCEPT !.stale = TRUE] \in Copy
BY DEF Copy

(* A target that is dropped, or taken. *)
LEMMA GoalStays ==
  ASSUME NEW g \in Goal
  PROVE  /\ Dropped(g) \in Goal /\ [g EXCEPT !.due = FALSE] \in Goal
         /\ [g EXCEPT !.due = FALSE].uid = g.uid /\ [g EXCEPT !.due = FALSE].wanted = g.wanted
         /\ [g EXCEPT !.due = FALSE].due = FALSE
BY DEF Goal, Dropped, Desire

(* A unit that obeys. *)
LEMMA ObeyedStays ==
  ASSUME NEW x \in Unit, NEW start \in BOOLEAN
  PROVE  Obeyed(x, start) \in Unit /\ Obeyed(x, start).run = x.run
BY DEF Unit, Obeyed, Status

(* A unit that runs, or no longer does. *)
LEMMA UnitRuns ==
  ASSUME NEW x \in Unit, NEW run \in {"down", "booting", "ready"}
  PROVE  [x EXCEPT !.run = run] \in Unit
BY DEF Unit

(* The order is one of three. *)
LEMMA OrderIs == ASSUME NEW u PROVE Order(u) \in {"None", "Start", "Stop"}
BY DEF Order

-----------------------------------------------------------------------------
(* A logger boots. *)
LEMMA BootKeeps ==
  ASSUME RemoteInv, NEW u \in Loggers, Boot(u)
  PROVE  RemoteInv'
<1> USE DEF RemoteInv, RemoteTypes, Boot, Status, Network, Desire, Unit, Copy, Goal, Slots,
            Waiting, Sending, NoCopy, NoTarget, unitVars, monitorVars, controlVars, statusVars
<1>1. RemoteTypes'
  OBVIOUS
<1>2. Told'
  BY DEF Told
<1>3. Stream'
  BY DEF Stream, Combine, Holders
<1>4. Targets'
  BY TargetsStand
<1>5. StartsComing'
  <2> SUFFICES ASSUME NEW v \in Loggers, Untold(v)' PROVE Coming(v)'
    BY DEF StartsComing
  <2>1. v # u /\ Untold(v)
    BY DEF Untold
  <2>2. Coming(v)
    BY <2>1 DEF StartsComing
  <2> QED BY <2>2, ControlGrows DEF Coming, RuleDue, RuleAt
<1>6. CopyTells'
  BY ControlGrows DEF CopyTells, Untold, Told
<1> QED BY <1>1, <1>2, <1>3, <1>4, <1>5, <1>6

(* Its writer is built: this unit has not heard of its feature yet. *)
LEMMA WriterBuiltKeeps ==
  ASSUME RemoteInv, NEW u \in Loggers, WriterBuilt(u)
  PROVE  RemoteInv'
<1> USE DEF RemoteInv, RemoteTypes, WriterBuilt, Status, Network, Desire, Unit, Copy, Goal, Slots,
            Waiting, Sending, NoCopy, NoTarget, unitVars, monitorVars, controlVars, statusVars
<1>1. RemoteTypes'
  <2> HIDE DEF Unit, Copy, Goal, Slots
  <2>1. unit' = [unit EXCEPT ![u] = [unit[u] EXCEPT !.run = "ready"]]
    OBVIOUS
  <2>2. [unit[u] EXCEPT !.run = "ready"] \in Unit
    BY UnitRuns
  <2> QED BY <2>1, <2>2
<1>2. Told'
  BY DEF Told
<1>3. Stream'
  BY DEF Stream, Combine, Holders
<1>4. Targets'
  BY TargetsStand
<1>5. StartsComing'
  BY ControlGrows DEF StartsComing, Untold, Coming, RuleDue, RuleAt, Told
<1>6. CopyTells'
  BY ControlGrows DEF CopyTells, Untold, Told
<1> QED BY <1>1, <1>2, <1>3, <1>4, <1>5, <1>6

(* It loses its power. *)
LEMMA PowerOffKeeps ==
  ASSUME RemoteInv, NEW u \in Loggers, PowerOff(u)
  PROVE  RemoteInv'
<1> USE DEF RemoteInv, RemoteTypes, PowerOff, Status, Network, Desire, Unit, Copy, Goal, Slots,
            Waiting, Sending, NoCopy, NoTarget, unitVars, monitorVars, controlVars, statusVars
<1>1. RemoteTypes'
  <2> HIDE DEF Unit, Copy, Goal, Slots
  <2>1. unit' = [unit EXCEPT ![u] = [unit[u] EXCEPT !.run = "down"]]
    OBVIOUS
  <2>2. [unit[u] EXCEPT !.run = "down"] \in Unit
    BY UnitRuns
  <2> QED BY <2>1, <2>2
<1>2. Told'
  BY DEF Told
<1>3. Stream'
  BY DEF Stream, Combine, Holders
<1>4. Targets'
  BY TargetsStand
<1>5. StartsComing'
  BY ControlGrows DEF StartsComing, Untold, Coming, RuleDue, RuleAt, Told
<1>6. CopyTells'
  BY ControlGrows DEF CopyTells, Untold, Told
<1> QED BY <1>1, <1>2, <1>3, <1>4, <1>5, <1>6

(* It starts, stops or fails on its own. *)
LEMMA ActsKeeps ==
  ASSUME RemoteInv, NEW u \in Loggers, NEW status \in Status, Acts(u, status)
  PROVE  RemoteInv'
<1> USE DEF RemoteInv, RemoteTypes, Acts, Status, Network, Desire, Unit, Copy, Goal, Slots,
            Waiting, Sending, NoCopy, NoTarget, unitVars, monitorVars, controlVars, statusVars
<1>1. RemoteTypes'
  OBVIOUS
<1>2. Told'
  BY DEF Told
<1>3. Stream'
  BY DEF Stream, Combine, Holders
<1>4. Targets'
  BY TargetsStand
<1>5. StartsComing'
  BY ControlGrows DEF StartsComing, Untold, Coming, RuleDue, RuleAt, Told
<1>6. CopyTells'
  BY ControlGrows DEF CopyTells, Untold, Told
<1> QED BY <1>1, <1>2, <1>3, <1>4, <1>5, <1>6

(* It joins, and is armed if its writer is there. *)
LEMMA JoinsKeeps ==
  ASSUME RemoteInv, NEW u \in Loggers, Joins(u)
  PROVE  RemoteInv'
<1> USE DEF RemoteInv, RemoteTypes, Joins, IsLoggingUnit, Status, Network, Desire, Unit, Copy,
            Goal, Slots, Waiting, Sending, NoCopy, NoTarget, unitVars, monitorVars, controlVars,
            statusVars
<1>1. RemoteTypes'
  OBVIOUS
<1>2. Told'
  BY DEF Told
<1>3. Stream'
  BY DEF Stream, Combine, Holders
<1>4. Targets'
  BY TargetsStand
<1>5. StartsComing'
  BY ControlGrows DEF StartsComing, Untold, Coming, RuleDue, RuleAt, Told
<1>6. CopyTells'
  BY ControlGrows DEF CopyTells, Untold, Told
<1> QED BY <1>1, <1>2, <1>3, <1>4, <1>5, <1>6

(* It restarts: armed, unless its writer comes later. *)
LEMMA RestartsKeeps ==
  ASSUME RemoteInv, NEW u \in Loggers, NEW reboot \in BOOLEAN, NEW run \in {"booting", "ready"},
         Restarts(u, reboot, run)
  PROVE  RemoteInv'
<1> USE DEF RemoteInv, RemoteTypes, Restarts, IsLoggingUnit, Status, Network, Desire, Unit, Copy,
            Goal, Slots, Waiting, Sending, NoCopy, NoTarget, unitVars, monitorVars, controlVars,
            statusVars
<1>1. RemoteTypes'
  <2>1. unit' \in [Loggers -> Unit] /\ heard' \in [Loggers -> Desire \cup {"own"}]
    OBVIOUS
  <2>2. copy' \in [Loggers -> Copy]
    <3>1. [copy[u] EXCEPT !.stale = TRUE] \in Copy
      <4> HIDE DEF Copy
      <4>1. copy[u] \in Copy
        OBVIOUS
      <4> QED BY <4>1, StaleCopy
    <3>2. [copy EXCEPT ![u].stale = TRUE] = [copy EXCEPT ![u] = [copy[u] EXCEPT !.stale = TRUE]]
      OBVIOUS
    <3> HIDE DEF Copy
    <3> QED BY <3>1, <3>2
  <2>3. hasLogging' \subseteq table /\ armed' \subseteq Loggers
    OBVIOUS
  <2> QED BY <2>1, <2>2, <2>3
<1>2. Told'
  BY DEF Told
<1>3. Stream'
  BY DEF Stream, Combine, Holders
<1>4. Targets'
  BY TargetsStand
<1>5. StartsComing'
  BY ControlGrows DEF StartsComing, Untold, Coming, RuleDue, RuleAt, Told
<1>6. CopyTells'
  BY ControlGrows DEF CopyTells, Untold, Told
<1> QED BY <1>1, <1>2, <1>3, <1>4, <1>5, <1>6

(* It leaves. *)
LEMMA LeavesKeeps ==
  ASSUME RemoteInv, NEW u \in Loggers, Leaves(u)
  PROVE  RemoteInv'
<1> USE DEF RemoteInv, RemoteTypes, Leaves, Status, Network, Desire, Unit, Copy, Goal, Slots,
            Waiting, Sending, NoCopy, NoTarget, unitVars, monitorVars, controlVars, statusVars
<1>1. RemoteTypes'
  OBVIOUS
<1>2. Told'
  BY DEF Told
<1>3. Stream'
  BY DEF Stream, Combine, Holders
<1>4. Targets'
  BY TargetsStand
<1>5. StartsComing'
  BY ControlGrows DEF StartsComing, Untold, Coming, RuleDue, RuleAt, Told
<1>6. CopyTells'
  BY ControlGrows DEF CopyTells, Untold, Told
<1> QED BY <1>1, <1>2, <1>3, <1>4, <1>5, <1>6

(* Its record is applied. *)
LEMMA RecordAppliedKeeps ==
  ASSUME RemoteInv, NEW u \in Loggers, RecordApplied(u)
  PROVE  RemoteInv'
<1> USE DEF RemoteInv, RemoteTypes, RecordApplied, Fresh, Status, Network, Desire, Unit, Copy,
            Goal, Slots, Waiting, Sending, NoCopy, NoTarget, unitVars, monitorVars, controlVars,
            statusVars
<1>1. RemoteTypes'
  OBVIOUS
<1>2. Told'
  BY DEF Told
<1>3. Stream'
  <2>1. UNCHANGED <<published, statusEmpty, bus, unavailable>> /\ (~notify' => ~notify)
    OBVIOUS
  <2>2. ASSUME ~notify' PROVE Combine(copy') = Combine(copy)
    <3>1. copy[u].has /\ copy[u].status = unit[u].status
      BY <2>2
    <3>2. Fresh(u).has /\ Fresh(u).status = unit[u].status
      OBVIOUS
    <3> HIDE DEF Fresh, Copy
    <3>3. copy'[u] = Fresh(u) /\ \A v \in Loggers: v # u => copy'[v] = copy[v]
      OBVIOUS
    <3> HIDE DEF RecordApplied, RemoteInv
    <3>4. \A v \in Loggers: (copy'[v].has <=> copy[v].has) /\ copy'[v].status = copy[v].status
      BY <3>1, <3>2, <3>3
    <3> QED BY <3>4, CombineSame
  <2> QED BY <2>1, <2>2 DEF Stream
<1>4. Targets'
  BY TargetsStand
<1>5. StartsComing'
  BY ControlGrows DEF StartsComing, Untold, Coming, RuleDue, RuleAt, Told
<1>6. CopyTells'
  BY ControlGrows DEF CopyTells, Untold, Told
<1> QED BY <1>1, <1>2, <1>3, <1>4, <1>5, <1>6

(* What a heartbeat makes of a copy: it is current only with the status of *)
(* the unit, and no status is new.                                         *)
LEMMA HeartbeatCopy ==
  ASSUME RemoteTypes, NEW u \in Loggers, NEW sameVersion
  PROVE  LET n == CopyAfterHeartbeat(u, sameVersion) IN
         /\ n \in Copy /\ (n.has => copy[u].has /\ n.status = copy[u].status)
         /\ n.has /\ ~n.stale => n.status = unit[u].status
<1>1. copy[u] \in Copy /\ unit[u] \in Unit
  BY DEF RemoteTypes
<1>2. Fresh(u) \in Copy /\ Fresh(u).status = unit[u].status /\ Fresh(u).has
  BY <1>1 DEF Fresh, Copy, Unit
<1>3. NoCopy \in Copy /\ ~NoCopy.has
  BY DEF NoCopy, Copy, Status
<1>4. [copy[u] EXCEPT !.stale = TRUE] \in Copy
  BY <1>1 DEF Copy
<1>5. [copy[u] EXCEPT !.stale = TRUE].status = copy[u].status /\ [copy[u] EXCEPT !.stale = TRUE].stale
  BY <1>1 DEF Copy
<1> QED BY <1>1, <1>2, <1>3, <1>4, <1>5 DEF CopyAfterHeartbeat

(* A heartbeat: what it settles is reported if it says Stopped. *)
LEMMA HeartbeatFacts ==
  ASSUME RemoteTypes, NEW u \in Loggers, NEW sameVersion \in BOOLEAN, Heartbeat(u, sameVersion)
  PROVE  /\ u \in table /\ copy' \in [Loggers -> Copy] /\ \A v \in Loggers: v # u => copy'[v] = copy[v]
         /\ copy'[u].has => copy[u].has /\ copy'[u].status = copy[u].status
         /\ copy'[u].has /\ ~copy'[u].stale => copy'[u].status = unit[u].status
         /\ notify' \in BOOLEAN /\ (notify' <=> notify \/ copy[u].has # copy'[u].has)
         /\ hasLogging' = IF unit[u].run = "ready" THEN hasLogging \cup {u} ELSE hasLogging \ {u}
         /\ armed' \subseteq Loggers /\ \A v \in armed: v # u => v \in armed'
         /\ unit[u].run = "ready" /\ (u \notin hasLogging \/ u \in armed) =>
              \/ u \in armed'
              \/ /\ copy'[u].has /\ ~copy'[u].stale
                 /\ copy'[u].status = "Stopped" => u \in restarted' /\ task' = Rescheduled
         /\ restarted \subseteq restarted' /\ restarted' \subseteq Loggers /\ task' \in {task, Rescheduled}
         /\ UNCHANGED <<unitVars, table, statusEmpty, statusVars, left, all, slots, reassert, taken, wish>>
<1> DEFINE n == CopyAfterHeartbeat(u, sameVersion)
           features == unit[u].run = "ready"
           c == [copy EXCEPT ![u] = n]
           a == ArmedByHeartbeat(u, features)
           settled == Settled(c, a, {u}, FALSE)
           told == Reported(c, a, {u}, FALSE)
<1>1. /\ u \in table /\ copy' = c /\ notify' = (notify \/ copy[u].has # c[u].has)
      /\ hasLogging' = IF features THEN hasLogging \cup {u} ELSE hasLogging \ {u}
      /\ UNCHANGED <<unitVars, table, statusEmpty, statusVars, left>>
      /\ \/ armed' = a /\ UNCHANGED controlVars
         \/ armed' = a \ settled /\ Report(told)
  BY DEF Heartbeat
<1>2. /\ n \in Copy /\ (n.has => copy[u].has /\ n.status = copy[u].status)
      /\ n.has /\ ~n.stale => n.status = unit[u].status
  BY HeartbeatCopy
<1>3. copy \in [Loggers -> Copy] /\ table \subseteq Loggers /\ armed \subseteq Loggers /\ restarted \subseteq Loggers
  BY DEF RemoteTypes
<1>4. armed \subseteq a /\ a \subseteq Loggers /\ (features /\ u \notin hasLogging => u \in a)
  BY <1>3 DEF ArmedByHeartbeat
<1> HIDE DEF n
<1>5. c \in [Loggers -> Copy] /\ c[u] = n /\ \A v \in Loggers: v # u => c[v] = copy[v]
  BY <1>2, <1>3
<1> HIDE DEF c, a, features
<1>6. /\ settled \subseteq {u} /\ (u \in settled => c[u].has /\ ~c[u].stale)
      /\ told \subseteq settled /\ (u \in settled /\ c[u].status = "Stopped" => u \in told)
  BY DEF Settled, Reported, Holders
<1> HIDE DEF settled, told
<1>7. CASE armed' = a /\ UNCHANGED controlVars
  <2>1. UNCHANGED <<all, slots, reassert, taken, wish, restarted, task>>
    BY <1>7 DEF controlVars
  <2> QED BY <1>1, <1>2, <1>3, <1>4, <1>5, <1>7, <2>1 DEF features
<1>8. CASE armed' = a \ settled /\ Report(told)
  <2>1. /\ restarted' = restarted \cup told /\ task' = IF told = {} THEN task ELSE Rescheduled
        /\ UNCHANGED <<all, slots, reassert, taken, wish>>
    BY <1>8 DEF Report
  <2>2. restarted' \subseteq Loggers /\ (u \in told => task' = Rescheduled) /\ task' \in {task, Rescheduled}
    BY <1>3, <1>6, <2>1
  <2>3. armed' \subseteq Loggers /\ \A v \in armed: v # u => v \in armed'
    BY <1>4, <1>6, <1>8
  <2>4. ASSUME features, u \notin hasLogging \/ u \in armed
        PROVE  \/ u \in armed'
               \/ c[u].has /\ ~c[u].stale /\ (c[u].status = "Stopped" => u \in restarted' /\ task' = Rescheduled)
    BY <1>4, <1>6, <1>8, <2>1, <2>2, <2>4
  <2> QED BY <1>1, <1>2, <1>5, <2>1, <2>2, <2>3, <2>4 DEF features
<1> QED BY <1>1, <1>7, <1>8

(* Its heartbeat. *)
LEMMA HeartbeatKeeps ==
  ASSUME RemoteInv, NEW u \in Loggers, NEW sameVersion \in BOOLEAN, Heartbeat(u, sameVersion)
  PROVE  RemoteInv'
<1> USE DEF RemoteInv, RemoteTypes, Heartbeat, ArmedByHeartbeat, CopyAfterHeartbeat, Settled,
            Reported, Report, Status, Network, Desire, Unit, Copy, Goal, Slots, Waiting, Sending,
            NoCopy, NoTarget, unitVars, monitorVars, controlVars, statusVars
<1>1. RemoteTypes'
  <2> HIDE DEF Heartbeat, ArmedByHeartbeat, CopyAfterHeartbeat, Settled, Reported, Report
  <2> HIDE DEF Unit, Copy, Goal, Slots
  <2>1. hasLogging' \subseteq table
    <3>1. hasLogging' \subseteq hasLogging \cup {u} /\ u \in table
      BY HeartbeatFacts
    <3> QED BY <3>1
  <2>2. task' \in {"idle", "due", "sending", "resend"} /\ (Sending' <=> Sending)
    BY HeartbeatFacts, ControlGrows
  <2>3. UNCHANGED <<unit, heard, wish, table, bus, published, statusEmpty, unavailable, all, slots, taken>>
    BY HeartbeatFacts
  <2>4. copy' \in [Loggers -> Copy] /\ armed' \subseteq Loggers /\ restarted' \subseteq Loggers /\ notify' \in BOOLEAN
    BY HeartbeatFacts
  <2> QED BY <2>1, <2>2, <2>3, <2>4
<1>2. Told'
  <2> HIDE DEF Heartbeat, ArmedByHeartbeat, CopyAfterHeartbeat, Settled, Reported, Report
  <2> SUFFICES ASSUME NEW v \in Loggers
               PROVE  /\ copy'[v].has => v \in table
                      /\ unit[v].run = "booting" => v \notin hasLogging'
                      /\ unit[v].run # "down" /\ heard[v] = "None" =>
                           /\ unit[v].status = "Stopped"
                           /\ copy'[v].has /\ ~copy'[v].stale => copy'[v].status = "Stopped"
    BY HeartbeatFacts DEF Told
  <2> HIDE DEF Copy, Unit, Goal
  <2>1. CASE v = u
    BY <2>1, HeartbeatFacts DEF Told
  <2>2. CASE v # u
    BY <2>2, HeartbeatFacts DEF Told
  <2> QED BY <2>1, <2>2
<1>3. Stream'
  <2> HIDE DEF Heartbeat, ArmedByHeartbeat, CopyAfterHeartbeat, Settled, Reported, Report
  <2>1. UNCHANGED <<published, statusEmpty, bus, unavailable>>
    BY HeartbeatFacts
  <2>2. ASSUME ~notify' PROVE Combine(copy') = Combine(copy)
    <3> HIDE DEF Copy, Unit, Goal, Slots
    <3>1. copy[u].has = copy'[u].has
      BY <2>2, HeartbeatFacts
    <3>2. \A v \in Loggers: (copy'[v].has <=> copy[v].has) /\ (copy'[v].has => copy'[v].status = copy[v].status)
      <4>1. copy'[u].has => copy[u].has /\ copy'[u].status = copy[u].status
        BY HeartbeatFacts
      <4>2. \A v \in Loggers: v # u => copy'[v] = copy[v]
        BY HeartbeatFacts
      <4> HIDE DEF RemoteTypes, RemoteInv
      <4> QED BY <3>1, <4>1, <4>2
    <3> HIDE DEF RemoteTypes
    <3> QED BY <3>2, CombineSame
  <2>3. ~notify' => ~notify
    BY HeartbeatFacts
  <2> QED BY <2>1, <2>2, <2>3 DEF Stream
<1>4. Targets'
  <2> HIDE DEF Heartbeat, ArmedByHeartbeat, CopyAfterHeartbeat, Settled, Reported, Report
  <2>1. task' \in {task, Rescheduled} /\ UNCHANGED <<all, slots, taken, wish>>
    BY HeartbeatFacts
  <2> QED BY <2>1, TargetsStand
<1>5. StartsComing'
  <2> HIDE DEF Heartbeat, ArmedByHeartbeat, CopyAfterHeartbeat, Settled, Reported, Report
  <2> SUFFICES ASSUME NEW v \in Loggers, Untold(v)' PROVE Coming(v)'
    BY DEF StartsComing
  <2>1. UNCHANGED <<unit, heard, wish, bus, unavailable, reassert, all, slots, taken>> /\ task' \in {task, Rescheduled}
    BY HeartbeatFacts
  <2>2. Untold(v) /\ Coming(v)
    BY <2>1 DEF StartsComing, Untold
  <2>3. /\ (Pending(v) => Pending(v)') /\ (InHand(v) => InHand(v)') /\ (Waiting => Waiting')
        /\ (task' = Rescheduled => Waiting')
    <3> HIDE DEF Waiting, Sending
    <3>1. task \in {"idle", "due", "sending", "resend"}
      OBVIOUS
    <3> HIDE DEF RemoteTypes
    <3>2. (Waiting => Waiting') /\ (task' = Rescheduled => Waiting')
      BY <2>1, <3>1, ControlGrows
    <3>3. (Pending(v) => Pending(v)') /\ (InHand(v)' <=> InHand(v))
      BY <2>1, <3>1, ControlGrows
    <3> QED BY <3>2, <3>3
  <2>4. RuleDue => RuleDue'
    BY <2>1, <2>3 DEF RuleDue, RuleAt
  <2> HIDE DEF Waiting, Sending
  <2>5. v \in restarted => v \in restarted'
    BY HeartbeatFacts
  <2>6. CASE v = u
    <3>1. unit[u].run = "ready" /\ unit[u].status = "Stopped"
      BY <2>2, <2>6 DEF Untold
    <3>2. u \notin hasLogging \/ u \in armed => u \in armed' \/ (u \in restarted' /\ task' = Rescheduled)
      BY <3>1, HeartbeatFacts
    <3> QED BY <2>2, <2>3, <2>4, <2>5, <2>6, <3>2 DEF Coming
  <2>7. CASE v # u
    <3>1. (v \notin hasLogging => v \notin hasLogging') /\ (v \in armed => v \in armed')
      <4> HIDE DEF Unit, Copy, Goal, Slots
      <4> QED BY <2>7, HeartbeatFacts
    <3> QED BY <2>2, <2>3, <2>4, <2>5, <3>1 DEF Coming
  <2> QED BY <2>6, <2>7
<1>6. CopyTells'
  <2> HIDE DEF Heartbeat, ArmedByHeartbeat, CopyAfterHeartbeat, Settled, Reported, Report
  <2> SUFFICES ASSUME NEW v \in Loggers, Untold(v)', v \in hasLogging', copy'[v].has, ~copy'[v].stale,
                      copy'[v].status # "Stopped"
               PROVE  Pending(v)' \/ InHand(v)'
    BY DEF CopyTells
  <2>1. UNCHANGED <<unit, heard, wish, all, slots, taken>> /\ task' \in {task, Rescheduled}
    BY HeartbeatFacts
  <2>2. Untold(v) /\ unit[v].status = "Stopped"
    BY <2>1 DEF Untold
  <2>3. v # u
    BY <2>2, HeartbeatFacts
  <2>4. v \in hasLogging /\ copy'[v] = copy[v]
    BY <2>3, HeartbeatFacts
  <2>5. Pending(v) \/ InHand(v)
    BY <2>2, <2>4 DEF CopyTells
  <2> QED BY <2>1, <2>5, ControlGrows
<1> QED BY <1>1, <1>2, <1>3, <1>4, <1>5, <1>6

(* The state handlers: a unit that is settled is reported, or its status   *)
(* says otherwise, or the status rule has it.                              *)
LEMMA NotifyFacts ==
  ASSUME RemoteTypes, NotifyStates
  PROVE  /\ notify /\ notify' = FALSE /\ published' = Combine(copy)
         /\ statusEmpty' \in BOOLEAN /\ (statusEmpty' <=> Combine(copy) = "Unavailable")
         /\ bus' = IF Combine(copy) = published THEN bus ELSE Append(bus, Combine(copy))
         /\ armed' \subseteq Loggers /\ restarted \subseteq restarted' /\ restarted' \subseteq Loggers
         /\ \A v \in armed: v \notin armed' =>
              \/ statusEmpty /\ Combine(copy) = "Stopped"
              \/ /\ copy[v].has /\ ~copy[v].stale
                 /\ copy[v].status = "Stopped" => v \in restarted' /\ task' = Rescheduled
         /\ task' \in {task, Rescheduled}
         /\ UNCHANGED <<unit, heard, table, copy, hasLogging, unavailable, left, all, slots, reassert, taken, wish>>
<1> DEFINE settled == Settled(copy, armed, Loggers, LeftToStatusRule)
           told == Reported(copy, armed, Loggers, LeftToStatusRule)
<1>1. /\ notify /\ notify' = FALSE /\ published' = Combine(copy) /\ statusEmpty' = (Holders(copy) = {})
      /\ bus' = IF Combine(copy) = published THEN bus ELSE Append(bus, Combine(copy))
      /\ armed' = armed \ settled /\ Report(told)
      /\ UNCHANGED <<unit, heard, table, copy, hasLogging, unavailable, left>>
  BY DEF NotifyStates, unitVars
<1>2. restarted' = restarted \cup told /\ task' = (IF told = {} THEN task ELSE Rescheduled)
      /\ UNCHANGED <<all, slots, reassert, taken, wish>>
  BY <1>1 DEF Report
<1>3. armed \subseteq Loggers /\ restarted \subseteq Loggers
  BY DEF RemoteTypes
<1>4. told \subseteq settled /\ settled \subseteq armed
  BY DEF Settled, Reported
<1>5. ~LeftToStatusRule => \A v \in settled: copy[v].has /\ ~copy[v].stale /\ (copy[v].status = "Stopped" => v \in told)
  BY DEF Settled, Reported, Holders
<1>6. LeftToStatusRule => statusEmpty /\ Combine(copy) = "Stopped"
  BY DEF LeftToStatusRule
<1> HIDE DEF settled, told
<1>7. \A v \in armed: v \notin armed' =>
        \/ statusEmpty /\ Combine(copy) = "Stopped"
        \/ copy[v].has /\ ~copy[v].stale /\ (copy[v].status = "Stopped" => v \in restarted' /\ task' = Rescheduled)
  BY <1>1, <1>2, <1>5, <1>6
<1>8. statusEmpty' \in BOOLEAN /\ (statusEmpty' <=> Combine(copy) = "Unavailable")
  BY <1>1, CombineIs
<1>9. armed' \subseteq Loggers /\ restarted \subseteq restarted' /\ restarted' \subseteq Loggers /\ task' \in {task, Rescheduled}
  BY <1>1, <1>2, <1>3, <1>4
<1> QED BY <1>1, <1>2, <1>7, <1>8, <1>9

(* The state handlers. *)
LEMMA NotifyStatesKeeps ==
  ASSUME RemoteInv, NotifyStates
  PROVE  RemoteInv'
<1> USE DEF RemoteInv, RemoteTypes, NotifyStates, Settled, Reported, Report, Status, Network,
            Desire, Unit, Copy, Goal, Slots, Waiting, Sending, NoCopy, NoTarget, unitVars,
            monitorVars, controlVars, statusVars
<1>1. RemoteTypes'
  <2> HIDE DEF NotifyStates, Settled, Reported, Report, Copy, Unit, Goal, Slots
  <2>1. task' \in {"idle", "due", "sending", "resend"} /\ (Sending' <=> Sending)
    BY NotifyFacts, ControlGrows
  <2>2. UNCHANGED <<unit, heard, wish, table, copy, hasLogging, unavailable, all, slots, taken>>
    BY NotifyFacts
  <2>3. /\ armed' \subseteq Loggers /\ restarted' \subseteq Loggers /\ notify' \in BOOLEAN /\ statusEmpty' \in BOOLEAN
        /\ published' \in Network
    BY NotifyFacts, CombineIs
  <2>4. bus' \in Seq(Network)
    <3> HIDE DEF Network
    <3>1. Combine(copy) \in Network /\ bus \in Seq(Network)
      BY CombineIs
    <3>2. Append(bus, Combine(copy)) \in Seq(Network)
      BY <3>1, StatusAppended
    <3> QED BY <3>1, <3>2, NotifyFacts
  <2> QED BY <2>1, <2>2, <2>3, <2>4
<1>2. Told'
  <2> HIDE DEF NotifyStates, Settled, Reported, Report, Copy, Unit, Goal, Slots
  <2>1. UNCHANGED <<unit, heard, table, copy, hasLogging>>
    BY NotifyFacts
  <2> QED BY <2>1 DEF Told
<1>3. Stream'
  <2> HIDE DEF NotifyStates, Settled, Reported, Report, Copy, Unit, Goal, Slots
  <2>1. UNCHANGED <<copy, unavailable>> /\ published' = Combine(copy) /\ (statusEmpty' => published' = "Unavailable")
    BY NotifyFacts
  <2>2. CASE Combine(copy) = published
    BY <2>1, <2>2, NotifyFacts DEF Stream
  <2>3. CASE Combine(copy) # published
    <3> HIDE DEF Network
    <3>1. Combine(copy) \in Network /\ bus \in Seq(Network) /\ bus' = Append(bus, Combine(copy))
      BY <2>3, CombineIs, NotifyFacts
    <3>2. bus' # <<>> /\ bus'[Len(bus')] = published'
      BY <2>1, <3>1, StatusAppended
    <3> QED BY <2>1, <3>2 DEF Stream
  <2> QED BY <2>2, <2>3
<1>4. Targets'
  <2> HIDE DEF NotifyStates, Settled, Reported, Report, Copy, Unit, Goal, Slots
  <2>1. task' \in {task, Rescheduled} /\ UNCHANGED <<all, slots, taken, wish>>
    BY NotifyFacts
  <2> QED BY <2>1, TargetsStand
<1>5. StartsComing'
  <2> HIDE DEF NotifyStates, Settled, Reported, Report, Copy, Unit, Goal, Slots
  <2> SUFFICES ASSUME NEW v \in Loggers, Untold(v)' PROVE Coming(v)'
    BY DEF StartsComing
  <2>1. /\ UNCHANGED <<unit, heard, wish, hasLogging, copy, unavailable, reassert, all, slots, taken>>
        /\ task' \in {task, Rescheduled}
    BY NotifyFacts
  <2>2. Untold(v) /\ Coming(v)
    BY <2>1 DEF StartsComing, Untold
  <2>3. /\ (Pending(v) => Pending(v)') /\ (InHand(v) => InHand(v)') /\ (Waiting => Waiting')
        /\ (task' = Rescheduled => Waiting')
    <3> HIDE DEF Waiting, Sending
    <3>1. task \in {"idle", "due", "sending", "resend"}
      OBVIOUS
    <3> HIDE DEF RemoteTypes
    <3>2. (Waiting => Waiting') /\ (task' = Rescheduled => Waiting')
      BY <2>1, <3>1, ControlGrows
    <3>3. (Pending(v) => Pending(v)') /\ (InHand(v)' <=> InHand(v))
      BY <2>1, <3>1, ControlGrows
    <3> QED BY <3>2, <3>3
  <2> HIDE DEF Waiting, Sending, Network
  <2>4. Combine(copy) \in Network /\ bus \in Seq(Network) /\ bus' \in {bus, Append(bus, Combine(copy))}
    BY CombineIs, NotifyFacts
  <2>5. RuleDue => RuleDue'
    BY <2>1, <2>3, <2>4, RuleWaits
  <2>6. v \in restarted => v \in restarted'
    BY NotifyFacts
  <2>7. ASSUME v \in armed, v \notin armed', v \in hasLogging PROVE Coming(v)'
    <3>1. CASE statusEmpty /\ Combine(copy) = "Stopped"
      <4>1. published = "Unavailable" /\ bus' = Append(bus, "Stopped") /\ "Stopped" \in Network
        BY <2>4, <3>1, NotifyFacts DEF Stream
      <4>2. /\ Len(bus) \in Nat /\ Len(bus') = Len(bus) + 1 /\ bus'[Len(bus) + 1] = "Stopped"
            /\ \A k \in 1..Len(bus): bus'[k] = bus[k]
        BY <2>4, <4>1, StatusAppended
      <4>3. CASE bus = <<>>
        <5>1. Len(bus) = 0 /\ unavailable
          BY <4>1, <4>3 DEF Stream
        <5>2. bus'[1] = "Stopped" /\ unavailable' /\ 1 \in 1..Len(bus')
          BY <2>1, <4>2, <5>1
        <5>3. RuleAt(1)'
          BY <5>2 DEF RuleAt
        <5> QED BY <5>2, <5>3 DEF Coming, RuleDue
      <4>4. CASE bus # <<>>
        <5>1. Len(bus) \in Nat \ {0} /\ bus[Len(bus)] = "Unavailable"
          BY <2>4, <4>1, <4>4, StatusTaken DEF Stream
        <5>0. PICK k \in Nat: k = Len(bus) + 1
          BY <4>2
        <5>2. bus'[k] = "Stopped" /\ k # 1 /\ k - 1 = Len(bus) /\ k \in 1..Len(bus') /\ bus'[Len(bus)] = bus[Len(bus)]
          BY <4>2, <5>0, <5>1
        <5>3. RuleAt(k)'
          BY <5>1, <5>2 DEF RuleAt
        <5> QED BY <5>2, <5>3 DEF Coming, RuleDue
      <4> QED BY <4>3, <4>4
    <3>2. CASE copy[v].has /\ ~copy[v].stale /\ (copy[v].status = "Stopped" => v \in restarted' /\ task' = Rescheduled)
      <4>1. CASE copy[v].status = "Stopped"
        BY <2>3, <3>2, <4>1 DEF Coming
      <4>2. CASE copy[v].status # "Stopped"
        <5>1. Pending(v) \/ InHand(v)
          BY <2>2, <2>7, <3>2, <4>2 DEF CopyTells
        <5> QED BY <2>3, <5>1 DEF Coming
      <4> QED BY <4>1, <4>2
    <3> QED BY <2>7, <3>1, <3>2, NotifyFacts
  <2> QED BY <2>1, <2>2, <2>3, <2>5, <2>6, <2>7 DEF Coming
<1>6. CopyTells'
  <2> HIDE DEF NotifyStates, Settled, Reported, Report, Copy, Unit, Goal, Slots
  <2>1. UNCHANGED <<unit, heard, wish, hasLogging, copy, all, slots, taken>> /\ task' \in {task, Rescheduled}
    BY NotifyFacts
  <2> HIDE DEF Waiting, Sending
  <2> QED BY <2>1, ControlGrows DEF CopyTells, Untold
<1> QED BY <1>1, <1>2, <1>3, <1>4, <1>5, <1>6

(* The status is published again. *)
LEMMA RepublishKeeps ==
  ASSUME RemoteInv, Republish
  PROVE  RemoteInv'
<1> USE DEF RemoteInv, RemoteTypes, Republish, Status, Network, Desire, Unit, Copy, Goal, Slots,
            Waiting, Sending, NoCopy, NoTarget, unitVars, monitorVars, controlVars, statusVars
<1>1. RemoteTypes'
  <2>1. Combine(copy) \in Network
    BY CombineIs
  <2>2. bus' \in Seq(Network)
    <3> HIDE DEF Network
    <3> QED BY <2>1, StatusAppended
  <2> QED BY <2>1, <2>2
<1>2. Told'
  BY DEF Told
<1>3. Stream'
  BY DEF Stream, Combine, Holders
<1>4. Targets'
  BY TargetsStand
<1>5. StartsComing'
  <2> HIDE DEF Waiting, Sending, Network, Unit, Copy, Goal, Slots
  <2>1. (Waiting => Waiting') /\ \A v: (Pending(v) => Pending(v)') /\ (InHand(v)' <=> InHand(v))
    BY ControlGrows
  <2>2. RuleDue => RuleDue'
    BY <2>1, CombineIs, RuleWaits
  <2>3. \A v \in Loggers: Untold(v)' => Untold(v)
    BY DEF Untold
  <2> QED BY <2>1, <2>2, <2>3 DEF StartsComing, Coming
<1>6. CopyTells'
  BY DEF CopyTells, Untold, Pending, InHand, StartDue, SlotDue, Wanting, SlotOf
<1> QED BY <1>1, <1>2, <1>3, <1>4, <1>5, <1>6

(* A status is taken: the rule it ends is due now. *)
LEMMA RuleTaken ==
  ASSUME RemoteTypes, StatusUpdated
  PROVE  /\ task' \in {task, Rescheduled} /\ (RuleDue => RuleDue')
         /\ UNCHANGED <<unit, heard, hasLogging, armed, copy, restarted, wish, all, slots, taken>>
<1>1. /\ bus \in Seq(Network) /\ bus # <<>> /\ bus' = Tail(bus) /\ unavailable' = (Head(bus) = "Unavailable")
      /\ IF Head(bus) = "Stopped" /\ unavailable
         THEN reassert' = TRUE /\ task' = Rescheduled ELSE UNCHANGED <<reassert, task>>
      /\ task \in {"idle", "due", "sending", "resend"}
  BY DEF StatusUpdated, RemoteTypes
<1>2. UNCHANGED <<unit, heard, hasLogging, armed, copy, restarted, wish, all, slots, taken>>
  BY DEF StatusUpdated, unitVars, monitorVars
<1>3. (Waiting => Waiting') /\ (task' = Rescheduled => Waiting')
  BY <1>1, <1>2, ControlGrows
<1>4. /\ Len(bus) \in Nat \ {0} /\ Len(bus') = Len(bus) - 1 /\ Head(bus) = bus[1]
      /\ \A k \in 1..Len(bus) - 1: bus'[k] = bus[k + 1]
  BY <1>1, StatusTaken
<1>5. ASSUME reassert /\ Waiting PROVE RuleDue'
  BY <1>1, <1>3, <1>5 DEF RuleDue
<1>6. ASSUME NEW k \in 1..Len(bus), RuleAt(k) PROVE RuleDue'
  <2>1. CASE k = 1
    BY <1>1, <1>3, <1>4, <1>6, <2>1 DEF RuleAt, RuleDue
  <2>2. CASE k # 1
    <3>1. k - 1 \in 1..Len(bus') /\ k - 1 \in Nat /\ bus'[k - 1] = bus[k] /\ bus[k] = "Stopped" /\ bus[k - 1] = "Unavailable"
      BY <1>4, <1>6, <2>2 DEF RuleAt
    <3>2. k - 1 = 1 => unavailable'
      BY <1>1, <1>4, <3>1
    <3>3. k - 1 # 1 => bus'[(k - 1) - 1] = bus[k - 1]
      BY <1>4, <1>6, <3>1
    <3>4. PICK j \in Nat: j = k - 1
      BY <3>1
    <3>5. RuleAt(j)'
      BY <3>1, <3>2, <3>3, <3>4 DEF RuleAt
    <3> QED BY <3>1, <3>4, <3>5 DEF RuleDue
  <2> QED BY <2>1, <2>2
<1> QED BY <1>1, <1>2, <1>5, <1>6 DEF RuleDue

(* The status rule. *)
LEMMA StatusUpdatedKeeps ==
  ASSUME RemoteInv, StatusUpdated
  PROVE  RemoteInv'
<1> USE DEF RemoteInv, RemoteTypes, StatusUpdated, Rescheduled, Status, Network, Desire, Unit,
            Copy, Goal, Slots, Waiting, Sending, NoCopy, NoTarget, unitVars, monitorVars,
            controlVars, statusVars
<1>1. RemoteTypes'
  OBVIOUS
<1>2. Told'
  BY DEF Told
<1>3. Stream'
  <2> HIDE DEF Network
  <2>1. /\ bus # <<>> /\ bus' = Tail(bus) /\ unavailable' = (Head(bus) = "Unavailable") /\ bus \in Seq(Network)
        /\ UNCHANGED <<notify, published, copy, statusEmpty>>
    OBVIOUS
  <2>2. bus[Len(bus)] = published
    BY <2>1 DEF Stream
  <2>3. /\ Len(bus) \in Nat \ {0} /\ Len(bus') = Len(bus) - 1 /\ Head(bus) = bus[1]
        /\ (bus' = <<>> <=> Len(bus) = 1) /\ \A k \in 1..Len(bus) - 1: bus'[k] = bus[k + 1]
    <3> HIDE DEF RemoteInv, RemoteTypes, StatusUpdated
    <3> QED BY <2>1, StatusTaken
  <2>4. bus' = <<>> => (unavailable' <=> published = "Unavailable")
    BY <2>1, <2>2, <2>3
  <2>5. bus' # <<>> => bus'[Len(bus')] = published
    BY <2>2, <2>3
  <2> QED BY <2>1, <2>4, <2>5 DEF Stream
<1>4. Targets'
  BY RuleTaken, TargetsStand
<1>5. StartsComing'
  <2> HIDE DEF StatusUpdated, Rescheduled, Waiting, Sending, Goal, Slots, Unit, Copy
  <2>1. /\ task' \in {task, Rescheduled} /\ (RuleDue => RuleDue')
        /\ UNCHANGED <<unit, heard, hasLogging, armed, copy, restarted, wish, all, slots, taken>>
    BY RuleTaken
  <2>2. (Waiting => Waiting') /\ \A v: (Pending(v) => Pending(v)') /\ (InHand(v)' <=> InHand(v))
    BY <2>1, ControlGrows
  <2>3. \A v \in Loggers: Untold(v)' => Untold(v)
    BY <2>1 DEF Untold
  <2> QED BY <2>1, <2>2, <2>3 DEF StartsComing, Coming
<1>6. CopyTells'
  <2> HIDE DEF StatusUpdated, Rescheduled, Waiting, Sending, Goal, Slots, Unit, Copy
  <2>1. /\ task' \in {task, Rescheduled} /\ UNCHANGED <<unit, heard, hasLogging, copy, wish, all, slots, taken>>
    BY RuleTaken
  <2>2. \A v: (Pending(v) => Pending(v)') /\ (InHand(v)' <=> InHand(v))
    BY <2>1, ControlGrows
  <2> QED BY <2>1, <2>2 DEF CopyTells, Untold
<1> QED BY <1>1, <1>2, <1>3, <1>4, <1>5, <1>6

(* A request for all units. *)
LEMMA RequestAllKeeps ==
  ASSUME RemoteInv, NEW wanted \in {"Start", "Stop"}, RequestAll(wanted)
  PROVE  RemoteInv'
<1> USE DEF RemoteInv, RemoteTypes, RequestAll, Rescheduled, Status, Network, Desire, Unit, Copy,
            Goal, Slots, Waiting, Sending, NoCopy, NoTarget, unitVars, monitorVars, controlVars,
            statusVars
<1>1. RemoteTypes'
  OBVIOUS
<1>2. Told'
  BY DEF Told
<1>3. Stream'
  BY DEF Stream, Combine, Holders
<1>4. Targets'
  BY DEF Targets, OneSlot, SlotsLater, SlotOf, SlotDue, Wanting, StartDue, Pending
<1>5. StartsComing'
  BY DEF StartsComing, Untold, Coming, Pending, InHand, StartDue, SlotDue, Wanting, SlotOf,
         RuleDue, RuleAt
<1>6. CopyTells'
  BY DEF CopyTells, Untold, Pending, InHand, StartDue, SlotDue, Wanting, SlotOf
<1> QED BY <1>1, <1>2, <1>3, <1>4, <1>5, <1>6

(* A request for one unit takes its slot, or one no start is lost with. *)
LEMMA RequestFacts ==
  ASSUME RemoteTypes, Targets, NEW u \in Loggers, NEW wanted \in {"Start", "Stop"}, RequestOne(u, wanted)
  PROVE  /\ slots' \in Slots /\ OneSlot(slots') /\ SlotsLater(all, slots')
         /\ wanted = "Start" => Wanting(all, slots', u) /\ StartDue(all, slots', u)
         /\ \A v \in Loggers: v # u =>
              /\ Wanting(all, slots, v) => Wanting(all, slots', v)
              /\ StartDue(all, slots, v) => StartDue(all, slots', v)
         /\ task' = Rescheduled /\ wish' = [wish EXCEPT ![u] = wanted]
         /\ UNCHANGED <<unit, heard, table, copy, notify, hasLogging, armed, statusEmpty, published, bus, unavailable,
                        all, restarted, reassert, taken>>
<1> DEFINE new == [uid |-> u, wanted |-> wanted, due |-> TRUE]
<1>1. PICK i \in 1..SlotCount: slots' = [slots EXCEPT ![i] = new] /\ i \in (IF Mine(u) # {} THEN Mine(u) ELSE FreeSlots)
  BY DEF RequestOne, Mine, FreeSlots
<1>2. /\ task' = Rescheduled /\ wish' = [wish EXCEPT ![u] = wanted]
      /\ UNCHANGED <<unit, heard, table, copy, notify, hasLogging, armed, statusEmpty, published, bus, unavailable,
                     all, restarted, reassert, taken>>
  BY DEF RequestOne, unitVars, monitorVars, statusVars
<1>3. new \in Goal /\ slots \in [1..SlotCount -> Goal] /\ new.uid = u /\ new.wanted = wanted /\ new.due
  BY DEF Goal, Desire, RemoteTypes, Slots
<1>4. (slots[i].uid = u \/ slots[i].wanted # "Start") /\ \A j \in 1..SlotCount: j # i /\ slots[j].uid = u => slots[j].wanted = "None"
  BY <1>1 DEF Mine, FreeSlots, Targets, OneSlot
<1> HIDE DEF new
<1>5. slots' \in [1..SlotCount -> Goal] /\ slots'[i] = new /\ \A j \in 1..SlotCount: j # i => slots'[j] = slots[j]
  BY <1>1, <1>3
<1>6. OneSlot(slots')
  BY <1>3, <1>4, <1>5 DEF Targets, OneSlot
<1>7. SlotsLater(all, slots')
  BY <1>3, <1>5 DEF Targets, SlotsLater
<1>8. wanted = "Start" => SlotOf(slots', u, "Start") /\ SlotDue(slots', u)
  BY <1>3, <1>5 DEF SlotOf, SlotDue
<1>9. ASSUME NEW v \in Loggers, v # u
      PROVE  /\ SlotOf(slots, v, "Start") => SlotOf(slots', v, "Start")
             /\ SlotOf(slots', v, "Stop") => SlotOf(slots, v, "Stop")
             /\ SlotDue(slots, v) => SlotDue(slots', v)
  BY <1>3, <1>4, <1>5, <1>9 DEF SlotOf, SlotDue
<1> QED BY <1>2, <1>5, <1>6, <1>7, <1>8, <1>9 DEF Wanting, StartDue, Slots

(* A request for one unit. *)
LEMMA RequestOneKeeps ==
  ASSUME RemoteInv, NEW u \in Loggers, NEW wanted \in {"Start", "Stop"}, RequestOne(u, wanted)
  PROVE  RemoteInv'
<1> USE DEF RemoteInv, RemoteTypes, RequestOne, Rescheduled, Mine, FreeSlots, Status, Network,
            Desire, Unit, Copy, Goal, Slots, Waiting, Sending, NoCopy, NoTarget, unitVars,
            monitorVars, controlVars, statusVars
<1>1. RemoteTypes'
  OBVIOUS
<1>2. Told'
  BY DEF Told
<1>3. Stream'
  BY DEF Stream, Combine, Holders
<1>4. Targets'
  <2> HIDE DEF RequestOne, Rescheduled, Mine, FreeSlots, Waiting, Sending, Goal, Slots, Unit, Copy
  <2>1. UNCHANGED <<unit, heard, copy, hasLogging, armed, bus, unavailable, all, restarted, reassert, taken>>
    BY RequestFacts
  <2>2. (Waiting => Waiting') /\ Waiting' /\ (Sending' <=> Sending)
    <3>1. task \in {"idle", "due", "sending", "resend"} /\ task' = Rescheduled
      BY RequestFacts
    <3> QED BY <3>1 DEF Rescheduled, Waiting, Sending
  <2>3. /\ (wanted = "Start" => Pending(u)') /\ \A v \in Loggers: v # u /\ Pending(v) => Pending(v)'
    BY <2>1, <2>2, RequestFacts DEF Pending
  <2>4. \A v: (Wanting(taken.all, taken.slots, v))' <=> Wanting(taken.all, taken.slots, v)
    BY <2>1 DEF Wanting, SlotOf
  <2>5. \A v: (StartDue(taken.all, taken.slots, v))' <=> StartDue(taken.all, taken.slots, v)
    BY <2>1 DEF StartDue, SlotDue
  <2>6. \A v: InHand(v)' <=> InHand(v)
    BY <2>1, <2>2, <2>4, <2>5 DEF InHand
  <2>7. (OneSlot(slots))' /\ (SlotsLater(all, slots))'
    BY <2>1, RequestFacts
  <2>8. Sending' => (OneSlot(taken.slots))' /\ (SlotsLater(taken.all, taken.slots))'
    BY <2>1, <2>2 DEF Targets, OneSlot, SlotsLater
  <2>9. ASSUME NEW v \in Loggers, wish'[v] = "Start"
        PROVE  (Wanting(all, slots, v))' /\ (Sending' => (Wanting(taken.all, taken.slots, v))' \/ Pending(v)')
    <3>1. CASE v = u
      <4>1. wanted = "Start"
        BY <2>9, <3>1, RequestFacts
      <4> QED BY <2>1, <2>3, <3>1, <4>1, RequestFacts
    <3>2. CASE v # u
      <4>1. wish[v] = "Start"
        BY <2>9, <3>2, RequestFacts
      <4> QED BY <2>1, <2>2, <2>3, <2>4, <3>2, <4>1, RequestFacts DEF Targets
    <3> QED BY <3>1, <3>2
  <2> QED BY <2>7, <2>8, <2>9 DEF Targets
<1>5. StartsComing'
  <2> HIDE DEF RequestOne, Rescheduled, Mine, FreeSlots, Waiting, Sending, Goal, Slots, Unit, Copy
  <2>1. UNCHANGED <<unit, heard, copy, hasLogging, armed, bus, unavailable, all, restarted, reassert, taken>>
    BY RequestFacts
  <2>2. (Waiting => Waiting') /\ Waiting' /\ (Sending' <=> Sending)
    <3>1. task \in {"idle", "due", "sending", "resend"} /\ task' = Rescheduled
      BY RequestFacts
    <3> QED BY <3>1 DEF Rescheduled, Waiting, Sending
  <2>3. /\ (wanted = "Start" => Pending(u)') /\ \A v \in Loggers: v # u /\ Pending(v) => Pending(v)'
    BY <2>1, <2>2, RequestFacts DEF Pending
  <2>4. \A v: (Wanting(taken.all, taken.slots, v))' <=> Wanting(taken.all, taken.slots, v)
    BY <2>1 DEF Wanting, SlotOf
  <2>5. \A v: (StartDue(taken.all, taken.slots, v))' <=> StartDue(taken.all, taken.slots, v)
    BY <2>1 DEF StartDue, SlotDue
  <2>6. \A v: InHand(v)' <=> InHand(v)
    BY <2>1, <2>2, <2>4, <2>5 DEF InHand
  <2>7. RuleDue => RuleDue'
    BY <2>1, <2>2 DEF RuleDue, RuleAt
  <2> SUFFICES ASSUME NEW v \in Loggers, Untold(v)' PROVE Coming(v)'
    BY DEF StartsComing
  <2>8. CASE v = u
    <3>1. wanted = "Start"
      BY <2>8, RequestFacts DEF Untold
    <3> QED BY <2>3, <2>8, <3>1 DEF Coming
  <2>9. CASE v # u
    <3>1. Untold(v)
      BY <2>1, <2>9, RequestFacts DEF Untold
    <3> QED BY <2>1, <2>2, <2>3, <2>6, <2>7, <2>9, <3>1 DEF StartsComing, Coming
  <2> QED BY <2>8, <2>9
<1>6. CopyTells'
  <2> HIDE DEF RequestOne, Rescheduled, Mine, FreeSlots, Waiting, Sending, Goal, Slots, Unit, Copy
  <2>1. UNCHANGED <<unit, heard, copy, hasLogging, armed, bus, unavailable, all, restarted, reassert, taken>>
    BY RequestFacts
  <2>2. (Waiting => Waiting') /\ Waiting' /\ (Sending' <=> Sending)
    <3>1. task \in {"idle", "due", "sending", "resend"} /\ task' = Rescheduled
      BY RequestFacts
    <3> QED BY <3>1 DEF Rescheduled, Waiting, Sending
  <2>3. /\ (wanted = "Start" => Pending(u)') /\ \A v \in Loggers: v # u /\ Pending(v) => Pending(v)'
    BY <2>1, <2>2, RequestFacts DEF Pending
  <2>4. \A v: (Wanting(taken.all, taken.slots, v))' <=> Wanting(taken.all, taken.slots, v)
    BY <2>1 DEF Wanting, SlotOf
  <2>5. \A v: (StartDue(taken.all, taken.slots, v))' <=> StartDue(taken.all, taken.slots, v)
    BY <2>1 DEF StartDue, SlotDue
  <2>6. \A v: InHand(v)' <=> InHand(v)
    BY <2>1, <2>2, <2>4, <2>5 DEF InHand
  <2> SUFFICES ASSUME NEW v \in Loggers, Untold(v)', v \in hasLogging, copy[v].has, ~copy[v].stale, copy[v].status # "Stopped"
               PROVE  Pending(v)' \/ InHand(v)'
    BY <2>1 DEF CopyTells
  <2>8. CASE v = u
    <3>1. wanted = "Start"
      BY <2>8, RequestFacts DEF Untold
    <3> QED BY <2>3, <2>8, <3>1
  <2>9. CASE v # u
    <3>1. Untold(v)
      BY <2>1, <2>9, RequestFacts DEF Untold
    <3> QED BY <2>3, <2>6, <2>9, <3>1 DEF CopyTells
  <2> QED BY <2>8, <2>9
<1> QED BY <1>1, <1>2, <1>3, <1>4, <1>5, <1>6

(* A stop by another unit. *)
LEMMA PeerStopsKeeps ==
  ASSUME RemoteInv, PeerStops
  PROVE  RemoteInv'
<1> USE DEF RemoteInv, RemoteTypes, PeerStops, Dropped, Obeyed, Status, Network, Desire, Unit,
            Copy, Goal, Slots, Waiting, Sending, NoCopy, NoTarget, unitVars, monitorVars,
            controlVars, statusVars
<1>1. RemoteTypes'
  <2> HIDE DEF Goal, Unit, Dropped, Obeyed
  <2>1. all' \in Goal /\ slots' \in [1..SlotCount -> Goal]
    BY GoalStays
  <2>2. unit' \in [Loggers -> Unit]
    BY ObeyedStays
  <2>3. heard' \in [Loggers -> Desire \cup {"own"}] /\ wish' \in [Loggers -> Desire]
    OBVIOUS
  <2> QED BY <2>1, <2>2, <2>3
<1>2. Told'
  BY DEF Told
<1>3. Stream'
  BY DEF Stream, Combine, Holders
<1>4. Targets'
  BY DEF Targets, OneSlot, SlotsLater, SlotOf, SlotDue, Wanting, StartDue, Pending
<1>5. StartsComing'
  BY DEF StartsComing, Untold, Coming, Pending, InHand, StartDue, SlotDue, Wanting, SlotOf,
         RuleDue, RuleAt
<1>6. CopyTells'
  BY DEF CopyTells, Untold, Pending, InHand, StartDue, SlotDue, Wanting, SlotOf
<1> QED BY <1>1, <1>2, <1>3, <1>4, <1>5, <1>6

(* What the targets want, and what is due of it, is what the task takes. *)
LEMMA TakeFacts ==
  ASSUME RemoteTypes, Targets, TakeTargets
  PROVE  /\ Waiting /\ ~Sending /\ Sending' /\ ~Waiting' /\ task' = "sending"
         /\ all' \in Goal /\ slots' \in Slots /\ taken'.all = all /\ taken'.slots = slots
         /\ taken'.restarted = restarted /\ taken'.reassert = reassert /\ restarted' = {} /\ reassert' = FALSE
         /\ OneSlot(slots') /\ SlotsLater(all', slots') /\ \A u: Wanting(all, slots, u) => Wanting(all', slots', u)
         /\ UNCHANGED <<unit, heard, table, copy, notify, hasLogging, armed, statusEmpty, published, bus, unavailable, wish>>
<1>1. /\ task = "due" /\ task' = "sending" /\ restarted' = {} /\ reassert' = FALSE
      /\ taken' = [all |-> all, slots |-> slots, restarted |-> restarted, reassert |-> reassert]
      /\ all' = [all EXCEPT !.due = FALSE] /\ slots' = [i \in 1..SlotCount |-> [slots[i] EXCEPT !.due = FALSE]]
      /\ UNCHANGED <<unit, heard, table, copy, notify, hasLogging, armed, statusEmpty, published, bus, unavailable, wish>>
  BY DEF TakeTargets, unitVars, monitorVars, statusVars
<1>2. all \in Goal /\ slots \in [1..SlotCount -> Goal]
  BY DEF RemoteTypes, Slots
<1>3. all' \in Goal /\ all'.uid = all.uid /\ all'.wanted = all.wanted /\ all'.due = FALSE
  BY <1>1, <1>2, GoalStays
<1>4. /\ slots' \in [1..SlotCount -> Goal]
      /\ \A i \in 1..SlotCount: slots'[i].uid = slots[i].uid /\ slots'[i].wanted = slots[i].wanted
  BY <1>1, <1>2, GoalStays
<1>5. OneSlot(slots') /\ SlotsLater(all', slots')
  BY <1>3, <1>4 DEF Targets, OneSlot, SlotsLater
<1>6. \A u: Wanting(all, slots, u) => Wanting(all', slots', u)
  BY <1>3, <1>4 DEF Wanting, SlotOf
<1>7. /\ taken'.all = all /\ taken'.slots = slots /\ taken'.restarted = restarted /\ taken'.reassert = reassert
  BY <1>1
<1> QED BY <1>1, <1>3, <1>4, <1>5, <1>6, <1>7 DEF Waiting, Sending, Slots

(* The task takes the targets. *)
LEMMA TakeTargetsKeeps ==
  ASSUME RemoteInv, TakeTargets
  PROVE  RemoteInv'
<1> USE DEF RemoteInv, RemoteTypes, TakeTargets, Status, Network, Desire, Unit, Copy, Goal, Slots,
            Waiting, Sending, NoCopy, NoTarget, unitVars, monitorVars, controlVars, statusVars
<1>1. RemoteTypes'
  <2> HIDE DEF TakeTargets, Waiting, Sending, Goal, Slots, Unit, Copy
  <2>1. /\ task' = "sending" /\ all' \in Goal /\ slots' \in Slots /\ taken'.all = all /\ taken'.slots = slots
        /\ restarted' = {}
        /\ UNCHANGED <<unit, heard, table, copy, notify, hasLogging, armed, statusEmpty, published, bus, unavailable, wish>>
    BY TakeFacts
  <2> QED BY <2>1
<1>2. Told'
  BY DEF Told
<1>3. Stream'
  BY DEF Stream, Combine, Holders
<1>4. Targets'
  <2> HIDE DEF TakeTargets, Waiting, Sending, Goal, Slots, Unit, Copy
  <2>1. /\ (OneSlot(slots))' /\ (SlotsLater(all, slots))'
        /\ (OneSlot(taken.slots))' /\ (SlotsLater(taken.all, taken.slots))'
    <3>1. OneSlot(slots) /\ SlotsLater(all, slots)
      BY DEF Targets
    <3>2. OneSlot(slots') /\ SlotsLater(all', slots') /\ taken'.all = all /\ taken'.slots = slots
      BY TakeFacts
    <3> QED BY <3>1, <3>2
  <2>2. ASSUME NEW v \in Loggers, wish'[v] = "Start"
        PROVE  (Wanting(all, slots, v))' /\ (Wanting(taken.all, taken.slots, v))'
    <3>1. Wanting(all, slots, v)
      BY <2>2, TakeFacts DEF Targets
    <3> QED BY <3>1, TakeFacts
  <2> QED BY <2>1, <2>2 DEF Targets
<1>5. StartsComing'
  <2> HIDE DEF TakeTargets, Waiting, Sending, Goal, Slots, Unit, Copy
  <2>1. UNCHANGED <<unit, heard, copy, hasLogging, armed, bus, unavailable, wish>>
    BY TakeFacts
  <2>2. \A v \in Loggers: Untold(v)' => Untold(v)
    BY <2>1 DEF Untold
  <2>3. ASSUME NEW v \in Loggers, Untold(v), Pending(v) \/ v \in restarted \/ reassert PROVE InHand(v)'
    <3>1. Wanting(all, slots, v)
      BY <2>3 DEF Targets, Untold
    <3>2. (Wanting(taken.all, taken.slots, v))' /\ (StartDue(all, slots, v) => (StartDue(taken.all, taken.slots, v))')
      BY <3>1, TakeFacts
    <3> QED BY <2>3, <3>2, TakeFacts DEF InHand, Pending
  <2>4. \A v: ~InHand(v)
    BY TakeFacts DEF InHand
  <2>5. RuleDue => reassert \/ RuleDue'
    BY <2>1 DEF RuleDue, RuleAt
  <2> QED BY <2>1, <2>2, <2>3, <2>4, <2>5 DEF StartsComing, Coming
<1>6. CopyTells'
  <2> HIDE DEF TakeTargets, Waiting, Sending, Goal, Slots, Unit, Copy
  <2>1. UNCHANGED <<unit, heard, copy, hasLogging, armed, bus, unavailable, wish>>
    BY TakeFacts
  <2>2. \A v \in Loggers: Untold(v)' => Untold(v)
    BY <2>1 DEF Untold
  <2>3. ASSUME NEW v \in Loggers, Untold(v), Pending(v) \/ v \in restarted \/ reassert PROVE InHand(v)'
    <3>1. Wanting(all, slots, v)
      BY <2>3 DEF Targets, Untold
    <3>2. (Wanting(taken.all, taken.slots, v))' /\ (StartDue(all, slots, v) => (StartDue(taken.all, taken.slots, v))')
      BY <3>1, TakeFacts
    <3> QED BY <2>3, <3>2, TakeFacts DEF InHand, Pending
  <2>4. \A v: ~InHand(v)
    BY TakeFacts DEF InHand
  <2> QED BY <2>1, <2>2, <2>3, <2>4 DEF CopyTells
<1> QED BY <1>1, <1>2, <1>3, <1>4, <1>5, <1>6

(* What a logger that was not told before hears now. *)
LEMMA SendFacts ==
  ASSUME RemoteTypes, Targets, SendCommands, NEW u \in Loggers
  PROVE  /\ Sending /\ ~Sending' /\ (Waiting => Waiting') /\ (Pending(u) => Pending(u)')
         /\ \/ unit'[u] = unit[u] /\ heard'[u] = heard[u] /\ (InHand(u) /\ unit[u].run = "ready" => u \notin hasLogging)
            \/ heard'[u] = "Start"
            \/ heard'[u] = "Stop" /\ (Wanting(taken.all, taken.slots, u) => u \notin hasLogging)
         /\ unit'[u].run = unit[u].run
<1>1. /\ task \in {"sending", "resend"} /\ task' = (IF task = "resend" THEN "due" ELSE "idle")
      /\ UNCHANGED <<all, slots>> /\ unit[u] \in Unit
      /\ unit'[u] = (IF unit[u].run = "ready" /\ Order(u) # "None" THEN Obeyed(unit[u], Order(u) = "Start") ELSE unit[u])
      /\ heard'[u] = (IF unit[u].run = "ready" /\ Order(u) # "None" THEN Order(u) ELSE heard[u])
  BY DEF SendCommands, RemoteTypes
<1>2. Sending /\ ~Sending' /\ (Waiting => Waiting')
  BY <1>1 DEF Sending, Waiting
<1>3. Pending(u) => Pending(u)'
  BY <1>1, <1>2 DEF Pending, StartDue, SlotDue
<1>4. u \in hasLogging => Resolves(u)
  BY DEF Resolves, RemoteTypes
<1>5. /\ u \in hasLogging /\ Wanting(taken.all, taken.slots, u) => Order(u) # "Stop"
      /\ u \in hasLogging /\ InHand(u) => Order(u) = "Start"
  BY <1>2, <1>4, OrderFacts
<1>6. Order(u) \in {"None", "Start", "Stop"}
  BY OrderIs
<1>7. unit'[u].run = unit[u].run
  <2>1. Obeyed(unit[u], Order(u) = "Start").run = unit[u].run
    BY <1>1, ObeyedStays
  <2> QED BY <1>1, <2>1
<1>8. \/ unit'[u] = unit[u] /\ heard'[u] = heard[u] /\ (InHand(u) /\ unit[u].run = "ready" => u \notin hasLogging)
      \/ heard'[u] = "Start"
      \/ heard'[u] = "Stop" /\ (Wanting(taken.all, taken.slots, u) => u \notin hasLogging)
  BY <1>1, <1>5, <1>6
<1> QED BY <1>2, <1>3, <1>7, <1>8

(* The task sends. *)
LEMMA SendCommandsKeeps ==
  ASSUME RemoteInv, SendCommands
  PROVE  RemoteInv'
<1> USE DEF RemoteInv, RemoteTypes, SendCommands, Status, Network, Desire, Unit, Copy, Goal, Slots,
            Waiting, Sending, NoCopy, NoTarget, unitVars, monitorVars, controlVars, statusVars
<1>1. RemoteTypes'
  <2>1. unit' \in [Loggers -> Unit]
    <3> HIDE DEF Unit
    <3> QED BY ObeyedStays
  <2>2. heard' \in [Loggers -> Desire \cup {"own"}]
    BY OrderIs
  <2>3. ~Sending' /\ task' \in {"idle", "due"}
    OBVIOUS
  <2> QED BY <2>1, <2>2, <2>3
<1>2. Told'
  <2>1. UNCHANGED <<copy, table, hasLogging>>
    OBVIOUS
  <2> HIDE DEF SendCommands, Waiting, Sending, Goal, Slots, Unit, Copy
  <2>2. ASSUME NEW v \in Loggers
        PROVE  unit'[v].run = unit[v].run /\ (heard'[v] = "None" => unit'[v] = unit[v] /\ heard[v] = "None")
    BY SendFacts
  <2> QED BY <2>1, <2>2 DEF Told
<1>3. Stream'
  BY DEF Stream, Combine, Holders
<1>4. Targets'
  BY DEF Targets, OneSlot, SlotsLater, SlotOf, SlotDue, Wanting, StartDue, Pending
<1>5. StartsComing'
  <2>1. UNCHANGED <<copy, hasLogging, armed, bus, unavailable, restarted, reassert, wish>>
    OBVIOUS
  <2> HIDE DEF SendCommands, Waiting, Sending, Goal, Slots, Unit, Copy
  <2>2. ASSUME NEW v \in Loggers, Untold(v)', v \in hasLogging
        PROVE  Pending(v)' \/ (Untold(v) /\ ~InHand(v) /\ ~Pending(v))
    <3>1. wish[v] = "Start"
      BY <2>1, <2>2 DEF Untold
    <3>2. Wanting(taken.all, taken.slots, v) \/ Pending(v)
      BY <3>1, SendFacts DEF Targets
    <3>3. heard'[v] # "Start" /\ unit'[v].run = "ready"
      BY <2>2 DEF Untold
    <3>4. Pending(v)' \/ (~Pending(v) /\ unit'[v] = unit[v] /\ heard'[v] = heard[v] /\ ~InHand(v))
      BY <2>2, <3>2, <3>3, SendFacts
    <3> QED BY <2>1, <2>2, <3>4 DEF Untold
  <2>3. Loggers = {} \/ (Waiting => Waiting')
    BY SendFacts
  <2>4. Loggers = {} \/ (RuleDue => RuleDue')
    BY <2>1, <2>3 DEF RuleDue, RuleAt
  <2> QED BY <2>1, <2>2, <2>3, <2>4 DEF StartsComing, Coming
<1>6. CopyTells'
  <2>1. UNCHANGED <<copy, hasLogging, armed, bus, unavailable, restarted, reassert, wish>>
    OBVIOUS
  <2> HIDE DEF SendCommands, Waiting, Sending, Goal, Slots, Unit, Copy
  <2>2. ASSUME NEW v \in Loggers, Untold(v)', v \in hasLogging
        PROVE  Pending(v)' \/ (Untold(v) /\ ~InHand(v) /\ ~Pending(v))
    <3>1. wish[v] = "Start"
      BY <2>1, <2>2 DEF Untold
    <3>2. Wanting(taken.all, taken.slots, v) \/ Pending(v)
      BY <3>1, SendFacts DEF Targets
    <3>3. heard'[v] # "Start" /\ unit'[v].run = "ready"
      BY <2>2 DEF Untold
    <3>4. Pending(v)' \/ (~Pending(v) /\ unit'[v] = unit[v] /\ heard'[v] = heard[v] /\ ~InHand(v))
      BY <2>2, <3>2, <3>3, SendFacts
    <3> QED BY <2>1, <2>2, <3>4 DEF Untold
  <2> QED BY <2>1, <2>2 DEF CopyTells
<1> QED BY <1>1, <1>2, <1>3, <1>4, <1>5, <1>6
-----------------------------------------------------------------------------
\* Remote logging: the theorems.

(* Before the first request, or with it under way. *)
LEMMA RemoteInvInit == RemoteInit => RemoteInv
<1> SUFFICES ASSUME RemoteInit PROVE RemoteInv
  OBVIOUS
<1>1. PICK up \in SUBSET Loggers, asked \in {"None", "Start"}:
        /\ unit = [u \in Loggers |-> [run |-> IF u \in up THEN "ready" ELSE "down", status |-> "Stopped"]]
        /\ table = up /\ copy = [u \in Loggers |-> [NoCopy EXCEPT !.has = u \in up]] /\ notify = TRUE
        /\ hasLogging = up /\ armed = {} /\ statusEmpty = FALSE
        /\ published = "none" /\ bus = <<>> /\ unavailable = FALSE
        /\ all = IF asked = "None" THEN NoTarget ELSE [uid |-> "all", wanted |-> asked, due |-> TRUE]
        /\ slots = [i \in 1..SlotCount |-> NoTarget]
        /\ restarted = {} /\ task = IF asked = "None" THEN "idle" ELSE "due"
        /\ wish = [u \in Loggers |-> asked] /\ heard = [u \in Loggers |-> "None"]
  BY DEF RemoteInit
<1>2. NoTarget \in Goal /\ [uid |-> "all", wanted |-> asked, due |-> TRUE] \in Goal /\ NoTarget.wanted = "None"
  BY DEF Goal, Desire, NoTarget
<1>3. copy \in [Loggers -> Copy]
  <2>1. ASSUME NEW u \in Loggers PROVE [NoCopy EXCEPT !.has = u \in up] \in Copy
    <3>1. [NoCopy EXCEPT !.has = TRUE] \in Copy /\ [NoCopy EXCEPT !.has = FALSE] \in Copy
      BY DEF Copy, Status, NoCopy
    <3>2. CASE u \in up
      <4>1. (u \in up) = TRUE
        BY <3>2
      <4> QED BY <3>1, <4>1
    <3>3. CASE u \notin up
      <4>1. (u \in up) = FALSE
        BY <3>3
      <4> QED BY <3>1, <4>1
    <3> QED BY <3>2, <3>3
  <2> QED BY <1>1, <2>1
<1>4. unit \in [Loggers -> Unit]
  BY <1>1 DEF Unit, Status
<1>5. ~Sending /\ (asked = "Start" => Waiting)
  BY <1>1 DEF Sending, Waiting
<1>6. RemoteTypes
  <2>1. wish \in [Loggers -> Desire] /\ heard \in [Loggers -> Desire \cup {"own"}] /\ bus \in Seq(Network)
    BY <1>1 DEF Desire
  <2>2. all \in Goal /\ slots \in Slots
    BY <1>1, <1>2 DEF Slots
  <2> QED BY <1>1, <1>3, <1>4, <1>5, <2>1, <2>2 DEF RemoteTypes
<1>7. \A u \in Loggers: copy[u].status = "Stopped" /\ (copy[u].has => u \in up) /\ unit[u].status = "Stopped" /\ unit[u].run # "booting"
  BY <1>1 DEF NoCopy
<1>8. Told
  BY <1>1, <1>7 DEF Told
<1>9. Stream
  BY <1>1 DEF Stream
<1>10. \A i \in 1..SlotCount: slots[i].wanted = "None"
  BY <1>1, <1>2
<1>11. asked = "Start" => all.wanted = "Start" /\ all.due
  BY <1>1
<1>12. Targets
  <2>1. OneSlot(slots) /\ SlotsLater(all, slots)
    BY <1>10 DEF OneSlot, SlotsLater
  <2>2. \A u \in Loggers: wish[u] = "Start" => Wanting(all, slots, u)
    BY <1>1, <1>10, <1>11 DEF Wanting, SlotOf
  <2> QED BY <1>5, <2>1, <2>2 DEF Targets
<1>13. StartsComing
  <2>1. \A u \in Loggers: wish[u] = "Start" => Pending(u)
    BY <1>1, <1>5, <1>11 DEF Pending, StartDue
  <2> QED BY <2>1 DEF StartsComing, Untold, Coming
<1>14. CopyTells
  BY <1>7 DEF CopyTells
<1> QED BY <1>6, <1>8, <1>9, <1>12, <1>13, <1>14 DEF RemoteInv

(* Nothing changed. *)
LEMMA RemoteStutters ==
  ASSUME RemoteInv, UNCHANGED remoteVars
  PROVE  RemoteInv'
<1>1. /\ UNCHANGED <<unit, heard, table, copy, notify, hasLogging, armed, statusEmpty, published, bus, unavailable>>
      /\ UNCHANGED <<all, slots, restarted, reassert, task, taken, wish, left>>
  BY DEF remoteVars, unitVars, monitorVars, statusVars, controlVars
<1>2. RemoteTypes' /\ Told' /\ Stream'
  BY <1>1 DEF RemoteInv, RemoteTypes, Told, Stream, Sending, Combine, Holders
<1>3. Targets'
  BY <1>1, TargetsStand DEF RemoteInv, RemoteTypes
<1>4. (Waiting => Waiting') /\ \A u: (Pending(u) => Pending(u)') /\ (InHand(u)' <=> InHand(u))
  BY <1>1, ControlGrows DEF RemoteInv, RemoteTypes
<1>5. StartsComing'
  BY <1>1, <1>4 DEF RemoteInv, StartsComing, Untold, Coming, RuleDue, RuleAt
<1>6. CopyTells'
  BY <1>1, <1>4 DEF RemoteInv, CopyTells, Untold
<1> QED BY <1>2, <1>3, <1>5, <1>6 DEF RemoteInv

(* Every action keeps it. *)
LEMMA RemoteInvStep ==
  ASSUME RemoteInv, [RemoteNext]_remoteVars
  PROVE  RemoteInv'
<1>1. CASE UNCHANGED remoteVars
  BY <1>1, RemoteStutters
<1>2. CASE RemoteNext
  <2>1. ASSUME NEW u \in Loggers,
               Boot(u) \/ WriterBuilt(u) \/ PowerOff(u) \/ Joins(u) \/ Leaves(u) \/ RecordApplied(u)
        PROVE  RemoteInv'
    BY <2>1, BootKeeps, WriterBuiltKeeps, PowerOffKeeps, JoinsKeeps, LeavesKeeps, RecordAppliedKeeps
  <2>2. ASSUME NEW u \in Loggers, NEW status \in {"Active", "Stopped", "Failed"}, Acts(u, status) PROVE RemoteInv'
    BY <2>2, ActsKeeps DEF Status
  <2>3. ASSUME NEW u \in Loggers, NEW sameVersion \in BOOLEAN, Heartbeat(u, sameVersion) PROVE RemoteInv'
    BY <2>3, HeartbeatKeeps
  <2>4. ASSUME NEW u \in Loggers, NEW reboot \in BOOLEAN, NEW run \in {"booting", "ready"}, Restarts(u, reboot, run)
        PROVE  RemoteInv'
    BY <2>4, RestartsKeeps
  <2>5. ASSUME NEW u \in Loggers, NEW wanted \in {"Start", "Stop"}, RequestOne(u, wanted) PROVE RemoteInv'
    BY <2>5, RequestOneKeeps
  <2>6. ASSUME NEW wanted \in {"Start", "Stop"}, RequestAll(wanted) PROVE RemoteInv'
    BY <2>6, RequestAllKeeps
  <2>7. CASE PeerStops \/ Republish \/ NotifyStates
    BY <2>7, PeerStopsKeeps, RepublishKeeps, NotifyStatesKeeps
  <2>8. CASE StatusUpdated \/ TakeTargets \/ SendCommands
    BY <2>8, StatusUpdatedKeeps, TakeTargetsKeeps, SendCommandsKeeps
  <2> QED BY <1>2, <2>1, <2>2, <2>3, <2>4, <2>5, <2>6, <2>7, <2>8 DEF RemoteNext
<1> QED BY <1>1, <1>2

(* When it is quiet nothing is coming any more, so nobody waits to be told. *)
LEMMA NobodyWaits == RemoteInv => WantedStartArrives
<1> SUFFICES ASSUME RemoteInv, Quiet, NEW u \in Loggers,
                    unit[u].run = "ready", wish[u] = "Start", unit[u].status = "Stopped"
             PROVE  heard[u] \in {"Start", "own"}
  BY DEF WantedStartArrives
<1>1. task = "idle" /\ bus = <<>> /\ u \in hasLogging /\ u \notin armed
  BY DEF Quiet
<1>2. ~Waiting /\ ~Sending /\ Len(bus) = 0
  BY <1>1 DEF Waiting, Sending
<1>3. ~RuleDue
  BY <1>2 DEF RuleDue
<1>4. ~Coming(u)
  BY <1>1, <1>2, <1>3 DEF Coming, Pending, InHand
<1>5. ~Untold(u)
  BY <1>4 DEF RemoteInv, StartsComing
<1>6. heard[u] \in {"None", "Start", "Stop", "own"}
  BY DEF RemoteInv, RemoteTypes, Desire
<1> QED BY <1>5, <1>6 DEF Untold

(* Only the task sends starts, and not to a unit whose slot remembers a    *)
(* stop: the other steps make a logger hear a stop, or itself, or nothing. *)
LEMMA StopIsKept ==
  ASSUME RemoteInv, [RemoteNext]_remoteVars, NEW u \in Loggers,
         \E i \in 1..SlotCount: taken.slots # <<>> /\ taken.slots[i] = [uid |-> u, wanted |-> "Stop", due |-> FALSE],
         u \in table, u \in hasLogging, ~taken.all.due
  PROVE  heard'[u] # "Start" \/ heard[u] = "Start"
<1>1. CASE SendCommands
  <2>1. Sending /\ RemoteTypes /\ Targets /\ Resolves(u)
    BY <1>1 DEF SendCommands, Sending, RemoteInv, Resolves
  <2>2. SlotOf(taken.slots, u, "Stop")
    BY DEF SlotOf
  <2>3. Order(u) # "Start"
    BY <2>1, <2>2, OrderFacts
  <2>4. heard'[u] \in {heard[u], Order(u)}
    BY <1>1 DEF SendCommands
  <2> QED BY <2>3, <2>4
<1>2. CASE ~SendCommands
  <2>1. heard \in [Loggers -> Desire \cup {"own"}]
    BY DEF RemoteInv, RemoteTypes
  <2>2. ASSUME NEW v \in Loggers, Boot(v) PROVE heard'[u] # "Start" \/ heard[u] = "Start"
    BY <2>1, <2>2 DEF Boot
  <2>3. ASSUME NEW v \in Loggers,
               WriterBuilt(v) \/ PowerOff(v) \/ Joins(v) \/ Leaves(v) \/ RecordApplied(v)
        PROVE  heard' = heard
    BY <2>3 DEF WriterBuilt, PowerOff, Joins, Leaves, RecordApplied, unitVars
  <2>4. ASSUME NEW v \in Loggers, NEW status, Acts(v, status) PROVE heard'[u] # "Start" \/ heard[u] = "Start"
    BY <2>1, <2>4 DEF Acts
  <2>5. ASSUME NEW v \in Loggers, NEW same, Heartbeat(v, same) PROVE heard' = heard
    BY <2>5 DEF Heartbeat, unitVars
  <2>6. ASSUME NEW v \in Loggers, NEW reboot, NEW run, Restarts(v, reboot, run)
        PROVE  heard'[u] # "Start" \/ heard[u] = "Start"
    BY <2>1, <2>6 DEF Restarts
  <2>7. ASSUME NEW v \in Loggers, NEW wanted, RequestOne(v, wanted) PROVE heard' = heard
    BY <2>7 DEF RequestOne, unitVars
  <2>8. ASSUME NEW wanted, RequestAll(wanted) PROVE heard' = heard
    BY <2>8 DEF RequestAll, unitVars
  <2>9. PeerStops => heard'[u] # "Start" \/ heard[u] = "Start"
    BY <2>1 DEF PeerStops
  <2>10. Republish \/ NotifyStates \/ StatusUpdated \/ TakeTargets => heard' = heard
    BY DEF Republish, NotifyStates, StatusUpdated, TakeTargets, unitVars
  <2>11. UNCHANGED remoteVars => heard' = heard
    BY DEF remoteVars, unitVars
  <2> QED BY <1>2, <2>2, <2>3, <2>4, <2>5, <2>6, <2>7, <2>8, <2>9, <2>10, <2>11 DEF RemoteNext
<1> QED BY <1>1, <1>2

(* The control of a unit without a log writer is safe, for any number of   *)
(* loggers, slots and events: a start that is wanted of a logger is never  *)
(* lost on its way (by the request, the status rule or the monitor's       *)
(* report), and a stop for one unit is not undone by a start for all.      *)
THEOREM RemoteLoggingIsSafe == RemoteSpec => RemoteLoggingSafe
<1>1. RemoteInit => RemoteInv
  BY RemoteInvInit
<1>2. RemoteInv /\ [RemoteNext]_remoteVars => RemoteInv'
  BY RemoteInvStep
<1>3. RemoteInv => WantedStartArrives
  BY NobodyWaits
<1> DEFINE Kept == \A u \in Loggers:
             (\E i \in 1..SlotCount: taken.slots # <<>> /\ taken.slots[i] = [uid |-> u, wanted |-> "Stop", due |-> FALSE])
               /\ u \in table /\ u \in hasLogging /\ ~taken.all.due
             => heard'[u] # "Start" \/ heard[u] = "Start"
<1>4. RemoteInv /\ [RemoteNext]_remoteVars => [Kept]_remoteVars
  BY StopIsKept
<1> QED BY <1>1, <1>2, <1>3, <1>4, PTL DEF RemoteSpec, RemoteLoggingSafe, StopStands
=============================================================================
