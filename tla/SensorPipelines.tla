--------------------------- MODULE SensorPipelines ---------------------------
(***************************************************************************)
(* From a sensor configuration to readings: the validator, the order of    *)
(* processing, the runtimes of a generation, and the pipeline that commits *)
(* a reading with every sensor derived from it.                            *)
(*                                                                         *)
(* A configuration is saved (Serialize()) and then loaded, or imported and *)
(* only loaded (Deserialize()).  A value is the set of readings that it    *)
(* was computed from, {} for NaN.  A sensor's two latest readings differ.  *)
(* A kind is that of the source, analog or indicator.  Scripts are left    *)
(* out, the messages of CAN sensors are configured                         *)
(* (ValidateCanbusSources()), and indicator conditioning has a module of   *)
(* its own.                                                                *)
(***************************************************************************)
EXTENDS Naturals, Sequences, FiniteSets, FiniteSetsExt, SequencesExt

CONSTANTS SensorLists,  \* configurations: sequences of sensors, as edited or imported
          MaxSensors,   \* CONFIG_EERIE_LEAP_DOMAIN_SENSOR_MAX_COUNT
          HashOf,       \* StringHelpers::GetHash()
          MaxNans       \* bound: expressions of one pass that yield no number

VARIABLES stored,     \* the sensors that are validated
          saving,     \* Serialize() is at work, not Deserialize()
          wasSaved,   \* ghost: Serialize() has returned
          stage,      \* validate, cycles, order, build, running or refused
          stack,      \* the sensors that the depth-first walk is in
          visited,
          ordered,    \* ordered_sensors
          runtimes,   \* SensorGeneration::runtimes
          frame,      \* slots: the value, and the status of the latest reading
          turn        \* sensors: tells a reading from the one before

walkVars     == <<stack, visited, ordered>>
pipelineVars == <<stored, saving, wasSaved, stage, walkVars, runtimes, frame, turn>>

-----------------------------------------------------------------------------
\* What a sensor type needs and allows.

Requires(kind) ==
  CASE kind = "adc"     -> {"channel", "interpolation", "rate"}
    [] kind = "gpio"    -> {"channel"}
    [] kind = "virtual" -> {"expression"}
    [] kind = "control" -> {}
    [] OTHER            -> {"connection"}     \* a CAN signal, a raw CAN frame

Allows(kind) ==
  Requires(kind) \cup
  CASE kind = "adc"     -> {"expression"}
    [] kind = "gpio"    -> {"expression", "rate", "conditioning"}
    [] kind = "virtual" -> {"rate", "conditioning"}
    [] kind = "raw"     -> {}
    [] OTHER            -> {"expression", "conditioning"}

HasInput(kind)    == kind \notin {"virtual", "raw"}
IsIsrDriven(kind) == kind \in {"gpio", "signal", "raw", "control"}

UpdateMethod(s) ==
  CASE ~s.enabled           -> "NONE"
    [] "rate" \in s.has     -> "SCHEDULER"
    [] s.kind = "virtual"   -> "DEPENDENT"
    [] IsIsrDriven(s.kind)  -> "ISR"
    [] OTHER                -> "NONE"

-----------------------------------------------------------------------------
\* Validation.

(* Mutant: two IDs may share a hash. *)
DistinctIdsOnly(sensors) ==
  \A i, j \in DOMAIN sensors : i # j => sensors[i].id # sensors[j].id

(* Readings find their sensor by the hash of its ID. *)
ValidIds(sensors) ==
  \A i, j \in DOMAIN sensors :
     i # j => sensors[i].id # sensors[j].id /\ HashOf[sensors[i].id] # HashOf[sensors[j].id]

(* Channels the unit has, sources that parse, scripts that exist, texts that fit. *)
InRange(s) == s.wrong = {}

(* Every field that the type requires, and none that it does not allow. *)
ValidFields(s) == Requires(s.kind) \subseteq s.has /\ s.has \subseteq Allows(s.kind)

(* Mutant: an input may be disabled. *)
ReadsDisabled(s, sensors) ==
  "expression" \in s.has =>
     /\ s.usesX => HasInput(s.kind)
     /\ \A v \in s.vars : \E i \in DOMAIN sensors : sensors[i].id = v
     /\ s.kind = "virtual" => "rate" \in s.has \/ s.vars # {}

(* Mutant: x without an input is let through. *)
IgnoresX(s, sensors) ==
  "expression" \in s.has =>
     /\ \A v \in s.vars : \E i \in DOMAIN sensors :
          sensors[i].id = v /\ (s.enabled => sensors[i].enabled)
     /\ s.kind = "virtual" => "rate" \in s.has \/ s.vars # {}

(* Mutant: a virtual sensor may have neither rate nor inputs. *)
NeverUpdated(s, sensors) ==
  "expression" \in s.has =>
     /\ s.usesX => HasInput(s.kind)
     /\ \A v \in s.vars : \E i \in DOMAIN sensors :
          sensors[i].id = v /\ (s.enabled => sensors[i].enabled)

(* Each variable is a sensor, enabled if its reader is; x has an input;    *)
(* and a virtual sensor is polled or has inputs.                           *)
ValidExpression(s, sensors) ==
  "expression" \in s.has =>
     /\ s.usesX => HasInput(s.kind)
     /\ \A v \in s.vars : \E i \in DOMAIN sensors :
          sensors[i].id = v /\ (s.enabled => sensors[i].enabled)
     /\ s.kind = "virtual" => "rate" \in s.has \/ s.vars # {}

IsValid(sensors) ==
  /\ Len(sensors) <= MaxSensors
  /\ ValidIds(sensors)
  /\ \A i \in DOMAIN sensors :
       InRange(sensors[i]) /\ ValidFields(sensors[i]) /\ ValidExpression(sensors[i], sensors)

(* A sampling rate that is not positive is written, and read, as none. *)
AsStored(s) ==
  IF "rate" \in s.wrong THEN [s EXCEPT !.has = @ \ {"rate"}, !.wrong = @ \ {"rate"}] ELSE s

StoredForm(sensors) == [i \in DOMAIN sensors |-> AsStored(sensors[i])]

PipelinesInit ==
  /\ saving \in BOOLEAN /\ wasSaved = FALSE
  /\ \E list \in SensorLists : stored = IF saving THEN list ELSE StoredForm(list)
  /\ stage = "validate" /\ stack = <<>> /\ visited = {} /\ ordered = <<>>
  /\ runtimes = <<>> /\ frame = <<>> /\ turn = <<>>

Refuse == stage' = "refused" /\ UNCHANGED <<stored, saving, wasSaved, runtimes, frame, turn>>

StartWalk(s) == stage' = s /\ stack' = <<>> /\ visited' = {} /\ ordered' = <<>>

(* Mutant: Serialize() does not look for cycles. *)
SkipsCycles == IF saving THEN "order" ELSE "cycles"

(* After the validator comes the search for cycles, in Serialize() too. *)
FirstWalk == "cycles"

Validate ==
  /\ stage = "validate"
  /\ \/ ~IsValid(stored) /\ Refuse /\ UNCHANGED walkVars
     \/ /\ IsValid(stored) /\ StartWalk(FirstWalk)
        /\ UNCHANGED <<stored, saving, wasSaved, runtimes, frame, turn>>

-----------------------------------------------------------------------------
\* The processing order: two depth-first walks, over unordered containers.

SensorNamed(id) == stored[CHOOSE i \in DOMAIN stored : stored[i].id = id]
Ids             == {stored[i].id : i \in DOMAIN stored}
DependsOn(id)   == SensorNamed(id).vars

(* What the loop at the top of the stack, or the one over all sensors, has to go through. *)
Successors == IF stack = <<>> THEN Ids ELSE DependsOn(Last(stack))

(* HasCyclicDependency() marks a sensor when it leaves it, ResolveDependencies() on entry. *)
Enter ==
  /\ stage \in {"cycles", "order"}
  /\ \E id \in (Successors \cap Ids) \ (visited \cup ToSet(stack)) :
       /\ stack' = Append(stack, id)
       /\ visited' = IF stage = "order" THEN visited \cup {id} ELSE visited
  /\ UNCHANGED <<stored, saving, wasSaved, stage, ordered, runtimes, frame, turn>>

Leave ==
  /\ stack # <<>> /\ Successors \subseteq visited
  /\ stack' = Front(stack) /\ visited' = visited \cup {Last(stack)}
  /\ ordered' = IF stage = "order" THEN Append(ordered, SensorNamed(Last(stack))) ELSE ordered
  /\ UNCHANGED <<stored, saving, wasSaved, stage, runtimes, frame, turn>>

MeetsCycle ==
  /\ stage = "cycles" /\ stack # <<>>
  /\ Successors \cap ToSet(stack) # {} \/ ~(Successors \subseteq Ids)
  /\ Refuse /\ UNCHANGED walkVars

NoCycle ==
  /\ stage = "cycles" /\ stack = <<>> /\ visited = Ids
  /\ StartWalk("order")
  /\ UNCHANGED <<stored, saving, wasSaved, runtimes, frame, turn>>

(* Serialize() drops the order and returns what Deserialize() will read. *)
HasOrder ==
  /\ stage = "order" /\ stack = <<>> /\ visited = Ids
  /\ IF saving
       THEN /\ stored' = StoredForm(stored) /\ saving' = FALSE /\ wasSaved' = TRUE
            /\ StartWalk("validate")
       ELSE stage' = "build" /\ UNCHANGED <<stored, saving, wasSaved, walkVars>>
  /\ UNCHANGED <<runtimes, frame, turn>>

-----------------------------------------------------------------------------
\* The generation.

Slots == DOMAIN ordered

(* FindSlot(): by the hash of the ID, in the order of the sensors. *)
FindSlot(id) == CHOOSE i \in Slots : HashOf[ordered[i].id] = HashOf[id]

InputSlots(i) == IF ordered[i].enabled THEN {FindSlot(v) : v \in ordered[i].vars} ELSE {}

Direct(i) == {j \in Slots : UpdateMethod(ordered[j]) = "DEPENDENT" /\ i \in InputSlots(j)}

(* Mutant: only the sensors that read this one directly. *)
DirectOnly(i) == SetToSortSeq(Direct(i), <)

(* The transitive closure, in processing order. *)
DependentsOf(i) ==
  LET Reach(reached, k) == reached \cup UNION {Direct(j) : j \in reached}
  IN  SetToSortSeq(FoldLeft(Reach, Direct(i), [k \in Slots |-> k]), <)

Runtime(i) ==
  [sensor     |-> ordered[i],
   slot       |-> FindSlot(ordered[i].id),
   method     |-> UpdateMethod(ordered[i]),
   inputs     |-> InputSlots(i),
   dependents |-> DependentsOf(i)]

NoReading == [value |-> {}, status |-> "none"]

BuildGeneration ==
  /\ stage = "build" /\ stage' = "start"
  /\ runtimes' = [i \in Slots |-> Runtime(i)]
  /\ frame' = [i \in Slots |-> NoReading]
  /\ turn' = [i \in Slots |-> 0]
  /\ UNCHANGED <<stored, saving, wasSaved, walkVars>>

-----------------------------------------------------------------------------
\* Readings.

AreValuesAvailable(f, r) == \A i \in r.inputs : f[i].value # {}

(* The stages: nans are the runtimes whose expression yields no number. *)
Run(f, r, reading, nans) ==
  CASE r.sensor.kind = "raw"               -> [value |-> {}, status |-> "processed"]
    [] "expression" \notin r.sensor.has    -> [value |-> {reading}, status |-> "processed"]
    [] ~AreValuesAvailable(f, r)           -> [value |-> {}, status |-> "unavailable"]
    [] r.sensor.usesX /\ ~HasInput(r.sensor.kind) -> [value |-> {}, status |-> "failed"]
    [] r.sensor.id \in nans                -> [value |-> {}, status |-> "nan"]
    [] OTHER -> [value  |-> {reading} \cup UNION {f[i].value : i \in r.inputs},
                 status |-> "processed"]

(* A reading without a value leaves the value that is there. *)
AddOrUpdateReading(f, r, result) ==
  [f EXCEPT ![FindSlot(r.sensor.id)] =
     [value |-> IF result.value = {} THEN @.value ELSE result.value, status |-> result.status]]

EvaluateDerived(f, r, nans) ==
  LET One(g, j) == AddOrUpdateReading(g, runtimes[j],
                     Run(g, runtimes[j], <<runtimes[j].sensor.id, 0>>, nans))
  IN  FoldLeft(One, f, r.dependents)

ProcessReading(f, r, reading, nans) ==
  LET result    == Run(f, r, reading, nans)
      committed == AddOrUpdateReading(f, r, result)
  IN  IF result.status = "processed" THEN EvaluateDerived(committed, r, nans) ELSE committed

(* The expressions that yield no number in this pass. *)
NanChoices ==
  LET evaluating == {i \in Slots : "expression" \in ordered[i].has}
  IN  {{ordered[i].id : i \in nans} : nans \in UNION {kSubset(n, evaluating) : n \in 0..MaxNans}}

(* Control indicators start released, with what is derived from them. *)
CommitStartValues ==
  /\ stage = "start" /\ stage' = "running"
  /\ \E nans \in NanChoices :
       LET Start(f, i) == IF runtimes[i].method = "ISR" /\ runtimes[i].sensor.kind = "control"
                            THEN ProcessReading(f, runtimes[i], <<runtimes[i].sensor.id, 0>>, nans)
                            ELSE f
       IN  frame' = FoldLeft(Start, frame, [i \in Slots |-> i])
  /\ UNCHANGED <<stored, saving, wasSaved, walkVars, runtimes, turn>>

IsRead(i) == stage = "running" /\ runtimes[i].method \in {"SCHEDULER", "ISR"}

(* A source has a reading: of a rate group, of an edge, of a CAN frame or of a control. *)
SourceReads(i) ==
  /\ IsRead(i)
  /\ turn' = [turn EXCEPT ![i] = 1 - @]
  /\ \E nans \in NanChoices :
       frame' = ProcessReading(frame, runtimes[i], <<runtimes[i].sensor.id, turn'[i]>>, nans)
  /\ UNCHANGED <<stored, saving, wasSaved, stage, walkVars, runtimes>>

(* An ADC channel or a CAN signal that cannot be read: the error is committed, and nothing is evaluated. *)
SourceFails(i) ==
  /\ IsRead(i) /\ runtimes[i].sensor.kind \in {"adc", "signal"}
  /\ frame' = AddOrUpdateReading(frame, runtimes[i], [value |-> {}, status |-> "error"])
  /\ UNCHANGED <<stored, saving, wasSaved, stage, walkVars, runtimes, turn>>

(* The unit starts again, or the user saves again. *)
Reload ==
  /\ stage \in {"refused", "running"} /\ StartWalk("validate")
  /\ runtimes' = <<>> /\ frame' = <<>> /\ turn' = <<>>
  /\ UNCHANGED <<stored, saving, wasSaved>>

PipelinesNext ==
  \/ Validate \/ Enter \/ Leave \/ MeetsCycle \/ NoCycle \/ HasOrder \/ BuildGeneration
  \/ CommitStartValues \/ Reload
  \/ \E i \in DOMAIN runtimes : SourceReads(i) \/ SourceFails(i)

PipelinesSpec == PipelinesInit /\ [][PipelinesNext]_pipelineVars

-----------------------------------------------------------------------------
\* Properties.

IsRunning == stage = "running"

(* A sensor that is derived from others (EvaluateDependents() of every     *)
(* input, in processing order) was evaluated since all of its inputs have  *)
(* values, and holds the result for the values they have now.              *)
DerivedIsFresh ==
  IsRunning => \A i \in Slots :
    LET r == runtimes[i] IN
    r.method = "DEPENDENT" /\ AreValuesAvailable(frame, r)
    => /\ frame[i].status \in {"processed", "nan"}
       /\ frame[i].status = "processed"
          => frame[i].value = {<<r.sensor.id, 0>>} \cup UNION {frame[j].value : j \in r.inputs}

(* Sensor i and all that it is computed from. *)
ReadsFrom(i) ==
  LET Back(found, k) == found \cup UNION {runtimes[j].inputs : j \in found}
  IN  FoldLeft(Back, {i}, [k \in Slots |-> k])

(* The next reading of i is due from its source, or i reads no number. *)
WaitsForSource(i) ==
  LET r == runtimes[i] IN
  \/ r.sensor.kind = "raw"
  \/ r.method \in {"SCHEDULER", "ISR"} /\ AreValuesAvailable(frame, r)
  \/ r.method = "DEPENDENT" /\ frame[i].status = "nan"

(* A configuration that the validator and the order resolver accepted has  *)
(* no sensor that can never get a value: an enabled sensor without one     *)
(* waits, itself or through what it is computed from, for a source that    *)
(* is read; and no expression lacks a variable or its x when it is run.    *)
NoSilentSensor ==
  IsRunning => \A i \in Slots :
    /\ frame[i].status # "failed"
    /\ runtimes[i].sensor.enabled /\ frame[i].value = {}
       => \E j \in ReadsFrom(i) : frame[j].value = {} /\ WaitsForSource(j)

(* A value was computed from readings of the sensor itself and of those    *)
(* its expression names, directly or through others: readings find their   *)
(* slot by the hash of the ID, and so do the variables of expressions.     *)
ValuesOfItsInputs ==
  IsRunning => \A i \in Slots :
    \A reading \in frame[i].value : \E j \in ReadsFrom(i) : runtimes[j].sensor.id = reading[1]

(* What Serialize() has accepted, Deserialize() does not refuse. *)
SavedLoads == wasSaved => stage # "refused"
=============================================================================
