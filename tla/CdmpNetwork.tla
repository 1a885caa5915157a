---------------------------- MODULE CdmpNetwork ----------------------------
(***************************************************************************)
(* Discovery, ID claim and the table of other devices on a CDMP network:   *)
(* CdmpNetworkService, the heartbeat service that feeds it, the status     *)
(* machine of CdmpDevice and the life cycle CdmpService gives them.        *)
(*                                                                         *)
(* Every unit runs one work queue. A unit is a record; a work item or a    *)
(* timer of the queue maps it to a new record and the frames it sends,     *)
(* which reach the queue of every other unit that listens.                 *)
(*                                                                         *)
(* Time is discrete: one tick is ID_CLAIM_RESPONSE_TIMEOUT_MS (50 ms). The *)
(* clock only advances once every queue is drained and every due task has  *)
(* run, so the work of one tick interleaves freely but takes less than a   *)
(* tick. The stagger (5 ms per unit) is below one tick.                    *)
(***************************************************************************)
EXTENDS Integers, Sequences, FiniteSets, SequencesExt

CONSTANTS
    Unit,              \* the units on the bus
    Uid,               \* Uid[u]: CdmpUid::Generate() of u's hardware
    Backoffs,          \* RETRY_BACKOFFS_MS in ticks: <<2, 4, 10>>
    MaxBackoffResets,  \* DISCOVERY_MAX_BACKOFF_RESETS
    ClaimTimeout,      \* ID_CLAIM_RESPONSE_TIMEOUT_MS in ticks: 1
    MaxClaimAttempts,  \* ID_CLAIM_MAX_ATTEMPTS
    MaxPending,        \* PENDING_ID_CLAIMS_MAX
    HeartbeatInterval, \* HEARTBEAT_INTERVAL_MS in ticks: 60
    HeartbeatTimeout,  \* HEARTBEAT_TIMEOUT_MS in ticks: 180
    ValidationInterval,\* NETWORK_VALIDATION_INTERVAL_MS in ticks: 100
    StopOvertakes,     \* whether a stop may overtake a work item that passed its session check
    Scenario           \* the buses to look at, see Bus

ASSUME UidAssumption == Uid \in [Unit -> Nat \ {0}]
ASSUME TimingAssumption ==
    /\ Backoffs \in Seq(Nat \ {0}) /\ Len(Backoffs) > 0
    /\ {ClaimTimeout, HeartbeatInterval, HeartbeatTimeout, ValidationInterval} \subseteq Nat \ {0}
    /\ {MaxBackoffResets, MaxClaimAttempts, MaxPending} \subseteq Nat \ {0}

\* A bus: the units that were built with another major protocol version, the highest device ID (254
\* in the code), and the bounds on what happens on it: starts of each unit, orderly stops and power
\* losses, and frames one receiver misses, with the frame types that may be missed.
Bus == [foreign : SUBSET Unit, ids : Nat \ {0}, starts : [Unit -> Nat], outages : Nat,
        losses : Nat, lossy : SUBSET {"DISCOVERY_REQUEST", "DISCOVERY_RESPONSE", "ID_CLAIM",
                                      "ID_CLAIM_RESPONSE", "HEARTBEAT"}]
ASSUME ScenarioAssumption == Scenario \subseteq Bus

VARIABLES
    unit,    \* unit[u]: the state CdmpService of u and its sub-services keep
    bus      \* the scenario, with what is left of its bounds

vars == <<unit, bus>>

-----------------------------------------------------------------------------

Unassigned == 0
DeviceId == 1 .. bus.ids
Off == -1                          \* a task that is not scheduled
Timer(max) == Off .. max

Status == {"OFFLINE", "INIT", "CLAIMING", "ONLINE", "VERSION_MISMATCH", "ERROR"}
Result == {"ACCEPT", "REJECT", "VERSION_INCOMPATIBLE"}

Compatible(u, v) == (u \in bus.foreign) = (v \in bus.foreign)

\* A unit that has just powered up and whose COM service is not started.
PoweredOff ==
    [status |-> "OFFLINE", running |-> FALSE, boot |-> 0, id |-> Unassigned, isLowest |-> FALSE,
     table |-> << >>, pending |-> {}, queue |-> << >>,
     attempt |-> 0, resets |-> 0, answered |-> FALSE, lowerUid |-> FALSE,
     claiming |-> Unassigned, claims |-> 0, result |-> "NONE",
     discovery |-> Off, claim |-> Off, heartbeat |-> Off, validation |-> Off, rediscovery |-> 0]

\* What a work item or a task leaves behind: the unit's state and the frames it sent.
Step(s, frames) == [state |-> s, sent |-> frames]
Silent(s) == Step(s, << >>)

Post(s, work) == [s EXCEPT !.queue = Append(@, work)]

-----------------------------------------------------------------------------
(* CdmpStatusMachine and what its callbacks do in the network and heartbeat *)
(* services.                                                                *)

ValidTransition(from, to) ==
    to \in CASE from = "OFFLINE"          -> {"INIT", "ERROR"}
             [] from = "INIT"             -> {"CLAIMING", "OFFLINE", "ERROR"}
             [] from = "CLAIMING"         -> {"INIT", "ONLINE", "VERSION_MISMATCH", "ERROR"}
             [] from = "ONLINE"           -> {"VERSION_MISMATCH", "OFFLINE", "ERROR"}
             [] from = "VERSION_MISMATCH" -> {"OFFLINE"}
             [] from = "ERROR"            -> {"INIT", "OFFLINE"}

\* Both services stop: frame handlers unregistered, tasks cancelled, the table and the pending
\* claims forgotten. The session counter drops the network service's queued work; heartbeat
\* frames are not tied to a session and stay queued.
StopServices(s) ==
    [s EXCEPT !.running = FALSE, !.discovery = Off, !.claim = Off, !.validation = Off, !.heartbeat = Off,
              !.table = << >>, !.pending = {},
              !.queue = SelectSeq(@, LAMBDA w : w.type = "HEARTBEAT")]

\* What the network service does about its unit's new status, then the heartbeat service.
NetworkStatusChanged(s) ==
    CASE s.status = "INIT"     -> Post(s, [type |-> "START_INITIALIZATION"])
      [] s.status = "CLAIMING" -> Post(s, [type |-> "START_ID_CLAIM"])
      [] s.status = "ONLINE"   -> [s EXCEPT !.validation = IF @ = Off THEN 0 ELSE @]
      [] s.status \in {"VERSION_MISMATCH", "ERROR"} -> StopServices(s)
      [] s.status = "OFFLINE"  -> s

HeartbeatStatusChanged(s) ==
    CASE s.status = "ONLINE" -> [s EXCEPT !.heartbeat = IF @ = Off THEN 0 ELSE @]
      [] s.status \in {"OFFLINE", "VERSION_MISMATCH", "ERROR"} -> [s EXCEPT !.heartbeat = Off]
      [] OTHER -> s

SetStatus(s, to) ==
    IF to = s.status \/ ~ValidTransition(s.status, to) THEN s
    ELSE HeartbeatStatusChanged(NetworkStatusChanged([s EXCEPT !.status = to]))

-----------------------------------------------------------------------------
(* The device table and the pending claims *)

\* A valid device ID other than the unit's own while it is online.
IsPeerDeviceId(s, id) == id \in DeviceId /\ ~(s.status = "ONLINE" /\ id = s.id)

UpdateNetworkDevices(s) ==
    [s EXCEPT !.isLowest = \A id \in DOMAIN s.table : s.id <= id]

\* A pending claim without a heartbeat expires after the heartbeat timeout.
LivePending(s) == {c \in s.pending : c.age <= HeartbeatTimeout}
IsPending(s, id) == \E c \in LivePending(s) : c.id = id
ClearPending(s, id) == [s EXCEPT !.pending = {c \in LivePending(s) : c.id # id}]

\* The ID a UID is listed under, as a set of at most one: the first one the table's iteration meets.
FindDeviceIdByUid(s, uid) ==
    LET ids == {id \in DOMAIN s.table : s.table[id].uid = uid}
    IN IF ids = {} THEN {} ELSE {CHOOSE id \in ids : TRUE}

Removed(table, ids) == [id \in DOMAIN table \ ids |-> table[id]]

RemoveDevices(s, ids) ==
    IF ids \cap DOMAIN s.table = {} THEN s
    ELSE UpdateNetworkDevices([s EXCEPT !.table = Removed(@, ids)])

\* A device of the table. The last two fields are history: whose heartbeat was last taken
\* for this device's (UID and boot), and whether JOINED or RESTARTED was reported since.
Device(uid) == [uid |-> uid, age |-> 0, heard |-> << >>, reported |-> TRUE]

\* A known ID is only marked alive: its entry keeps the UID it was added with.
AddOrUpdateDevice(s, id, uid) ==
    IF id \in DOMAIN s.table THEN [s EXCEPT !.table[id].age = 0]
    ELSE UpdateNetworkDevices(
            [s EXCEPT !.table = [i \in DOMAIN @ \cup {id} |-> IF i = id THEN Device(uid) ELSE @[i]]])

\* One claim per UID, a slot per claimed ID, and the oldest claim gives way in a full array.
StorePendingIdClaim(s, id, uid) ==
    LET others == {c \in LivePending(s) : c.uid # uid /\ c.id # id}
        oldest == CHOOSE c \in others : \A d \in others : c.age >= d.age
        kept   == IF Cardinality(others) < MaxPending THEN others ELSE others \ {oldest}
    IN [s EXCEPT !.pending = kept \cup {[id |-> id, uid |-> uid, age |-> 0]}]

\* The lowest ID above after that is neither in the table nor pending, 0 when there is none.
GetLowestAvailableId(s, after) ==
    LET free == {id \in DeviceId : id > after /\ id \notin DOMAIN s.table /\ ~IsPending(s, id)}
    IN IF free = {} THEN Unassigned ELSE CHOOSE id \in free : \A other \in free : id <= other

-----------------------------------------------------------------------------
(* Discovery *)

StartInitialization(s) ==
    Silent([s EXCEPT !.attempt = 0, !.resets = 0, !.answered = FALSE, !.lowerUid = FALSE, !.discovery = 0])

DiscoveryRequest(u) == [type |-> "DISCOVERY_REQUEST", uid |-> Uid[u]]

\* Mutant: no deference to a lower UID that is discovering too.
MutantEagerDiscovery(u, s) ==
    IF s.status # "INIT" THEN Silent([s EXCEPT !.discovery = Off])
    ELSE IF (s.attempt > 0 /\ s.answered) \/ s.attempt = Len(Backoffs)
         THEN Silent(SetStatus([s EXCEPT !.discovery = Off], "CLAIMING"))
         ELSE Step([s EXCEPT !.attempt = @ + 1, !.lowerUid = FALSE, !.discovery = Backoffs[s.attempt + 1]],
                   <<DiscoveryRequest(u)>>)

\* One attempt per task step: the previous request's backoff has passed.
RunDiscoveryAttempt(u, s) ==
    LET idle   == [s EXCEPT !.discovery = Off]
        defers == s.attempt > 0 /\ s.lowerUid /\ s.resets < MaxBackoffResets
        tried  == IF defers THEN 0 ELSE s.attempt
        resets == IF defers THEN s.resets + 1 ELSE s.resets
    IN IF s.status # "INIT" THEN Silent(idle)
       ELSE IF (s.attempt > 0 /\ s.answered) \/ tried = Len(Backoffs)
            THEN Silent(SetStatus(idle, "CLAIMING"))
            ELSE Step([s EXCEPT !.attempt = tried + 1, !.resets = resets, !.lowerUid = FALSE,
                                !.discovery = Backoffs[tried + 1]],
                      <<DiscoveryRequest(u)>>)

ProcessDiscoveryRequest(u, s, frame) ==
    Silent(Post([s EXCEPT !.lowerUid = @ \/ (s.status = "INIT" /\ frame.uid < Uid[u])],
                [type |-> "SEND_DISCOVERY_RESPONSE"]))

SendDiscoveryResponse(u, s) ==
    IF s.status = "ONLINE"
    THEN Step(s, <<[type |-> "DISCOVERY_RESPONSE", id |-> s.id, uid |-> Uid[u]]>>)
    ELSE Silent(s)

UpdateDeviceFromDiscovery(s, id, uid) ==
    IF ~IsPeerDeviceId(s, id) THEN s
    ELSE ClearPending(AddOrUpdateDevice(RemoveDevices(s, FindDeviceIdByUid(s, uid) \ {id}), id, uid), id)

ProcessDiscoveryResponse(u, s, frame) ==
    LET heard == [s EXCEPT !.answered = TRUE]
    IN IF frame.uid = Uid[u] THEN Silent(SetStatus(heard, "ERROR"))
       ELSE Silent(UpdateDeviceFromDiscovery(heard, frame.id, frame.uid))

-----------------------------------------------------------------------------
(* ID claim *)

StartIdClaim(s) ==
    Silent([s EXCEPT !.claiming = Unassigned, !.claims = 0, !.result = "NONE", !.claim = 0])

IdClaim(u, id) == [type |-> "ID_CLAIM", id |-> id, uid |-> Uid[u], from |-> u]

CompleteIdClaim(s) ==
    SetStatus(UpdateNetworkDevices([s EXCEPT !.id = s.claiming, !.claiming = Unassigned, !.claim = Off]), "ONLINE")

\* Sends one claim and waits for the answer; ending the claim for an error is separate work,
\* because the stop it causes waits for this task.
SendIdClaim(u, s, id, tries) ==
    Step([s EXCEPT !.claiming = id, !.claims = tries + 1, !.claim = ClaimTimeout,
                   !.result = IF id = s.claiming THEN @ ELSE "NONE"],
         <<IdClaim(u, id)>>)

GiveUpClaim(s, work) == Post([s EXCEPT !.claiming = Unassigned, !.claim = Off], [type |-> work])

RunIdClaimAttempt(u, s) ==
    LET picks == s.claiming = Unassigned \/ s.result = "REJECT"
        next  == GetLowestAvailableId(s, s.claiming)
    IN CASE s.status # "CLAIMING" -> Silent([s EXCEPT !.claiming = Unassigned, !.claim = Off])
         [] s.status = "CLAIMING" /\ s.result = "VERSION_INCOMPATIBLE" ->
                Silent(GiveUpClaim(s, "ENTER_VERSION_MISMATCH"))
         [] s.status = "CLAIMING" /\ s.result = "ACCEPT" -> Silent(CompleteIdClaim(s))
         [] s.status = "CLAIMING" /\ s.result \in {"NONE", "REJECT"} ->
                IF picks /\ next = Unassigned THEN Silent(GiveUpClaim(s, "ENTER_ERROR"))
                ELSE IF picks THEN SendIdClaim(u, s, next, 0)
                ELSE IF s.claims = MaxClaimAttempts THEN Silent(CompleteIdClaim(s))
                ELSE SendIdClaim(u, s, s.claiming, s.claims)

\* Mutant: a claim of a known ID only proves that the device is alive.
MutantRestartNotReported(u, s, c) ==
    IF ~IsPeerDeviceId(s, c.id) \/ c.uid = Uid[u] \/ ~Compatible(u, c.from) THEN s
    ELSE IF c.id \in DOMAIN s.table
         THEN IF s.table[c.id].uid = c.uid THEN [s EXCEPT !.table[c.id].age = 0] ELSE s
         ELSE RemoveDevices(StorePendingIdClaim(s, c.id, c.uid), FindDeviceIdByUid(s, c.uid))

\* Every unit records a claim as pending. A claim of a known ID by the same UID is a restart, which
\* is reported for the first of the repeated claims; a UID that claims another ID gave up its old one.
RecordIdClaim(u, s, c) ==
    LET known    == c.id \in DOMAIN s.table
        repeated == \E d \in LivePending(s) : d.id = c.id /\ d.uid = c.uid
    IN
    IF ~IsPeerDeviceId(s, c.id) \/ c.uid = Uid[u] \/ ~Compatible(u, c.from) THEN s
    ELSE IF known /\ s.table[c.id].uid # c.uid THEN s
    ELSE IF known
         THEN StorePendingIdClaim([s EXCEPT !.table[c.id].age = 0, !.table[c.id].reported = @ \/ ~repeated],
                                  c.id, c.uid)
         ELSE RemoveDevices(StorePendingIdClaim(s, c.id, c.uid), FindDeviceIdByUid(s, c.uid))

\* Mutant: the lowest ID does not look at the claimant's protocol version.
MutantAnswerIgnoresVersion(s, u, c) ==
    IF s.id = c.id THEN {"REJECT"} ELSE IF s.isLowest THEN {"ACCEPT"} ELSE {}

ClaimAnswer(s, u, c) ==
    CASE s.isLowest /\ ~Compatible(u, c.from) -> {"VERSION_INCOMPATIBLE"}
      [] ~(s.isLowest /\ ~Compatible(u, c.from)) /\ s.id = c.id -> {"REJECT"}
      [] s.isLowest /\ Compatible(u, c.from) /\ s.id # c.id -> {"ACCEPT"}
      [] OTHER -> {}

ProcessIdClaimRequest(u, s, c) ==
    LET t == RecordIdClaim(u, s, c)
        answer == IF t.status = "ONLINE" THEN ClaimAnswer(t, u, c) ELSE {}
    IN Step(t, SetToSeq({[type |-> "ID_CLAIM_RESPONSE", from |-> t.id, id |-> c.id, uid |-> c.uid, result |-> r] :
                         r \in answer}))

\* Answers are matched by the claimed ID; an objection outweighs the lowest ID's acceptance.
ProcessIdClaimResponse(s, frame) ==
    IF s.status # "CLAIMING" \/ frame.id # s.claiming THEN Silent(s)
    ELSE Silent([s EXCEPT !.result = IF frame.result # "ACCEPT" \/ @ = "NONE" THEN frame.result ELSE @])

-----------------------------------------------------------------------------
(* Heartbeats and validation *)

\* Mutant: the timeout where the interval belongs.
MutantHeartbeatTooLate(u, s) ==
    Step([s EXCEPT !.heartbeat = HeartbeatTimeout], <<[type |-> "HEARTBEAT", id |-> s.id, session |-> <<Uid[u], s.boot>>]>>)

SendHeartbeat(u, s) ==
    Step([s EXCEPT !.heartbeat = HeartbeatInterval], <<[type |-> "HEARTBEAT", id |-> s.id, session |-> <<Uid[u], s.boot>>]>>)

\* Mutant: unknown heartbeats are ignored.
MutantNoRediscovery(u, s) == Silent(s)

\* An online unit asks for a device it does not know, at most once per heartbeat interval.
RequestRediscovery(u, s) ==
    IF s.status = "ONLINE" /\ s.running /\ s.rediscovery = 0
    THEN Step([s EXCEPT !.rediscovery = HeartbeatInterval], <<DiscoveryRequest(u)>>)
    ELSE Silent(s)

\* History: whose heartbeat the entry was last refreshed by.
Heard(s, id, session) ==
    [s EXCEPT !.table[id].heard = session, !.table[id].reported = FALSE]

\* A pending claimant joins with its first heartbeat, a known device is alive.
UpdateDeviceFromHeartbeat(u, s, hb) ==
    LET claim == CHOOSE c \in LivePending(s) : c.id = hb.id
        alive == IF IsPending(s, hb.id) THEN ClearPending(AddOrUpdateDevice(s, hb.id, claim.uid), hb.id)
                 ELSE [s EXCEPT !.table[hb.id].age = 0]
    IN CASE ~IsPeerDeviceId(s, hb.id) -> Silent(s)
         [] IsPeerDeviceId(s, hb.id) /\ (IsPending(s, hb.id) \/ hb.id \in DOMAIN s.table) ->
                Silent(Heard(alive, hb.id, hb.session))
         [] OTHER -> RequestRediscovery(u, s)

ProcessPeriodicTasks(s) ==
    Silent(UpdateNetworkDevices(RemoveDevices([s EXCEPT !.validation = ValidationInterval],
                                {id \in DOMAIN s.table : s.table[id].age > HeartbeatTimeout})))

-----------------------------------------------------------------------------
(* The work queue of one unit *)

RunWork(u, s, w) ==
    CASE w.type = "START_INITIALIZATION"    -> StartInitialization(s)
      [] w.type = "START_ID_CLAIM"          -> StartIdClaim(s)
      [] w.type = "SEND_DISCOVERY_RESPONSE" -> SendDiscoveryResponse(u, s)
      [] w.type = "ENTER_VERSION_MISMATCH"  -> Silent(SetStatus(s, "VERSION_MISMATCH"))
      [] w.type = "ENTER_ERROR"             -> Silent(SetStatus(s, "ERROR"))
      [] w.type = "DISCOVERY_REQUEST"       -> ProcessDiscoveryRequest(u, s, w)
      [] w.type = "DISCOVERY_RESPONSE"      -> ProcessDiscoveryResponse(u, s, w)
      [] w.type = "ID_CLAIM"                -> ProcessIdClaimRequest(u, s, w)
      [] w.type = "ID_CLAIM_RESPONSE"       -> ProcessIdClaimResponse(s, w)
      [] w.type = "HEARTBEAT"               -> UpdateDeviceFromHeartbeat(u, s, w)

\* A CAN frame reaches every other unit that listens, except the one receiver that misses it.
Receive(s, frames) == IF s.running THEN [s EXCEPT !.queue = @ \o frames] ELSE s

Apply(u, result, missing) ==
    unit' = [v \in Unit |-> IF v = u THEN result.state
                            ELSE IF v \in missing THEN unit[v] ELSE Receive(unit[v], result.sent)]

Broadcast(u, result) ==
    \/ /\ Apply(u, result, {})
       /\ UNCHANGED bus
    \/ /\ \E i \in DOMAIN result.sent : result.sent[i].type \in bus.lossy
       /\ bus.losses > 0
       /\ \E v \in {v \in Unit \ {u} : unit[v].running} : Apply(u, result, {v})
       /\ bus' = [bus EXCEPT !.losses = @ - 1]

ProcessWork(u) ==
    /\ unit[u].queue # << >>
    /\ Broadcast(u, RunWork(u, [unit[u] EXCEPT !.queue = Tail(@)], Head(unit[u].queue)))

DiscoveryTask(u) == unit[u].discovery = 0 /\ Broadcast(u, RunDiscoveryAttempt(u, unit[u]))
IdClaimTask(u) == unit[u].claim = 0 /\ Broadcast(u, RunIdClaimAttempt(u, unit[u]))
HeartbeatTask(u) == unit[u].heartbeat = 0 /\ Broadcast(u, SendHeartbeat(u, unit[u]))
ValidationTask(u) == unit[u].validation = 0 /\ Broadcast(u, ProcessPeriodicTasks(unit[u]))

Online(u) == unit[u].status = "ONLINE"

-----------------------------------------------------------------------------
(* CdmpService: start, stop and power loss *)

\* The service thread starts the sub-services on an empty table and begins discovery. From ONLINE
\* discovery is refused, and the periodic tasks run on.
Start(u) ==
    /\ ~unit[u].running
    /\ unit[u].status \notin {"VERSION_MISMATCH", "ERROR"}
    /\ bus.starts[u] > 0
    /\ unit' = [unit EXCEPT ![u] = SetStatus([@ EXCEPT !.running = TRUE, !.table = << >>, !.pending = {},
                                                    !.boot = bus.starts[u],
                                                    !.validation = IF @ = Off /\ Online(u) THEN 0 ELSE @,
                                                    !.heartbeat = IF @ = Off /\ Online(u) THEN 0 ELSE @], "INIT")]
    /\ bus' = [bus EXCEPT !.starts[u] = @ - 1]

\* The services stop, then CdmpDevice::Reset() asks for OFFLINE. A work item that already passed
\* its session check is not waited for: it may run after the table was cleared.
Stop(u) ==
    /\ unit[u].running \/ unit[u].status \in {"VERSION_MISMATCH", "ERROR"}
    /\ bus.outages > 0
    /\ LET stopped == SetStatus(StopServices(unit[u]), "OFFLINE")
           queue   == unit[u].queue
       IN \/ unit' = [unit EXCEPT ![u] = stopped]
          \/ /\ StopOvertakes /\ queue # << >> /\ Head(queue).type # "HEARTBEAT"
             /\ unit' = [unit EXCEPT ![u] = [stopped EXCEPT !.queue = <<Head(queue)>> \o @]]
    /\ bus' = [bus EXCEPT !.outages = @ - 1]

\* Power loss: everything but the hardware UID is gone.
Crash(u) ==
    /\ unit[u] # PoweredOff
    /\ bus.outages > 0
    /\ unit' = [unit EXCEPT ![u] = PoweredOff]
    /\ bus' = [bus EXCEPT !.outages = @ - 1]

Countdown(timer) == IF timer > 0 THEN timer - 1 ELSE timer
Older(age) == IF age > HeartbeatTimeout THEN age ELSE age + 1

Aged(s) ==
    [s EXCEPT !.discovery = Countdown(@), !.claim = Countdown(@), !.heartbeat = Countdown(@),
              !.validation = Countdown(@), !.rediscovery = Countdown(@),
              !.table = [id \in DOMAIN @ |-> [@[id] EXCEPT !.age = Older(@)]],
              !.pending = {[c EXCEPT !.age = Older(@)] : c \in @}]

Drained(s) ==
    s.queue = << >> /\ s.discovery # 0 /\ s.claim # 0 /\ s.heartbeat # 0 /\ s.validation # 0

Tick ==
    /\ \A u \in Unit : Drained(unit[u])
    /\ unit' = [u \in Unit |-> Aged(unit[u])]
    /\ UNCHANGED bus

Init ==
    /\ unit = [u \in Unit |-> PoweredOff]
    /\ bus \in Scenario

\* One thread runs a unit's CDMP work: what was queued and the delayed tasks that are due.
WorkQueue(u) == ProcessWork(u) \/ DiscoveryTask(u) \/ IdClaimTask(u) \/ HeartbeatTask(u) \/ ValidationTask(u)

Next ==
    \/ \E u \in Unit : WorkQueue(u) \/ Start(u) \/ Stop(u) \/ Crash(u)
    \/ Tick

\* The work queue threads and the clock always make progress; nobody has to start or stop a unit.
Fairness == (\A u \in Unit : WF_vars(WorkQueue(u))) /\ WF_vars(Tick)

Spec == Init /\ [][Next]_vars
FairSpec == Spec /\ Fairness

-----------------------------------------------------------------------------
(* Properties *)

NetworkDevice ==
    [uid : Nat, age : 0 .. HeartbeatTimeout + 1, heard : {<< >>} \cup (Nat \X Nat), reported : BOOLEAN]

\* Every field of a unit keeps its type and its bound: attempts and retries stop at their limits, the pending
\* claims stay within their array, a running timer is never armed for longer than its interval.
TypeOK ==
    \A u \in Unit : LET s == unit[u] IN
        /\ s.status \in Status /\ s.result \in Result \cup {"NONE"}
        /\ {s.running, s.isLowest, s.answered, s.lowerUid} \subseteq BOOLEAN
        /\ s.id \in DeviceId \cup {Unassigned} /\ s.claiming \in DeviceId \cup {Unassigned}
        /\ s.attempt \in 0 .. Len(Backoffs) /\ s.resets \in 0 .. MaxBackoffResets
        /\ s.claims \in 0 .. MaxClaimAttempts
        /\ DOMAIN s.table \subseteq DeviceId /\ \A id \in DOMAIN s.table : s.table[id] \in NetworkDevice
        /\ s.pending \subseteq [id : DeviceId, uid : Nat, age : 0 .. HeartbeatTimeout + 1]
        /\ Cardinality(s.pending) <= MaxPending
        /\ s.heartbeat \in Timer(HeartbeatInterval) /\ s.validation \in Timer(ValidationInterval)

\* Two units that are online at the same time have different device IDs. The ID addresses SMP over
\* CAN and owns the copies of the shared state, and a duplicate is never noticed later: a heartbeat
\* with the unit's own ID is ignored (IsPeerDeviceId).
UniqueDeviceIds ==
    \A u, v \in Unit : u # v /\ Online(u) /\ Online(v) => unit[u].id # unit[v].id

\* Between the heartbeats of two boots that refresh the same entry of the table, JOINED or RESTARTED
\* was reported. The state service marks copies stale and the restart monitor replays settings on
\* these reports, so a device that comes back is never silently taken for the one before.
RestartReported ==
    [][\A u \in Unit : \A id \in DOMAIN unit[u].table \cap DOMAIN unit'[u].table :
           unit'[u].table[id].heard # unit[u].table[id].heard
               => unit[u].table[id].reported]_vars

\* A stopped service never brings its unit online: what was queued for the session that the stop
\* ended is dropped (RunInSession), and the tasks are cancelled.
StoppedNeverJoins ==
    [][\A u \in Unit : ~unit[u].running /\ ~unit'[u].running /\ ~Online(u) => unit'[u].status # "ONLINE"]_vars

\* Units with incompatible major protocol versions are never online together: the lowest ID answers
\* the claim with VERSION_INCOMPATIBLE and the claimant stops its services (VERSION_MISMATCH).
NoMixedVersions ==
    \A u, v \in Unit : Online(u) /\ Online(v) => Compatible(u, v)

\* A unit that leaves the network for good ends in a state its services are stopped in, every other
\* running unit gets online, and from then on the device table of each online unit is exactly the
\* other online units: late joiners, restarts, silent deaths and lost frames all heal.
NetworkSettles ==
    <>[] \A u \in Unit :
        /\ unit[u].running => Online(u)
        /\ Online(u) => {<<id, unit[u].table[id].uid>> : id \in DOMAIN unit[u].table}
                        = {<<unit[v].id, Uid[v]>> : v \in {v \in Unit \ {u} : Online(v)}}
=============================================================================
