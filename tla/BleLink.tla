------------------------------- MODULE BleLink -------------------------------
(***************************************************************************)
(* The Bluetooth link of a unit (Ble, AccessPointService, BleService) and  *)
(* the two that pause sensor processing: pairing, and a calibration job.   *)
(*                                                                         *)
(* One central at a time.  The stack's callbacks and the SMP writes come   *)
(* on the RX thread; what they defer runs on the system work queue, one    *)
(* item after the other in the order they were queued, an item queued      *)
(* again keeping its place.  MCUmgr starts and stops calibration jobs on a *)
(* thread of its own, and a configuration change restarts the processing   *)
(* service on another.  Transitions of that service hold its mutex, so     *)
(* each is one step.                                                       *)
(***************************************************************************)
EXTENDS Naturals, Sequences, SequencesExt

CONSTANTS MaxCentrals,   \* bound: connections
          AdcChannels    \* channels a job may calibrate

ASSUME LinkAssumption == MaxCentrals \in Nat /\ AdcChannels \cap {"none"} = {}

VARIABLES adverts,     \* advertising: "off", "on" or "refused"
          link,        \* the stack's connection: "none", "up", "secured", "gone" or "freed"
          central,     \* which central it is, counted
          activeConn,  \* Ble::active_conn, 0 for none
          rxStep,      \* where the RX thread is in a callback
          sysQueue,    \* items on the system work queue
          sysItem,     \* the item that runs, when it takes several steps
          delayed,     \* idle_work_ waits for its timeout
          isFast,      \* is_fast_
          asked,       \* connection interval asked for last: of the stack's default, fast or idle
          greeted,     \* ghost: the last central the connected and security items acted on
          processing,  \* GetState() of the processing service
          pairing,     \* is_processing_paused_: "none", "ours", or "taken" by a restart
          job,         \* the calibration job's pause, likewise
          adcJob       \* the job's channel, its step and its latest result

adcVars  == <<job, adcJob>>
linkVars == <<adverts, link, central, activeConn, rxStep, sysQueue, sysItem, delayed, isFast,
              asked, greeted, processing, pairing, job, adcJob>>

IdleJob == [running |-> FALSE, channel |-> "none", step |-> "idle", sampled |-> "none",
            latest |-> "none"]

\* Ble::Start() queues the first advertising.
LinkInit ==
  /\ adverts = "off" /\ link = "none" /\ central = 0 /\ activeConn = 0
  /\ rxStep = "free" /\ sysQueue = <<"advertise">> /\ sysItem = "none" /\ delayed = FALSE
  /\ isFast = FALSE /\ asked = "default" /\ greeted = [connected |-> 0, security |-> 0]
  /\ processing = "RUNNING" /\ pairing = "none" /\ job = "none" /\ adcJob = IdleJob

\* k_work_reschedule() without a delay, or k_work_submit(), of several items.
Enqueue(queue, items) == queue \o SelectSeq(items, LAMBDA w : ~Contains(queue, w))

-----------------------------------------------------------------------------
\* The RX thread.

(* The stack has stopped advertising. *)
Connect ==
  /\ rxStep = "free" /\ link = "none" /\ adverts = "on" /\ central < MaxCentrals
  /\ link' = "up" /\ adverts' = "off" /\ central' = central + 1 /\ asked' = "default"
  /\ rxStep' = "connected"
  /\ UNCHANGED <<activeConn, sysQueue, sysItem, delayed, isFast, greeted, processing, pairing,
                 adcVars>>

(* The callback stores the connection before it queues the items that look for it. *)
MutantQueuedFirst == FALSE
StoredFirst == TRUE

ConnectedStep(store) ==
  IF store
  THEN activeConn' = central /\ UNCHANGED sysQueue
  ELSE /\ sysQueue' = Enqueue(sysQueue, <<"connected", "pairing started", "security">>)
       /\ UNCHANGED activeConn

Connected ==
  /\ \/ rxStep = "connected" /\ rxStep' = "queue" /\ ConnectedStep(StoredFirst)
     \/ rxStep = "queue" /\ rxStep' = "free" /\ ConnectedStep(~StoredFirst)
  /\ UNCHANGED <<adverts, link, central, sysItem, delayed, isFast, asked, greeted, processing,
                 pairing, adcVars>>

(* Pairing is done, by whoever asked for it; a failed one disconnects. *)
SecurityChanged(ok) ==
  /\ rxStep = "free" /\ link = "up"
  /\ link' = IF ok THEN "secured" ELSE "gone"
  /\ sysQueue' = Enqueue(sysQueue, <<"pairing finished">>)
  /\ UNCHANGED <<adverts, central, activeConn, rxStep, sysItem, delayed, isFast, asked, greeted,
                 processing, pairing, adcVars>>

(* The link drops, and the stack will report it. *)
LinkLost ==
  /\ link \in {"up", "secured"} /\ link' = "gone"
  /\ UNCHANGED <<adverts, central, activeConn, rxStep, sysQueue, sysItem, delayed, isFast, asked,
                 greeted, processing, pairing, adcVars>>

MutantFastKept == isFast
FastAfterDisconnect == FALSE

(* The handlers of the access point run, the connection is still known. *)
DisconnectedHandlers ==
  /\ rxStep = "free" /\ link = "gone" /\ rxStep' = "disconnected"
  /\ isFast' = FastAfterDisconnect /\ delayed' = FALSE
  /\ sysQueue' = SelectSeq(sysQueue, LAMBDA w : w # "idle")
  /\ UNCHANGED <<adverts, link, central, activeConn, sysItem, asked, greeted, processing,
                 pairing, adcVars>>

Disconnected ==
  /\ rxStep = "disconnected" /\ rxStep' = "free"
  /\ activeConn' = 0 /\ link' = "freed"
  /\ UNCHANGED <<adverts, central, sysQueue, sysItem, delayed, isFast, asked, greeted, processing,
                 pairing, adcVars>>

MutantNotQueuedAgain == <<>>
QueuedOnRecycled == <<"advertise">>

(* Advertising is left to the work queue, behind what the last central queued. *)
MutantAtOnce == "on"
AdvertsOnRecycled == adverts

(* Nobody refers to the connection any more. *)
Recycled ==
  /\ rxStep = "free" /\ link = "freed" /\ link' = "none"
  /\ adverts' = AdvertsOnRecycled
  /\ sysQueue' = Enqueue(sysQueue, QueuedOnRecycled)
  /\ UNCHANGED <<central, activeConn, rxStep, sysItem, delayed, isFast, asked, greeted,
                 processing, pairing, adcVars>>

(* A write to `smp` needs an encrypted link. *)
OnSmpActivity ==
  /\ rxStep = "free" /\ link = "secured" /\ rxStep' = "active"
  /\ isFast' = TRUE
  /\ sysQueue' = IF isFast THEN sysQueue ELSE Enqueue(sysQueue, <<"fast">>)
  /\ UNCHANGED <<adverts, link, central, activeConn, sysItem, delayed, asked, greeted, processing,
                 pairing, adcVars>>

MutantNotRescheduled == delayed
IdleWaits == TRUE

OnSmpActivityEnds ==
  /\ rxStep = "active" /\ rxStep' = "free" /\ delayed' = IdleWaits
  /\ UNCHANGED <<adverts, link, central, activeConn, sysQueue, sysItem, isFast, asked, greeted,
                 processing, pairing, adcVars>>

-----------------------------------------------------------------------------
\* The system work queue.

RunsItem(item) == sysItem = "none" /\ sysQueue # <<>> /\ Head(sysQueue) = item
Ran == sysQueue' = Tail(sysQueue)

(* bt_le_adv_start() may fail, which is only logged. *)
RestartAdvertising(ok) ==
  /\ RunsItem("advertise") /\ Ran /\ adverts' = IF ok THEN "on" ELSE "refused"
  /\ UNCHANGED <<link, central, activeConn, rxStep, sysItem, delayed, isFast, asked, greeted,
                 processing, pairing, adcVars>>

ConnectedCb ==
  /\ RunsItem("connected") /\ Ran
  /\ delayed' = (delayed \/ activeConn # 0)
  /\ greeted' = IF activeConn # 0 THEN [greeted EXCEPT !.connected = activeConn] ELSE greeted
  /\ UNCHANGED <<adverts, link, central, activeConn, rxStep, sysItem, isFast, asked, processing,
                 pairing, adcVars>>

SecurityUpdate ==
  /\ RunsItem("security") /\ Ran
  /\ greeted' = IF activeConn # 0 THEN [greeted EXCEPT !.security = activeConn] ELSE greeted
  /\ UNCHANGED <<adverts, link, central, activeConn, rxStep, sysItem, delayed, isFast, asked,
                 processing, pairing, adcVars>>

(* What is_processing_paused_ becomes when Pause() returns `ok`. *)
MutantAlwaysTaken(ok) == "ours"
PauseTaken(ok) == IF ok THEN "ours" ELSE "none"

PairingStarted ==
  /\ RunsItem("pairing started") /\ Ran
  /\ IF pairing = "none"
     THEN /\ pairing' = PauseTaken(processing = "RUNNING")
          /\ processing' = IF processing = "RUNNING" THEN "PAUSED" ELSE processing
     ELSE UNCHANGED <<pairing, processing>>
  /\ UNCHANGED <<adverts, link, central, activeConn, rxStep, sysItem, delayed, isFast, asked,
                 greeted, adcVars>>

(* Resume() acts on whatever pause there is, so one whose own is gone takes the other's. *)
Stolen(mine, other) == IF mine = "taken" /\ processing = "PAUSED" THEN "taken" ELSE other

PairingFinished ==
  /\ RunsItem("pairing finished") /\ Ran
  /\ IF pairing # "none"
     THEN /\ pairing' = "none"
          /\ processing' = IF processing = "PAUSED" THEN "RUNNING" ELSE processing
          /\ job' = IF job = "none" THEN job ELSE Stolen(pairing, job)
     ELSE UNCHANGED <<pairing, processing, job>>
  /\ UNCHANGED <<adverts, link, central, activeConn, rxStep, sysItem, delayed, isFast, asked,
                 greeted, adcJob>>

FastWork ==
  /\ RunsItem("fast") /\ Ran
  /\ asked' = IF activeConn # 0 THEN "fast" ELSE asked
  /\ UNCHANGED <<adverts, link, central, activeConn, rxStep, sysItem, delayed, isFast, greeted,
                 processing, pairing, adcVars>>

(* The timeout of idle_work_; a queued one runs before its next timeout, 3 s later. *)
IdleTimeout ==
  /\ delayed /\ ~Contains(sysQueue, "idle") /\ delayed' = FALSE /\ sysQueue' = Enqueue(sysQueue, <<"idle">>)
  /\ UNCHANGED <<adverts, link, central, activeConn, rxStep, sysItem, isFast, asked, greeted,
                 processing, pairing, adcVars>>

IdleWork ==
  /\ RunsItem("idle") /\ Ran /\ sysItem' = "idle" /\ isFast' = FALSE
  /\ UNCHANGED <<adverts, link, central, activeConn, rxStep, delayed, asked, greeted, processing,
                 pairing, adcVars>>

IdleWorkEnds ==
  /\ sysItem = "idle" /\ sysItem' = "none"
  /\ asked' = IF activeConn # 0 THEN "idle" ELSE asked
  /\ UNCHANGED <<adverts, link, central, activeConn, rxStep, sysQueue, delayed, isFast, greeted,
                 processing, pairing, adcVars>>

-----------------------------------------------------------------------------
\* Calibration, and the owner of the processing service.

CalibrationOnly == UNCHANGED <<adverts, link, central, activeConn, rxStep, sysQueue, sysItem,
                               delayed, isFast, asked, greeted>>

(* A job starts only with a pause of its own. *)
StartJob(channel) ==
  /\ ~adcJob.running /\ processing = "RUNNING"
  /\ processing' = "PAUSED" /\ job' = "ours"
  /\ adcJob' = [adcJob EXCEPT !.running = TRUE, !.channel = channel, !.latest = "none",
                              !.step = IF @ = "sampled" THEN @ ELSE "queued"]
  /\ CalibrationOnly /\ UNCHANGED pairing

(* The job samples its channel, stores the result and is scheduled again. *)
SampleJob ==
  /\ adcJob.step \in {"queued", "sampled"}
  /\ adcJob' = IF adcJob.step = "queued"
               THEN [adcJob EXCEPT !.step = "sampled", !.sampled = adcJob.channel]
               ELSE [adcJob EXCEPT !.step = "queued", !.latest = adcJob.sampled]
  /\ CalibrationOnly /\ UNCHANGED <<processing, pairing, job>>

(* Stop() cancels until the job is idle: one that runs is waited for. *)
MutantCancelledOnce == TRUE
Cancelled == adcJob.step # "sampled"

StopJob ==
  /\ adcJob.running /\ Cancelled
  /\ adcJob' = [adcJob EXCEPT !.running = FALSE,
                              !.step = IF @ = "sampled" THEN @ ELSE "idle"]
  /\ processing' = IF processing = "PAUSED" THEN "RUNNING" ELSE processing
  /\ pairing' = IF pairing = "none" THEN pairing ELSE Stolen(job, pairing)
  /\ job' = "none"
  /\ CalibrationOnly

(* A configuration change takes the service back: Stop(), then Start(), which may fail. *)
Restart(ok) ==
  /\ processing' = IF ok THEN "RUNNING" ELSE "STOPPED"
  /\ pairing' = IF pairing = "none" THEN pairing ELSE "taken"
  /\ job' = IF job = "none" THEN job ELSE "taken"
  /\ CalibrationOnly /\ UNCHANGED adcJob

LinkNext ==
  \/ Connect \/ Connected \/ (\E ok \in BOOLEAN : SecurityChanged(ok)) \/ LinkLost
  \/ DisconnectedHandlers \/ Disconnected \/ Recycled \/ OnSmpActivity \/ OnSmpActivityEnds
  \/ (\E ok \in BOOLEAN : RestartAdvertising(ok)) \/ ConnectedCb \/ SecurityUpdate
  \/ PairingStarted \/ PairingFinished \/ FastWork \/ IdleTimeout \/ IdleWork \/ IdleWorkEnds
  \/ (\E channel \in AdcChannels : StartJob(channel)) \/ SampleJob \/ StopJob
  \/ (\E ok \in BOOLEAN : Restart(ok))

-----------------------------------------------------------------------------
LinkSettled == rxStep = "free" /\ sysQueue = <<>> /\ sysItem = "none"

(* A central whose link is secured does not wait for another one to end the *)
(* pause its pairing took: PairingStarted() and PairingFinished() alternate *)
(* whatever order centrals come and go in.                                  *)
PauseIsReturned == LinkSettled /\ link = "secured" => pairing = "none"

(* Pairing resumes only what its own pause paused, and so does a job: a     *)
(* running job whose pause no restart took has the processing service       *)
(* paused, and so does a pairing.                                           *)
PausesStand == "ours" \in {pairing, job} => processing = "PAUSED"

(* The short connection interval does not outlive the SMP traffic: when it  *)
(* was asked for, the item that asks for the long one waits.                *)
FastEnds == LinkSettled /\ activeConn # 0 /\ asked = "fast" => delayed

(* While traffic counts as fast the short interval has been asked for this  *)
(* central: a flag of an earlier one would leave the transfer slow.         *)
FastIsAsked == LinkSettled /\ activeConn # 0 /\ isFast => asked = "fast"

(* Every central gets the connected handlers and the security request.      *)
CentralIsGreeted ==
  LinkSettled /\ activeConn # 0 => greeted = [connected |-> activeConn, security |-> activeConn]

(* Without a central the unit advertises, unless the stack refused it.      *)
FreeMeansAdvertising == LinkSettled /\ link = "none" => adverts # "off"

(* The latest result is one of the job's channel: a sample in progress when *)
(* its job stops is not stored as a result of the next one.                 *)
ResultIsOfChannel == adcJob.latest \in {"none", adcJob.channel}
=============================================================================
