--------------------------- MODULE Configurations ---------------------------
(***************************************************************************)
(* Configurations of a unit: the SMP group that clients read and write one *)
(* with, and the file it is stored in.  They have no state in common here: *)
(* a step of one leaves the other alone.                                   *)
(***************************************************************************)
EXTENDS Naturals, Sequences, FiniteSets

(***************************************************************************)
(* The SMP config group: clients write a configuration in chunks into the  *)
(* one write session, and read the stored one in chunks from the one read  *)
(* snapshot.  Requests are handled one at a time by MCUmgr; its handler    *)
(* waits while a job (STAGE, APPLY, SNAPSHOT) runs on the configuration    *)
(* work queue, which also runs the idle task and other updates.            *)
(*                                                                         *)
(* A chunk is one unit of length.  Data keeps who sent each chunk, so a    *)
(* CRC tells one client's data from any other.  A client repeats a request *)
(* whose answer it did not get.                                            *)
(***************************************************************************)

CONSTANTS Writers,        \* clients that write, each its own configuration
          Reader,         \* the client that reads
          Length,         \* chunks of a configuration
          SessionTimeout, \* CONFIG_EERIE_LEAP_SMP_CONFIG_SESSION_TIMEOUT_MS
          Local           \* a configuration changed on the unit

ASSUME ConfigGroupAssumption ==
  /\ IsFiniteSet(Writers) /\ Length \in Nat \ {0} /\ SessionTimeout \in Nat \ {0}

VARIABLES session,   \* session_: token, data and last activity; ghost: who staged it
          snapshot,  \* snapshot_
          idleTask,  \* idle_task_: time until it is due, or Never
          request,   \* the request MCUmgr handles, and how far it is
          writer,    \* the clients that write: next offset, token
          reader,    \* the client that reads: next offset, the answers' data
          inStore    \* the stored configuration

configGroupVars == <<session, snapshot, idleTask, request, writer, reader, inStore>>

Never      == SessionTimeout + 1
NoSession  == [token |-> 0, owner |-> Local, data |-> <<>>, age |-> 0]
NoSnapshot == [valid |-> FALSE, data |-> Local, age |-> 0]
NoRequest  == [at |-> "none", answer |-> "other"]
Fresh0     == [next |-> 0, token |-> 0]
NotReading == [next |-> 0, data |-> Local, mixed |-> FALSE]

ConfigGroupInit ==
  /\ session = NoSession /\ snapshot = NoSnapshot /\ idleTask = Never
  /\ request = NoRequest /\ inStore = Local
  /\ writer = [c \in Writers |-> Fresh0] /\ reader = NotReading

IsOpen == session.token # 0 /\ session.age < SessionTimeout

(* Mutant: a chunk of an upload does not count as activity. *)
MutantNoActivity(chunk) == IF chunk THEN idleTask ELSE SessionTimeout

OnActivity(chunk) == SessionTimeout

-----------------------------------------------------------------------------
\* HandleWrite().

(* The client gets the answer, or it is lost and the client will ask again. *)
AnswerWriter(c, next, token) ==
  /\ request' = NoRequest
  /\ \/ writer' = [writer EXCEPT ![c] = [next |-> next, token |-> token]]
     \/ UNCHANGED writer

SendWrite(c) ==
  /\ request.at = "none"
  /\ request' = [at |-> IF writer[c].next = 0 THEN "first" ELSE "chunk", client |-> c,
                 off |-> writer[c].next, token |-> writer[c].token]
  /\ UNCHANGED <<session, snapshot, idleTask, writer, reader, inStore>>

(* A client starts its transfer again, with its token. *)
RestartWrite(c) ==
  /\ request.at = "none" /\ writer[c].next # 0
  /\ writer' = [writer EXCEPT ![c].next = 0]
  /\ UNCHANGED <<session, snapshot, idleTask, request, reader, inStore>>

(* Mutant: a first request sent again is not recognised. *)
MutantIsRepeat(c) == FALSE

(* The first chunk and the CRC name the client's configuration. *)
IsRepeat(c) == session.owner = c /\ session.data = <<c>>

FirstBusy ==
  /\ request.at = "first" /\ IsOpen /\ request.token # session.token /\ ~IsRepeat(request.client)
  /\ request' = [NoRequest EXCEPT !.answer = "BUSY"]
  /\ UNCHANGED <<session, snapshot, idleTask, writer, reader, inStore>>

FirstRepeated ==
  /\ request.at = "first" /\ IsOpen /\ request.token # session.token /\ IsRepeat(request.client)
  /\ session' = [session EXCEPT !.age = 0] /\ idleTask' = OnActivity(FALSE)
  /\ AnswerWriter(request.client, 1, session.token)
  /\ UNCHANGED <<snapshot, reader, inStore>>

FirstAccepted ==
  /\ request.at = "first" /\ ~(IsOpen /\ request.token # session.token)
  /\ request' = [request EXCEPT !.at = "STAGE"]
  /\ UNCHANGED <<session, snapshot, idleTask, writer, reader, inStore>>

(* A random token: one that neither a client nor the session has. *)
NewToken ==
  CHOOSE t \in 1..(Cardinality(Writers) + 2):
    t # session.token /\ \A c \in Writers: writer[c].token # t

Stage ==
  /\ request.at = "STAGE"
  /\ \/ /\ session' = [token |-> NewToken, owner |-> request.client, data |-> <<>>, age |-> 0]
        /\ request' = [request EXCEPT !.at = "chunk"]
        /\ UNCHANGED writer
     \/ session' = NoSession /\ AnswerWriter(request.client, 0, 0)   \* NO_MEMORY
  /\ UNCHANGED <<snapshot, idleTask, reader, inStore>>

(* Mutant: a later chunk's token is not looked at. *)
MutantIsBadToken == session.token = 0 \/ session.age >= SessionTimeout

IsBadToken ==
  \/ session.token = 0 \/ session.age >= SessionTimeout
  \/ request.off # 0 /\ request.token # session.token

ChunkRefused ==
  /\ request.at = "chunk" /\ IsBadToken
  /\ session' = IF session.age >= SessionTimeout THEN NoSession ELSE session
  /\ AnswerWriter(request.client, 0, 0)
  /\ UNCHANGED <<snapshot, idleTask, reader, inStore>>

ChunkMisplaced ==
  /\ request.at = "chunk" /\ ~IsBadToken /\ request.off # Len(session.data)
  /\ AnswerWriter(request.client, Len(session.data), request.token)
  /\ UNCHANGED <<session, snapshot, idleTask, reader, inStore>>

ChunkTaken ==
  LET data == Append(session.data, request.client)
  IN  /\ request.at = "chunk" /\ ~IsBadToken /\ request.off = Len(session.data)
      /\ session' = [session EXCEPT !.data = data, !.age = 0]
      /\ IF Len(data) = Length
         THEN request' = [request EXCEPT !.at = "APPLY"] /\ UNCHANGED <<idleTask, writer>>
         ELSE /\ idleTask' = OnActivity(TRUE)
              /\ AnswerWriter(request.client, Len(data), session.token)
      /\ UNCHANGED <<snapshot, reader, inStore>>

(* ExecuteJob(): the session ends with the apply, whatever the manager does. *)
Apply ==
  /\ request.at = "APPLY"
  /\ \/ /\ Len(session.data) = Length /\ \A i \in 1..Length: session.data[i] = session.owner
        /\ inStore' = session.owner
     \/ UNCHANGED inStore     \* BAD_TOKEN, CRC_MISMATCH or refused by the manager
  /\ session' = NoSession
  /\ AnswerWriter(request.client, 0, 0)
  /\ UNCHANGED <<snapshot, idleTask, reader>>

-----------------------------------------------------------------------------
\* HandleRead().

SendRead ==
  /\ request.at = "none"
  /\ request' = [at |-> IF reader.next = 0 THEN "SNAPSHOT" ELSE "read", client |-> Reader,
                 off |-> reader.next]
  /\ UNCHANGED <<session, snapshot, idleTask, writer, reader, inStore>>

(* Mutant: every chunk is read from the store. *)
MutantSnapshotData == inStore

SnapshotData == snapshot.data

TakeSnapshot ==
  /\ request.at = "SNAPSHOT"
  /\ snapshot' = [valid |-> TRUE, data |-> inStore, age |-> 0]
  /\ request' = [request EXCEPT !.at = "read"]
  /\ UNCHANGED <<session, idleTask, writer, reader, inStore>>

ReadRefused ==
  /\ request.at = "read" /\ ~snapshot.valid
  /\ request' = NoRequest
  /\ reader' = NotReading
  /\ UNCHANGED <<session, snapshot, idleTask, writer, inStore>>

AnswerReader(off) ==
  LET first == IF off = 0 THEN SnapshotData ELSE reader.data
  IN  [next |-> (off + 1) % Length, data |-> first, mixed |-> first # SnapshotData]

ReadChunk ==
  /\ request.at = "read" /\ snapshot.valid
  /\ request' = NoRequest
  /\ reader' \in {reader, AnswerReader(request.off)}
  /\ IF request.off + 1 = Length
     THEN snapshot' = NoSnapshot /\ UNCHANGED idleTask
     ELSE snapshot' = [snapshot EXCEPT !.age = 0] /\ idleTask' = OnActivity(FALSE)
  /\ UNCHANGED <<session, writer, inStore>>

-----------------------------------------------------------------------------
Earlier(a, b) == IF a < b THEN a ELSE b

ProcessIdle ==
  LET ended  == session.token # 0 /\ session.age >= SessionTimeout
      read   == snapshot.valid /\ snapshot.age >= SessionTimeout
      check1 == IF session.token # 0 /\ ~ended THEN SessionTimeout - session.age ELSE Never
      check2 == IF snapshot.valid /\ ~read THEN SessionTimeout - snapshot.age ELSE Never
  IN  /\ idleTask = 0
      /\ session' = IF ended THEN NoSession ELSE session
      /\ snapshot' = IF read THEN NoSnapshot ELSE snapshot
      /\ idleTask' = Earlier(check1, check2)
      /\ UNCHANGED <<request, writer, reader, inStore>>

(* The configuration changes on the unit, on the same work queue. *)
LocalUpdate ==
  /\ inStore # Local /\ inStore' = Local
  /\ UNCHANGED <<session, snapshot, idleTask, request, writer, reader>>

Older(age) == Earlier(age + 1, SessionTimeout)

TimePasses ==
  /\ session' = IF session.token = 0 THEN session ELSE [session EXCEPT !.age = Older(@)]
  /\ snapshot' = IF snapshot.valid THEN [snapshot EXCEPT !.age = Older(@)] ELSE snapshot
  /\ idleTask' = IF idleTask \in {0, Never} THEN idleTask ELSE idleTask - 1
  /\ UNCHANGED <<request, writer, reader, inStore>>

ConfigGroupNext ==
  \/ \E c \in Writers: SendWrite(c) \/ RestartWrite(c)
  \/ FirstBusy \/ FirstRepeated \/ FirstAccepted \/ Stage
  \/ ChunkRefused \/ ChunkMisplaced \/ ChunkTaken \/ Apply
  \/ SendRead \/ TakeSnapshot \/ ReadRefused \/ ReadChunk
  \/ ProcessIdle \/ LocalUpdate \/ TimePasses

-----------------------------------------------------------------------------
(* The chunks of a session all come from the client that opened it, also   *)
(* when it timed out and another client opened the next one in between.    *)
NoMixedUpload == \A i \in DOMAIN session.data: session.data[i] = session.owner

(* A session left behind ends: while one is open and no request is being   *)
(* handled, the idle task is scheduled.                                    *)
SessionEnds ==
  request.at = "none" /\ (session.token # 0 \/ snapshot.valid) => idleTask # Never

(* BUSY is for other clients: the one that opened the session learns its   *)
(* token by repeating its first request, and restarts with it.             *)
OwnerNotRefused ==
  [][request.at = "first" /\ request'.at = "none" /\ request'.answer = "BUSY"
       => session.owner # request.client]_configGroupVars

(* What one client reads is one stored configuration, whatever is applied  *)
(* or changed on the unit while it reads.                                  *)
SnapshotStands == ~reader.mixed

-----------------------------------------------------------------------------
(***************************************************************************)
(* One configuration of a unit: the file, the configuration in use, and    *)
(* what is reported of them.  A configuration manager loads the file at    *)
(* boot or makes a default; an apply of a client's CBOR and an update of   *)
(* the unit's own run on the configuration work queue, one at a time.      *)
(*                                                                         *)
(* A write truncates the file first: it can fail, and the power can go, at *)
(* any point of it.  Whether a stored configuration passes the validators  *)
(* may differ from one boot to the next (a missing SD card, a new          *)
(* firmware).                                                              *)
(***************************************************************************)

CONSTANTS Configurations,  \* what clients and the unit may store
          Default,         \* what CreateDefaultConfiguration() makes
          NoFile,          \* no file, no configuration, nothing reported
          Torn             \* a file a write left behind that does not decode

VARIABLES file,       \* the configuration's file
          storedInfo, \* stored_info_: the file as last saved or loaded
          inUse,      \* configuration_
          rejected,   \* is_stored_configuration_rejected_
          saving,     \* is_saving_enabled_
          storing,    \* the store under way on the work queue, or the boot
          promised,   \* ghost: the last store that was answered with success
          stained     \* ghost: a write failed, or an update was not stored

storeVars == <<file, storedInfo, inUse, rejected, saving, storing, promised, stained>>

Off == [at |-> "off"]
Idle == [at |-> "idle"]

StoreInit ==
  /\ file \in {NoFile} \cup Configurations
  /\ storedInfo = NoFile /\ inUse = NoFile /\ rejected = FALSE /\ saving = TRUE
  /\ storing = Off /\ promised = file /\ stained = FALSE

-----------------------------------------------------------------------------
\* LoadOrCreateDefault(), before anything else runs.

(* A file that cannot be read, or not for lack of memory, leaves no size. *)
LoadFails ==
  /\ storing.at = "off"
  /\ storing' = [at |-> "default"]
  /\ UNCHANGED <<file, storedInfo, inUse, rejected, saving, promised, stained>>

Loads(accepted) ==
  /\ storing.at = "off" /\ (accepted => file \notin {NoFile, Torn})
  /\ storedInfo' = file
  /\ inUse' = IF accepted THEN file ELSE NoFile
  /\ storing' = IF accepted THEN Idle ELSE [at |-> "default"]
  /\ UNCHANGED <<file, rejected, saving, promised, stained>>

(* Mutant: the default is saved over a file that was not accepted. *)
MutantSaveDefault == TRUE

SavesDefault == storedInfo = NoFile

(* CreateDefaultConfiguration() updates the configuration, with saving     *)
(* disabled when there is a file.                                          *)
CreateDefault ==
  /\ storing.at = "default"
  /\ rejected' = (storedInfo # NoFile) /\ saving' = SavesDefault
  /\ storing' = [at |-> "save", to |-> Default, by |-> "boot"]
  /\ UNCHANGED <<file, storedInfo, inUse, promised, stained>>

-----------------------------------------------------------------------------
(* ApplyCborConfiguration(): the bytes were decoded and accepted. *)
ApplyCborConfiguration(c) ==
  /\ storing.at = "idle"
  /\ storing' = [at |-> "save", to |-> c, by |-> "apply"]
  /\ UNCHANGED <<file, storedInfo, inUse, rejected, saving, promised, stained>>

(* StoreBitrate() changes the configuration in use before it is stored. *)
StoreBitrate(c) ==
  /\ storing.at = "idle" /\ inUse \in Configurations
  /\ inUse' = c /\ stained' = TRUE
  /\ storing' = [at |-> "save", to |-> c, by |-> "update"]
  /\ UNCHANGED <<file, storedInfo, rejected, saving, promised>>

(* Update() serialises and parses back and refuses what does neither; a    *)
(* file may not open.                                                      *)
RefusesStore ==
  /\ storing.at = "save"
  /\ storing' = Idle /\ saving' = TRUE
  /\ UNCHANGED <<file, storedInfo, inUse, rejected, promised, stained>>

(* Mutant: without saving, the file counts as applied. *)
MutantRejectedAfterSkip == FALSE

RejectedAfterSkip == rejected

SkipsSave ==
  /\ storing.at = "save" /\ ~saving
  /\ storing' = [storing EXCEPT !.at = "adopt"] /\ rejected' = RejectedAfterSkip
  /\ UNCHANGED <<file, storedInfo, inUse, saving, promised, stained>>

(* WriteFile() opens the file truncated. *)
BeginWrite ==
  /\ storing.at = "save" /\ saving
  /\ file' = Torn /\ storing' = [storing EXCEPT !.at = "write"]
  /\ UNCHANGED <<storedInfo, inUse, rejected, saving, promised, stained>>

(* Mutant: what was saved is reported only after the next load. *)
MutantInfoAfterWrite == storedInfo

InfoAfterWrite == storing.to

EndWrite ==
  /\ storing.at = "write"
  /\ file' = storing.to /\ storedInfo' = InfoAfterWrite /\ rejected' = FALSE
  /\ storing' = [storing EXCEPT !.at = "adopt"]
  /\ UNCHANGED <<inUse, saving, promised, stained>>

(* Mutant: a failed write is answered like a successful one. *)
MutantAfterFailedWrite == [storing EXCEPT !.at = "adopt"]

AfterFailedWrite == Idle

WriteFails ==
  /\ storing.at = "write"
  /\ storing' = AfterFailedWrite /\ stained' = TRUE
  /\ UNCHANGED <<file, storedInfo, inUse, rejected, saving, promised>>

Adopt ==
  /\ storing.at = "adopt"
  /\ inUse' = storing.to /\ storing' = [storing EXCEPT !.at = "notify"]
  /\ UNCHANGED <<file, storedInfo, rejected, saving, promised, stained>>

(* The stored handler is called, and the store is answered. *)
NotifyStored ==
  /\ storing.at = "notify"
  /\ storing' = Idle /\ saving' = TRUE
  /\ promised' = IF saving THEN storing.to ELSE promised
  /\ stained' = (stained /\ ~saving)
  /\ UNCHANGED <<file, storedInfo, inUse, rejected>>

(* GetCborConfiguration() reads the file again. *)
LoadRaw ==
  /\ storing.at = "idle" /\ inUse # NoFile /\ file # NoFile
  /\ storedInfo' = file
  /\ UNCHANGED <<file, inUse, rejected, saving, storing, promised, stained>>

(* What the config group answers about the configuration. *)
ReportedInfo == [crc |-> storedInfo, applied |-> ~rejected]

StorePowerLoss ==
  /\ storing.at # "off"
  /\ storing' = Off /\ inUse' = NoFile /\ storedInfo' = NoFile /\ rejected' = FALSE
  /\ saving' = TRUE
  /\ stained' = (file = Torn)
  /\ promised' = IF storing.at \in {"adopt", "notify"} /\ saving THEN storing.to ELSE promised
  /\ UNCHANGED file

StoreNext ==
  \/ LoadFails \/ \E accepted \in BOOLEAN: Loads(accepted)
  \/ CreateDefault \/ RefusesStore \/ SkipsSave \/ BeginWrite \/ EndWrite \/ WriteFails
  \/ \E c \in Configurations: ApplyCborConfiguration(c) \/ StoreBitrate(c)
  \/ Adopt \/ NotifyStored \/ LoadRaw \/ StorePowerLoss

-----------------------------------------------------------------------------
(* A stored configuration that is read but not accepted stays on flash     *)
(* until a client or the unit stores another.                              *)
KeepsRejected ==
  [][file' # file /\ file # NoFile /\ storing.at = "save" /\ storedInfo # NoFile
       => storing.by # "boot"]_storeVars

(* A stored configuration that fails to load, for whatever reason, stays   *)
(* on flash: the boot never writes over a file.                            *)
KeepsStored ==
  [][file' # file /\ file # NoFile /\ storing.at = "save" => storing.by # "boot"]_storeVars

(* A configuration whose store was answered with success is the file the    *)
(* next boot finds, until another store begins to write.                   *)
AnsweredIsStored ==
  ~stained /\ storing.at \notin {"write", "adopt", "notify"} => file = promised

(* The reported size and CRC are those of the file, except after a write   *)
(* that failed.                                                            *)
ReportsTheFile ==
  storing.at = "idle" /\ ~stained /\ inUse # NoFile => ReportedInfo.crc = file

(* A unit that does not use its stored configuration says so: unless a     *)
(* write or a bitrate's update failed, it is the one in use or is reported *)
(* as not applied.                                                         *)
NotAppliedIsReported ==
  storing.at = "idle" /\ ~stained /\ inUse # NoFile /\ ReportedInfo.applied => inUse = file

-----------------------------------------------------------------------------
\* Both.

configurationVars == <<configGroupVars, storeVars>>

ConfigurationsInit == ConfigGroupInit /\ StoreInit

ConfigurationsNext == \/ ConfigGroupNext /\ UNCHANGED storeVars
                      \/ StoreNext /\ UNCHANGED configGroupVars

ConfigurationsSpec == ConfigurationsInit /\ [][ConfigurationsNext]_configurationVars

(* Configurations: an upload is of one client and its session ends, a read *)
(* is of one configuration, the owner of a session is not refused          *)
(* (ConfigMgmtGroup); what was answered is stored, what is reported is the *)
(* file, and a file that was rejected is kept (the manager and its file).  *)
ConfigurationsSafe ==
  /\ [](NoMixedUpload /\ SessionEnds /\ SnapshotStands) /\ OwnerNotRefused
  /\ [](AnsweredIsStored /\ ReportsTheFile /\ NotAppliedIsReported) /\ KeepsRejected
=============================================================================
