------------------------------ MODULE Mdf4Log -------------------------------
(***************************************************************************)
(* The records of a log file: Mdf4LoggerSensorReading gives each reading a *)
(* master time, the record writers append it, and FinalizeToStream()       *)
(* patches the length, the counts and the identifier.  The file is kept    *)
(* twice: as the stream has it, and as the medium has it; a patch is on    *)
(* the medium at the latest with the next sync, and the length with it.    *)
(***************************************************************************)
EXTENDS Naturals, Sequences, FiniteSets, SequencesExt

CONSTANTS ValueSensors,  \* sensors with a value channel group
          OnlyNew,       \* those with log_only_new_data
          CanSensors,    \* sensors with a CAN frame group and a VLSD group
          PayloadSizes,  \* the payload sizes of frames
          OffsetSpan,    \* 2^(8 * vlsd_offset_size_bytes)
          LastInstant,   \* bound: the wall clock
          MaxRecords     \* bound: records of a file

ASSUME LogAssumption == OnlyNew \subseteq ValueSensors /\ LastInstant \in Nat \ {0}

VARIABLES now,        \* the wall clock
          startTime,  \* start_time_
          logging,    \* stream_ is set
          lastStamp,  \* sensor -> last_timestamp
          lastTime,   \* sensor -> last_record_time
          cycles,     \* group -> cycle_count_
          written,    \* the writers' bytes_written_, in records
          vlsdOffset, \* CAN sensor -> vlsd_offset_
          tape,       \* the records in the stream
          fellShort,  \* a write of the stream fell short
          patches,    \* what was rewritten since the last sync
          finalizing, \* the step of FinalizeToStream() that is next
          medium      \* the file after a power loss: [size, dt, cycles, id]

logVars == <<now, startTime, logging, lastStamp, lastTime, cycles, written, vlsdOffset, tape,
             fellShort, patches, finalizing, medium>>

NoTimestamp == 0
LogGroups == {"CG"} \X (ValueSensors \cup CanSensors) \cup {"VLSD"} \X CanSensors

LogInit ==
  /\ now \in 1..LastInstant /\ startTime = 1
  /\ logging = FALSE
  /\ lastStamp = [s \in ValueSensors |-> NoTimestamp]
  /\ lastTime = [s \in ValueSensors |-> NoTimestamp]
  /\ cycles = [g \in LogGroups |-> 0] /\ written = 0
  /\ vlsdOffset = [c \in CanSensors |-> 0]
  /\ tape = <<>> /\ fellShort = FALSE /\ patches = {} /\ finalizing = "no"
  /\ medium = [size |-> 0, dt |-> 0, cycles |-> cycles, id |-> "none"]

(* Time passes, or the clock is set. *)
SetClock ==
  /\ now' \in 1..LastInstant
  /\ UNCHANGED <<startTime, logging, lastStamp, lastTime, cycles, written, vlsdOffset, tape,
                 fellShort, patches, finalizing, medium>>

(* Mutant: the counters of the last file stay. *)
MutantCountsOn == cycles
(* ResetCounters() of every group. *)
ResetCounters == [g \in LogGroups |-> 0]

(* StartLogging() of a new file: WriteHeaderToStream() builds new writers  *)
(* and writes the unfinalized header, which is synced.                     *)
StartLogging(syncs) ==
  /\ ~logging /\ finalizing = "no"
  /\ startTime' = now
  /\ lastStamp' = [s \in ValueSensors |-> NoTimestamp]
  /\ lastTime' = [s \in ValueSensors |-> NoTimestamp]
  /\ cycles' = ResetCounters /\ written' = 0
  /\ vlsdOffset' = [c \in CanSensors |-> 0]
  /\ tape' = <<>> /\ fellShort' = FALSE /\ patches' = {}
  /\ logging' = syncs
  /\ medium' = [size |-> 0, dt |-> 0, cycles |-> [g \in LogGroups |-> 0],
                id |-> IF syncs THEN "UnFinMF" ELSE "none"]
  /\ UNCHANGED <<now, finalizing>>

-----------------------------------------------------------------------------
Writable == logging /\ finalizing = "no" /\ Len(tape) < MaxRecords

(* RecordWriter::Write(): the record in one piece, counted once it is in   *)
(* the stream.  A write that falls short throws and counts nothing.        *)
WriteRecord(s, time) ==
  \/ /\ ~fellShort
     /\ tape' = Append(tape, [of |-> <<"CG", s>>, time |-> time])
     /\ cycles' = [cycles EXCEPT ![<<"CG", s>>] = @ + 1]
     /\ written' = written + 1
     /\ UNCHANGED fellShort
  \/ /\ fellShort' = TRUE
     /\ UNCHANGED <<tape, cycles, written>>

LaterOf(a, b) == IF a < b THEN b ELSE a

(* Mutant: a sample stamped before the last record keeps its own time. *)
MutantOwnTime(s, time) == time
(* The master time of a new sample: after the group's last record. *)
RecordTime(s, time) ==
  IF lastTime[s] # NoTimestamp /\ time <= lastTime[s] THEN lastTime[s] + 1 ELSE time

(* LogReading() of a value whose own timestamp is `stamp': a sample that   *)
(* is already in the file is held, at the caller's time, or left out.      *)
LogReading(s, stamp) ==
  LET repeat == stamp # NoTimestamp /\ stamp = lastStamp[s]
      own    == LaterOf(IF stamp = NoTimestamp THEN now ELSE stamp, startTime)
      held   == s \notin OnlyNew /\ (lastTime[s] = NoTimestamp \/ now > lastTime[s])
      time   == IF repeat THEN now ELSE RecordTime(s, own)
  IN  /\ Writable
      /\ repeat => held
      /\ WriteRecord(s, time)
      /\ lastStamp' = IF fellShort' \/ stamp = NoTimestamp THEN lastStamp
                      ELSE [lastStamp EXCEPT ![s] = stamp]
      /\ lastTime' = IF fellShort' THEN lastTime ELSE [lastTime EXCEPT ![s] = time]
      /\ UNCHANGED <<now, startTime, logging, vlsdOffset, patches, finalizing, medium>>

LengthBytes == 4
Payload(c, size) == [of |-> <<"VLSD", c>>, size |-> size]
Frame(c, time)   == [of |-> <<"CG", c>>, time |-> time, offset |-> vlsdOffset[c] % OffsetSpan]

(* Mutant: the offset is not checked against its channel. *)
MutantAnyOffset(next) == TRUE
(* The next payload's offset fits the offset channel. *)
OffsetFits(next) == next < OffsetSpan

(* Mutant: the frame before its payload. *)
MutantFrameFirst(c, size, time) == <<Frame(c, time), Payload(c, size)>>
(* What a frame appends: the payload first. *)
FrameRecords(c, size, time) == <<Payload(c, size), Frame(c, time)>>

(* CanRecordWriter::Write(): both records in one write; one that falls     *)
(* short may have put the first of them into the file.                     *)
LogCanFrame(c, stamp, size) ==
  LET next    == vlsdOffset[c] + LengthBytes + size
      time    == LaterOf(IF stamp = NoTimestamp THEN now ELSE stamp, startTime)
      records == FrameRecords(c, size, time)
  IN  /\ Writable /\ OffsetFits(next)
      /\ \/ /\ ~fellShort
            /\ tape' = tape \o records
            /\ cycles' = [cycles EXCEPT ![<<"CG", c>>] = @ + 1, ![<<"VLSD", c>>] = @ + 1]
            /\ vlsdOffset' = [vlsdOffset EXCEPT ![c] = next]
            /\ written' = written + 2
            /\ UNCHANGED fellShort
         \/ /\ ~fellShort /\ fellShort' = TRUE
            /\ tape' \in {tape, Append(tape, records[1])}
            /\ UNCHANGED <<cycles, vlsdOffset, written>>
      /\ UNCHANGED <<now, startTime, logging, lastStamp, lastTime, patches, finalizing, medium>>

(* The log writer syncs the stream between records: the length is on the   *)
(* medium.                                                                 *)
SyncRecords ==
  /\ logging /\ finalizing = "no" /\ ~fellShort
  /\ medium' = [medium EXCEPT !.size = Len(tape)]
  /\ UNCHANGED <<now, startTime, logging, lastStamp, lastTime, cycles, written, vlsdOffset, tape,
                 fellShort, patches, finalizing>>

-----------------------------------------------------------------------------
(* What the medium holds after the patches p have reached it. *)
Patched(p) ==
  [size |-> medium.size,
   dt     |-> IF "lengths" \in p THEN written ELSE medium.dt,
   cycles |-> IF "counts" \in p THEN cycles ELSE medium.cycles,
   id     |-> IF "id" \in p THEN "MDF" ELSE medium.id]

(* FinalizeToStream() throws, or StopLogging() returns: the stream is      *)
(* closed, and what was rewritten is on the medium unless closing fails.   *)
CloseLog ==
  /\ logging' = FALSE /\ finalizing' = "no" /\ patches' = {}
  /\ medium' \in {Patched({}), [Patched(patches) EXCEPT !.size = Len(tape)]}

(* StopLogging(): the DT length and every group's counts are rewritten; a  *)
(* stream that refuses, as one that failed does, throws.                     *)
RewriteLengths ==
  /\ logging /\ finalizing = "no"
  /\ \/ /\ ~fellShort
        /\ patches' = {"lengths", "counts"} /\ finalizing' = "sync"
        /\ UNCHANGED <<logging, medium>>
     \/ CloseLog
  /\ UNCHANGED <<now, startTime, lastStamp, lastTime, cycles, written, vlsdOffset, tape, fellShort>>

(* A sync, of which all that is pending reaches the medium, or which       *)
(* throws.                                                                 *)
SyncThen(step) ==
  \/ /\ medium' = [Patched(patches) EXCEPT !.size = Len(tape)]
     /\ patches' = {} /\ finalizing' = step
     /\ UNCHANGED logging
  \/ CloseLog

(* Mutant: the identifier is rewritten with no sync before it. *)
MutantNoSync == finalizing' = "id" /\ UNCHANGED <<medium, patches, logging>>
(* The lengths are on the medium before the identifier flips. *)
SyncLengths == SyncThen("id")

Finalize ==
  /\ \/ finalizing = "sync" /\ SyncLengths
     \/ /\ finalizing = "id"
        /\ patches' = patches \cup {"id"} /\ finalizing' = "last sync"
        /\ UNCHANGED <<logging, medium>>
     \/ finalizing = "last sync" /\ SyncThen("close")
     \/ finalizing \in {"id", "close"} /\ CloseLog
  /\ UNCHANGED <<now, startTime, lastStamp, lastTime, cycles, written, vlsdOffset, tape, fellShort>>

(* Power is lost: some of what is pending is on the medium.  The file is   *)
(* as it is; the unit starts again.                                        *)
PowerLoss ==
  /\ logging
  /\ \E p \in SUBSET patches : medium' = Patched(p)
  /\ logging' = FALSE /\ finalizing' = "no" /\ patches' = {}
  /\ UNCHANGED <<now, startTime, lastStamp, lastTime, cycles, written, vlsdOffset, tape, fellShort>>

LogNext ==
  \/ SetClock
  \/ \E syncs \in BOOLEAN : StartLogging(syncs)
  \/ \E s \in ValueSensors, stamp \in 0..LastInstant : LogReading(s, stamp)
  \/ \E c \in CanSensors, stamp \in 0..LastInstant, size \in PayloadSizes :
       LogCanFrame(c, stamp, size)
  \/ SyncRecords
  \/ RewriteLengths
  \/ Finalize
  \/ PowerLoss

-----------------------------------------------------------------------------
RecordsOf(g, n) == SelectSeq(SubSeq(tape, 1, n), LAMBDA r : r.of = g)

(* The master times of a value group increase strictly from the start of   *)
(* the file, whatever the clock does and in whatever order samples come.   *)
MasterTimesIncrease ==
  \A s \in ValueSensors :
    LET records == RecordsOf(<<"CG", s>>, Len(tape))
    IN  \A i \in 1..Len(records) :
          records[i].time > (IF i = 1 THEN startTime - 1 ELSE records[i - 1].time)

(* A file whose identifier says it is final has the length and the counts  *)
(* of its records, also when power is lost while it is finalized, and when *)
(* a write fell short before.                                              *)
FinalMeansComplete ==
  medium.id = "MDF" =>
    /\ medium.size = Len(tape) /\ medium.dt = Len(tape)
    /\ \A g \in LogGroups : medium.cycles[g] = Len(RecordsOf(g, medium.size))

(* Where the payload of the frame at i is: behind the payloads before it. *)
PayloadOffset(c, i) ==
  FoldLeft(LAMBDA acc, r : acc + LengthBytes + r.size, 0, RecordsOf(<<"VLSD", c>>, i - 2))

(* Every frame record is preceded by its payload and points at it, at      *)
(* every cut of the file a failed write leaves, and when the offset        *)
(* channel runs out.                                                       *)
FramesFindPayloads ==
  \A i \in 1..Len(tape) : tape[i].of \in {"CG"} \X CanSensors =>
    /\ i > 1
    /\ tape[i - 1].of = <<"VLSD", tape[i].of[2]>>
    /\ tape[i].offset = PayloadOffset(tape[i].of[2], i)
=============================================================================
