------------------------------------ MODULE Dfu -----------------------------
(***************************************************************************)
(* Firmware images: the guard that an upload passes through, and the       *)
(* confirmation of a new image on its first boot.  They have no state in   *)
(* common, so a step of one leaves the other alone.                        *)
(***************************************************************************)
EXTENDS Integers, Sequences, FiniteSets

(***************************************************************************)
(* A new firmware image on its first boot: ImageConfirmation decides       *)
(* whether it proves healthy and becomes permanent, or the watchdog resets *)
(* the unit and the bootloader reverts to the image before it.             *)
(*                                                                         *)
(* Tick() runs on the system work queue, ReportBootComplete() on the main  *)
(* thread, the probes on the queues they watch and a client's confirm on   *)
(* the MCUmgr queue; Tick() and ReportBootComplete() are split where they  *)
(* read or exchange the atomic state.  The millisecond count wraps.        *)
(***************************************************************************)

CONSTANTS Probes,           \* liveness probes of the work queues
          ClockWrap,        \* 2^32, the wrap of the millisecond count
          BootDeadline,     \* boot_deadline_ms
          ConfirmDelay,     \* confirm_delay_ms
          WatchdogTimeout,  \* watchdog_timeout_ms
          TickInterval,     \* GetTickIntervalMs()
          MaxLate           \* bound: how late the work queue runs a tick

(* Times are told apart by half of the count's range, 24 days; the delays  *)
(* are seconds.                                                            *)
ASSUME ConfirmationAssumption ==
  /\ ClockWrap \in Nat \ {0} /\ BootDeadline \in 1..ClockWrap /\ ConfirmDelay \in Nat \ {0}
  /\ 2 * (ConfirmDelay + MaxLate) <= ClockWrap
  /\ WatchdogTimeout \in Nat \ {0} /\ TickInterval \in Nat \ {0} /\ MaxLate \in Nat

VARIABLES dfuState,   \* state_, and "off" before Initialize()
          dogArmed,   \* is_watchdog_armed_
          dogLeft,    \* the watchdog: time until it resets the unit
          clock,      \* clock_()
          deadline,   \* deadline_ms_
          confirmAt,  \* confirm_at_ms_
          probe,      \* probes_, and whether a probe ran and was seen to
          tick,       \* Tick(): where it is and what it has read
          scheduled,  \* tick_.work is scheduled or runs
          tickIn,     \* time until it is due
          report,     \* ReportBootComplete(): where it is and its now
          confirmed   \* who confirmed the image in the slot's trailer

confirmationVars == <<dfuState, dogArmed, dogLeft, clock, deadline, confirmAt,
                      probe, tick, scheduled, tickIn, report, confirmed>>

NoProbe == [known |-> FALSE, armed |-> FALSE, at |-> 0, ran |-> FALSE, proven |-> FALSE]
NoTick  == [pc |-> "idle", state |-> "off", now |-> 0, allRan |-> FALSE]

ConfirmationInit ==
  /\ dfuState = "off" /\ dogArmed = FALSE /\ dogLeft = WatchdogTimeout
  /\ clock = 0 /\ deadline = 0 /\ confirmAt = 0
  /\ probe = [p \in Probes |-> NoProbe] /\ tick = NoTick
  /\ scheduled = FALSE /\ tickIn = TickInterval
  /\ report = [pc |-> "idle", now |-> 0]
  /\ confirmed = "nobody"

Later(at, ms) == (at + ms) % ClockWrap

(* Correct across the wrap. *)
IsReached(now, at) == (now - at) % ClockWrap < ClockWrap \div 2

-----------------------------------------------------------------------------
(* Initialize(): an unconfirmed image arms the watchdog, which may fail,   *)
(* and the deadline; DfuController then schedules the tick.                *)
Initialize(armed) ==
  /\ dfuState = "off"
  /\ IF confirmed # "nobody"
     THEN dfuState' = "CONFIRMED" /\ UNCHANGED <<dogArmed, deadline, scheduled>>
     ELSE /\ dfuState' = "VERIFYING" /\ dogArmed' = armed
          /\ deadline' = Later(clock, BootDeadline) /\ scheduled' = TRUE
  /\ UNCHANGED <<dogLeft, clock, confirmAt, probe, tick, tickIn, report, confirmed>>

(* RegisterLivenessProbe(), on the main thread before boot is complete. *)
AddProbe(p) ==
  /\ dfuState # "off" /\ report.pc = "idle" /\ ~probe[p].known
  /\ dfuState \in {"VERIFYING", "CONFIRMING"} \/ dogArmed
  /\ probe' = [probe EXCEPT ![p].known = TRUE]
  /\ UNCHANGED <<dfuState, dogArmed, dogLeft, clock, deadline, confirmAt, tick, scheduled, tickIn,
                 report, confirmed>>

(* ReportBootComplete(), up to its exchange. *)
ReportBootComplete ==
  /\ dfuState # "off" /\ report.pc = "idle"
  /\ report' = [pc |-> IF dfuState = "VERIFYING" THEN "exchange" ELSE "done", now |-> clock]
  /\ confirmAt' = IF dfuState = "VERIFYING" /\ ~IsReached(clock, deadline)
                  THEN Later(clock, ConfirmDelay) ELSE confirmAt
  /\ UNCHANGED <<dfuState, dogArmed, dogLeft, clock, deadline, probe, tick, scheduled, tickIn,
                 confirmed>>

(* Mutant: the state is stored, whatever it has become. *)
MutantStores(from, to) == to

(* compare_exchange_strong() of the state. *)
Exchange(from, to) == IF dfuState = from THEN to ELSE dfuState

ReportExchange ==
  /\ report.pc = "exchange"
  /\ dfuState' = Exchange("VERIFYING", IF IsReached(report.now, deadline) THEN "FAILED"
                                       ELSE "CONFIRMING")
  /\ report' = [report EXCEPT !.pc = "done"]
  /\ UNCHANGED <<dogArmed, dogLeft, clock, deadline, confirmAt, probe, tick, scheduled, tickIn,
                 confirmed>>

-----------------------------------------------------------------------------
\* Tick().

TickDone(state, armed) ==
  /\ tick' = NoTick
  /\ scheduled' = (state \in {"VERIFYING", "CONFIRMING"} \/ armed)
  /\ tickIn' = TickInterval

(* DisableWatchdog(): it is fed first; `off`: the driver can disable it. *)
DisableWatchdog(off) ==
  /\ dogArmed' = (dogArmed /\ ~off)
  /\ dogLeft' = IF dogArmed THEN WatchdogTimeout ELSE dogLeft

(* Mutant: the deadline is left to the report that may never come. *)
MutantLeftToReport == FALSE

DeadlineMissed == dfuState = "VERIFYING" /\ IsReached(clock, deadline)

(* Up to the reading of the clock. *)
TickStart(off) ==
  /\ dfuState # "off" /\ tick.pc = "idle" /\ scheduled /\ tickIn <= 0
  /\ IF dfuState = "CONFIRMED" \/ confirmed # "nobody"
     THEN /\ dfuState' = "CONFIRMED" /\ DisableWatchdog(off)
          /\ TickDone("CONFIRMED", dogArmed')
     ELSE /\ UNCHANGED <<dfuState, dogArmed, dogLeft>>
          /\ IF dfuState = "FAILED" THEN TickDone("FAILED", dogArmed)
             ELSE /\ tick' = [pc |-> IF DeadlineMissed THEN "deadline" ELSE "probes",
                              state |-> dfuState, now |-> clock, allRan |-> TRUE]
                  /\ UNCHANGED <<scheduled, tickIn>>
  /\ UNCHANGED <<clock, deadline, confirmAt, probe, report, confirmed>>

(* The deadline passed; ReportBootComplete() may have been quicker. *)
TickDeadline ==
  /\ tick.pc = "deadline"
  /\ dfuState' = Exchange("VERIFYING", "FAILED")
  /\ IF dfuState \in {"VERIFYING", "FAILED"} THEN TickDone("FAILED", dogArmed)
     ELSE tick' = [tick EXCEPT !.pc = "probes"] /\ UNCHANGED <<scheduled, tickIn>>
  /\ UNCHANGED <<dogArmed, dogLeft, clock, deadline, confirmAt, probe, report, confirmed>>

Waits(p) == probe[p].armed /\ ~probe[p].ran
Age(p)   == (tick.now - probe[p].at) % ClockWrap
Known    == {p \in Probes: probe[p].known}

(* Mutant: a probe that was posted just now counts as run. *)
MutantPostedIsRun == \A p \in Known: ~Waits(p)

(* Every probe was posted by an earlier tick and ran since. *)
AllRan == \A p \in Known: probe[p].armed /\ probe[p].ran

(* CheckAndRearmProbes(), in CONFIRMING only. *)
TickProbes ==
  LET late == {p \in Known: Waits(p) /\ Age(p) >= WatchdogTimeout \div 2} IN
  /\ tick.pc = "probes"
  /\ IF dfuState # "CONFIRMING"
     THEN tick' = [tick EXCEPT !.pc = "feed"] /\ UNCHANGED <<dfuState, probe, scheduled, tickIn>>
     ELSE /\ probe' = [p \in Probes |->
                         IF p \notin Known THEN probe[p]
                         ELSE IF Waits(p) THEN [probe[p] EXCEPT !.proven = FALSE]
                         ELSE [probe[p] EXCEPT !.armed = TRUE, !.at = tick.now, !.ran = FALSE,
                                               !.proven = probe[p].armed]]
          /\ IF late # {} THEN dfuState' = "FAILED" /\ TickDone("FAILED", dogArmed)
             ELSE /\ tick' = [tick EXCEPT !.pc = "feed", !.allRan = AllRan]
                  /\ UNCHANGED <<dfuState, scheduled, tickIn>>
  /\ UNCHANGED <<dogArmed, dogLeft, clock, deadline, confirmAt, report, confirmed>>

(* The watchdog is fed; self_confirm is on. *)
TickFeed ==
  /\ tick.pc = "feed"
  /\ dogLeft' = IF dogArmed THEN WatchdogTimeout ELSE dogLeft
  /\ IF dfuState = "CONFIRMING" /\ IsReached(tick.now, confirmAt) /\ tick.allRan
     THEN tick' = [tick EXCEPT !.pc = "confirm"] /\ UNCHANGED <<scheduled, tickIn>>
     ELSE TickDone(dfuState, dogArmed)
  /\ UNCHANGED <<dfuState, dogArmed, clock, deadline, confirmAt, probe, report, confirmed>>

(* Confirm() writes the trailer, and StandDown(); or the next tick retries. *)
TickConfirm(done, off) ==
  /\ tick.pc = "confirm"
  /\ IF done
     THEN /\ confirmed' = IF confirmed = "nobody" THEN "itself" ELSE confirmed
          /\ dfuState' = "CONFIRMED" /\ DisableWatchdog(off)
          /\ TickDone("CONFIRMED", dogArmed')
     ELSE TickDone(dfuState, dogArmed) /\ UNCHANGED <<confirmed, dfuState, dogArmed, dogLeft>>
  /\ UNCHANGED <<clock, deadline, confirmAt, probe, report>>

-----------------------------------------------------------------------------
\* Around it.

(* The queue runs the probe that was posted to it. *)
ProbeRuns(p) ==
  /\ Waits(p)
  /\ probe' = [probe EXCEPT ![p].ran = TRUE]
  /\ UNCHANGED <<dfuState, dogArmed, dogLeft, clock, deadline, confirmAt, tick, scheduled, tickIn,
                 report, confirmed>>

(* A client confirms the image through img_mgmt. *)
ClientConfirms ==
  /\ dfuState # "off" /\ confirmed = "nobody"
  /\ confirmed' = "client"
  /\ UNCHANGED <<dfuState, dogArmed, dogLeft, clock, deadline, confirmAt, probe, tick,
                 scheduled, tickIn, report>>

(* Bounds: a tick is late by MaxLate at most, and the few instructions of  *)
(* ReportBootComplete() take less than the confirm delay (20 s): held up   *)
(* for longer, it would hand a tick that has passed its probes a delay     *)
(* that is over.                                                           *)
TimePasses ==
  /\ dfuState # "off" /\ (dogArmed => dogLeft > 0) /\ tickIn > -MaxLate
  /\ report.pc = "exchange" => Later(clock, 1) # Later(report.now, ConfirmDelay)
  /\ clock' = IF scheduled \/ report.pc = "exchange" THEN Later(clock, 1)
               ELSE clock  \* nobody reads it any more
  /\ tickIn' = IF scheduled THEN tickIn - 1 ELSE tickIn
  /\ dogLeft' = IF dogArmed THEN dogLeft - 1 ELSE dogLeft
  /\ UNCHANGED <<dfuState, dogArmed, deadline, confirmAt, probe, tick, scheduled, report,
                 confirmed>>

(* The watchdog resets the unit; the bootloader boots the image that was   *)
(* confirmed before, unless this one is.                                   *)
Resets ==
  /\ dogArmed /\ dogLeft = 0
  /\ dfuState' = "off" /\ dogArmed' = FALSE /\ dogLeft' = WatchdogTimeout
  /\ clock' = 0 /\ deadline' = 0 /\ confirmAt' = 0
  /\ probe' = [p \in Probes |-> NoProbe] /\ tick' = NoTick
  /\ scheduled' = FALSE /\ tickIn' = TickInterval
  /\ report' = [pc |-> "idle", now |-> 0]
  /\ confirmed' = IF confirmed = "nobody" THEN "client" ELSE confirmed

ConfirmationNext ==
  \/ \E armed \in BOOLEAN: Initialize(armed)
  \/ \E p \in Probes: AddProbe(p) \/ ProbeRuns(p)
  \/ ReportBootComplete \/ ReportExchange
  \/ TickDeadline \/ TickProbes \/ TickFeed
  \/ \E off \in BOOLEAN: TickStart(off)
  \/ \E done, off \in BOOLEAN: TickConfirm(done, off)
  \/ ClientConfirms \/ TimePasses \/ Resets

-----------------------------------------------------------------------------
(* An image makes itself permanent only on a tick that has seen every      *)
(* probe run since it was posted, never while one is outstanding and never *)
(* once it has failed, however ReportBootComplete() and Tick() interleave. *)
ConfirmsProven ==
  [][confirmed' = "itself" /\ confirmed = "nobody" =>
       dfuState = "CONFIRMING" /\ \A p \in Known: probe[p].proven]_confirmationVars

(* A missed deadline cannot be undone: a report that races it, or comes    *)
(* after it, does not turn FAILED into CONFIRMING.                         *)
FailedStaysFailed ==
  [][dfuState = "FAILED" => dfuState' \in {"FAILED", "off"} \/ confirmed # "nobody"]_confirmationVars

(* A boot that hangs, and an image that failed, end: the watchdog is let   *)
(* run out, or a client confirmed the image.                               *)
UnhealthyImageEnds ==
  /\ dogArmed /\ dfuState = "VERIFYING" ~> dfuState # "VERIFYING"
  /\ dogArmed /\ dfuState = "FAILED" ~> dfuState # "FAILED"

-----------------------------------------------------------------------------
(***************************************************************************)
(* A firmware upload, chunk by chunk into the secondary slot.  The guard   *)
(* reads the header and then the protected TLVs as they pass, through one  *)
(* window that is laid over either, and refuses an image that is not built *)
(* for this product and board.                                             *)
(*                                                                         *)
(* A byte of an image is the image and its offset.  img_mgmt and the flash *)
(* are external: img_mgmt asks the guard about a chunk at the offset it    *)
(* expects and writes it if it is accepted.                                *)
(***************************************************************************)

CONSTANTS Images,     \* the images a client uploads
          Size,       \* of an image: its bytes, `len` of the upload
          Verdict,    \* of an image: what its header and TLVs say
          HeaderSize, \* ImageIdentityCollector::HEADER_SIZE
          TlvStart,   \* where the protected TLVs start
          TlvSize,    \* how many bytes they are
          MaxChunk    \* bound: bytes of a chunk

(* What the header alone decides, and what the TLVs say: a header may be   *)
(* malformed, name no or too many TLVs, or more than the image holds.      *)
HeaderVerdicts == {"no tlvs", "bad header"}
TlvVerdicts    == {"match", "wrong product", "wrong board", "no identity", "bad tlvs"}

(* img_mgmt takes no image that is shorter than a header. *)
ASSUME GuardAssumption ==
  /\ HeaderSize \in Nat \ {0} /\ TlvStart \in Nat /\ TlvSize \in Nat
  /\ \A i \in Images: Size[i] \in Nat /\ HeaderSize <= Size[i]
  /\ \A i \in Images: Verdict[i] \in HeaderVerdicts \cup TlvVerdicts
  /\ \A i \in Images: Verdict[i] \in TlvVerdicts => TlvStart + TlvSize <= Size[i]
  /\ HeaderSize <= TlvStart /\ TlvSize > 0 /\ MaxChunk \in Nat

VARIABLES scan,       \* phase_ of the collector
          verdict,    \* result_
          received,   \* received_
          window,     \* window_: the bytes it holds, whatever they are of
          hasWritten, \* has_written_
          upload,     \* img_mgmt: the image uploaded and the offset it expects
          slot,       \* flash: the image whose header is there, bytes behind it
          refused     \* ghost: the image refused last, unless its erase failed

guardVars == <<scan, verdict, received, window, hasWritten, upload, slot, refused>>

NoImage == "none"

(* Register(), and Reset() of the collector. *)
GuardInit ==
  /\ scan = "HEADER" /\ verdict = "NEED_MORE" /\ received = 0
  /\ window = [i \in 0..(HeaderSize + TlvSize - 1) |-> <<NoImage, 0>>]
  /\ hasWritten = FALSE
  /\ upload = [image |-> NoImage, off |-> 0]
  /\ slot = [header |-> NoImage, bytes |-> 0] /\ refused = NoImage

WindowStart(p) == IF p = "TLVS" THEN TlvStart ELSE 0
WindowSize(p)  == IF p = "TLVS" THEN TlvSize ELSE HeaderSize

(* CopyToWindow() of the image's bytes from..to - 1. *)
Copied(w, p, image, from, to) ==
  [i \in DOMAIN w |-> LET at == WindowStart(p) + i IN
     IF i < WindowSize(p) /\ at >= from /\ at < to THEN <<image, at>> ELSE w[i]]

IsWindowComplete(p, r) == r >= WindowStart(p) + WindowSize(p)

(* The window holds these bytes of the image, not what was there before. *)
Holds(w, p, image) == \A i \in 0..(WindowSize(p) - 1): w[i] = <<image, WindowStart(p) + i>>

(* Mutant: the chunk that ends the header is not looked at again, for the  *)
(* TLVs it may hold.                                                       *)
MutantHeaderOnly(w, image, from, to) == w

(* CopyToWindow() once more, when the header has been read. *)
CopyAgain(w, image, from, to) == Copied(w, "TLVS", image, from, to)

(* Feed(): the collector's scan, verdict, received and window after it.   *)
(* What bytes that are not the image's would parse to is left open.        *)
Feed(image, from, to) ==
  LET p0 == IF from = 0 THEN "HEADER" ELSE scan
      v0 == IF from = 0 THEN "NEED_MORE" ELSE verdict
      r0 == IF from = 0 THEN 0 ELSE received
      r  == IF to > r0 THEN to ELSE r0
      w1 == Copied(window, p0, image, from, to)
      readHeader == p0 = "HEADER" /\ IsWindowComplete("HEADER", r)
      p1 == IF readHeader THEN IF Verdict[image] \in HeaderVerdicts THEN "DECIDED" ELSE "TLVS"
            ELSE p0
      w2 == IF readHeader /\ p1 = "TLVS" THEN CopyAgain(w1, image, from, to) ELSE w1
      readTlvs == p1 = "TLVS" /\ IsWindowComplete("TLVS", r)
  IN  IF p0 = "DECIDED" THEN {[scan |-> p0, verdict |-> v0, received |-> r0, window |-> window]}
      ELSE IF from > r0 THEN {[scan |-> "DECIDED", verdict |-> "skipped", received |-> r0,
                               window |-> window]}
      ELSE {[scan |-> IF readTlvs THEN "DECIDED" ELSE p1, verdict |-> v, received |-> r,
             window |-> w2]:
              v \in IF readTlvs
                    THEN IF Holds(w2, "TLVS", image) THEN {Verdict[image]} ELSE TlvVerdicts
                    ELSE IF p1 = "DECIDED" THEN {Verdict[image]} ELSE {v0}}

Accepts(v) == v \in {"NEED_MORE", "match"}

(* Mutant: a refused upload is only forgotten. *)
MutantLeavesHeader(erased) == slot

(* EraseHeaderSector(), if an earlier chunk was written. *)
EraseHeaderSector(erased) ==
  IF hasWritten /\ erased THEN [header |-> NoImage, bytes |-> 0] ELSE slot

(* The first chunk starts an upload, whatever was in progress. *)
WrittenBefore(from) == IF from = 0 THEN FALSE ELSE hasWritten

(* CheckChunk() of n bytes at the offset expected, or at 0, where a client *)
(* starts over; `written`: the flash takes the chunk.                      *)
CheckChunk(image, from, n, erased, written) ==
  LET to == IF from + n < Size[image] THEN from + n ELSE Size[image] IN
  /\ n > 0 /\ from < Size[image]
  /\ from = 0 \/ (image = upload.image /\ from = upload.off)
  /\ \E f \in Feed(image, from, to):
       /\ scan' = f.scan /\ verdict' = f.verdict /\ received' = f.received
       /\ window' = f.window
       /\ IF Accepts(f.verdict)
          THEN /\ hasWritten' = TRUE
               /\ upload' = [image |-> image, off |-> IF written THEN to ELSE from]
               /\ slot' = IF written
                          THEN [header |-> IF from = 0 THEN image ELSE slot.header, bytes |-> to]
                          ELSE IF from = 0 THEN [header |-> NoImage, bytes |-> 0] ELSE slot
               /\ refused' = IF from = 0 THEN NoImage ELSE refused
          ELSE /\ hasWritten' = FALSE
               /\ upload' = [image |-> NoImage, off |-> 0]
               /\ slot' = IF WrittenBefore(from) THEN EraseHeaderSector(erased) ELSE slot
               /\ refused' = IF from > 0 /\ erased THEN image ELSE NoImage

(* The unit restarts: img_mgmt and the guard start over, the slot stays. *)
GuardRestart ==
  /\ scan' = "HEADER" /\ verdict' = "NEED_MORE" /\ received' = 0
  /\ hasWritten' = FALSE /\ upload' = [image |-> NoImage, off |-> 0]
  /\ UNCHANGED <<window, slot, refused>>

GuardNext ==
  \/ \E image \in Images, n \in 1..MaxChunk, erased, written \in BOOLEAN:
       \E from \in {0, upload.off}: CheckChunk(image, from, n, erased, written)
  \/ GuardRestart

-----------------------------------------------------------------------------
(* Whatever the chunks' sizes, whatever was uploaded before, given up or   *)
(* sent again: an image that is all in the slot is one for this product    *)
(* and board, and one without an identity never is.                        *)
CompleteIsOurs ==
  slot.header # NoImage /\ slot.bytes = Size[slot.header] => Verdict[slot.header] = "match"

(* An image that was refused after its first chunk has no header left in   *)
(* the slot, so that it is neither listed nor tested.                      *)
RefusedIsErased == refused # NoImage => slot.header # refused

-----------------------------------------------------------------------------
\* Both.

dfuVars == <<confirmationVars, guardVars>>

DfuInit == ConfirmationInit /\ GuardInit

DfuNext == \/ ConfirmationNext /\ UNCHANGED guardVars
           \/ GuardNext /\ UNCHANGED confirmationVars

DfuSpec == DfuInit /\ [][DfuNext]_dfuVars

(* Firmware images: an uploaded image that is complete is one for this     *)
(* board and a refused one has no header left (ImageUploadGuard); an image *)
(* makes itself permanent only after every probe ran, and one that failed  *)
(* stays failed (ImageConfirmation).                                       *)
ImagesSafe ==
  /\ [](CompleteIsOurs /\ RefusedIsErased)
  /\ ConfirmsProven /\ FailedStaysFailed
=============================================================================
