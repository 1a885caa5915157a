-------------------------- MODULE CdmpLocalRecords --------------------------
(***************************************************************************)
(* A unit's own shared state records (CdmpStateService, owner side): the   *)
(* version counter that stamps every change, the refresh that keeps        *)
(* records inside the window in which receivers order versions, the digest *)
(* of the heartbeat, and the acknowledgement sets.                         *)
(*                                                                         *)
(* SetLocalState() and ClearLocalState() run on any thread; the work queue *)
(* transmits and takes responses. Both hold records_lock_, so a change     *)
(* takes the lock, visits the records one by one in type order             *)
(* (RefreshLaggingVersions) and frees it after updating the digest. Peers  *)
(* and their responses are arbitrary here; CdmpState supplies real ones.   *)
(***************************************************************************)
EXTENDS Integers, FiniteSets

CONSTANTS
    Type,      \* state types, in the order of their numbers
    Data,      \* values of a record
    NoData,    \* the empty data of a withdrawn record
    Peer,      \* the other units
    MaxLocal,  \* MAX_LOCAL_RECORDS
    Lag,       \* STATE_VERSION_REFRESH_LAG
    Window,    \* versions a receiver takes for newer: 127
    MaxResends \* Len(STATE_RETRANSMIT_BACKOFFS_MS)

ASSUME TypeAssumption == IsFiniteSet(Type) /\ Type \subseteq Nat \ {0}
ASSUME NoDataAssumption == NoData \notin Data
\* The static_assert of cdmp_state_service.h, and the ranges of its Kconfig (up to 32 records, lag 64).
ASSUME WindowAssumption ==
    /\ {MaxLocal, Lag, Window, MaxResends} \subseteq Nat \ {0}
    /\ Lag + 2 * MaxLocal - 3 <= Window
    /\ Lag >= MaxLocal /\ Lag >= 2

VARIABLES
    records,     \* local_records_, by type
    counter,     \* version_counter_
    digest,      \* the state digest of the device, as the set of what it covers
    online,      \* the unit is ONLINE and the service started
    announceAll, \* is_announce_all_pending_
    changing,    \* the type whose change holds records_lock_, 0 while the lock is free
    visited,     \* the records the refresh of that change has passed
    refreshed,   \* history: the ones it stamped again
    stamp        \* history: the last stamp of a record that was live before it

localVars == <<records, counter, digest, online, announceAll, changing, visited, refreshed, stamp>>

-----------------------------------------------------------------------------
(* 8-bit versions: counter and version wrap at Modulus *)

Modulus == 2 * Window + 2
Version == 0 .. Modulus - 1

NextVersion(v) == IF v = Modulus - 1 THEN 0 ELSE v + 1

\* static_cast<uint8_t>(to - from)
Distance(from, to) == IF to >= from THEN to - from ELSE to - from + Modulus

\* Serial number comparison: the difference is positive as an int8_t.
IsNewer(version, current) == Distance(current, version) \in 1 .. Window

-----------------------------------------------------------------------------
(* Records *)

Record == [state : {"free", "live", "withdrawn"}, version : Version, data : Data \cup {NoData},
           announce : BOOLEAN, unacknowledged : SUBSET Peer, resends : 0 .. MaxResends]

Free == [state |-> "free", version |-> 0, data |-> NoData, announce |-> FALSE, unacknowledged |-> {}, resends |-> 0]

InUse == {t \in Type : records[t].state # "free"}
Live == {t \in Type : records[t].state = "live"}
Withdrawn == {t \in Type : records[t].state = "withdrawn"}

LagOf(t) == Distance(records[t].version, counter)

\* What UpdateDigest() covers: type, version and data of every record that is not withdrawn.
Covered == {<<t, records[t].version, records[t].data>> : t \in Live}

NoStamp == [old |-> 0, new |-> 1]

\* A record under the next version, announced again and with an empty acknowledgement set.
Stamped(r) == [r EXCEPT !.version = NextVersion(counter), !.announce = TRUE, !.unacknowledged = {}]

StampHistory(t) ==
    IF records[t].state = "live" THEN [old |-> records[t].version, new |-> NextVersion(counter)] ELSE NoStamp

-----------------------------------------------------------------------------
(* Changes *)

Unlocked == changing = 0

\* The record's new state is stamped, and the refresh of the others begins.
StampChange(t, rs, state, data) ==
    /\ records' = [rs EXCEPT ![t] = [Stamped(@) EXCEPT !.state = state, !.data = data]]
    /\ counter' = NextVersion(counter)
    /\ stamp' = StampHistory(t)
    /\ changing' = t
    /\ visited' = {} /\ refreshed' = {}
    /\ UNCHANGED <<digest, online, announceAll>>

\* In a full array the first withdrawn record gives way to a new type.
EvictableFor(t) ==
    IF t \in InUse \/ Cardinality(InUse) < MaxLocal THEN {}
    ELSE {w \in Withdrawn : \A v \in Withdrawn : w <= v}

\* Mutant: a full array grows.
MutantUnlimited(t) == TRUE

HasRoom(t) == t \in InUse \/ Cardinality(InUse) < MaxLocal \/ EvictableFor(t) # {}

\* A new value of a record that has room; setting the current value again does nothing.
SetLocalState(t, data) ==
    /\ Unlocked
    /\ ~(t \in Live /\ records[t].data = data)
    /\ HasRoom(t)
    /\ LET evicted == EvictableFor(t)
       IN StampChange(t, [u \in Type |-> IF u \in evicted THEN Free ELSE records[u]], "live", data)

ClearLocalState(t) ==
    /\ Unlocked
    /\ t \in Live
    /\ StampChange(t, records, "withdrawn", NoData)

\* Mutant: a record is refreshed only after it left the window.
MutantRefreshTooLate(t) == t \in Live /\ LagOf(t) > Window

\* A live record that other changes left Lag versions behind.
IsLagging(t) == t \in Live /\ LagOf(t) >= Lag

\* Mutant: a refresh takes the version of the change instead of a version of its own.
MutantSharedStamp ==
    /\ ~Unlocked
    /\ \E t \in InUse \ visited :
          /\ visited' = visited \cup {t}
          /\ records' = IF IsLagging(t) THEN [records EXCEPT ![t].version = counter, ![t].announce = TRUE] ELSE records
    /\ UNCHANGED <<counter, digest, online, announceAll, changing, refreshed, stamp>>

\* One iteration of RefreshLaggingVersions: the next record in type order.
RefreshNext ==
    /\ ~Unlocked
    /\ \E t \in InUse \ visited :
          /\ \A u \in InUse \ visited : t <= u
          /\ visited' = visited \cup {t}
          /\ IF IsLagging(t)
             THEN /\ records' = [records EXCEPT ![t] = Stamped(@)]
                  /\ counter' = NextVersion(counter)
                  /\ refreshed' = refreshed \cup {t}
                  /\ stamp' = StampHistory(t)
             ELSE UNCHANGED <<records, counter, refreshed, stamp>>
    /\ UNCHANGED <<digest, online, announceAll, changing>>

\* Mutant: the digest is updated before the refresh stamps other records.
MutantDigestBeforeRefresh ==
    /\ ~Unlocked
    /\ InUse \subseteq visited
    /\ digest' = {c \in Covered : c[1] \notin refreshed} \cup {c \in digest : c[1] \in refreshed}
    /\ changing' = 0
    /\ UNCHANGED <<records, counter, online, announceAll, visited, refreshed, stamp>>

\* UpdateDigest() and the end of the change.
FinishChange ==
    /\ ~Unlocked
    /\ InUse \subseteq visited
    /\ digest' = Covered
    /\ changing' = 0
    /\ UNCHANGED <<records, counter, online, announceAll, visited, refreshed, stamp>>

-----------------------------------------------------------------------------
(* Transmission and acknowledgement *)

\* FreeAcknowledgedWithdrawals: a withdrawal that was sent and waits for nobody frees its slot.
FreeAcknowledged(rs) ==
    [t \in Type |-> IF rs[t].state = "withdrawn" /\ ~rs[t].announce /\ rs[t].unacknowledged = {}
                    THEN Free ELSE rs[t]]

Announced == IF announceAll THEN InUse ELSE {t \in InUse : records[t].announce}
Waiting == {t \in InUse \ Announced : records[t].unacknowledged # {}}

\* After the last resend the heartbeat digest takes over.
Resent(r) == [r EXCEPT !.resends = @ + 1,
                       !.unacknowledged = IF r.resends + 1 = MaxResends THEN {} ELSE @]

\* Announces what is pending to the peers of the table, and resends what is due of the rest.
Transmit(peers, due) ==
    /\ Unlocked /\ online
    /\ announceAll \/ Announced \cup due # {}
    /\ due \subseteq Waiting
    /\ records' = FreeAcknowledged(
          [t \in Type |->
              IF t \in Announced
              THEN [records[t] EXCEPT !.announce = FALSE, !.resends = 0, !.unacknowledged = peers]
              ELSE IF t \in due THEN Resent(records[t]) ELSE records[t]])
    /\ announceAll' = FALSE
    /\ UNCHANGED <<counter, digest, online, changing, visited, refreshed, stamp>>

\* A response names a version, and counts for the record that still has it.
ProcessResponse(peer, version) ==
    /\ Unlocked /\ online
    /\ records' = FreeAcknowledged(
          [t \in Type |-> IF t \in InUse /\ records[t].version = version
                          THEN [records[t] EXCEPT !.unacknowledged = @ \ {peer}] ELSE records[t]])
    /\ UNCHANGED <<counter, digest, online, announceAll, changing, visited, refreshed, stamp>>

\* A peer that left the table is waited for no more.
DropPeer(peer) ==
    /\ Unlocked
    /\ records' = FreeAcknowledged([t \in Type |-> [records[t] EXCEPT !.unacknowledged = @ \ {peer}]])
    /\ UNCHANGED <<counter, digest, online, announceAll, changing, visited, refreshed, stamp>>

EnterOnline ==
    /\ Unlocked /\ ~online
    /\ online' = TRUE /\ announceAll' = TRUE
    /\ UNCHANGED <<records, counter, digest, changing, visited, refreshed, stamp>>

\* ForgetNetwork: the records stay, nothing is resent.
LeaveOnline ==
    /\ Unlocked /\ online
    /\ online' = FALSE /\ announceAll' = FALSE
    /\ records' = [t \in Type |-> [records[t] EXCEPT !.unacknowledged = {}]]
    /\ UNCHANGED <<counter, digest, changing, visited, refreshed, stamp>>

\* Power loss, at any point of a change: nothing of this is kept.
Reboot ==
    /\ records' = [t \in Type |-> Free]
    /\ counter' = 0 /\ digest' = {} /\ stamp' = NoStamp
    /\ online' = FALSE /\ announceAll' = FALSE
    /\ changing' = 0 /\ visited' = {} /\ refreshed' = {}

-----------------------------------------------------------------------------

LocalInit ==
    /\ records = [t \in Type |-> Free]
    /\ counter = 0
    /\ digest = {}
    /\ online = FALSE /\ announceAll = FALSE
    /\ changing = 0 /\ visited = {} /\ refreshed = {}
    /\ stamp = NoStamp

LocalNext ==
    \/ \E t \in Type : ClearLocalState(t) \/ \E data \in Data : SetLocalState(t, data)
    \/ RefreshNext
    \/ FinishChange
    \/ \E peers \in SUBSET Peer : \E due \in SUBSET Type : Transmit(peers, due)
    \/ \E peer \in Peer : DropPeer(peer) \/ \E version \in Version : ProcessResponse(peer, version)
    \/ EnterOnline
    \/ LeaveOnline
    \/ Reboot

LocalSpec == LocalInit /\ [][LocalNext]_localVars

-----------------------------------------------------------------------------
(* Properties *)

\* Every variable keeps its type, and the records in use, the withdrawn ones that wait for their
\* acknowledgements included, fit the array (AddLocalRecord() evicts or refuses).
LocalTypeOK ==
    /\ records \in [Type -> Record]
    /\ counter \in Version
    /\ {online, announceAll} \subseteq BOOLEAN
    /\ changing \in Type \cup {0}
    /\ visited \subseteq Type /\ refreshed \subseteq Type
    /\ stamp \in [old : Version, new : Version]
    /\ Cardinality(InUse) <= MaxLocal

\* A new stamp of a record that receivers may hold a copy of always compares newer than the version
\* it replaces, however many other changes and refreshes came between: RefreshLaggingVersions and
\* the static_assert on Lag and MaxLocal keep every live record inside the window of the receivers.
StampsCompareNewer == IsNewer(stamp.new, stamp.old)

\* No two live records have the same version, so the version in a response identifies the record
\* that RemoveFromAcknowledgementSets acknowledges.
LiveVersionsDistinct ==
    \A t, u \in Live : t # u => records[t].version # records[u].version

\* While no change is under way, the digest of the next heartbeat covers exactly the live records
\* at their current versions, also the ones a change of another record has stamped again.
DigestCurrent == Unlocked => digest = Covered
=============================================================================
