------------------------------ MODULE CdmpState ------------------------------
(***************************************************************************)
(* Shared state records from their owner to the copies of the other units: *)
(* CdmpLocalRecords for the owner, and for every peer the receiving side   *)
(* of CdmpStateService. Notifications are the fast path, acknowledged and  *)
(* resent; the digest in the heartbeat is the safety net, and a peer whose *)
(* copies do not match it asks for a replay.                               *)
(*                                                                         *)
(* Frames, heartbeats and requests run on the work queue of their unit, in *)
(* any order relative to each other; notifications keep their order. The   *)
(* digest is modelled by the records it covers: CRC-8 collisions, which    *)
(* hide a difference with probability 1/256, are left out.                 *)
(***************************************************************************)
EXTENDS CdmpLocalRecords, Sequences

CONSTANTS
    MaxQueue,   \* RX_QUEUE_SIZE
    Lossy,      \* what may be lost: "notification", "response", "request", "claim"
    Scenario    \* how many copies each peer has room for, and the bounds on changes of the owner's
                \* records, on losses, and on stops and power losses of any unit

ASSUME ReceiverAssumption ==
    /\ MaxQueue \in Nat \ {0}
    /\ Scenario \subseteq [room : Nat \ {0}, changes : Nat, losses : Nat, outages : Nat]

VARIABLES
    peer,      \* peer[p]: the receiving side of unit p
    table,     \* the peers in the owner's device table
    requests,  \* the peers whose STATE_SYNC_REQUEST is on its way to the owner
    responses, \* STATE_CHANGE responses on their way to the owner
    acked,     \* history, by type: the peers that acknowledged the record's current version
    budget     \* the scenario, with what is left of its bounds

netVars == <<peer, table, requests, responses, acked, budget>>
vars == <<localVars, netVars>>

-----------------------------------------------------------------------------
(* A peer *)

NoCopies == << >>

\* ForgetNetwork() and DoStop(): no copies, no source states, an empty receive queue. History: whether
\* a restart of the owner was missed or a record did not fit, and no check against the digest of the
\* owner's records as they are found the copies right since.
Offline ==
    [online |-> FALSE, known |-> FALSE, copies |-> NoCopies, overflowed |-> FALSE, limited |-> FALSE,
     rx |-> << >>, beats |-> << >>, suspect |-> FALSE]

Notification(t) == [type |-> t, version |-> records[t].version, data |-> records[t].data]
Copy(m) == [version |-> m.version, data |-> m.data, stale |-> FALSE]

Without(copies, types) == [t \in DOMAIN copies \ types |-> copies[t]]
AllStale(copies) == [t \in DOMAIN copies |-> [copies[t] EXCEPT !.stale = TRUE]]
NoneStale(copies) == [t \in DOMAIN copies |-> [copies[t] EXCEPT !.stale = FALSE]]
StaleTypes(copies) == {t \in DOMAIN copies : copies[t].stale}
DigestOf(copies) == {<<t, copies[t].version, copies[t].data>> : t \in DOMAIN copies}

\* Freeing copies gives a source that did not fit another chance.
RemoveRemoteRecords(s, types) ==
    IF types \cap DOMAIN s.copies = {} THEN s
    ELSE [s EXCEPT !.copies = Without(@, types), !.overflowed = FALSE]

\* A duplicate, or a resend overtaken by a newer change.
IsOutdated(s, m) ==
    /\ m.type \in DOMAIN s.copies
    /\ ~s.copies[m.type].stale
    /\ ~IsNewer(m.version, s.copies[m.type].version)

MarkOverflowed(s) == [s EXCEPT !.overflowed = TRUE, !.suspect = TRUE]

ApplyRecord(s, m) ==
    IF IsOutdated(s, m) THEN s
    ELSE IF m.data = NoData THEN RemoveRemoteRecords(s, {m.type})
    ELSE IF m.type \notin DOMAIN s.copies /\ Cardinality(DOMAIN s.copies) = budget.room
         THEN MarkOverflowed(s)
    ELSE [s EXCEPT !.copies = [t \in DOMAIN @ \cup {m.type} |-> IF t = m.type THEN Copy(m) ELSE @[t]]]

MatchesWithoutStale(copies, beat) ==
    StaleTypes(copies) # {} /\ DigestOf(Without(copies, StaleTypes(copies))) = beat

\* Mutant: also the incomplete copies of a source that did not fit are compared.
MutantChecksOverflowed(s, beat) ==
    s.online /\ DigestOf(s.copies) # beat /\ ~MatchesWithoutStale(s.copies, beat)

\* The copies of a source that did not fit would never match.
DigestDiffers(s, beat) ==
    s.online /\ ~s.overflowed /\ DigestOf(s.copies) # beat /\ ~MatchesWithoutStale(s.copies, beat)

\* Mutant: copies that do not match stay as they are until the replay.
MutantNotStale(s, beat) ==
    IF s.online /\ ~s.overflowed /\ DigestOf(s.copies) = beat THEN [s EXCEPT !.copies = NoneStale(@)] ELSE s

\* The digest check: a match clears the stale marks; when only the fresh copies match, the owner
\* withdrew the stale ones; everything else makes all copies stale.
OnHeartbeat(s, beat) ==
    CASE ~s.online \/ s.overflowed -> s
      [] DigestDiffers(s, beat) -> [s EXCEPT !.copies = AllStale(@)]
      [] OTHER -> LET t == [s EXCEPT !.suspect = @ /\ beat # Covered]
                  IN IF DigestOf(s.copies) = beat THEN [t EXCEPT !.copies = NoneStale(@)]
                     ELSE RemoveRemoteRecords(t, StaleTypes(s.copies))

\* RESTARTED: the owner's counter started again, so a lower version is not an older record.
OnRestarted(s) == [s EXCEPT !.copies = AllStale(@)]

\* LEFT: the owner is gone from the table, and its copies with it.
OnLeft(s) == [s EXCEPT !.known = FALSE, !.copies = NoCopies, !.overflowed = FALSE, !.limited = FALSE,
                            !.suspect = FALSE]

\* A full receive queue drops the frames that come then.
QueueFrames(s, frames) ==
    [s EXCEPT !.rx = IF Len(@) + Len(frames) <= MaxQueue THEN @ \o frames ELSE SubSeq(@ \o frames, 1, MaxQueue)]

-----------------------------------------------------------------------------
(* The bus *)

Listening == {p \in Peer : peer[p].online}

InTypeOrder(types) ==
    {order \in [1 .. Cardinality(types) -> types] : \A i, j \in DOMAIN order : i < j => order[i] < order[j]}

\* The records of these types, in type order, reach the receive queue of every online peer.
Broadcast(types) ==
    \E order \in InTypeOrder(types) :
        LET frames == [i \in DOMAIN order |-> Notification(order[i])]
        IN peer' = [p \in Peer |-> IF p \in Listening THEN QueueFrames(peer[p], frames) ELSE peer[p]]

Spend(what) == budget[what] > 0 /\ budget' = [budget EXCEPT ![what] = @ - 1]

-----------------------------------------------------------------------------
(* The owner *)

\* The records whose version a step leaves alone keep the peers that acknowledged it.
AckedAfter == [t \in Type |-> IF records'[t].version = records[t].version /\ records'[t].state = records[t].state
                                 /\ ~records'[t].announce
                              THEN acked[t] ELSE {}]

Change ==
    /\ \E t \in Type : ClearLocalState(t) \/ \E data \in Data : SetLocalState(t, data)
    /\ Spend("changes")
    /\ acked' = AckedAfter
    /\ UNCHANGED <<peer, table, requests, responses>>

Refresh ==
    /\ RefreshNext \/ FinishChange
    /\ acked' = AckedAfter
    /\ UNCHANGED <<peer, table, requests, responses, budget>>

\* Announcements and resends, sent after the lock is freed; nothing else of the owner's work queue
\* comes between.
SendChanges ==
    \E due \in SUBSET Waiting :
        /\ Transmit(table, due)
        /\ Broadcast(Announced \cup due)
        /\ acked' = [t \in Type |-> IF t \in Announced \/ records'[t].state = "free" THEN {} ELSE acked[t]]
        /\ UNCHANGED <<table, requests, responses, budget>>

ReceiveResponse ==
    \E response \in responses :
        /\ ProcessResponse(response[1], response[2])
        /\ responses' = responses \ {response}
        /\ acked' = [t \in Type |-> IF response[1] \in records[t].unacknowledged /\ records[t].version = response[2]
                                       /\ records'[t].state # "free"
                                    THEN acked[t] \cup {response[1]} ELSE acked[t]]
        /\ UNCHANGED <<peer, table, requests, budget>>

\* Every record that is not withdrawn, untracked. A unit that is not ONLINE does not answer.
ReplayRecords == IF online THEN Broadcast(Live) ELSE UNCHANGED peer

ProcessSyncRequest ==
    \E p \in requests :
        /\ Unlocked
        /\ requests' = requests \ {p}
        /\ ReplayRecords
        /\ UNCHANGED <<localVars, table, responses, acked, budget>>

\* The digest as it is, also in the middle of a change.
SendHeartbeat ==
    /\ online
    /\ Listening # {} /\ \A p \in Peer : peer[p].beats = << >>
    /\ peer' = [p \in Peer |-> IF p \in Listening THEN [peer[p] EXCEPT !.beats = <<digest>>] ELSE peer[p]]
    /\ UNCHANGED <<localVars, table, requests, responses, acked, budget>>

\* A heartbeat or discovery response of a peer puts it into the owner's table.
AddPeer ==
    \E p \in Listening \ table :
        /\ online
        /\ table' = table \cup {p}
        /\ UNCHANGED <<localVars, peer, requests, responses, acked, budget>>

\* A peer whose heartbeats stopped leaves the owner's table.
RemovePeer ==
    \E p \in table \ Listening :
        /\ DropPeer(p)
        /\ table' = table \ {p}
        /\ UNCHANGED <<peer, requests, responses, acked, budget>>

\* An orderly stop keeps the records; a power loss does not. Either way the owner forgets the network.
OwnerLeaves ==
    /\ Spend("outages")
    /\ LeaveOnline \/ (online /\ Reboot)
    /\ table' = {} /\ requests' = {} /\ responses' = {}
    /\ acked' = [t \in Type |-> {}]
    /\ UNCHANGED peer

\* The owner claims its ID again. A peer that still has it in its table reports RESTARTED, unless
\* the peer missed the claim. Discovery takes longer than the peers need to drain their queues.
OwnerReturns ==
    /\ EnterOnline
    /\ \A p \in Peer : peer[p].rx = << >> /\ peer[p].beats = << >>
    /\ \/ /\ peer' = [p \in Peer |-> OnRestarted(peer[p])]
          /\ UNCHANGED budget
       \/ /\ "claim" \in Lossy /\ Spend("losses")
          /\ \E missed \in Peer : peer' = [p \in Peer |-> IF p = missed THEN [peer[p] EXCEPT !.suspect = @ \/ peer[p].known]
                                                       ELSE OnRestarted(peer[p])]
    /\ UNCHANGED <<table, requests, responses, acked>>

-----------------------------------------------------------------------------
(* The peers *)

\* Mutant: a source that is not in the table is acknowledged too.
MutantAcknowledgesUnknown(p) ==
    /\ peer[p].rx # << >>
    /\ LET m == Head(peer[p].rx)
           s == [peer[p] EXCEPT !.rx = Tail(@)]
       IN /\ peer' = [peer EXCEPT ![p] = IF s.online /\ s.known THEN ApplyRecord(s, m) ELSE s]
          /\ responses' = responses \cup {<<p, m.version>>}
    /\ UNCHANGED <<localVars, table, requests, acked, budget>>

\* The response names the version only.
SendResponse(p, m) == IF online THEN responses \cup {<<p, m.version>>} ELSE responses

\* A source that is not in the table gets no acknowledgement; a duplicate does.
ProcessStateChangeFrame(p) ==
    /\ peer[p].rx # << >>
    /\ LET m == Head(peer[p].rx)
           s == [peer[p] EXCEPT !.rx = Tail(@)]
       IN IF s.online /\ s.known
          THEN /\ peer' = [peer EXCEPT ![p] = ApplyRecord(s, m)]
               /\ responses' = SendResponse(p, m)
          ELSE peer' = [peer EXCEPT ![p] = s] /\ UNCHANGED responses
    /\ UNCHANGED <<localVars, table, requests, acked, budget>>

\* A heartbeat of a source in the table: a mismatch sends a request unless the last one is too recent.
ProcessHeartbeat(p) ==
    /\ peer[p].beats # << >>
    /\ LET s == peer[p]
           beat == Head(s.beats)
           asks == s.known /\ DigestDiffers(s, beat) /\ ~s.limited
       IN /\ peer' = [peer EXCEPT ![p] = [IF s.known THEN OnHeartbeat(s, beat) ELSE s
                                          EXCEPT !.beats = << >>, !.limited = @ \/ asks]]
          /\ requests' = IF asks /\ online THEN requests \cup {p} ELSE requests
    /\ UNCHANGED <<localVars, table, responses, acked, budget>>

\* Half a heartbeat interval (1.5 s) after the last request, which is more than a request, its replay
\* and the work queue of the peer take.
RateLimitExpires(p) ==
    /\ peer[p].limited
    /\ p \notin requests /\ peer[p].rx = << >>
    /\ peer' = [peer EXCEPT ![p].limited = FALSE]
    /\ UNCHANGED <<localVars, table, requests, responses, acked, budget>>

\* The owner enters the table of the peer (JOINED).
OwnerJoined(p) ==
    /\ online /\ peer[p].online /\ ~peer[p].known
    /\ peer' = [peer EXCEPT ![p].known = TRUE]
    /\ UNCHANGED <<localVars, table, requests, responses, acked, budget>>

\* The owner's heartbeats stopped for the heartbeat timeout.
OwnerLeft(p) ==
    /\ ~online /\ peer[p].known
    /\ peer' = [peer EXCEPT ![p] = OnLeft(@)]
    /\ UNCHANGED <<localVars, table, requests, responses, acked, budget>>

\* A peer that becomes ONLINE asks everybody for their records. Its discovery and claim take longer
\* than the responses of its earlier session are on their way.
PeerJoins(p) ==
    /\ ~peer[p].online
    /\ \A response \in responses : response[1] # p
    /\ peer' = [peer EXCEPT ![p].online = TRUE]
    /\ requests' = IF online THEN requests \cup {p} ELSE requests
    /\ acked' = [t \in Type |-> acked[t] \ {p}]
    /\ UNCHANGED <<localVars, table, responses, budget>>

PeerLeaves(p) ==
    /\ peer[p].online
    /\ Spend("outages")
    /\ peer' = [peer EXCEPT ![p] = Offline]
    /\ requests' = requests \ {p}
    /\ UNCHANGED <<localVars, table, responses, acked>>

\* A frame is lost.
Loss ==
    /\ Spend("losses")
    /\ \/ /\ "notification" \in Lossy
          /\ \E p \in Peer : peer[p].rx # << >> /\ peer' = [peer EXCEPT ![p].rx = Tail(@)]
          /\ UNCHANGED <<requests, responses>>
       \/ /\ "request" \in Lossy
          /\ \E p \in requests : requests' = requests \ {p}
          /\ UNCHANGED <<peer, responses>>
       \/ /\ "response" \in Lossy
          /\ \E response \in responses : responses' = responses \ {response}
          /\ UNCHANGED <<peer, requests>>
    /\ UNCHANGED <<localVars, table, acked>>

-----------------------------------------------------------------------------

Init ==
    /\ LocalInit
    /\ peer = [p \in Peer |-> Offline]
    /\ table = {} /\ requests = {} /\ responses = {}
    /\ acked = [t \in Type |-> {}]
    /\ budget \in Scenario

\* The owner's work queue, apart from its heartbeat.
OwnerWork == Refresh \/ SendChanges \/ ReceiveResponse \/ ProcessSyncRequest

\* What the network service tells the units about each other.
NetworkNews ==
    AddPeer \/ RemovePeer \/ OwnerReturns \/ \E p \in Peer : OwnerJoined(p) \/ OwnerLeft(p) \/ PeerJoins(p)

Next ==
    \/ Change
    \/ OwnerWork \/ SendHeartbeat
    \/ NetworkNews
    \/ \E p \in Peer : ProcessStateChangeFrame(p) \/ ProcessHeartbeat(p) \/ RateLimitExpires(p)
    \/ OwnerLeaves \/ \E p \in Peer : PeerLeaves(p)
    \/ Loss

\* The work queues, the timers and the network service run on; the application need not change
\* anything, and nobody has to leave.
Fairness ==
    /\ WF_vars(OwnerWork) /\ WF_vars(SendHeartbeat) /\ WF_vars(NetworkNews)
    /\ \A p \in Peer :
          WF_vars(ProcessStateChangeFrame(p)) /\ WF_vars(ProcessHeartbeat(p)) /\ WF_vars(RateLimitExpires(p))

Spec == Init /\ [][Next]_vars
FairSpec == Spec /\ Fairness

-----------------------------------------------------------------------------
(* Properties *)

Holds(p, t) == t \in DOMAIN peer[p].copies /\ peer[p].copies[t].version = records[t].version
                                           /\ peer[p].copies[t].data = records[t].data

\* A peer that acknowledged the current version of a record holds it, and none of a withdrawn one:
\* the response of ProcessStateChangeFrame() is sent for duplicates and outdated frames too, so the
\* owner stops resending on the strength of state it cannot see. The exceptions are the peers that a
\* digest check has to repair: those that were out of room, and those that missed a restart.
AcknowledgedMeansHeld ==
    \A t \in Type : \A p \in {p \in acked[t] \cap Listening : ~peer[p].suspect} :
        /\ t \in Live => Holds(p, t)
        /\ t \in Withdrawn => t \notin DOMAIN peer[p].copies

UpToDate(p) == DigestOf(peer[p].copies) = Covered /\ StaleTypes(peer[p].copies) = {}

Converges == <>[](\A p \in Peer : UpToDate(p))

\* Every peer that never ran out of room ends up with exactly the owner's records, none of them stale,
\* whatever was lost and whoever restarted or joined late: what notifications, resends and RESTARTED
\* events miss, OnHeartbeat() and the replay repair.
StateConverges == [](\A p \in Peer : ~peer[p].overflowed) => Converges

\* A peer with room for all records the owner ever has at a time ends up with them: the digest check is
\* only skipped for records that would exceed the receiver's capacity.
RoomSuffices == [](Cardinality(Live) <= budget.room) => Converges

\* Once the owner stops changing its records, notifications, responses and sync requests die out:
\* no peer asks for replays forever, also when the records do not fit.
TrafficEnds ==
    <>[](requests = {} /\ responses = {} /\ \A p \in Peer : peer[p].rx = << >>)
=============================================================================
