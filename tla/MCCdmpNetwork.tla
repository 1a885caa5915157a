--------------------------- MODULE MCCdmpNetwork ---------------------------
(***************************************************************************)
(* Instances of CdmpNetwork. Units are numbered, and the number is the     *)
(* UID; times are scaled down with their order kept (a heartbeat timeout   *)
(* is three intervals, validation runs between one and three intervals).   *)
(***************************************************************************)
EXTENDS CdmpNetwork

MCUid == [u \in Unit |-> u]
MCBackoffs == <<2, 4, 10>>

EveryFrame == {"DISCOVERY_REQUEST", "DISCOVERY_RESPONSE", "ID_CLAIM", "ID_CLAIM_RESPONSE", "HEARTBEAT"}

\* Each of these units starts once, and nothing goes wrong.
Calm(units) == [foreign |-> {}, ids |-> 3, starts |-> [u \in Unit |-> IF u \in units THEN 1 ELSE 0],
                outages |-> 0, losses |-> 0, lossy |-> {}]
Restarting(units) == [Calm(units) EXCEPT !.starts = [u \in Unit |-> IF u \in units THEN 2 ELSE 0], !.outages = 1]

\* Two units, one of which restarts; a frame of any type missed; a unit unplugged for three
\* heartbeats; two protocol versions; one ID for two units; three units.
MCNetwork == {Restarting({1, 2}),
              [Calm({1, 2}) EXCEPT !.losses = 1, !.lossy = EveryFrame],
              [Calm({1, 2}) EXCEPT !.losses = 3, !.lossy = {"HEARTBEAT"}],
              [Calm({1, 2}) EXCEPT !.foreign = {2}],
              [Calm({1, 2}) EXCEPT !.ids = 1],
              Calm({1, 2, 3})}

MCCalm == {Calm(Unit)}
MCRestarting == {Restarting({1, 2})}
MCOneOutage == {[Calm(Unit) EXCEPT !.outages = 1]}

\* A unit only starts while no other unit is between its start and ONLINE.
OneJoinsAtATime ==
    \A u, v \in Unit : u # v /\ unit'[u].status \in {"INIT", "CLAIMING"} => unit'[v].status \notin {"INIT", "CLAIMING"}

\* Three units join one after the other: the middle UID first, the lowest next, the highest last.
JoinInTurn ==
    bus'.starts[3] > 0 \/ unit'[3].running =>
        /\ unit'[1].running => unit'[2].status = "ONLINE"
        /\ unit'[3].running => unit'[1].status = "ONLINE"
=============================================================================
