----------------------------- MODULE MCCdmpState -----------------------------
(***************************************************************************)
(* CdmpState with one peer, two state types and few changes.               *)
(***************************************************************************)
EXTENDS CdmpState

\* A peer with room for everything that loses one thing while somebody restarts, and a peer with
\* room for one of two records.
MCState == {[room |-> 2, changes |-> 2, losses |-> 1, outages |-> 1],
            [room |-> 1, changes |-> 2, losses |-> 0, outages |-> 0]}

\* One record at a time, for a peer with room for one.
MCOneByOne == {[room |-> 1, changes |-> 3, losses |-> 1, outages |-> 0]}
=============================================================================
