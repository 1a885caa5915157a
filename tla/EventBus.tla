------------------------------ MODULE EventBus ------------------------------
(***************************************************************************)
(* The event bus: channels with a bounded ring of events, one worker that  *)
(* drains the channels of its bus, subscribers whose handlers run outside  *)
(* the subscriber lock, and the guard that lets an owner go while a        *)
(* dispatch that already took its handler is on its way.                   *)
(*                                                                         *)
(* Events of a channel are numbered in the order of their PublishAsync().  *)
(* Channels are registered before anyone publishes to them.                *)
(***************************************************************************)
EXTENDS Naturals, Sequences, FiniteSets

CONSTANTS Channels,       \* a sequence: the slots of the bus
          Capacity,         \* max_queued_events_ of a channel
          Subscribers,      \* subscribers, each with an owner and a guard
          ChannelOf,        \* the channel each subscribes to
          MaxPublished      \* bound: events of a channel

ASSUME EventBusAssumption ==
  /\ Capacity \in Nat \ {0} /\ MaxPublished \in Nat
  /\ Channels \in Seq({Channels[i] : i \in 1..Len(Channels)})
  /\ ChannelOf \in [Subscribers -> {Channels[i] : i \in 1..Len(Channels)}]

VARIABLES ring,        \* event_queue_: the slots
          head,        \* queue_head_
          count,       \* queue_count_
          waking,      \* a publisher between the queue and Wake()
          work,        \* the bus's task: "idle", "queued", "running", "requeued"
          channelScan, \* ProcessEventWork(): the slot it is at, and dispatched
          subscribed,  \* subscriptions in the channels
          owner,       \* an owner: "attached", "detached" or "gone"
          snapshot,    \* handlers each dispatching thread copied and has to call
          body,        \* the handler body a thread runs inside its guard
          published,   \* ghost: events published on a channel
          drained,     \* ghost: the last event of a channel that was drained
          passed       \* ghost: events of others drained while a channel waited

busRingVars  == <<ring, head, count, published>>
workVars  == <<work, channelScan, drained, passed>>
ownerVars == <<subscribed, owner>>
eventBusVars == <<busRingVars, waking, workVars, ownerVars, snapshot, body>>

Names   == {Channels[i] : i \in 1..Len(Channels)}
Threads == {"bus", "sync"}
Nobody  == "nobody"

EventBusInit ==
  /\ ring = [c \in Names |-> [slot \in 0..Capacity - 1 |-> 0]]
  /\ head = [c \in Names |-> 0] /\ count = [c \in Names |-> 0] /\ waking = {}
  /\ work = "idle" /\ channelScan = [at |-> 0, dispatched |-> FALSE]
  /\ subscribed = {} /\ owner = [s \in Subscribers |-> "attached"]
  /\ snapshot = [t \in Threads |-> {}] /\ body = [t \in Threads |-> Nobody]
  /\ published = [c \in Names |-> 0] /\ drained = [c \in Names |-> 0]
  /\ passed = [c \in Names |-> 0]

-----------------------------------------------------------------------------
(* Mutant: a full ring takes no new event. *)
MutantShedNewest(r, h, n, e) ==
  IF n = Capacity THEN [ring |-> r, head |-> h, count |-> n]
  ELSE [ring |-> [r EXCEPT ![(h + n) % Capacity] = e], head |-> h, count |-> n + 1]

(* PublishAsync() sheds the oldest event of a full ring. *)
Queued(r, h, n, e) ==
  LET shed == n = Capacity
      h2 == IF shed THEN (h + 1) % Capacity ELSE h
      n2 == IF shed THEN n - 1 ELSE n
  IN  [ring |-> [r EXCEPT ![(h2 + n2) % Capacity] = e], head |-> h2, count |-> n2 + 1]

PublishAsync(c) ==
  LET e == published[c] + 1
      q == Queued(ring[c], head[c], count[c], e)
  IN  /\ published[c] < MaxPublished /\ c \notin waking
      /\ ring' = [ring EXCEPT ![c] = q.ring]
      /\ head' = [head EXCEPT ![c] = q.head]
      /\ count' = [count EXCEPT ![c] = q.count]
      /\ published' = [published EXCEPT ![c] = e]
      /\ waking' = waking \cup {c}
      /\ UNCHANGED <<workVars, ownerVars, snapshot, body>>

(* Mutant: a bus that is at work is not woken. *)
MutantWoken == IF work = "idle" THEN "queued" ELSE work

(* Reschedule(): a running task is queued again. *)
Woken == IF work = "idle" THEN "queued" ELSE IF work = "running" THEN "requeued" ELSE work

Wake(c) ==
  /\ c \in waking
  /\ waking' = waking \ {c}
  /\ work' = Woken
  /\ UNCHANGED <<busRingVars, channelScan, drained, passed, ownerVars, snapshot, body>>

-----------------------------------------------------------------------------
\* ProcessEventWork(): rounds over the channels, one event of each at a time.

BeginWork ==
  /\ work = "queued"
  /\ work' = "running" /\ channelScan' = [at |-> 1, dispatched |-> FALSE]
  /\ UNCHANGED <<busRingVars, waking, drained, passed, ownerVars, snapshot, body>>

(* Dispatch() copies the handlers that match, under the subscriber lock. *)
Matching(c) == {s \in subscribed : ChannelOf[s] = c}

(* Mutant: a channel is drained before the next one has its turn. *)
MutantStay(c) == IF count[c] > 1 THEN channelScan.at ELSE channelScan.at + 1

NextSlot(c) == channelScan.at + 1

(* DrainOne() of the channel the round is at. *)
DrainOne ==
  LET c == Channels[channelScan.at] IN
  /\ channelScan.at \in 1..Len(Channels)
  /\ snapshot["bus"] = {} /\ body["bus"] = Nobody
  /\ IF count[c] = 0
     THEN /\ channelScan' = [channelScan EXCEPT !.at = @ + 1]
          /\ UNCHANGED <<head, count, snapshot, drained, passed>>
     ELSE /\ head' = [head EXCEPT ![c] = (@ + 1) % Capacity]
          /\ count' = [count EXCEPT ![c] = @ - 1]
          /\ snapshot' = [snapshot EXCEPT !["bus"] = Matching(c)]
          /\ channelScan' = [at |-> NextSlot(c), dispatched |-> TRUE]
          /\ drained' = [drained EXCEPT ![c] = ring[c][head[c]]]
          /\ passed' = [d \in Names |-> IF d = c \/ count[d] = 0 THEN 0 ELSE passed[d] + 1]
  /\ UNCHANGED <<ring, published, waking, work, ownerVars, body>>

(* Mutant: a task that was queued again stays as it is. *)
MutantNotAgain == IF work = "requeued" THEN work ELSE "idle"

(* The task ends; queued again meanwhile, it runs once more. *)
AfterRun == IF work = "requeued" THEN "queued" ELSE "idle"

(* Another round as long as the last one dispatched something. *)
EndRound ==
  /\ channelScan.at = Len(Channels) + 1 /\ snapshot["bus"] = {} /\ body["bus"] = Nobody
  /\ IF channelScan.dispatched THEN channelScan' = [at |-> 1, dispatched |-> FALSE] /\ UNCHANGED work
     ELSE /\ channelScan' = [channelScan EXCEPT !.at = 0]
          /\ work' = AfterRun
  /\ UNCHANGED <<busRingVars, waking, drained, passed, ownerVars, snapshot, body>>

(* Publish(), on the caller's thread, beside the bus. *)
Publish(c) ==
  /\ snapshot["sync"] = {} /\ body["sync"] = Nobody /\ Matching(c) # {}
  /\ snapshot' = [snapshot EXCEPT !["sync"] = Matching(c)]
  /\ UNCHANGED <<busRingVars, waking, workVars, ownerVars, body>>

-----------------------------------------------------------------------------
\* Handlers and their owners: Subscribe(), DispatchGuard, ~ScopedSubscription().

Subscribe(s) ==
  /\ s \notin subscribed /\ owner[s] = "attached"
  /\ subscribed' = subscribed \cup {s}
  /\ UNCHANGED <<busRingVars, waking, workVars, owner, snapshot, body>>

(* Mutant: the handler trusts its snapshot. *)
MutantRuns(s) == TRUE

(* DispatchGuard::Dispatch() runs the body of an attached owner only. *)
Runs(s) == owner[s] = "attached"

EnterBody(t, s) ==
  /\ s \in snapshot[t] /\ body[t] = Nobody /\ \A u \in Threads: body[u] # s
  /\ snapshot' = [snapshot EXCEPT ![t] = @ \ {s}]
  /\ body' = [body EXCEPT ![t] = IF Runs(s) THEN s ELSE Nobody]
  /\ UNCHANGED <<busRingVars, waking, workVars, ownerVars>>

(* A body that throws ends as one that returns. *)
LeaveBody(t) ==
  /\ body[t] # Nobody
  /\ body' = [body EXCEPT ![t] = Nobody]
  /\ UNCHANGED <<busRingVars, waking, workVars, ownerVars, snapshot>>

(* Detach() waits for a body on another thread; then the owner goes. *)
Detach(s) ==
  /\ owner[s] = "attached" /\ \A t \in Threads: body[t] # s
  /\ owner' = [owner EXCEPT ![s] = "detached"]
  /\ UNCHANGED <<busRingVars, waking, workVars, subscribed, snapshot, body>>

Unsubscribe(s) ==
  /\ owner[s] = "detached"
  /\ subscribed' = subscribed \ {s} /\ owner' = [owner EXCEPT ![s] = "gone"]
  /\ UNCHANGED <<busRingVars, waking, workVars, snapshot, body>>

(* Another owner is built in its place, once no dispatch holds a handler of the old one. *)
Attach(s) ==
  /\ owner[s] = "gone" /\ \A t \in Threads: s \notin snapshot[t]
  /\ owner' = [owner EXCEPT ![s] = "attached"]
  /\ UNCHANGED <<busRingVars, waking, workVars, subscribed, snapshot, body>>

EventBusNext ==
  \/ \E c \in Names: PublishAsync(c) \/ Wake(c) \/ Publish(c)
  \/ BeginWork \/ DrainOne \/ EndRound
  \/ \E s \in Subscribers: Attach(s) \/ Subscribe(s) \/ Detach(s) \/ Unsubscribe(s)
  \/ \E t \in Threads: LeaveBody(t) \/ \E s \in Subscribers: EnterBody(t, s)

EventBusSpec == EventBusInit /\ [][EventBusNext]_eventBusVars

-----------------------------------------------------------------------------
(* What a full channel loses is the oldest: the events in the ring are the *)
(* newest ones, in order, and what was drained came before them.           *)
KeepsNewest ==
  \A c \in Names:
    /\ \A k \in 0..count[c] - 1:
         ring[c][(head[c] + k) % Capacity] = published[c] - count[c] + 1 + k
    /\ drained[c] <= published[c] - count[c]

(* A handler's body never runs once its owner is gone, whichever thread    *)
(* took the handler before it unsubscribed.                                *)
NoBodyAfterDetach == \A t \in Threads: body[t] # Nobody => owner[body[t]] = "attached"

(* No event is stranded: an idle bus that nobody is about to wake has      *)
(* nothing queued.                                                         *)
IdleMeansDrained == work = "idle" /\ waking = {} => \A c \in Names: count[c] = 0

(* A busy channel does not starve another one on the bus. *)
RoundRobin == \A c \in Names: passed[c] < Len(Channels)

(* The event bus: a full channel loses its oldest event and nothing else,  *)
(* an idle bus has drained every channel, no channel starves another, and  *)
(* no handler body runs once its owner detached.                           *)
EventBusSafe == KeepsNewest /\ IdleMeansDrained /\ RoundRobin /\ NoBodyAfterDetach

(* Every event is drained or shed by a newer one. *)
EventsAreDrained == \A c \in Names: []<>(count[c] = 0)
=============================================================================
