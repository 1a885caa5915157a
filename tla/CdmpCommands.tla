---------------------------- MODULE CdmpCommands ----------------------------
(***************************************************************************)
(* Commands over CDMP: a unit numbers its transactions, sends a request,   *)
(* and calls the transaction's callback with the answer, with a timeout,   *)
(* or with a cancellation when it leaves the network.                      *)
(*                                                                         *)
(* Transactions start on any thread, complete and expire on the CDMP work  *)
(* queue, and are cancelled by the thread that changes the status.  Every  *)
(* section under transactions_lock_ is one step; the callbacks it owes are *)
(* called by the same step.                                                *)
(***************************************************************************)
EXTENDS Naturals, FiniteSets

CONSTANTS IdCount,           \* transaction IDs: 1..IdCount
          Peers,             \* other units
          Broadcast,         \* DEVICE_ID_BROADCAST
          TransactionTimeout,\* CONFIG_EERIE_LEAP_CDMP_CMD_TRANSACTION_TIMEOUT_MS
          Codes,             \* command codes used: "status", "service", "user"
          MaxAge,            \* bound: transactions started while a message is on its way
          MaxTransactions,   \* bound: transactions started
          MaxClock           \* bound: time

ASSUME CommandsAssumption ==
  /\ IdCount \in Nat \ {0, 1} /\ TransactionTimeout \in Nat \ {0, 1}
  /\ MaxAge \in Nat /\ MaxTransactions \in Nat /\ MaxClock \in Nat

VARIABLES pending,     \* pending_transactions_, by ID
          nextId,      \* next_transaction_id_
          timing,      \* is_timeout_task_running_
          timer,       \* the timeout task: when it is due, 0 for not at all
          pass,        \* its pass: the time it took, 0 for none
          stopping,    \* Stop(): where it is
          messages,    \* requests and responses on the bus
          clock,
          started,     \* ghost: transactions started
          called,      \* ghost: callbacks of each
          exhausted,   \* ghost: every ID was pending at once
          misled       \* ghost: a response completed another transaction

callVars     == <<started, called, exhausted, misled>>
timeoutVars  == <<timing, timer, pass, stopping>>
commandsVars == <<pending, nextId, timeoutVars, messages, clock, callVars>>

CommandsInit ==
  /\ pending = <<>> /\ nextId = 1
  /\ timing = FALSE /\ timer = 0 /\ pass = 0 /\ stopping = "no"
  /\ messages = {} /\ clock = 1
  /\ started = 0 /\ called = [t \in 1..MaxTransactions |-> 0]
  /\ exhausted = FALSE /\ misled = FALSE

Call(ids) == [t \in DOMAIN called |->
                called[t] + Cardinality({i \in ids: pending[i].transaction = t})]
Without(ids) == [i \in DOMAIN pending \ ids |-> pending[i]]

-----------------------------------------------------------------------------
After(id) == IF id = IdCount THEN 1 ELSE id + 1

(* Mutant: a pending ID is taken again. *)
MutantAfter == After(nextId)

(* GetNextTransactionId() hands out nextId, and looks for the one after it, *)
(* around to nextId itself.                                                *)
NextFreeId ==
  LET distance(i) == IF i > nextId THEN i - nextId ELSE i + IdCount - nextId
      free == (1..IdCount) \ (DOMAIN pending \ {nextId})
  IN  CHOOSE i \in free: \A j \in free: distance(i) <= distance(j)

SendCommand(target, code) ==
  LET t == started + 1
      tx == [transaction |-> t, target |-> target, code |-> code, start |-> clock]
  IN  /\ started < MaxTransactions /\ \A m \in messages: t - m.transaction <= MaxAge
      /\ started' = t
      /\ pending' = [i \in DOMAIN pending \cup {nextId} |-> IF i = nextId THEN tx ELSE pending[i]]
      /\ nextId' = NextFreeId
      /\ exhausted' = (exhausted \/ DOMAIN pending \cup {nextId} = 1..IdCount)
      /\ messages' = messages \cup {[kind |-> "request", id |-> nextId, code |-> code,
                                     device |-> target, transaction |-> t]}
      /\ UNCHANGED <<timeoutVars, clock, called, misled>>

-----------------------------------------------------------------------------
\* A peer: ProcessRequestFrame().

(* A status request is answered whatever the status; a service command is  *)
(* answered to one unit; a user command without a handler is refused to    *)
(* one unit and ignored by the others.                                     *)
Answers(code, directed, online, handled) ==
  \/ code = "status"
  \/ code = "service" /\ online /\ handled /\ directed
  \/ code = "user" /\ online /\ (handled \/ directed)

Respond(m, d) ==
  /\ m.kind = "request" /\ m.device \in {d, Broadcast}
  /\ \E online, handled \in BOOLEAN: Answers(m.code, m.device = d, online, handled)
  /\ messages' = ((IF m.device = d THEN messages \ {m} ELSE messages)
                    \cup {[m EXCEPT !.kind = "response", !.device = d]})
  /\ UNCHANGED <<pending, nextId, timeoutVars, clock, callVars>>

(* A frame is lost, or a unit that does not answer ignores it. *)
Lose(m) ==
  /\ messages' = messages \ {m}
  /\ UNCHANGED <<pending, nextId, timeoutVars, clock, callVars>>

-----------------------------------------------------------------------------
IsResponseTo(tx, m) == m.code = tx.code /\ (tx.target = Broadcast \/ tx.target = m.device)

CompleteTransaction(m) ==
  /\ m.kind = "response" /\ pass = 0
  /\ messages' = messages \ {m}
  /\ IF m.id \in DOMAIN pending /\ IsResponseTo(pending[m.id], m)
     THEN /\ called' = Call({m.id}) /\ pending' = Without({m.id})
          /\ misled' = (misled \/ m.transaction # pending[m.id].transaction)
     ELSE UNCHANGED <<called, pending, misled>>
  /\ UNCHANGED <<nextId, timeoutVars, clock, started, exhausted>>

(* ProcessTransactionTimeouts() schedules its next run under the lock,     *)
(* before it looks for expired transactions.                               *)
MutantReschedules(end) == IF end THEN clock + TransactionTimeout \div 2 ELSE timer

Reschedules(end) == IF end THEN timer ELSE clock + TransactionTimeout \div 2

BeginPass ==
  /\ timer # 0 /\ timer <= clock /\ pass = 0
  /\ IF timing THEN timer' = Reschedules(FALSE) /\ pass' = clock
     ELSE timer' = 0 /\ UNCHANGED pass
  /\ UNCHANGED <<pending, nextId, timing, stopping, messages, clock, callVars>>

Expired == {i \in DOMAIN pending: pass - pending[i].start >= TransactionTimeout}

CleanupExpiredTransaction(i) ==
  /\ pass # 0 /\ i \in Expired
  /\ called' = Call({i}) /\ pending' = Without({i})
  /\ UNCHANGED <<nextId, timeoutVars, messages, clock, started, exhausted, misled>>

EndPass ==
  /\ pass # 0 /\ Expired = {}
  /\ pass' = 0 /\ timer' = Reschedules(TRUE)
  /\ UNCHANGED <<pending, nextId, timing, stopping, messages, clock, callVars>>

-----------------------------------------------------------------------------
\* OnDeviceStatusChanged().

GoesOnline ==
  /\ stopping = "no" /\ ~timing
  /\ timing' = TRUE /\ timer' = clock
  /\ UNCHANGED <<pending, nextId, pass, stopping, messages, clock, callVars>>

StopTiming ==
  /\ stopping = "no" /\ timing
  /\ timing' = FALSE /\ stopping' = "cancel"
  /\ UNCHANGED <<pending, nextId, timer, pass, messages, clock, callVars>>

(* Cancel() removes the timer, then waits for a pass. *)
CancelTimer ==
  /\ stopping = "cancel"
  /\ timer' = 0 /\ stopping' = "wait"
  /\ UNCHANGED <<pending, nextId, timing, pass, messages, clock, callVars>>

(* Mutant: a unit that leaves counts from 1 again. *)
MutantFromOne == 1

IdAfterStop == nextId

CancelPending ==
  /\ stopping = "wait" /\ pass = 0
  /\ called' = Call(DOMAIN pending) /\ pending' = <<>> /\ stopping' = "no"
  /\ nextId' = IdAfterStop
  /\ UNCHANGED <<timing, timer, pass, messages, clock, started, exhausted, misled>>

ClockTicks ==
  /\ clock < MaxClock /\ (timer = 0 \/ timer > clock)
  /\ clock' = clock + 1
  /\ UNCHANGED <<pending, nextId, timeoutVars, messages, callVars>>

CommandsNext ==
  \/ \E target \in Peers \cup {Broadcast}, code \in Codes: SendCommand(target, code)
  \/ \E m \in messages: CompleteTransaction(m) \/ Lose(m) \/ \E d \in Peers: Respond(m, d)
  \/ BeginPass \/ EndPass \/ \E i \in DOMAIN pending: CleanupExpiredTransaction(i)
  \/ GoesOnline \/ StopTiming \/ CancelTimer \/ CancelPending \/ ClockTicks

CommandsSpec == CommandsInit /\ [][CommandsNext]_commandsVars

-----------------------------------------------------------------------------
(* Every transaction is pending or its callback was called, once: by the   *)
(* answer, by the timeout or by the cancellation, whichever came first.    *)
(* Until all IDs have been pending at the same time: from then on the next *)
(* transaction takes the ID of a pending one.                              *)
CalledBackOnce ==
  exhausted \/ \A t \in 1..started:
    called[t] + Cardinality({i \in DOMAIN pending: pending[i].transaction = t}) = 1

(* A late answer never completes a later transaction, also when the unit    *)
(* left the network in between.                                            *)
AnswersItsOwn == exhausted \/ ~misled

(* A unit that has left the network has no timer running, whatever the     *)
(* pass that was under way did; one that is online has one.                *)
TimedWhileOnline ==
  stopping = "no" => (timer # 0 <=> timing)

(* CDMP transactions: each is called back once, with its own answer, and   *)
(* none waits online without a timeout.                                    *)
TransactionsSafe == CalledBackOnce /\ TimedWhileOnline /\ AnswersItsOwn
=============================================================================
