------------------------- MODULE CdmpCommands_proof -------------------------
(***************************************************************************)
(* Proofs about the transactions over CDMP: for every number of IDs, every *)
(* set of peers and codes and every timeout, each transaction is called    *)
(* back once, a unit has its timer exactly while it is online, and, as     *)
(* long as no frame is more than one transaction late, an answer completes *)
(* the transaction it was given to.                                        *)
(***************************************************************************)
EXTENDS CdmpCommands, Integers, FiniteSetTheorems, WellFoundedInduction, TLAPS

Ids == 1..IdCount

-----------------------------------------------------------------------------
(* The timer: Stop() takes it away for good, though a pass under way may   *)
(* have scheduled the next one just before.                                *)
TimerInv ==
  /\ clock \in Nat \ {0} /\ timer \in Nat /\ pass \in Nat
  /\ timing \in BOOLEAN /\ stopping \in {"no", "cancel", "wait"}
  /\ stopping # "no" => ~timing
  /\ stopping = "wait" => timer = 0
  /\ TimedWhileOnline

(* The transaction t is pending under one ID, or was called back once. *)
Accounted(t, p, n) ==
  \/ n = 1 /\ \A i \in DOMAIN p: p[i].transaction # t
  \/ n = 0 /\ \E i \in DOMAIN p: \A j \in DOMAIN p: p[j].transaction = t <=> j = i

(* What holds until every ID has been pending at once. *)
Transactions ==
  /\ started \in 0..MaxTransactions
  /\ nextId \in Ids /\ DOMAIN pending \subseteq Ids /\ nextId \notin DOMAIN pending
  /\ \A i \in DOMAIN pending: pending[i].transaction \in 1..started
  /\ DOMAIN called = 1..MaxTransactions
  /\ \A t \in 1..started: Accounted(t, pending, called[t])
  /\ \A t \in 1..MaxTransactions: t > started => called[t] = 0

Message == [kind: {"request", "response"}, id: Ids, code: Codes, device: Peers \cup {Broadcast},
            transaction: Nat]

(* What holds of the frames on the bus, when none is more than one         *)
(* transaction late: an ID is not taken again while an answer to it may    *)
(* still come.                                                             *)
Frames ==
  /\ ~misled
  /\ messages \subseteq Message
  /\ \A m \in messages:
       /\ m.transaction \in 1..started
       /\ m.transaction = started => m.id # nextId
       /\ m.id \in DOMAIN pending => pending[m.id].transaction = m.transaction

CallsInv == exhausted \in BOOLEAN /\ (exhausted \/ Transactions)

FramesInv == exhausted \/ Frames

-----------------------------------------------------------------------------
(* IDs *)

(* Every nonempty set of naturals has a least element. *)
LEMMA LeastNatural ==
  ASSUME NEW T, T \subseteq Nat, T # {}
  PROVE  \E x \in T: \A y \in T: x <= y
<1>1. PICK x \in T: \A y \in T: ~(<<y, x>> \in OpToRel(<, Nat))
  BY WFMin, NatLessThanWellFounded
<1>2. \A y \in T: ~(y < x)
  BY <1>1 DEF OpToRel
<1> QED BY <1>2

(* GetNextTransactionId(): the ID that will be handed out next is not      *)
(* pending and not the one being handed out, unless there is no other.     *)
LEMMA NextIdIsFree ==
  ASSUME nextId \in Ids, DOMAIN pending \subseteq Ids, DOMAIN pending \cup {nextId} # Ids
  PROVE  NextFreeId \in Ids /\ NextFreeId \notin DOMAIN pending \cup {nextId}
<1> DEFINE distance(i) == IF i > nextId THEN i - nextId ELSE i + IdCount - nextId
           free == Ids \ (DOMAIN pending \ {nextId})
           D == {distance(i): i \in free}
           best(i) == \A j \in free: distance(i) <= distance(j)
<1>1. IdCount \in Nat
  BY CommandsAssumption
<1>2. \A i \in Ids: distance(i) \in 1..IdCount
  BY <1>1 DEF Ids
<1>3. PICK k \in Ids: k \notin DOMAIN pending /\ k # nextId
  OBVIOUS
<1>4. k \in free /\ nextId \in free
  BY <1>3
<1>5. distance(nextId) = IdCount
  BY <1>1 DEF Ids
<1>6. distance(k) < IdCount
  BY <1>1, <1>3 DEF Ids
<1>7. \E i \in free: best(i)
  <2>1. D \subseteq Nat
    BY <1>1, <1>2
  <2>2. D # {}
    BY <1>4
  <2>3. PICK d \in D: \A e \in D: d <= e
    <3> HIDE DEF D
    <3> QED BY <2>1, <2>2, LeastNatural
  <2>4. PICK i \in free: d = distance(i)
    BY <2>3
  <2>5. best(i)
    BY <2>3, <2>4
  <2> QED BY <2>4, <2>5
<1>8. NextFreeId = CHOOSE i \in free: best(i)
  BY DEF NextFreeId, Ids
<1>9. NextFreeId \in free /\ best(NextFreeId)
  <2> HIDE DEF best, free
  <2> QED BY <1>7, <1>8
<1>10. distance(NextFreeId) <= distance(k)
  BY <1>4, <1>9
<1>11. NextFreeId # nextId
  <2> HIDE DEF distance
  <2> SUFFICES ASSUME NextFreeId = nextId PROVE FALSE
    OBVIOUS
  <2>1. IdCount <= distance(k)
    BY <1>5, <1>10
  <2>2. distance(k) \in 1..IdCount
    BY <1>2
  <2> QED BY <1>1, <1>6, <2>1, <2>2
<1> QED BY <1>9, <1>11

-----------------------------------------------------------------------------
(* Callbacks *)

(* A transaction that is accounted for is pending or was called back. *)
LEMMA AccountedIsOnce ==
  ASSUME NEW t, NEW n, Accounted(t, pending, n)
  PROVE  n + Cardinality({i \in DOMAIN pending: pending[i].transaction = t}) = 1
<1> DEFINE S == {i \in DOMAIN pending: pending[i].transaction = t}
<1>1. CASE n = 1 /\ \A i \in DOMAIN pending: pending[i].transaction # t
  <2>1. S = {}
    BY <1>1
  <2>2. Cardinality({}) = 0
    BY FS_EmptySet
  <2>3. Cardinality(S) = 0
    BY <2>1, <2>2
  <2> HIDE DEF S
  <2>4. n + Cardinality(S) = 1
    BY <1>1, <2>3
  <2> QED BY <2>4 DEF S
<1>2. CASE n = 0 /\ \E i \in DOMAIN pending: \A j \in DOMAIN pending: pending[j].transaction = t <=> j = i
  <2>1. PICK i \in DOMAIN pending: \A j \in DOMAIN pending: pending[j].transaction = t <=> j = i
    BY <1>2
  <2>2. S = {i}
    BY <2>1
  <2>3. Cardinality({i}) = 1
    BY FS_Singleton
  <2>4. Cardinality(S) = 1
    BY <2>2, <2>3
  <2> HIDE DEF S
  <2>5. n + Cardinality(S) = 1
    BY <1>2, <2>4
  <2> QED BY <2>5 DEF S
<1> QED BY <1>1, <1>2 DEF Accounted

(* How many of the callbacks called for a set of IDs are those of t. *)
Calls(ids, t) == Cardinality({i \in ids: pending[i].transaction = t})

(* A callback that is called takes its transaction from the pending ones,  *)
(* so that none is lost and none is called again.                          *)
LEMMA CallingBackAccounts ==
  ASSUME Transactions, NEW ids \in SUBSET DOMAIN pending,
         called' = Call(ids), DOMAIN pending' = DOMAIN pending \ ids,
         \A i \in DOMAIN pending': pending'[i] = pending[i],
         UNCHANGED <<nextId, started>>
  PROVE  Transactions'
<1>1. /\ DOMAIN called' = 1..MaxTransactions
      /\ \A t \in 1..MaxTransactions: called'[t] = called[t] + Calls(ids, t)
  BY DEF Call, Calls, Transactions
<1>2. \A t: (\A i \in ids: pending[i].transaction # t) => Calls(ids, t) = 0
  <2> SUFFICES ASSUME NEW t, \A i \in ids: pending[i].transaction # t PROVE Calls(ids, t) = 0
    OBVIOUS
  <2>1. {i \in ids: pending[i].transaction = t} = {}
    OBVIOUS
  <2>2. Cardinality({}) = 0
    BY FS_EmptySet
  <2> QED BY <2>1, <2>2 DEF Calls
<1>3. ASSUME NEW t \in 1..started PROVE Accounted(t, pending', called'[t])
  <2>1. t \in 1..MaxTransactions /\ Accounted(t, pending, called[t])
    BY CommandsAssumption DEF Transactions
  <2>2. CASE called[t] = 1 /\ \A i \in DOMAIN pending: pending[i].transaction # t
    <3>1. Calls(ids, t) = 0
      BY <1>2, <2>2
    <3>2. called'[t] = 1
      BY <1>1, <2>1, <2>2, <3>1
    <3> QED BY <2>2, <3>2 DEF Accounted
  <2>3. ASSUME called[t] = 0, NEW i \in DOMAIN pending,
               \A j \in DOMAIN pending: pending[j].transaction = t <=> j = i
        PROVE  Accounted(t, pending', called'[t])
    <3>1. CASE i \in ids
      <4>1. {j \in ids: pending[j].transaction = t} = {i}
        BY <2>3, <3>1
      <4>2. Cardinality({i}) = 1
        BY FS_Singleton
      <4>3. Calls(ids, t) = 1
        BY <4>1, <4>2 DEF Calls
      <4>4. called'[t] = 1
        BY <1>1, <2>1, <2>3, <4>3
      <4>5. \A j \in DOMAIN pending': pending'[j].transaction # t
        BY <2>3, <3>1
      <4> QED BY <4>4, <4>5 DEF Accounted
    <3>2. CASE i \notin ids
      <4>1. Calls(ids, t) = 0
        BY <1>2, <2>3, <3>2
      <4>2. called'[t] = 0
        BY <1>1, <2>1, <2>3, <4>1
      <4>3. i \in DOMAIN pending' /\ \A j \in DOMAIN pending': pending'[j].transaction = t <=> j = i
        BY <2>3, <3>2
      <4> QED BY <4>2, <4>3 DEF Accounted
    <3> QED BY <3>1, <3>2
  <2> QED BY <2>1, <2>2, <2>3 DEF Accounted
<1>4. ASSUME NEW t \in 1..MaxTransactions, t > started PROVE called'[t] = 0
  <2>1. \A i \in ids: pending[i].transaction # t
    BY <1>4, CommandsAssumption DEF Transactions
  <2>2. Calls(ids, t) = 0
    BY <1>2, <2>1
  <2> QED BY <1>1, <1>4, <2>2 DEF Transactions
<1> QED BY <1>1, <1>3, <1>4 DEF Transactions

(* A transaction that starts takes an ID that is free, and looks for the   *)
(* next.                                                                   *)
LEMMA StartingAccounts ==
  ASSUME TimerInv, Transactions, NEW target, NEW code, SendCommand(target, code), ~exhausted'
  PROVE  /\ Transactions' /\ nextId' # nextId /\ started' = started + 1
         /\ nextId \in DOMAIN pending' /\ pending'[nextId].transaction = started + 1
         /\ DOMAIN pending \subseteq DOMAIN pending'
         /\ \A i \in DOMAIN pending': i # nextId => i \in DOMAIN pending /\ pending'[i] = pending[i]
<1> DEFINE t == started + 1
           tx == [transaction |-> t, target |-> target, code |-> code, start |-> clock]
<1>1. /\ started < MaxTransactions /\ started' = t /\ nextId' = NextFreeId /\ called' = called
      /\ pending' = [i \in DOMAIN pending \cup {nextId} |-> IF i = nextId THEN tx ELSE pending[i]]
      /\ DOMAIN pending \cup {nextId} # Ids
  BY DEF SendCommand, Ids
<1>2. /\ DOMAIN pending' = DOMAIN pending \cup {nextId}
      /\ pending'[nextId].transaction = t
      /\ \A i \in DOMAIN pending: i # nextId => pending'[i] = pending[i]
  BY <1>1
<1>3. nextId \notin DOMAIN pending /\ nextId' \in Ids /\ nextId' \notin DOMAIN pending \cup {nextId}
  BY <1>1, NextIdIsFree DEF Transactions
<1>4. started \in Nat /\ t \in 1..MaxTransactions
  BY <1>1, CommandsAssumption DEF Transactions
<1>5. \A i \in DOMAIN pending': pending'[i].transaction \in 1..t
  BY <1>2, <1>4 DEF Transactions
<1>6. ASSUME NEW u \in 1..t PROVE Accounted(u, pending', called'[u])
  <2>1. CASE u = t
    <3>1. called'[u] = 0
      BY <1>1, <1>4, <2>1 DEF Transactions
    <3>2. \A j \in DOMAIN pending': pending'[j].transaction = u <=> j = nextId
      BY <1>2, <1>3, <1>4, <2>1 DEF Transactions
    <3> QED BY <1>2, <3>1, <3>2 DEF Accounted
  <2>2. CASE u # t
    <3>1. u \in 1..started /\ called'[u] = called[u]
      BY <1>1, <1>4, <2>2
    <3>2. Accounted(u, pending, called[u])
      BY <3>1 DEF Transactions
    <3>3. \A j \in DOMAIN pending': pending'[j].transaction = u => j # nextId
      BY <1>2, <2>2
    <3> QED BY <1>2, <1>3, <2>2, <3>1, <3>2, <3>3 DEF Accounted
  <2> QED BY <2>1, <2>2
<1>7. \A u \in 1..MaxTransactions: u > t => called'[u] = 0
  BY <1>1, <1>4, CommandsAssumption DEF Transactions
<1>8. Transactions'
  <2>1. started' \in 0..MaxTransactions
    BY <1>1, <1>4, CommandsAssumption
  <2>2. DOMAIN pending' \subseteq Ids /\ nextId' \notin DOMAIN pending'
    BY <1>2, <1>3 DEF Transactions
  <2>3. DOMAIN called' = 1..MaxTransactions
    BY <1>1 DEF Transactions
  <2>4. \A u \in 1..started': Accounted(u, pending', called'[u])
    BY <1>1, <1>6
  <2> HIDE DEF t
  <2> QED BY <1>1, <1>3, <1>5, <1>7, <2>1, <2>2, <2>3, <2>4 DEF Transactions
<1> QED BY <1>1, <1>2, <1>3, <1>8

-----------------------------------------------------------------------------
(* The timer *)

(* A unit that comes up has neither transactions nor a timer. *)
LEMMA InitiallySafe == CommandsInit => TimerInv /\ CallsInv /\ FramesInv
<1> SUFFICES ASSUME CommandsInit PROVE TimerInv /\ CallsInv /\ FramesInv
  OBVIOUS
<1>1. TimerInv
  <2>1. clock = 1 /\ timer = 0 /\ pass = 0 /\ timing = FALSE /\ stopping = "no"
    BY DEF CommandsInit
  <2>2. TimedWhileOnline
    BY <2>1 DEF TimedWhileOnline
  <2>3. clock \in Nat \ {0} /\ timer \in Nat /\ pass \in Nat
    BY <2>1
  <2>4. timing \in BOOLEAN /\ stopping \in {"no", "cancel", "wait"}
    BY <2>1
  <2> QED BY <2>1, <2>2, <2>3, <2>4, Zenon DEF TimerInv
<1>2. DOMAIN pending = {} /\ started = 0 /\ nextId = 1 /\ messages = {}
      /\ called = [t \in 1..MaxTransactions |-> 0] /\ exhausted = FALSE /\ misled = FALSE
  BY DEF CommandsInit
<1>3. Transactions
  BY <1>2, CommandsAssumption DEF Transactions, Ids
<1>4. Frames
  BY <1>2 DEF Frames
<1> QED BY <1>1, <1>2, <1>3, <1>4 DEF CallsInv, FramesInv

(* Passes, the network status and the clock keep the timer as it should be. *)
LEMMA TimerStep == TimerInv /\ [CommandsNext]_commandsVars => TimerInv'
<1> SUFFICES ASSUME TimerInv, [CommandsNext]_commandsVars PROVE TimerInv'
  OBVIOUS
<1> USE DEF TimerInv, TimedWhileOnline
<1>1. CASE UNCHANGED commandsVars
  BY <1>1 DEF commandsVars, timeoutVars
<1>2. CASE \E target \in Peers \cup {Broadcast}, code \in Codes: SendCommand(target, code)
  BY <1>2 DEF SendCommand, timeoutVars
<1>3. CASE \E m \in messages: CompleteTransaction(m) \/ Lose(m) \/ \E d \in Peers: Respond(m, d)
  <2>1. UNCHANGED timeoutVars /\ UNCHANGED clock
    BY <1>3 DEF CompleteTransaction, Lose, Respond
  <2> QED BY <2>1 DEF timeoutVars
<1>4. CASE BeginPass
  <2>1. TransactionTimeout \div 2 \in Nat
    BY CommandsAssumption
  <2>2. clock + TransactionTimeout \div 2 \in Nat \ {0}
    BY <2>1
  <2>3. CASE timing
    <3>1. timer' = clock + TransactionTimeout \div 2 /\ pass' = clock
      BY <1>4, <2>3 DEF BeginPass, Reschedules
    <3> QED BY <1>4, <2>2, <2>3, <3>1 DEF BeginPass
  <2>4. CASE ~timing
    BY <1>4, <2>4 DEF BeginPass
  <2> QED BY <2>3, <2>4
<1>5. CASE EndPass
  BY <1>5 DEF EndPass, Reschedules
<1>6. CASE \E i \in DOMAIN pending: CleanupExpiredTransaction(i)
  BY <1>6 DEF CleanupExpiredTransaction, timeoutVars
<1>7. CASE GoesOnline
  BY <1>7 DEF GoesOnline
<1>8. CASE StopTiming
  BY <1>8 DEF StopTiming
<1>9. CASE CancelTimer
  BY <1>9 DEF CancelTimer
<1>10. CASE CancelPending
  BY <1>10 DEF CancelPending
<1>11. CASE ClockTicks
  BY <1>11 DEF ClockTicks, timeoutVars
<1> QED BY <1>1, <1>2, <1>3, <1>4, <1>5, <1>6, <1>7, <1>8, <1>9, <1>10, <1>11 DEF CommandsNext

-----------------------------------------------------------------------------
(* Transactions *)

(* The steps that call callbacks: the IDs whose transactions they end. *)
LEMMA CallbackSteps ==
  ASSUME \/ \E m \in messages: CompleteTransaction(m)
         \/ \E i \in DOMAIN pending: CleanupExpiredTransaction(i)
         \/ CancelPending
  PROVE  /\ UNCHANGED <<nextId, started, exhausted>>
         /\ \/ UNCHANGED <<pending, called>>
            \/ \E ids \in SUBSET DOMAIN pending:
                 /\ called' = Call(ids) /\ DOMAIN pending' = DOMAIN pending \ ids
                 /\ \A i \in DOMAIN pending': pending'[i] = pending[i]
<1>1. ASSUME NEW i \in DOMAIN pending, called' = Call({i}), pending' = Without({i})
      PROVE  \E ids \in SUBSET DOMAIN pending:
                 /\ called' = Call(ids) /\ DOMAIN pending' = DOMAIN pending \ ids
                 /\ \A j \in DOMAIN pending': pending'[j] = pending[j]
  <2>1. DOMAIN pending' = DOMAIN pending \ {i} /\ \A j \in DOMAIN pending': pending'[j] = pending[j]
    BY <1>1 DEF Without
  <2> QED BY <1>1, <2>1
<1>2. ASSUME NEW m \in messages, CompleteTransaction(m)
      PROVE  /\ UNCHANGED <<nextId, started, exhausted>>
             /\ \/ UNCHANGED <<pending, called>>
                \/ m.id \in DOMAIN pending /\ called' = Call({m.id}) /\ pending' = Without({m.id})
  BY <1>2 DEF CompleteTransaction
<1>3. ASSUME NEW i \in DOMAIN pending, CleanupExpiredTransaction(i)
      PROVE  UNCHANGED <<nextId, started, exhausted>> /\ called' = Call({i}) /\ pending' = Without({i})
  BY <1>3 DEF CleanupExpiredTransaction
<1>4. CASE CancelPending
  <2>1. UNCHANGED <<nextId, started, exhausted>> /\ called' = Call(DOMAIN pending) /\ pending' = <<>>
    BY <1>4 DEF CancelPending, IdAfterStop
  <2>2. DOMAIN pending' = DOMAIN pending \ DOMAIN pending
    BY <2>1
  <2>3. \A i \in DOMAIN pending': pending'[i] = pending[i]
    BY <2>2
  <2> QED BY <2>1, <2>2, <2>3
<1> QED BY <1>1, <1>2, <1>3, <1>4

(* Every transaction stays accounted for. *)
LEMMA CallsStep == TimerInv /\ CallsInv /\ [CommandsNext]_commandsVars => CallsInv'
<1> SUFFICES ASSUME TimerInv, CallsInv, [CommandsNext]_commandsVars PROVE CallsInv'
  OBVIOUS
<1>1. CASE \E target \in Peers \cup {Broadcast}, code \in Codes: SendCommand(target, code)
  <2>1. PICK target \in Peers \cup {Broadcast}, code \in Codes: SendCommand(target, code)
    BY <1>1
  <2>2. exhausted' \in BOOLEAN /\ (exhausted => exhausted')
    BY <2>1 DEF SendCommand, CallsInv
  <2> QED BY <2>1, <2>2, StartingAccounts DEF CallsInv
<1>2. CASE \/ \E m \in messages: CompleteTransaction(m)
           \/ \E i \in DOMAIN pending: CleanupExpiredTransaction(i)
           \/ CancelPending
  <2>1. UNCHANGED <<nextId, started, exhausted>>
    BY <1>2, CallbackSteps
  <2>2. CASE UNCHANGED <<pending, called>>
    BY <2>1, <2>2 DEF CallsInv, Transactions
  <2>3. ASSUME NEW ids \in SUBSET DOMAIN pending,
               called' = Call(ids), DOMAIN pending' = DOMAIN pending \ ids,
               \A i \in DOMAIN pending': pending'[i] = pending[i]
        PROVE  CallsInv'
    BY <2>1, <2>3, CallingBackAccounts DEF CallsInv
  <2> QED BY <1>2, <2>2, <2>3, CallbackSteps
<1>3. CASE UNCHANGED <<pending, nextId, started, called, exhausted>>
  BY <1>3 DEF CallsInv, Transactions
<1>4. ASSUME NEW m \in messages, Lose(m) \/ \E d \in Peers: Respond(m, d)
      PROVE  UNCHANGED <<pending, nextId, started, called, exhausted>>
  BY <1>4 DEF Lose, Respond, callVars
<1>5. CASE BeginPass \/ EndPass \/ GoesOnline \/ StopTiming \/ CancelTimer \/ ClockTicks
  BY <1>3, <1>5 DEF BeginPass, EndPass, GoesOnline, StopTiming, CancelTimer, ClockTicks, callVars
<1>6. CASE UNCHANGED commandsVars
  BY <1>3, <1>6 DEF commandsVars, callVars
<1> QED BY <1>1, <1>2, <1>3, <1>4, <1>5, <1>6 DEF CommandsNext

-----------------------------------------------------------------------------
(* Frames *)

(* A transaction starts while a frame of the one before it, and of none    *)
(* earlier, may be on its way.                                             *)
LEMMA StartingKeepsFrames ==
  ASSUME MaxAge <= 1, TimerInv, Transactions, Frames,
         NEW target \in Peers \cup {Broadcast}, NEW code \in Codes, SendCommand(target, code),
         ~exhausted'
  PROVE  Frames'
<1> DEFINE n == [kind |-> "request", id |-> nextId, code |-> code, device |-> target,
                 transaction |-> started + 1]
<1>1. /\ messages' = messages \cup {n} /\ misled' = misled
      /\ \A m \in messages: (started + 1) - m.transaction <= MaxAge
  BY DEF SendCommand
<1>2. started \in Nat /\ nextId \in Ids
  BY CommandsAssumption DEF Transactions
<1>3. n \in Message
  BY <1>2 DEF Message
<1>4. n.transaction = started + 1 /\ n.id = nextId
  OBVIOUS
<1> HIDE DEF n
<1>5. \A m \in messages: m.transaction = started
  <2> SUFFICES ASSUME NEW m \in messages PROVE m.transaction = started
    OBVIOUS
  <2>1. m.transaction \in 1..started /\ (started + 1) - m.transaction <= MaxAge
    BY <1>1 DEF Frames
  <2> QED BY <1>2, <2>1, CommandsAssumption
<1>6. ASSUME NEW m \in messages'
      PROVE  /\ m.transaction \in 1..started'
             /\ m.transaction = started' => m.id # nextId'
             /\ m.id \in DOMAIN pending' => pending'[m.id].transaction = m.transaction
  <2>1. CASE m = n
    BY <1>2, <1>4, <2>1, StartingAccounts
  <2>2. CASE m \in messages
    <3>1. m.transaction = started /\ m.id # nextId /\ m.transaction \in 1..started
      BY <1>5, <2>2 DEF Frames
    <3>2. m.id \in DOMAIN pending' => m.id \in DOMAIN pending /\ pending'[m.id] = pending[m.id]
      BY <3>1, StartingAccounts
    <3>3. started' = started + 1
      BY StartingAccounts
    <3>4. m.id \in DOMAIN pending' => pending'[m.id].transaction = m.transaction
      BY <2>2, <3>2 DEF Frames
    <3> QED BY <1>2, <3>1, <3>3, <3>4
  <2> QED BY <1>1, <2>1, <2>2
<1> QED BY <1>1, <1>3, <1>6 DEF Frames

(* Frames that are answered, lost or taken are what they were. *)
LEMMA FramesThinOut ==
  ASSUME Frames, UNCHANGED <<nextId, started, misled>>,
         messages' \subseteq Message,
         \A m \in messages': \E o \in messages: m.id = o.id /\ m.transaction = o.transaction,
         DOMAIN pending' \subseteq DOMAIN pending,
         \A i \in DOMAIN pending': pending'[i] = pending[i]
  PROVE  Frames'
BY DEF Frames

(* An answer finds the transaction it was given to, or none. *)
LEMMA FramesStep ==
  ASSUME MaxAge <= 1, TimerInv, CallsInv, FramesInv, [CommandsNext]_commandsVars
  PROVE  FramesInv'
<1>1. CASE \E target \in Peers \cup {Broadcast}, code \in Codes: SendCommand(target, code)
  <2>1. PICK target \in Peers \cup {Broadcast}, code \in Codes: SendCommand(target, code)
    BY <1>1
  <2>2. exhausted' \in BOOLEAN /\ (exhausted => exhausted')
    BY <2>1 DEF SendCommand, CallsInv
  <2> QED BY <2>1, <2>2, StartingKeepsFrames DEF CallsInv, FramesInv
<1>2. ASSUME NEW m \in messages, CompleteTransaction(m)
      PROVE  FramesInv'
  <2>1. /\ UNCHANGED <<nextId, started, exhausted>> /\ messages' = messages \ {m}
        /\ \/ UNCHANGED <<pending, misled>>
           \/ /\ m.id \in DOMAIN pending /\ pending' = Without({m.id})
              /\ misled' = (misled \/ m.transaction # pending[m.id].transaction)
    BY <1>2 DEF CompleteTransaction
  <2>2. CASE ~exhausted
    <3>1. Frames
      BY <2>2 DEF FramesInv
    <3>2. ~misled'
      BY <2>1, <3>1 DEF Frames
    <3>3. DOMAIN pending' \subseteq DOMAIN pending /\ \A i \in DOMAIN pending': pending'[i] = pending[i]
      BY <2>1 DEF Without
    <3> QED BY <2>1, <3>1, <3>2, <3>3 DEF Frames, FramesInv
  <2> QED BY <2>1, <2>2 DEF FramesInv
<1>3. ASSUME NEW m \in messages, NEW d \in Peers, Respond(m, d)
      PROVE  FramesInv'
  <2> DEFINE r == [m EXCEPT !.kind = "response", !.device = d]
  <2>1. UNCHANGED <<nextId, started, exhausted, pending, misled>> /\ messages' \subseteq messages \cup {r}
    BY <1>3 DEF Respond, callVars
  <2>2. CASE ~exhausted
    <3>1. Frames /\ m \in Message
      BY <2>2 DEF FramesInv, Frames
    <3> DEFINE q == [m EXCEPT !.kind = "response"]
    <3>2. q.id = m.id /\ q.transaction = m.transaction /\ q \in Message
      BY <3>1 DEF Message
    <3>3. r.id = m.id /\ r.transaction = m.transaction /\ r \in Message
      <4>1. r = [q EXCEPT !.device = d]
        OBVIOUS
      <4> HIDE DEF q, r
      <4> QED BY <3>2, <4>1 DEF Message
    <3> HIDE DEF r
    <3>4. messages' \subseteq Message
      BY <2>1, <3>1, <3>3 DEF Frames
    <3>5. \A n \in messages': \E o \in messages: n.id = o.id /\ n.transaction = o.transaction
      BY <2>1, <3>3
    <3> QED BY <2>1, <3>1, <3>4, <3>5, FramesThinOut DEF FramesInv
  <2> QED BY <2>1, <2>2 DEF FramesInv
<1>4. ASSUME NEW m \in messages, Lose(m)
      PROVE  FramesInv'
  <2>1. UNCHANGED <<nextId, started, exhausted, pending, misled>> /\ messages' \subseteq messages
    BY <1>4 DEF Lose, callVars
  <2> QED BY <2>1 DEF FramesInv, Frames
<1>5. CASE (\E i \in DOMAIN pending: CleanupExpiredTransaction(i)) \/ CancelPending
  <2>1. UNCHANGED <<nextId, started, exhausted, misled, messages>>
    BY <1>5 DEF CleanupExpiredTransaction, CancelPending, IdAfterStop
  <2>2. DOMAIN pending' \subseteq DOMAIN pending /\ \A i \in DOMAIN pending': pending'[i] = pending[i]
    <3>1. pending' = <<>> \/ \E i \in DOMAIN pending: pending' = Without({i})
      BY <1>5 DEF CleanupExpiredTransaction, CancelPending
    <3>2. CASE pending' = <<>>
      BY <3>2
    <3>3. CASE \E i \in DOMAIN pending: pending' = Without({i})
      BY <3>3 DEF Without
    <3> QED BY <3>1, <3>2, <3>3
  <2> QED BY <2>1, <2>2 DEF FramesInv, Frames
<1>6. CASE BeginPass \/ EndPass \/ GoesOnline \/ StopTiming \/ CancelTimer \/ ClockTicks
  <2>1. UNCHANGED <<nextId, started, exhausted, pending, misled, messages>>
    BY <1>6 DEF BeginPass, EndPass, GoesOnline, StopTiming, CancelTimer, ClockTicks, callVars
  <2> QED BY <2>1 DEF FramesInv, Frames
<1>7. CASE UNCHANGED commandsVars
  <2>1. UNCHANGED <<nextId, started, exhausted, pending, misled, messages>>
    BY <1>7 DEF commandsVars, callVars
  <2> QED BY <2>1 DEF FramesInv, Frames
<1> QED BY <1>1, <1>2, <1>3, <1>4, <1>5, <1>6, <1>7 DEF CommandsNext

-----------------------------------------------------------------------------
(* A unit calls every transaction back once, whichever of the answer, the  *)
(* timeout and the cancellation comes first, and has its timer exactly     *)
(* while it is online (CompleteTransaction, CleanupExpiredTransactions,    *)
(* Stop), however late the frames are.                                     *)
THEOREM CalledBackAndTimed == CommandsSpec => [](CalledBackOnce /\ TimedWhileOnline)
<1>1. CommandsInit => TimerInv /\ CallsInv
  BY InitiallySafe
<1>2. TimerInv /\ CallsInv /\ [CommandsNext]_commandsVars => (TimerInv /\ CallsInv)'
  BY TimerStep, CallsStep
<1>3. TimerInv /\ CallsInv => CalledBackOnce /\ TimedWhileOnline
  BY AccountedIsOnce DEF TimerInv, CallsInv, Transactions, CalledBackOnce
<1> QED BY <1>1, <1>2, <1>3, PTL DEF CommandsSpec

(* As long as a frame is at most one transaction late, an answer also      *)
(* completes its own transaction: GetNextTransactionId() gives an ID that  *)
(* was just used to the next transaction only when all others are pending. *)
THEOREM TransactionsAreSafe ==
  ASSUME MaxAge <= 1
  PROVE  CommandsSpec => []TransactionsSafe
<1>1. CommandsInit => TimerInv /\ CallsInv /\ FramesInv
  BY InitiallySafe
<1>2. TimerInv /\ CallsInv /\ FramesInv /\ [CommandsNext]_commandsVars
        => (TimerInv /\ CallsInv /\ FramesInv)'
  BY TimerStep, CallsStep, FramesStep
<1>3. TimerInv /\ CallsInv => CalledBackOnce /\ TimedWhileOnline
  BY AccountedIsOnce DEF TimerInv, CallsInv, Transactions, CalledBackOnce
<1>4. TimerInv /\ CallsInv /\ FramesInv => TransactionsSafe
  BY <1>3 DEF FramesInv, Frames, AnswersItsOwn, TransactionsSafe
<1> QED BY <1>1, <1>2, <1>4, PTL DEF CommandsSpec
=============================================================================
