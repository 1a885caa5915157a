------------------------ MODULE Configurations_proof ------------------------
(***************************************************************************)
(* Proofs about configurations: for any clients, length and timeout, an    *)
(* upload is one client's, a session left behind ends, a read is of one    *)
(* configuration and BUSY is for others; for any configurations, what was  *)
(* answered is what the next boot finds and what is reported is true.      *)
(***************************************************************************)
EXTENDS Configurations, Integers, FiniteSetTheorems, TLAPS

-----------------------------------------------------------------------------
\* The SMP group.

Clients == Writers \cup {Local}

SessionRecord == [token: Nat, owner: Clients, data: Seq(Writers), age: 0..SessionTimeout]
WriterRecord == [next: Nat, token: Nat]
ReaderRecord == [next: Nat, data: Clients, mixed: BOOLEAN]
SnapshotRecord == [valid: BOOLEAN, data: Clients, age: 0..SessionTimeout]

GroupTypes ==
  /\ session \in SessionRecord /\ snapshot \in SnapshotRecord
  /\ idleTask \in 0..Never /\ inStore \in Clients
  /\ writer \in [Writers -> WriterRecord] /\ reader \in ReaderRecord

(* A request while it is handled: a client asks for nothing else meanwhile. *)
WriteSteps == {"first", "STAGE", "chunk", "APPLY"}
ReadSteps == {"SNAPSHOT", "read"}

Handled ==
  /\ request.at \in {"none"} \cup WriteSteps \cup ReadSteps
  /\ request.at \in WriteSteps =>
       /\ request = [at |-> request.at, client |-> request.client, off |-> request.off, token |-> request.token]
       /\ request.client \in Writers
       /\ request.off = writer[request.client].next /\ request.token = writer[request.client].token
       /\ request.at \in {"first", "STAGE"} => request.off = 0
  /\ request.at \in ReadSteps =>
       /\ request = [at |-> request.at, client |-> request.client, off |-> request.off]
       /\ request.off = reader.next
       /\ request.at = "SNAPSHOT" => request.off = 0

(* Who holds the session's token opened the session. *)
TokenIsOwners == \A c \in Writers: session.token # 0 /\ writer[c].token = session.token => session.owner = c

(* A session is empty only while its first chunk is handled. *)
FirstChunk == request.at = "chunk" /\ request.off = 0

Opening ==
  /\ FirstChunk /\ session.token # 0 => session.owner = request.client /\ session.data = <<>>
  /\ session.token # 0 /\ session.data = <<>> => FirstChunk

(* A client that got past the first chunk has the token. *)
OwnerKnows ==
  session.token # 0 /\ Len(session.data) >= 2 =>
    session.owner \in Writers /\ writer[session.owner].token = session.token

Watched ==
  /\ session.token # 0 /\ idleTask = Never => FirstChunk \/ request.at = "APPLY"
  /\ snapshot.valid /\ idleTask = Never => request.at = "read"

OneRead ==
  /\ reader.next # 0 /\ snapshot.valid => reader.data = snapshot.data
  /\ ~reader.mixed

GroupInv ==
  /\ GroupTypes /\ Handled /\ TokenIsOwners /\ NoMixedUpload /\ Opening /\ OwnerKnows
  /\ Watched /\ OneRead

-----------------------------------------------------------------------------
(* No data yet. *)
LEMMA EmptyData == <<>> \in Seq(Writers)
OBVIOUS

(* There is a token that nobody has: fewer are in use than there are. *)
LEMMA NewTokenIsNew ==
  ASSUME GroupTypes
  PROVE  /\ NewToken \in Nat /\ NewToken # 0 /\ NewToken # session.token
         /\ \A c \in Writers: writer[c].token # NewToken
<1> DEFINE held == {writer[c].token : c \in Writers}
           used == held \cup {session.token}
           n    == Cardinality(Writers)
<1>1. n \in Nat
  BY ConfigGroupAssumption, FS_CardinalityType
<1>2. IsFiniteSet(held) /\ Cardinality(held) \in Nat /\ Cardinality(held) <= n
  <2> DEFINE f == [c \in Writers |-> writer[c].token]
  <2>1. f \in Surjection(Writers, held)
    BY DEF Surjection
  <2> QED BY <2>1, ConfigGroupAssumption, FS_Surjection, FS_CardinalityType
<1>3. IsFiniteSet(used) /\ Cardinality(used) \in Nat /\ Cardinality(used) <= n + 1
  <2> HIDE DEF held, n
  <2>1. IsFiniteSet(used)
    BY <1>2, FS_AddElement
  <2>2. Cardinality(used) = IF session.token \in held THEN Cardinality(held) ELSE Cardinality(held) + 1
    BY <1>2, FS_AddElement
  <2> HIDE DEF used
  <2> QED BY <1>1, <1>2, <2>1, <2>2, FS_CardinalityType
<1>4. IsFiniteSet(1..(n + 2)) /\ Cardinality(1..(n + 2)) = n + 2
  <2> HIDE DEF n
  <2>1. 1 \in Int /\ n + 2 \in Int /\ ~(1 > n + 2) /\ (n + 2) - 1 + 1 = n + 2
    BY <1>1
  <2> QED BY <2>1, FS_Interval
<1>5. ~(1..(n + 2) \subseteq used)
  <2> HIDE DEF used, n
  <2> QED BY <1>1, <1>3, <1>4, FS_Subset
<1>6. PICK t \in 1..(n + 2): t \notin used
  BY <1>5
<1>7. t # session.token /\ \A c \in Writers: writer[c].token # t
  BY <1>6
<1>8. NewToken \in 1..(n + 2) /\ NewToken # session.token /\ \A c \in Writers: writer[c].token # NewToken
  BY <1>6, <1>7 DEF NewToken
<1> HIDE DEF n
<1> QED BY <1>1, <1>8

-----------------------------------------------------------------------------
(* What a client keeps of an answer. *)
LEMMA AnsweredType ==
  ASSUME GroupTypes, NEW c \in Writers, NEW next \in Nat, NEW token \in Nat, AnswerWriter(c, next, token)
  PROVE  writer' \in [Writers -> WriterRecord]
<1>1. [next |-> next, token |-> token] \in WriterRecord
  BY DEF WriterRecord
<1> QED BY <1>1 DEF GroupTypes, AnswerWriter

(* The fields of the session, the snapshot and the clients. *)
LEMMA TypesOfFields ==
  ASSUME GroupTypes
  PROVE  /\ session.token \in Nat /\ session.owner \in Clients /\ session.data \in Seq(Writers)
         /\ session.age \in 0..SessionTimeout /\ Len(session.data) \in Nat
         /\ snapshot.valid \in BOOLEAN /\ snapshot.data \in Clients /\ snapshot.age \in 0..SessionTimeout
         /\ reader.next \in Nat /\ reader.data \in Clients
         /\ \A c \in Writers: writer[c].next \in Nat /\ writer[c].token \in Nat
BY DEF GroupTypes, SessionRecord, SnapshotRecord, WriterRecord, ReaderRecord

(* An answer gives its client a token, and leaves the others theirs. *)
LEMMA AnsweredTokens ==
  ASSUME GroupTypes, NEW c \in Writers, NEW next, NEW token, AnswerWriter(c, next, token)
  PROVE  /\ request' = NoRequest
         /\ \A d \in Writers: writer'[d].token = writer[d].token \/ (d = c /\ writer'[d].token = token)
BY DEF GroupTypes, AnswerWriter

(* The request that is handled is the one its client has outstanding. *)
LEMMA HandledWrite ==
  ASSUME GroupTypes, Handled, request.at \in WriteSteps
  PROVE  request.client \in Writers /\ request.off \in Nat /\ request.token \in Nat
BY TypesOfFields DEF Handled

(* A session that ended. *)
LEMMA NoSessionType == NoSession \in SessionRecord
BY ConfigGroupAssumption, EmptyData DEF NoSession, SessionRecord, Clients

(* A snapshot that was dropped. *)
LEMMA NoSnapshotType == NoSnapshot \in SnapshotRecord
BY ConfigGroupAssumption DEF NoSnapshot, SnapshotRecord, Clients

(* Activity, and time. *)
LEMMA WithAge ==
  ASSUME NEW n \in 0..SessionTimeout
  PROVE  /\ \A r \in SessionRecord: [r EXCEPT !.age = n] \in SessionRecord
         /\ \A r \in SnapshotRecord: [r EXCEPT !.age = n] \in SnapshotRecord
BY DEF SessionRecord, SnapshotRecord

(* A chunk that was taken. *)
LEMMA WithData ==
  ASSUME NEW r \in SessionRecord, NEW d \in Seq(Writers)
  PROVE  [r EXCEPT !.data = d, !.age = 0] \in SessionRecord
<1>1. 0 \in 0..SessionTimeout
  BY ConfigGroupAssumption
<1> QED BY <1>1 DEF SessionRecord

(* What the reader keeps of an answer. *)
LEMMA ReaderType ==
  ASSUME NEW n \in Nat, NEW d \in Clients, NEW m \in BOOLEAN
  PROVE  [next |-> n, data |-> d, mixed |-> m] \in ReaderRecord
BY DEF ReaderRecord

(* Before the first request. *)
LEMMA GroupInitially == ASSUME ConfigGroupInit PROVE GroupInv
<1> USE ConfigGroupAssumption, EmptyData DEF ConfigGroupInit, NoSession, NoSnapshot, NoRequest,
        Fresh0, NotReading, Never
<1>1. GroupTypes
  BY DEF SessionRecord, SnapshotRecord, WriterRecord, ReaderRecord, GroupTypes, Clients
<1>2. Handled
  BY DEF Handled, WriteSteps, ReadSteps
<1>3. TokenIsOwners /\ NoMixedUpload /\ Opening /\ OwnerKnows
  BY DEF TokenIsOwners, NoMixedUpload, Opening, OwnerKnows
<1>4. Watched /\ OneRead
  BY DEF Watched, OneRead
<1> QED BY <1>1, <1>2, <1>3, <1>4 DEF GroupInv

(* A client's request: its next chunk, with its token. *)
LEMMA SendWriteKeeps == ASSUME GroupInv, NEW c \in Writers, SendWrite(c) PROVE GroupInv'
<1> USE ConfigGroupAssumption, EmptyData DEF GroupInv, SendWrite, Never
<1>1. GroupTypes'
  BY DEF SessionRecord, SnapshotRecord, WriterRecord, ReaderRecord, GroupTypes, Clients
<1>2. Handled'
  BY DEF SessionRecord, SnapshotRecord, WriterRecord, ReaderRecord, GroupTypes, Handled, WriteSteps,
         ReadSteps
<1>3. TokenIsOwners'
  BY DEF SessionRecord, SnapshotRecord, WriterRecord, ReaderRecord, GroupTypes, Handled,
         TokenIsOwners, Opening, FirstChunk, WriteSteps, ReadSteps
<1>4. NoMixedUpload'
  BY DEF SessionRecord, SnapshotRecord, WriterRecord, ReaderRecord, GroupTypes, Handled,
         TokenIsOwners, NoMixedUpload, Opening, FirstChunk, WriteSteps, ReadSteps
<1>5. Opening'
  BY DEF SessionRecord, SnapshotRecord, WriterRecord, ReaderRecord, GroupTypes, Handled, Opening,
         FirstChunk, WriteSteps, ReadSteps
<1>6. OwnerKnows'
  BY DEF SessionRecord, SnapshotRecord, WriterRecord, ReaderRecord, GroupTypes, Handled,
         TokenIsOwners, OwnerKnows, Opening, FirstChunk, WriteSteps, ReadSteps
<1>7. Watched'
  BY DEF SessionRecord, SnapshotRecord, WriterRecord, ReaderRecord, GroupTypes, Handled, Opening,
         Watched, FirstChunk, WriteSteps, ReadSteps
<1>8. OneRead'
  BY DEF SessionRecord, SnapshotRecord, WriterRecord, ReaderRecord, GroupTypes, Handled, OneRead,
         WriteSteps, ReadSteps
<1> QED BY <1>1, <1>2, <1>3, <1>4, <1>5, <1>6, <1>7, <1>8 DEF GroupInv

(* A client starts again. *)
LEMMA RestartWriteKeeps == ASSUME GroupInv, NEW c \in Writers, RestartWrite(c) PROVE GroupInv'
<1> USE ConfigGroupAssumption, EmptyData DEF GroupInv, RestartWrite, Never
<1>1. GroupTypes'
  BY DEF SessionRecord, SnapshotRecord, WriterRecord, ReaderRecord, GroupTypes, Clients
<1>2. Handled'
  BY DEF SessionRecord, SnapshotRecord, WriterRecord, ReaderRecord, GroupTypes, Handled, WriteSteps,
         ReadSteps
<1>3. TokenIsOwners'
  BY DEF SessionRecord, SnapshotRecord, WriterRecord, ReaderRecord, GroupTypes, Handled,
         TokenIsOwners, Opening, FirstChunk, WriteSteps, ReadSteps
<1>4. NoMixedUpload'
  BY DEF SessionRecord, SnapshotRecord, WriterRecord, ReaderRecord, GroupTypes, Handled,
         TokenIsOwners, NoMixedUpload, Opening, FirstChunk, WriteSteps, ReadSteps
<1>5. Opening'
  BY DEF SessionRecord, SnapshotRecord, WriterRecord, ReaderRecord, GroupTypes, Handled, Opening,
         FirstChunk, WriteSteps, ReadSteps
<1>6. OwnerKnows'
  BY DEF SessionRecord, SnapshotRecord, WriterRecord, ReaderRecord, GroupTypes, Handled,
         TokenIsOwners, OwnerKnows, Opening, FirstChunk, WriteSteps, ReadSteps
<1>7. Watched'
  BY DEF SessionRecord, SnapshotRecord, WriterRecord, ReaderRecord, GroupTypes, Handled, Opening,
         Watched, FirstChunk, WriteSteps, ReadSteps
<1>8. OneRead'
  BY DEF SessionRecord, SnapshotRecord, WriterRecord, ReaderRecord, GroupTypes, Handled, OneRead,
         WriteSteps, ReadSteps
<1> QED BY <1>1, <1>2, <1>3, <1>4, <1>5, <1>6, <1>7, <1>8 DEF GroupInv

(* HandleWrite(), first request: another client's session is open. *)
LEMMA FirstBusyKeeps == ASSUME GroupInv, FirstBusy PROVE GroupInv'
<1> USE ConfigGroupAssumption, EmptyData DEF GroupInv, FirstBusy, NoRequest, Never
<1>1. GroupTypes'
  BY DEF SessionRecord, SnapshotRecord, WriterRecord, ReaderRecord, GroupTypes, Clients
<1>2. Handled'
  BY DEF SessionRecord, SnapshotRecord, WriterRecord, ReaderRecord, GroupTypes, Handled, WriteSteps,
         ReadSteps
<1>3. TokenIsOwners'
  BY DEF SessionRecord, SnapshotRecord, WriterRecord, ReaderRecord, GroupTypes, Handled,
         TokenIsOwners, Opening, FirstChunk, WriteSteps, ReadSteps
<1>4. NoMixedUpload'
  BY DEF SessionRecord, SnapshotRecord, WriterRecord, ReaderRecord, GroupTypes, Handled,
         TokenIsOwners, NoMixedUpload, Opening, FirstChunk, WriteSteps, ReadSteps
<1>5. Opening'
  BY DEF SessionRecord, SnapshotRecord, WriterRecord, ReaderRecord, GroupTypes, Handled, Opening,
         FirstChunk, WriteSteps, ReadSteps
<1>6. OwnerKnows'
  BY DEF SessionRecord, SnapshotRecord, WriterRecord, ReaderRecord, GroupTypes, Handled,
         TokenIsOwners, OwnerKnows, Opening, FirstChunk, WriteSteps, ReadSteps
<1>7. Watched'
  BY DEF SessionRecord, SnapshotRecord, WriterRecord, ReaderRecord, GroupTypes, Handled, Opening,
         Watched, FirstChunk, WriteSteps, ReadSteps
<1>8. OneRead'
  BY DEF SessionRecord, SnapshotRecord, WriterRecord, ReaderRecord, GroupTypes, Handled, OneRead,
         WriteSteps, ReadSteps
<1> QED BY <1>1, <1>2, <1>3, <1>4, <1>5, <1>6, <1>7, <1>8 DEF GroupInv

(* HandleWrite(), first request: sent again. *)
LEMMA FirstRepeatedKeeps == ASSUME GroupInv, FirstRepeated PROVE GroupInv'
<1> USE ConfigGroupAssumption, EmptyData DEF GroupInv, FirstRepeated, IsOpen, IsRepeat, OnActivity,
        AnswerWriter, NoRequest, Never
<1>1. GroupTypes'
  <2>1. session' \in SessionRecord
    BY WithAge DEF GroupTypes
  <2>2. snapshot' \in SnapshotRecord
    BY DEF GroupTypes
  <2>3. idleTask' \in 0..Never
    BY DEF GroupTypes
  <2>4. inStore' \in Clients
    BY DEF GroupTypes
  <2>5. writer' \in [Writers -> WriterRecord]
    <3> HIDE DEF AnswerWriter
    <3>1. request.client \in Writers /\ session.token \in Nat
      BY HandledWrite, TypesOfFields DEF WriteSteps
    <3> QED BY <3>1, AnsweredType, TypesOfFields DEF GroupTypes
  <2>6. reader' \in ReaderRecord
    BY DEF GroupTypes
  <2> QED BY <2>1, <2>2, <2>3, <2>4, <2>5, <2>6 DEF GroupTypes
<1>2. Handled'
  BY DEF SessionRecord, SnapshotRecord, WriterRecord, ReaderRecord, GroupTypes, Handled, WriteSteps,
         ReadSteps
<1>3. TokenIsOwners'
  BY DEF SessionRecord, SnapshotRecord, WriterRecord, ReaderRecord, GroupTypes, Handled,
         TokenIsOwners, Opening, FirstChunk, WriteSteps, ReadSteps
<1>4. NoMixedUpload'
  BY DEF SessionRecord, SnapshotRecord, WriterRecord, ReaderRecord, GroupTypes, Handled,
         TokenIsOwners, NoMixedUpload, Opening, FirstChunk, WriteSteps, ReadSteps
<1>5. Opening'
  BY DEF SessionRecord, SnapshotRecord, WriterRecord, ReaderRecord, GroupTypes, Handled, Opening,
         FirstChunk, WriteSteps, ReadSteps
<1>6. OwnerKnows'
  BY DEF SessionRecord, SnapshotRecord, WriterRecord, ReaderRecord, GroupTypes, Handled,
         TokenIsOwners, OwnerKnows, Opening, FirstChunk, WriteSteps, ReadSteps
<1>7. Watched'
  BY DEF SessionRecord, SnapshotRecord, WriterRecord, ReaderRecord, GroupTypes, Handled, Opening,
         Watched, FirstChunk, WriteSteps, ReadSteps
<1>8. OneRead'
  BY DEF SessionRecord, SnapshotRecord, WriterRecord, ReaderRecord, GroupTypes, Handled, OneRead,
         WriteSteps, ReadSteps
<1> QED BY <1>1, <1>2, <1>3, <1>4, <1>5, <1>6, <1>7, <1>8 DEF GroupInv

(* HandleWrite(), first request: a STAGE job is submitted. *)
LEMMA FirstAcceptedKeeps == ASSUME GroupInv, FirstAccepted PROVE GroupInv'
<1> USE ConfigGroupAssumption, EmptyData DEF GroupInv, FirstAccepted, Never
<1>1. GroupTypes'
  BY DEF SessionRecord, SnapshotRecord, WriterRecord, ReaderRecord, GroupTypes, Clients
<1>2. Handled'
  BY DEF SessionRecord, SnapshotRecord, WriterRecord, ReaderRecord, GroupTypes, Handled, WriteSteps,
         ReadSteps
<1>3. TokenIsOwners'
  BY DEF SessionRecord, SnapshotRecord, WriterRecord, ReaderRecord, GroupTypes, Handled,
         TokenIsOwners, Opening, FirstChunk, WriteSteps, ReadSteps
<1>4. NoMixedUpload'
  BY DEF SessionRecord, SnapshotRecord, WriterRecord, ReaderRecord, GroupTypes, Handled,
         TokenIsOwners, NoMixedUpload, Opening, FirstChunk, WriteSteps, ReadSteps
<1>5. Opening'
  BY DEF SessionRecord, SnapshotRecord, WriterRecord, ReaderRecord, GroupTypes, Handled, Opening,
         FirstChunk, WriteSteps, ReadSteps
<1>6. OwnerKnows'
  BY DEF SessionRecord, SnapshotRecord, WriterRecord, ReaderRecord, GroupTypes, Handled,
         TokenIsOwners, OwnerKnows, Opening, FirstChunk, WriteSteps, ReadSteps
<1>7. Watched'
  BY DEF SessionRecord, SnapshotRecord, WriterRecord, ReaderRecord, GroupTypes, Handled, Opening,
         Watched, FirstChunk, WriteSteps, ReadSteps
<1>8. OneRead'
  BY DEF SessionRecord, SnapshotRecord, WriterRecord, ReaderRecord, GroupTypes, Handled, OneRead,
         WriteSteps, ReadSteps
<1> QED BY <1>1, <1>2, <1>3, <1>4, <1>5, <1>6, <1>7, <1>8 DEF GroupInv

(* The STAGE job: a new session, with a token nobody has. *)
LEMMA StageKeeps == ASSUME GroupInv, Stage PROVE GroupInv'
<1> USE ConfigGroupAssumption, EmptyData DEF GroupInv, Stage, AnswerWriter, NoRequest, NoSession,
        Never
<1>1. GroupTypes'
  <2>1. session' \in SessionRecord
    <3> HIDE DEF NoSession
    <3>1. request.client \in Clients
      BY HandledWrite DEF WriteSteps, Clients
    <3>2. [token |-> NewToken, owner |-> request.client, data |-> <<>>, age |-> 0] \in SessionRecord
      BY <3>1, NewTokenIsNew DEF SessionRecord
    <3> QED BY <3>2, NoSessionType
  <2>2. snapshot' \in SnapshotRecord
    BY DEF GroupTypes
  <2>3. idleTask' \in 0..Never
    BY DEF GroupTypes
  <2>4. inStore' \in Clients
    BY DEF GroupTypes
  <2>5. writer' \in [Writers -> WriterRecord]
    <3> HIDE DEF AnswerWriter
    <3>1. request.client \in Writers /\ 0 \in Nat
      BY HandledWrite, TypesOfFields DEF WriteSteps
    <3> QED BY <3>1, AnsweredType, TypesOfFields DEF GroupTypes
  <2>6. reader' \in ReaderRecord
    BY DEF GroupTypes
  <2> QED BY <2>1, <2>2, <2>3, <2>4, <2>5, <2>6 DEF GroupTypes
<1>2. Handled'
  <2>1. CASE request' = NoRequest
    BY <2>1 DEF Handled, WriteSteps, ReadSteps
  <2>2. CASE request' = [request EXCEPT !.at = "chunk"] /\ UNCHANGED writer
    BY <2>2 DEF Handled, WriteSteps, ReadSteps
  <2> QED BY <2>1, <2>2
<1>3. TokenIsOwners'
  BY NewTokenIsNew DEF SessionRecord, SnapshotRecord, WriterRecord, ReaderRecord, GroupTypes,
     Handled, TokenIsOwners, Opening, FirstChunk, WriteSteps, ReadSteps
<1>4. NoMixedUpload'
  BY NewTokenIsNew DEF SessionRecord, SnapshotRecord, WriterRecord, ReaderRecord, GroupTypes,
     Handled, TokenIsOwners, NoMixedUpload, Opening, FirstChunk, WriteSteps, ReadSteps
<1>5. Opening'
  BY SMTT(30), NewTokenIsNew DEF SessionRecord, SnapshotRecord, WriterRecord, ReaderRecord, GroupTypes,
     Handled, Opening, FirstChunk, WriteSteps, ReadSteps
<1>6. OwnerKnows'
  BY NewTokenIsNew DEF SessionRecord, SnapshotRecord, WriterRecord, ReaderRecord, GroupTypes,
     Handled, TokenIsOwners, OwnerKnows, Opening, FirstChunk, WriteSteps, ReadSteps
<1>7. Watched'
  BY NewTokenIsNew DEF SessionRecord, SnapshotRecord, WriterRecord, ReaderRecord, GroupTypes,
     Handled, Opening, Watched, FirstChunk, WriteSteps, ReadSteps
<1>8. OneRead'
  BY NewTokenIsNew DEF SessionRecord, SnapshotRecord, WriterRecord, ReaderRecord, GroupTypes,
     Handled, OneRead, WriteSteps, ReadSteps
<1> QED BY <1>1, <1>2, <1>3, <1>4, <1>5, <1>6, <1>7, <1>8 DEF GroupInv

(* BAD_TOKEN. *)
LEMMA ChunkRefusedKeeps == ASSUME GroupInv, ChunkRefused PROVE GroupInv'
<1> USE ConfigGroupAssumption, EmptyData DEF GroupInv, ChunkRefused, IsBadToken, AnswerWriter,
        NoRequest, NoSession, Never
<1>1. GroupTypes'
  BY SMTT(30) DEF SessionRecord, SnapshotRecord, WriterRecord, ReaderRecord, GroupTypes, Clients
<1>2. Handled'
  BY DEF SessionRecord, SnapshotRecord, WriterRecord, ReaderRecord, GroupTypes, Handled, WriteSteps,
         ReadSteps
<1>3. TokenIsOwners'
  <2> HIDE DEF AnswerWriter
  <2>1. request.client \in Writers
    BY HandledWrite DEF WriteSteps
  <2>2. \A d \in Writers: writer'[d].token = writer[d].token \/ writer'[d].token = 0
    BY <2>1, AnsweredTokens
  <2>3. session' = session \/ session'.token = 0
    OBVIOUS
  <2> QED BY <2>2, <2>3 DEF TokenIsOwners
<1>4. NoMixedUpload'
  BY DEF SessionRecord, SnapshotRecord, WriterRecord, ReaderRecord, GroupTypes, Handled,
         TokenIsOwners, NoMixedUpload, Opening, FirstChunk, WriteSteps, ReadSteps
<1>5. Opening'
  BY DEF SessionRecord, SnapshotRecord, WriterRecord, ReaderRecord, GroupTypes, Handled, Opening,
         FirstChunk, WriteSteps, ReadSteps
<1>6. OwnerKnows'
  BY DEF SessionRecord, SnapshotRecord, WriterRecord, ReaderRecord, GroupTypes, Handled,
         TokenIsOwners, OwnerKnows, Opening, FirstChunk, WriteSteps, ReadSteps
<1>7. Watched'
  BY DEF SessionRecord, SnapshotRecord, WriterRecord, ReaderRecord, GroupTypes, Handled, Opening,
         Watched, FirstChunk, WriteSteps, ReadSteps
<1>8. OneRead'
  BY DEF SessionRecord, SnapshotRecord, WriterRecord, ReaderRecord, GroupTypes, Handled, OneRead,
         WriteSteps, ReadSteps
<1> QED BY <1>1, <1>2, <1>3, <1>4, <1>5, <1>6, <1>7, <1>8 DEF GroupInv

(* A chunk at another offset. *)
LEMMA ChunkMisplacedKeeps == ASSUME GroupInv, ChunkMisplaced PROVE GroupInv'
<1> USE ConfigGroupAssumption, EmptyData DEF GroupInv, ChunkMisplaced, IsBadToken, AnswerWriter,
        NoRequest, Never
<1>1. GroupTypes'
  <2>1. session' \in SessionRecord
    BY DEF GroupTypes
  <2>2. snapshot' \in SnapshotRecord
    BY DEF GroupTypes
  <2>3. idleTask' \in 0..Never
    BY DEF GroupTypes
  <2>4. inStore' \in Clients
    BY DEF GroupTypes
  <2>5. writer' \in [Writers -> WriterRecord]
    <3> HIDE DEF AnswerWriter
    <3>1. request.client \in Writers /\ Len(session.data) \in Nat /\ request.token \in Nat
      BY HandledWrite, TypesOfFields DEF WriteSteps
    <3> QED BY <3>1, AnsweredType, TypesOfFields DEF GroupTypes
  <2>6. reader' \in ReaderRecord
    BY DEF GroupTypes
  <2> QED BY <2>1, <2>2, <2>3, <2>4, <2>5, <2>6 DEF GroupTypes
<1>2. Handled'
  BY DEF SessionRecord, SnapshotRecord, WriterRecord, ReaderRecord, GroupTypes, Handled, WriteSteps,
         ReadSteps
<1>3. TokenIsOwners'
  BY DEF SessionRecord, SnapshotRecord, WriterRecord, ReaderRecord, GroupTypes, Handled,
         TokenIsOwners, Opening, FirstChunk, WriteSteps, ReadSteps
<1>4. NoMixedUpload'
  BY DEF SessionRecord, SnapshotRecord, WriterRecord, ReaderRecord, GroupTypes, Handled,
         TokenIsOwners, NoMixedUpload, Opening, FirstChunk, WriteSteps, ReadSteps
<1>5. Opening'
  BY DEF SessionRecord, SnapshotRecord, WriterRecord, ReaderRecord, GroupTypes, Handled, Opening,
         FirstChunk, WriteSteps, ReadSteps
<1>6. OwnerKnows'
  <2> HIDE DEF AnswerWriter
  <2>1. request.client \in Writers /\ request.token = writer[request.client].token
    BY DEF Handled, WriteSteps
  <2>2. \A d \in Writers: writer'[d].token = writer[d].token
    BY <2>1, AnsweredTokens
  <2> QED BY <2>2 DEF OwnerKnows
<1>7. Watched'
  BY DEF SessionRecord, SnapshotRecord, WriterRecord, ReaderRecord, GroupTypes, Handled, Opening,
         Watched, FirstChunk, WriteSteps, ReadSteps
<1>8. OneRead'
  BY DEF SessionRecord, SnapshotRecord, WriterRecord, ReaderRecord, GroupTypes, Handled, OneRead,
         WriteSteps, ReadSteps
<1> QED BY <1>1, <1>2, <1>3, <1>4, <1>5, <1>6, <1>7, <1>8 DEF GroupInv

(* A chunk at its place: it is the owner's, by the token or as the first one. *)
LEMMA ChunkTakenKeeps == ASSUME GroupInv, ChunkTaken PROVE GroupInv'
<1> USE ConfigGroupAssumption, EmptyData DEF GroupInv, ChunkTaken, IsBadToken, OnActivity,
        AnswerWriter, NoRequest, Never
<1>1. GroupTypes'
  <2>1. session' \in SessionRecord
    <3>1. request.client \in Writers
      BY HandledWrite DEF WriteSteps
    <3>2. Append(session.data, request.client) \in Seq(Writers)
      BY <3>1, TypesOfFields
    <3> QED BY <3>2, WithData DEF GroupTypes
  <2>2. snapshot' \in SnapshotRecord
    BY DEF GroupTypes
  <2>3. idleTask' \in 0..Never
    BY DEF GroupTypes
  <2>4. inStore' \in Clients
    BY DEF GroupTypes
  <2>5. writer' \in [Writers -> WriterRecord]
    <3> HIDE DEF AnswerWriter
    <3>1. request.client \in Writers /\ Len(Append(session.data, request.client)) \in Nat /\ session.token \in Nat
      BY HandledWrite, TypesOfFields DEF WriteSteps
    <3> QED BY <3>1, AnsweredType, TypesOfFields DEF GroupTypes
  <2>6. reader' \in ReaderRecord
    BY DEF GroupTypes
  <2> QED BY <2>1, <2>2, <2>3, <2>4, <2>5, <2>6 DEF GroupTypes
<1>2. Handled'
  <2>1. CASE Len(Append(session.data, request.client)) = Length
    <3>1. request' = [request EXCEPT !.at = "APPLY"] /\ UNCHANGED <<writer, reader>>
      BY <2>1
    <3>2. request = [at |-> "chunk", client |-> request.client, off |-> request.off, token |-> request.token]
          /\ request.client \in Writers
          /\ request.off = writer[request.client].next /\ request.token = writer[request.client].token
      BY DEF Handled, WriteSteps
    <3>3. request' = [at |-> "APPLY", client |-> request.client, off |-> request.off, token |-> request.token]
      BY <3>1, <3>2
    <3> QED BY <3>1, <3>2, <3>3 DEF Handled, WriteSteps, ReadSteps
  <2>2. CASE Len(Append(session.data, request.client)) # Length
    <3>1. request' = NoRequest
      BY <2>2
    <3> QED BY <3>1 DEF Handled, WriteSteps, ReadSteps
  <2> QED BY <2>1, <2>2
<1>3. TokenIsOwners'
  BY DEF SessionRecord, SnapshotRecord, WriterRecord, ReaderRecord, GroupTypes, Handled,
         TokenIsOwners, Opening, FirstChunk, WriteSteps, ReadSteps
<1>4. NoMixedUpload'
  <2>1. request.client = session.owner
    BY HandledWrite, TypesOfFields DEF Handled, TokenIsOwners, Opening, FirstChunk, WriteSteps
  <2>2. session'.owner = session.owner /\ session'.data = Append(session.data, session.owner)
    BY <2>1 DEF GroupTypes, SessionRecord
  <2> QED BY <2>2, TypesOfFields DEF NoMixedUpload
<1>5. Opening'
  <2>1. request'.at # "chunk"
    BY DEF Handled, WriteSteps
  <2>2. session'.data = Append(session.data, request.client) /\ session'.data # <<>>
    BY TypesOfFields, HandledWrite DEF GroupTypes, SessionRecord, WriteSteps
  <2> QED BY <2>1, <2>2 DEF Opening, FirstChunk
<1>6. OwnerKnows'
  BY SMTT(30) DEF SessionRecord, SnapshotRecord, WriterRecord, ReaderRecord, GroupTypes, Handled,
         TokenIsOwners, OwnerKnows, Opening, FirstChunk, WriteSteps, ReadSteps
<1>7. Watched'
  BY DEF SessionRecord, SnapshotRecord, WriterRecord, ReaderRecord, GroupTypes, Handled, Opening,
         Watched, FirstChunk, WriteSteps, ReadSteps
<1>8. OneRead'
  BY DEF SessionRecord, SnapshotRecord, WriterRecord, ReaderRecord, GroupTypes, Handled, OneRead,
         WriteSteps, ReadSteps
<1> QED BY <1>1, <1>2, <1>3, <1>4, <1>5, <1>6, <1>7, <1>8 DEF GroupInv

(* The APPLY job. *)
LEMMA ApplyKeeps == ASSUME GroupInv, Apply PROVE GroupInv'
<1> USE ConfigGroupAssumption, EmptyData DEF GroupInv, Apply, AnswerWriter, NoRequest, NoSession,
        Never
<1>1. GroupTypes'
  <2>1. session' \in SessionRecord
    BY NoSessionType DEF GroupTypes
  <2>2. snapshot' \in SnapshotRecord
    BY DEF GroupTypes
  <2>3. idleTask' \in 0..Never
    BY DEF GroupTypes
  <2>4. inStore' \in Clients
    BY DEF GroupTypes, SessionRecord
  <2>5. writer' \in [Writers -> WriterRecord]
    <3> HIDE DEF AnswerWriter
    <3>1. request.client \in Writers /\ 0 \in Nat
      BY HandledWrite, TypesOfFields DEF WriteSteps
    <3> QED BY <3>1, AnsweredType, TypesOfFields DEF GroupTypes
  <2>6. reader' \in ReaderRecord
    BY DEF GroupTypes
  <2> QED BY <2>1, <2>2, <2>3, <2>4, <2>5, <2>6 DEF GroupTypes
<1>2. Handled'
  BY DEF SessionRecord, SnapshotRecord, WriterRecord, ReaderRecord, GroupTypes, Handled, WriteSteps,
         ReadSteps
<1>3. TokenIsOwners'
  BY DEF SessionRecord, SnapshotRecord, WriterRecord, ReaderRecord, GroupTypes, Handled,
         TokenIsOwners, Opening, FirstChunk, WriteSteps, ReadSteps
<1>4. NoMixedUpload'
  BY DEF SessionRecord, SnapshotRecord, WriterRecord, ReaderRecord, GroupTypes, Handled,
         TokenIsOwners, NoMixedUpload, Opening, FirstChunk, WriteSteps, ReadSteps
<1>5. Opening'
  BY DEF SessionRecord, SnapshotRecord, WriterRecord, ReaderRecord, GroupTypes, Handled, Opening,
         FirstChunk, WriteSteps, ReadSteps
<1>6. OwnerKnows'
  BY DEF SessionRecord, SnapshotRecord, WriterRecord, ReaderRecord, GroupTypes, Handled,
         TokenIsOwners, OwnerKnows, Opening, FirstChunk, WriteSteps, ReadSteps
<1>7. Watched'
  BY DEF SessionRecord, SnapshotRecord, WriterRecord, ReaderRecord, GroupTypes, Handled, Opening,
         Watched, FirstChunk, WriteSteps, ReadSteps
<1>8. OneRead'
  BY DEF SessionRecord, SnapshotRecord, WriterRecord, ReaderRecord, GroupTypes, Handled, OneRead,
         WriteSteps, ReadSteps
<1> QED BY <1>1, <1>2, <1>3, <1>4, <1>5, <1>6, <1>7, <1>8 DEF GroupInv

(* The reader's request. *)
LEMMA SendReadKeeps == ASSUME GroupInv, SendRead PROVE GroupInv'
<1> USE ConfigGroupAssumption, EmptyData DEF GroupInv, SendRead, Never
<1>1. GroupTypes'
  BY DEF SessionRecord, SnapshotRecord, WriterRecord, ReaderRecord, GroupTypes, Clients
<1>2. Handled'
  BY DEF SessionRecord, SnapshotRecord, WriterRecord, ReaderRecord, GroupTypes, Handled, WriteSteps,
         ReadSteps
<1>3. TokenIsOwners'
  BY DEF SessionRecord, SnapshotRecord, WriterRecord, ReaderRecord, GroupTypes, Handled,
         TokenIsOwners, Opening, FirstChunk, WriteSteps, ReadSteps
<1>4. NoMixedUpload'
  BY DEF SessionRecord, SnapshotRecord, WriterRecord, ReaderRecord, GroupTypes, Handled,
         TokenIsOwners, NoMixedUpload, Opening, FirstChunk, WriteSteps, ReadSteps
<1>5. Opening'
  BY DEF SessionRecord, SnapshotRecord, WriterRecord, ReaderRecord, GroupTypes, Handled, Opening,
         FirstChunk, WriteSteps, ReadSteps
<1>6. OwnerKnows'
  BY DEF SessionRecord, SnapshotRecord, WriterRecord, ReaderRecord, GroupTypes, Handled,
         TokenIsOwners, OwnerKnows, Opening, FirstChunk, WriteSteps, ReadSteps
<1>7. Watched'
  BY DEF SessionRecord, SnapshotRecord, WriterRecord, ReaderRecord, GroupTypes, Handled, Opening,
         Watched, FirstChunk, WriteSteps, ReadSteps
<1>8. OneRead'
  BY DEF SessionRecord, SnapshotRecord, WriterRecord, ReaderRecord, GroupTypes, Handled, OneRead,
         WriteSteps, ReadSteps
<1> QED BY <1>1, <1>2, <1>3, <1>4, <1>5, <1>6, <1>7, <1>8 DEF GroupInv

(* The SNAPSHOT job. *)
LEMMA TakeSnapshotKeeps == ASSUME GroupInv, TakeSnapshot PROVE GroupInv'
<1> USE ConfigGroupAssumption, EmptyData DEF GroupInv, TakeSnapshot, Never
<1>1. GroupTypes'
  BY DEF SessionRecord, SnapshotRecord, WriterRecord, ReaderRecord, GroupTypes, Clients
<1>2. Handled'
  BY DEF SessionRecord, SnapshotRecord, WriterRecord, ReaderRecord, GroupTypes, Handled, WriteSteps,
         ReadSteps
<1>3. TokenIsOwners'
  BY DEF SessionRecord, SnapshotRecord, WriterRecord, ReaderRecord, GroupTypes, Handled,
         TokenIsOwners, Opening, FirstChunk, WriteSteps, ReadSteps
<1>4. NoMixedUpload'
  BY DEF SessionRecord, SnapshotRecord, WriterRecord, ReaderRecord, GroupTypes, Handled,
         TokenIsOwners, NoMixedUpload, Opening, FirstChunk, WriteSteps, ReadSteps
<1>5. Opening'
  BY DEF SessionRecord, SnapshotRecord, WriterRecord, ReaderRecord, GroupTypes, Handled, Opening,
         FirstChunk, WriteSteps, ReadSteps
<1>6. OwnerKnows'
  BY DEF SessionRecord, SnapshotRecord, WriterRecord, ReaderRecord, GroupTypes, Handled,
         TokenIsOwners, OwnerKnows, Opening, FirstChunk, WriteSteps, ReadSteps
<1>7. Watched'
  BY DEF SessionRecord, SnapshotRecord, WriterRecord, ReaderRecord, GroupTypes, Handled, Opening,
         Watched, FirstChunk, WriteSteps, ReadSteps
<1>8. OneRead'
  BY DEF SessionRecord, SnapshotRecord, WriterRecord, ReaderRecord, GroupTypes, Handled, OneRead,
         WriteSteps, ReadSteps
<1> QED BY <1>1, <1>2, <1>3, <1>4, <1>5, <1>6, <1>7, <1>8 DEF GroupInv

(* A read without a snapshot. *)
LEMMA ReadRefusedKeeps == ASSUME GroupInv, ReadRefused PROVE GroupInv'
<1> USE ConfigGroupAssumption, EmptyData DEF GroupInv, ReadRefused, NoRequest, NotReading, Never
<1>1. GroupTypes'
  BY DEF SessionRecord, SnapshotRecord, WriterRecord, ReaderRecord, GroupTypes, Clients
<1>2. Handled'
  BY DEF SessionRecord, SnapshotRecord, WriterRecord, ReaderRecord, GroupTypes, Handled, WriteSteps,
         ReadSteps
<1>3. TokenIsOwners'
  BY DEF SessionRecord, SnapshotRecord, WriterRecord, ReaderRecord, GroupTypes, Handled,
         TokenIsOwners, Opening, FirstChunk, WriteSteps, ReadSteps
<1>4. NoMixedUpload'
  BY DEF SessionRecord, SnapshotRecord, WriterRecord, ReaderRecord, GroupTypes, Handled,
         TokenIsOwners, NoMixedUpload, Opening, FirstChunk, WriteSteps, ReadSteps
<1>5. Opening'
  BY DEF SessionRecord, SnapshotRecord, WriterRecord, ReaderRecord, GroupTypes, Handled, Opening,
         FirstChunk, WriteSteps, ReadSteps
<1>6. OwnerKnows'
  BY DEF SessionRecord, SnapshotRecord, WriterRecord, ReaderRecord, GroupTypes, Handled,
         TokenIsOwners, OwnerKnows, Opening, FirstChunk, WriteSteps, ReadSteps
<1>7. Watched'
  BY DEF SessionRecord, SnapshotRecord, WriterRecord, ReaderRecord, GroupTypes, Handled, Opening,
         Watched, FirstChunk, WriteSteps, ReadSteps
<1>8. OneRead'
  BY DEF SessionRecord, SnapshotRecord, WriterRecord, ReaderRecord, GroupTypes, Handled, OneRead,
         WriteSteps, ReadSteps
<1> QED BY <1>1, <1>2, <1>3, <1>4, <1>5, <1>6, <1>7, <1>8 DEF GroupInv

(* A chunk of the snapshot. *)
LEMMA ReadChunkKeeps == ASSUME GroupInv, ReadChunk PROVE GroupInv'
<1> USE ConfigGroupAssumption, EmptyData DEF GroupInv, ReadChunk, AnswerReader, SnapshotData,
        OnActivity, NoRequest, NoSnapshot, Never
<1>1. GroupTypes'
  <2>1. session' \in SessionRecord
    BY DEF GroupTypes
  <2>2. snapshot' \in SnapshotRecord
    <3> HIDE DEF NoSnapshot
    <3>1. [snapshot EXCEPT !.age = 0] \in SnapshotRecord
      BY WithAge DEF GroupTypes
    <3> QED BY <3>1, NoSnapshotType
  <2>3. idleTask' \in 0..Never
    BY DEF GroupTypes
  <2>4. inStore' \in Clients
    BY DEF GroupTypes
  <2>5. writer' \in [Writers -> WriterRecord]
    BY DEF GroupTypes
  <2>6. reader' \in ReaderRecord
    <3> DEFINE first == IF request.off = 0 THEN snapshot.data ELSE reader.data
    <3>1. request.off \in Nat /\ (request.off + 1) % Length \in Nat
      BY TypesOfFields DEF Handled, ReadSteps
    <3>2. first \in Clients /\ (first # snapshot.data) \in BOOLEAN
      BY TypesOfFields
    <3>3. reader' = reader \/ reader' = [next |-> (request.off + 1) % Length, data |-> first, mixed |-> first # snapshot.data]
      OBVIOUS
    <3> HIDE DEF first
    <3> QED BY ZenonT(40), <3>1, <3>2, <3>3, ReaderType DEF GroupTypes
  <2> QED BY <2>1, <2>2, <2>3, <2>4, <2>5, <2>6 DEF GroupTypes
<1>2. Handled'
  BY DEF SessionRecord, SnapshotRecord, WriterRecord, ReaderRecord, GroupTypes, Handled, WriteSteps,
         ReadSteps
<1>3. TokenIsOwners'
  BY DEF SessionRecord, SnapshotRecord, WriterRecord, ReaderRecord, GroupTypes, Handled,
         TokenIsOwners, Opening, FirstChunk, WriteSteps, ReadSteps
<1>4. NoMixedUpload'
  BY DEF SessionRecord, SnapshotRecord, WriterRecord, ReaderRecord, GroupTypes, Handled,
         TokenIsOwners, NoMixedUpload, Opening, FirstChunk, WriteSteps, ReadSteps
<1>5. Opening'
  BY DEF SessionRecord, SnapshotRecord, WriterRecord, ReaderRecord, GroupTypes, Handled, Opening,
         FirstChunk, WriteSteps, ReadSteps
<1>6. OwnerKnows'
  BY DEF SessionRecord, SnapshotRecord, WriterRecord, ReaderRecord, GroupTypes, Handled,
         TokenIsOwners, OwnerKnows, Opening, FirstChunk, WriteSteps, ReadSteps
<1>7. Watched'
  BY DEF SessionRecord, SnapshotRecord, WriterRecord, ReaderRecord, GroupTypes, Handled, Opening,
         Watched, FirstChunk, WriteSteps, ReadSteps
<1>8. OneRead'
  BY DEF SessionRecord, SnapshotRecord, WriterRecord, ReaderRecord, GroupTypes, Handled, OneRead,
         WriteSteps, ReadSteps
<1> QED BY <1>1, <1>2, <1>3, <1>4, <1>5, <1>6, <1>7, <1>8 DEF GroupInv

(* ProcessIdle(): it runs again when either is due. *)
LEMMA ProcessIdleKeeps == ASSUME GroupInv, ProcessIdle PROVE GroupInv'
<1> USE ConfigGroupAssumption, EmptyData DEF GroupInv, ProcessIdle, Earlier, NoSession, NoSnapshot,
        Never
<1>1. GroupTypes'
  BY DEF SessionRecord, SnapshotRecord, WriterRecord, ReaderRecord, GroupTypes, Clients
<1>2. Handled'
  BY DEF SessionRecord, SnapshotRecord, WriterRecord, ReaderRecord, GroupTypes, Handled, WriteSteps,
         ReadSteps
<1>3. TokenIsOwners'
  BY DEF SessionRecord, SnapshotRecord, WriterRecord, ReaderRecord, GroupTypes, Handled,
         TokenIsOwners, Opening, FirstChunk, WriteSteps, ReadSteps
<1>4. NoMixedUpload'
  BY DEF SessionRecord, SnapshotRecord, WriterRecord, ReaderRecord, GroupTypes, Handled,
         TokenIsOwners, NoMixedUpload, Opening, FirstChunk, WriteSteps, ReadSteps
<1>5. Opening'
  BY DEF SessionRecord, SnapshotRecord, WriterRecord, ReaderRecord, GroupTypes, Handled, Opening,
         FirstChunk, WriteSteps, ReadSteps
<1>6. OwnerKnows'
  BY DEF SessionRecord, SnapshotRecord, WriterRecord, ReaderRecord, GroupTypes, Handled,
         TokenIsOwners, OwnerKnows, Opening, FirstChunk, WriteSteps, ReadSteps
<1>7. Watched'
  BY DEF SessionRecord, SnapshotRecord, WriterRecord, ReaderRecord, GroupTypes, Handled, Opening,
         Watched, FirstChunk, WriteSteps, ReadSteps
<1>8. OneRead'
  BY DEF SessionRecord, SnapshotRecord, WriterRecord, ReaderRecord, GroupTypes, Handled, OneRead,
         WriteSteps, ReadSteps
<1> QED BY <1>1, <1>2, <1>3, <1>4, <1>5, <1>6, <1>7, <1>8 DEF GroupInv

(* The configuration changes on the unit. *)
LEMMA LocalUpdateKeeps == ASSUME GroupInv, LocalUpdate PROVE GroupInv'
<1> USE ConfigGroupAssumption, EmptyData DEF GroupInv, LocalUpdate, Never
<1>1. GroupTypes'
  BY DEF SessionRecord, SnapshotRecord, WriterRecord, ReaderRecord, GroupTypes, Clients
<1>2. Handled'
  BY DEF SessionRecord, SnapshotRecord, WriterRecord, ReaderRecord, GroupTypes, Handled, WriteSteps,
         ReadSteps
<1>3. TokenIsOwners'
  BY DEF SessionRecord, SnapshotRecord, WriterRecord, ReaderRecord, GroupTypes, Handled,
         TokenIsOwners, Opening, FirstChunk, WriteSteps, ReadSteps
<1>4. NoMixedUpload'
  BY DEF SessionRecord, SnapshotRecord, WriterRecord, ReaderRecord, GroupTypes, Handled,
         TokenIsOwners, NoMixedUpload, Opening, FirstChunk, WriteSteps, ReadSteps
<1>5. Opening'
  BY DEF SessionRecord, SnapshotRecord, WriterRecord, ReaderRecord, GroupTypes, Handled, Opening,
         FirstChunk, WriteSteps, ReadSteps
<1>6. OwnerKnows'
  BY DEF SessionRecord, SnapshotRecord, WriterRecord, ReaderRecord, GroupTypes, Handled,
         TokenIsOwners, OwnerKnows, Opening, FirstChunk, WriteSteps, ReadSteps
<1>7. Watched'
  BY DEF SessionRecord, SnapshotRecord, WriterRecord, ReaderRecord, GroupTypes, Handled, Opening,
         Watched, FirstChunk, WriteSteps, ReadSteps
<1>8. OneRead'
  BY DEF SessionRecord, SnapshotRecord, WriterRecord, ReaderRecord, GroupTypes, Handled, OneRead,
         WriteSteps, ReadSteps
<1> QED BY <1>1, <1>2, <1>3, <1>4, <1>5, <1>6, <1>7, <1>8 DEF GroupInv

(* A moment passes. *)
LEMMA TimePassesKeeps == ASSUME GroupInv, TimePasses PROVE GroupInv'
<1> USE ConfigGroupAssumption, EmptyData DEF GroupInv, TimePasses, Older, Earlier, Never
<1>1. GroupTypes'
  <2>1. session' \in SessionRecord
    BY WithAge DEF GroupTypes, SessionRecord
  <2>2. snapshot' \in SnapshotRecord
    BY WithAge DEF GroupTypes, SnapshotRecord
  <2>3. idleTask' \in 0..Never
    BY DEF GroupTypes
  <2>4. inStore' \in Clients
    BY DEF GroupTypes
  <2>5. writer' \in [Writers -> WriterRecord]
    BY DEF GroupTypes
  <2>6. reader' \in ReaderRecord
    BY DEF GroupTypes
  <2> QED BY <2>1, <2>2, <2>3, <2>4, <2>5, <2>6 DEF GroupTypes
<1>2. Handled'
  BY DEF SessionRecord, SnapshotRecord, WriterRecord, ReaderRecord, GroupTypes, Handled, WriteSteps,
         ReadSteps
<1>3. TokenIsOwners'
  BY DEF SessionRecord, SnapshotRecord, WriterRecord, ReaderRecord, GroupTypes, Handled,
         TokenIsOwners, Opening, FirstChunk, WriteSteps, ReadSteps
<1>4. NoMixedUpload'
  BY DEF SessionRecord, SnapshotRecord, WriterRecord, ReaderRecord, GroupTypes, Handled,
         TokenIsOwners, NoMixedUpload, Opening, FirstChunk, WriteSteps, ReadSteps
<1>5. Opening'
  BY DEF SessionRecord, SnapshotRecord, WriterRecord, ReaderRecord, GroupTypes, Handled, Opening,
         FirstChunk, WriteSteps, ReadSteps
<1>6. OwnerKnows'
  BY DEF SessionRecord, SnapshotRecord, WriterRecord, ReaderRecord, GroupTypes, Handled,
         TokenIsOwners, OwnerKnows, Opening, FirstChunk, WriteSteps, ReadSteps
<1>7. Watched'
  BY DEF SessionRecord, SnapshotRecord, WriterRecord, ReaderRecord, GroupTypes, Handled, Opening,
         Watched, FirstChunk, WriteSteps, ReadSteps
<1>8. OneRead'
  BY DEF SessionRecord, SnapshotRecord, WriterRecord, ReaderRecord, GroupTypes, Handled, OneRead,
         WriteSteps, ReadSteps
<1> QED BY <1>1, <1>2, <1>3, <1>4, <1>5, <1>6, <1>7, <1>8 DEF GroupInv

(* Every step of the group keeps its invariant. *)
LEMMA GroupStep == ASSUME GroupInv, [ConfigGroupNext]_configGroupVars PROVE GroupInv'
<1>1. ASSUME UNCHANGED configGroupVars PROVE GroupInv'
  BY <1>1 DEF configGroupVars, GroupInv, GroupTypes, Handled, TokenIsOwners, NoMixedUpload, Opening,
     FirstChunk,
              OwnerKnows, Watched, OneRead
<1> QED BY <1>1, SendWriteKeeps, RestartWriteKeeps, FirstBusyKeeps, FirstRepeatedKeeps,
           FirstAcceptedKeeps, StageKeeps, ChunkRefusedKeeps, ChunkMisplacedKeeps, ChunkTakenKeeps,
           ApplyKeeps, SendReadKeeps, TakeSnapshotKeeps, ReadRefusedKeeps, ReadChunkKeeps,
           ProcessIdleKeeps, LocalUpdateKeeps, TimePassesKeeps DEF ConfigGroupNext

(* The invariant says of uploads, sessions and reads what they promise. *)
LEMMA GroupConclusion == ASSUME GroupInv PROVE NoMixedUpload /\ SessionEnds /\ SnapshotStands
BY DEF GroupInv, Watched, FirstChunk, OneRead, SessionEnds, SnapshotStands

(* A client that is answered BUSY did not open the session: its data would *)
(* be its first chunk, or it would have the token.                         *)
LEMMA BusyIsForOthers ==
  ASSUME GroupInv, [ConfigGroupNext]_configGroupVars,
         request.at = "first", request'.at = "none", request'.answer = "BUSY"
  PROVE  session.owner # request.client
<1>1. FirstBusy
  <2>1. ~FirstRepeated
    <3>1. NoRequest.answer # "BUSY"
      BY DEF NoRequest
    <3>2. FirstRepeated => request' = NoRequest
      BY Zenon DEF FirstRepeated, AnswerWriter
    <3> QED BY <3>1, <3>2, Zenon
  <2>2. ~FirstAccepted
    <3>1. request = [at |-> request.at, client |-> request.client, off |-> request.off, token |-> request.token]
      BY DEF GroupInv, Handled, WriteSteps
    <3> QED BY <3>1 DEF FirstAccepted
  <2> QED BY <2>1, <2>2 DEF ConfigGroupNext, configGroupVars, SendWrite, RestartWrite, Stage,
             ChunkRefused, ChunkMisplaced,
             ChunkTaken, Apply, SendRead, TakeSnapshot, ReadRefused, ReadChunk, ProcessIdle, LocalUpdate, TimePasses
<1> SUFFICES ASSUME session.owner = request.client PROVE FALSE
  OBVIOUS
<1>2. session.token # 0 /\ request.token # session.token /\ session.data # <<session.owner>>
  BY <1>1 DEF FirstBusy, IsOpen, IsRepeat
<1>3. request.client \in Writers /\ request.token = writer[request.client].token
  BY DEF GroupInv, Handled, WriteSteps
<1>4. session.data # <<>> /\ Len(session.data) \in Nat /\ session.data \in Seq(Writers)
  BY <1>2, TypesOfFields DEF GroupInv, Opening, FirstChunk
<1>5. CASE Len(session.data) = 1
  BY <1>2, <1>4, <1>5 DEF GroupInv, NoMixedUpload
<1>6. CASE Len(session.data) >= 2
  BY <1>2, <1>3, <1>6 DEF GroupInv, OwnerKnows
<1>7. Len(session.data) = 1 \/ Len(session.data) >= 2
  <2>1. Len(session.data) # 0
    BY <1>4
  <2>2. \A n \in Nat: n = 0 \/ n = 1 \/ n >= 2
    OBVIOUS
  <2> QED BY <1>4, <2>1, <2>2
<1> QED BY <1>5, <1>6, <1>7

-----------------------------------------------------------------------------
\* The manager and its file.

(* The steps of a store, and what is known at each. *)
StoreShape ==
  /\ rejected \in BOOLEAN /\ saving \in BOOLEAN /\ stained \in BOOLEAN
  /\ storing.at \in {"off", "idle", "default", "save", "write", "adopt", "notify"}
  /\ storing.at \in {"save", "write", "adopt", "notify"} =>
       storing = [at |-> storing.at, to |-> storing.to, by |-> storing.by]

(* A unit that is off or that boots has nothing in use. *)
StoreBoot ==
  /\ storing.at = "off" => storedInfo = NoFile /\ inUse = NoFile /\ ~rejected /\ saving
  /\ storing.at = "default" =>
       inUse = NoFile /\ ~rejected /\ saving /\ (storedInfo # NoFile => storedInfo = file)
  /\ storing.at = "save" /\ storing.by = "boot" =>
       inUse = NoFile /\ (saving <=> storedInfo = NoFile)

(* Saving is disabled for the default beside a file that was not accepted. *)
StoreUnsaved ==
  ~saving => /\ storing.at \in {"save", "adopt", "notify"} /\ storing.by = "boot"
             /\ storedInfo = file /\ rejected

(* What the file holds, against what was answered. *)
Kept == file = promised \/ (file = Torn /\ stained)

StoreFile ==
  /\ storing.at = "write" => saving /\ file = Torn
  /\ storing.at \in {"adopt", "notify"} /\ saving =>
       file = storing.to /\ storedInfo = file /\ ~rejected
  /\ storing.at \notin {"write", "adopt", "notify"} \/ ~saving => Kept
  /\ storing.at = "notify" => inUse = storing.to

(* What is reported, against the file and the configuration in use. *)
StoreReport ==
  /\ storing.at = "save" /\ storing.by = "update" => stained
  /\ (storing.at = "idle" \/ (storing.at = "save" /\ storing.by # "boot"))
       /\ ~stained /\ inUse # NoFile
     => storedInfo = file /\ (rejected \/ inUse = file)

StoreInv == StoreShape /\ StoreBoot /\ StoreUnsaved /\ StoreFile /\ StoreReport

(* A unit that is off, with a file or without one. *)
LEMMA StoreInitially == ASSUME StoreInit PROVE StoreInv
BY DEF StoreInit, StoreInv, StoreShape, StoreBoot, StoreUnsaved, StoreFile, StoreReport, Kept, Off,
       Idle

(* Every step of the manager, the file and the power keeps the invariant. *)
LEMMA StoreStep == ASSUME StoreInv, [StoreNext]_storeVars PROVE StoreInv'
<1> USE DEF StoreShape, StoreBoot, StoreUnsaved, StoreFile, StoreReport, Kept, Off, Idle
<1>1. ASSUME UNCHANGED storeVars PROVE StoreInv'
  BY <1>1 DEF storeVars, StoreInv
<1>2. ASSUME LoadFails PROVE StoreInv'
  BY <1>2 DEF LoadFails, StoreInv
<1>3. ASSUME NEW accepted \in BOOLEAN, Loads(accepted) PROVE StoreInv'
  BY <1>3 DEF Loads, StoreInv
<1>4. ASSUME CreateDefault PROVE StoreInv'
  BY <1>4 DEF CreateDefault, SavesDefault, StoreInv
<1>5. ASSUME RefusesStore PROVE StoreInv'
  BY <1>5 DEF RefusesStore, StoreInv
<1>6. ASSUME SkipsSave PROVE StoreInv'
  BY <1>6 DEF SkipsSave, RejectedAfterSkip, StoreInv
<1>7. ASSUME BeginWrite PROVE StoreInv'
  BY <1>7 DEF BeginWrite, StoreInv
<1>8. ASSUME EndWrite PROVE StoreInv'
  BY <1>8 DEF EndWrite, InfoAfterWrite, StoreInv
<1>9. ASSUME WriteFails PROVE StoreInv'
  BY <1>9 DEF WriteFails, AfterFailedWrite, StoreInv
<1>10. ASSUME NEW c \in Configurations, ApplyCborConfiguration(c) PROVE StoreInv'
  BY <1>10 DEF ApplyCborConfiguration, StoreInv
<1>11. ASSUME NEW c \in Configurations, StoreBitrate(c) PROVE StoreInv'
  BY <1>11 DEF StoreBitrate, StoreInv
<1>12. ASSUME Adopt PROVE StoreInv'
  BY <1>12 DEF Adopt, StoreInv
<1>13. ASSUME NotifyStored PROVE StoreInv'
  BY <1>13 DEF NotifyStored, StoreInv
<1>14. ASSUME LoadRaw PROVE StoreInv'
  BY <1>14 DEF LoadRaw, StoreInv
<1>15. ASSUME StorePowerLoss PROVE StoreInv'
  BY <1>15 DEF StorePowerLoss, StoreInv
<1> QED
  <2> HIDE DEF StoreShape, StoreBoot, StoreUnsaved, StoreFile, StoreReport, Kept, Off, Idle
  <2> QED BY <1>1, <1>2, <1>3, <1>4, <1>5, <1>6, <1>7, <1>8, <1>9, <1>10, <1>11, <1>12, <1>13, <1>14,
             <1>15 DEF StoreNext

(* The invariant says of the file and the reports what they promise. *)
LEMMA StoreConclusion == ASSUME StoreInv PROVE AnsweredIsStored /\ ReportsTheFile /\ NotAppliedIsReported
<1>1. AnsweredIsStored
  BY DEF StoreInv, StoreFile, Kept, AnsweredIsStored
<1>2. ReportsTheFile
  BY DEF StoreInv, StoreReport, ReportsTheFile, ReportedInfo
<1>3. NotAppliedIsReported
  BY DEF StoreInv, StoreShape, StoreReport, NotAppliedIsReported, ReportedInfo
<1> QED BY <1>1, <1>2, <1>3

(* A boot does not write over a file that it read. *)
LEMMA StoreKeeps ==
  ASSUME StoreInv, [StoreNext]_storeVars, file' # file, storing.at = "save", storedInfo # NoFile
  PROVE  storing.by # "boot"
<1>1. BeginWrite
  BY DEF StoreNext, storeVars, LoadFails, Loads, CreateDefault, RefusesStore, SkipsSave, EndWrite,
         WriteFails,
         ApplyCborConfiguration, StoreBitrate, Adopt, NotifyStored, LoadRaw, StorePowerLoss
<1> QED BY <1>1 DEF BeginWrite, StoreInv, StoreBoot

-----------------------------------------------------------------------------
(* For any clients, length of a configuration and session timeout, and any *)
(* configurations: the chunks of one session come from one client, a       *)
(* session and a snapshot end, a read is of one configuration and the      *)
(* client that opened the session is not refused (ConfigMgmtGroup); a      *)
(* store that was answered is the file the next boot finds, the reported   *)
(* CRC and "applied" are true, and a rejected file is kept, wherever a     *)
(* write fails or the power goes (ConfigurationManager and its file).      *)
THEOREM ConfigurationsAreSafe == ConfigurationsSpec => ConfigurationsSafe
<1> DEFINE NotBusy == request.at = "first" /\ request'.at = "none" /\ request'.answer = "BUSY"
                        => session.owner # request.client
           Kept0   == file' # file /\ file # NoFile /\ storing.at = "save" /\ storedInfo # NoFile
                        => storing.by # "boot"
<1>1. ConfigurationsInit => GroupInv /\ StoreInv
  BY GroupInitially, StoreInitially DEF ConfigurationsInit
<1>2. [ConfigurationsNext]_configurationVars => [ConfigGroupNext]_configGroupVars /\ [StoreNext]_storeVars
  BY DEF ConfigurationsNext, configurationVars
<1>3. (GroupInv /\ StoreInv) /\ [ConfigurationsNext]_configurationVars => (GroupInv /\ StoreInv)'
  BY <1>2, GroupStep, StoreStep
<1>4. (GroupInv /\ StoreInv) /\ [ConfigurationsNext]_configurationVars => [NotBusy]_configGroupVars /\ [Kept0]_storeVars
  BY <1>2, BusyIsForOthers, StoreKeeps
<1>5. GroupInv => NoMixedUpload /\ SessionEnds /\ SnapshotStands
  BY GroupConclusion
<1>6. StoreInv => AnsweredIsStored /\ ReportsTheFile /\ NotAppliedIsReported
  BY StoreConclusion
<1> QED BY <1>1, <1>3, <1>4, <1>5, <1>6, PTL DEF ConfigurationsSpec, ConfigurationsSafe,
           OwnerNotRefused, KeepsRejected
=============================================================================
