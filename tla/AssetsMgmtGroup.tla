-------------------------- MODULE AssetsMgmtGroup --------------------------
(***************************************************************************)
(* The SMP `assets` group and the asset store under it, for one kind on    *)
(* one volume: downloads (the read session and its checkpoint), uploads    *)
(* (the upload session, its token, the staged file, the last commit), the  *)
(* volume coming and going, and power loss.                                *)
(*                                                                         *)
(* Requests run one at a time on the configuration work queue, so a        *)
(* request is one action; the volume's events fall between requests, and   *)
(* inside the commit, whose rename is not atomic on FAT.  A file's content *)
(* is a sequence of blocks, and the CRC32 of some blocks is those blocks:  *)
(* the model has no CRC collisions.  A request carries the open upload's   *)
(* token or not (`owner`): random tokens are taken to differ.  A           *)
(* generation (mount generation and write counter) is only ever compared   *)
(* with the store's present one, so what was recorded under it carries     *)
(* `fresh`: whether it still is the store's.  A session, or the record of  *)
(* the last commit, that was idle for SESSION_TIMEOUT_MS ends in an action *)
(* of its own, at any time.                                                *)
(***************************************************************************)
EXTENDS Naturals, Sequences, FiniteSets

CONSTANTS Names,        \* names clients use
          UploadNames,  \* the ones they upload to
          EntryOf,      \* the directory entry of a name: FAT folds case
          BuiltIns,     \* names of files that are part of the firmware
          Contents,     \* complete files clients upload
          Blocks,       \* what a chunk may hold
          StatCrcMax,   \* CONFIG_EERIE_LEAP_SMP_ASSETS_STAT_CRC_MAX_SIZE
          NoFile, NoUpload

ASSUME AssetsAssumption ==
  /\ DOMAIN EntryOf = Names
  /\ BuiltIns \subseteq Names
  /\ UploadNames \subseteq Names
  /\ Contents \subseteq Seq(Blocks) /\ Contents # {}
  /\ NoFile \notin Contents
  /\ StatCrcMax \in Nat

(* The entries whose files are served: a built-in hides a stored file. *)
Entries == {EntryOf[n] : n \in Names \ BuiltIns}

VARIABLES files,       \* what each entry of the volume holds
          staged,      \* .assets_tmp/upload.part on the volume
          available,   \* AssetStore::IsAvailable()
          read,        \* read_session_
          checkpoint,  \* checkpoint_
          upload,      \* upload_ with its AssetWriter
          commit,      \* last_commit_
          idleArmed    \* the idle task is scheduled

assetVars == <<files, staged, available, read, checkpoint, upload, commit, idleArmed>>

(* What a name is before it is assigned. *)
NoName == ""

NoRead   == [open |-> FALSE, name |-> NoName, live |-> FALSE, fresh |-> FALSE,
             size |-> 0, crc |-> <<>>]
NoPoint  == [valid |-> FALSE, name |-> NoName, size |-> 0, fresh |-> FALSE,
             crc |-> <<>>]
Closed   == [open |-> FALSE, name |-> NoName, live |-> FALSE, declared |-> <<>>,
             got |-> <<>>, first |-> <<>>]
NoCommit == [valid |-> FALSE, name |-> NoName, declared |-> <<>>, offset |-> 0,
             chunk |-> <<>>, kept |-> FALSE]

(* What a card may hold when it is put in: each entry empty or one file. *)
Cards == [Entries -> {NoFile, CHOOSE c \in Contents: TRUE}]

AssetsInit ==
  /\ files \in Cards
  /\ staged = FALSE
  /\ available \in BOOLEAN
  /\ read = NoRead
  /\ checkpoint = NoPoint
  /\ upload = Closed
  /\ commit = NoCommit
  /\ idleArmed = FALSE

-----------------------------------------------------------------------------
\* Names and targets.

(* EqualsIgnoreAsciiCase(): the names fold onto one entry. *)
SameName(n, m) == n \in Names /\ m \in Names /\ EntryOf[n] = EntryOf[m]

(* FindBuiltIn(): a built-in's name, in whatever case. *)
IsBuiltIn(name) == \E b \in BuiltIns: SameName(b, name)

(* CheckTarget(): what lets a request for a stored file go on. *)
TargetOk(name) == ~IsBuiltIn(name) /\ available

-----------------------------------------------------------------------------
\* The read session and its checkpoint.

(* IsReadSessionOf(): the session a chunk past the first is read from.     *)
(* `same`: the kind was not registered anew since, which is another one.   *)
IsReadSessionOf(name, same) == read.open /\ same /\ read.name = name

(* Mutant: the session is looked for under the name as it is spelled. *)
MutantExactName(name) == read.open /\ read.name = name

(* MayBeReadSessionOf(): the session may be on this entry. *)
MayBeReadSessionOf(name) == read.open /\ SameName(read.name, name)

(* CloseReadSession(): what a session that read something leaves behind. *)
PointAfter(r, point) ==
  IF r.open /\ r.crc # <<>>
  THEN [valid |-> TRUE, name |-> r.name, size |-> r.size, fresh |-> r.fresh,
        crc |-> r.crc]
  ELSE point

(* InvalidateCheckpoint(): forgotten if it may be of this entry. *)
Invalidated(point, name) ==
  IF SameName(point.name, name) THEN NoPoint ELSE point

(* The checkpoint of this very file, at this size and generation. *)
PointServes(point, name, size) ==
  point.valid /\ point.fresh /\ point.name = name /\ point.size = size

(* OpenReadSession(): a new session, whose CRC starts at the checkpoint if *)
(* the download does not start at 0.                                       *)
Opened(name, point, useCheckpoint) ==
  LET size == Len(files[EntryOf[name]])
  IN  [open |-> TRUE, name |-> name, live |-> TRUE, fresh |-> TRUE, size |-> size,
       crc |-> IF useCheckpoint /\ PointServes(point, name, size)
               THEN point.crc ELSE <<>>]

(* ExtendReadCrc() and the chunk itself: the CRC covers at least [0, end). *)
Extended(r, end) ==
  [r EXCEPT !.crc = IF Len(@) >= end THEN @
                    ELSE @ \o SubSeq(files[EntryOf[r.name]], Len(@) + 1, end)]

(* A READ while the volume is gone: a session does not outlive it. *)
ExecuteReadUnavailable ==
  /\ ~available /\ read.open
  /\ checkpoint' = PointAfter(read, checkpoint)
  /\ read' = NoRead
  /\ UNCHANGED <<files, staged, available, upload, commit, idleArmed>>

(* What OpenReadSession() has done to the checkpoint before it opens. *)
PointBeforeOpen(name, offset) ==
  LET closed == PointAfter(read, checkpoint)
  IN  IF offset > 0 THEN closed ELSE Invalidated(closed, name)

(* OpenReadSession() fails: no such file, a file in use, an I/O error. *)
ExecuteReadUnopened(name, offset, same) ==
  /\ TargetOk(name)
  /\ offset = 0 \/ ~IsReadSessionOf(name, same)
  /\ read' = NoRead
  /\ checkpoint' = PointBeforeOpen(name, offset)
  /\ UNCHANGED <<files, staged, available, upload, commit, idleArmed>>

(* A READ served: the chunk at `offset`, the CRC extended over the bytes   *)
(* before it and over it, the session closed with the last chunk.  A       *)
(* handle whose volume went away fails, and so may any read: that closes   *)
(* the session too.                                                        *)
ExecuteRead(name, offset, same, fails) ==
  LET reopen   == offset = 0 \/ ~IsReadSessionOf(name, same)
      point    == IF reopen THEN PointBeforeOpen(name, offset) ELSE checkpoint
      session  == IF reopen THEN Opened(name, point, offset > 0) ELSE read
      end      == IF offset < session.size THEN offset + 1 ELSE offset
      broken   == ~session.live \/ fails
      ends     == offset <= session.size /\ (broken \/ end = session.size)
      summed   == IF offset > session.size \/ broken THEN session
                  ELSE Extended(session, end)
  IN  /\ TargetOk(name)
      /\ reopen => files[EntryOf[name]] # NoFile
      /\ read' = IF ends THEN NoRead ELSE summed
      /\ checkpoint' = IF ends THEN PointAfter(summed, point) ELSE point
      /\ idleArmed' = (idleArmed \/ reopen \/ (~broken /\ end < session.size))
      /\ UNCHANGED <<files, staged, available, upload, commit>>

(* The CRC STAT answers without reading the file: of an open download that *)
(* read all of it, or of the checkpoint.                                   *)
KnownCrc(name, size, same) ==
  IF /\ IsReadSessionOf(name, same) /\ read.fresh
     /\ read.size = size /\ Len(read.crc) = size
  THEN {read.crc}
  ELSE IF PointServes(checkpoint, name, size) /\ Len(checkpoint.crc) = size
       THEN {checkpoint.crc} ELSE {}

(* STAT of a file whose CRC is not known: summed now, and kept as the      *)
(* checkpoint unless the file is above the cap.                            *)
ExecuteStat(name, same) ==
  LET content == files[EntryOf[name]]
  IN  /\ TargetOk(name)
      /\ content # NoFile
      /\ KnownCrc(name, Len(content), same) = {}
      /\ Len(content) <= StatCrcMax
      /\ checkpoint' = [valid |-> TRUE, name |-> name, size |-> Len(content),
                        fresh |-> TRUE, crc |-> content]
      /\ UNCHANGED <<files, staged, available, read, upload, commit, idleArmed>>

-----------------------------------------------------------------------------
\* Uploads.

(* AssetWriter::DiscardStaged(): nothing is deleted on a volume that is    *)
(* not there.                                                              *)
StagedAfterDiscard == staged /\ ~available

Aged(recorded) == [recorded EXCEPT !.fresh = FALSE]

(* IsFirstChunkRepeat(): the open upload's own first chunk, nothing after. *)
IsFirstChunkRepeat(name, content, chunk) ==
  /\ upload.open
  /\ upload.name = name /\ upload.declared = content
  /\ upload.first = chunk /\ upload.got = chunk

(* IsStoredFirstChunkRepeat(): the file of one chunk stored last, sent     *)
(* again without a token, and a file of its size is still there.           *)
IsStoredFirstChunkRepeat(name, content, chunk) ==
  /\ commit.valid /\ commit.offset = 0
  /\ commit.name = name /\ commit.declared = content /\ commit.chunk = chunk
  /\ files[EntryOf[name]] # NoFile
  /\ Len(files[EntryOf[name]]) = Len(content)

(* Mutant: a deleted or renamed file keeps its last commit. *)
MutantKeepsCommit(last, name) == last

(* InvalidateLastCommit(): the file is not the stored one any more. *)
Uncommitted(last, name) ==
  IF SameName(last.name, name) THEN NoCommit ELSE last

(* AbortUpload(): the staged file is deleted and the upload forgotten. *)
AbortUpload ==
  /\ upload' = Closed
  /\ staged' = StagedAfterDiscard
  /\ UNCHANGED <<files, available, read, checkpoint, commit, idleArmed>>

(* Mutant: the last chunk is kept as one that leaves more to come. *)
MutantOneChunkMore(u, chunk) ==
  /\ Len(u.got) + Len(chunk) <= Len(u.declared)
  /\ upload' = [u EXCEPT !.got = @ \o chunk]
  /\ staged' = TRUE
  /\ idleArmed' = TRUE
  /\ UNCHANGED <<files, available, read, checkpoint, commit>>

(* AcceptChunk() of a chunk that leaves more to come. *)
KeepChunk(u, chunk) ==
  /\ Len(u.got) + Len(chunk) < Len(u.declared)
  /\ upload' = [u EXCEPT !.got = @ \o chunk]
  /\ staged' = TRUE
  /\ idleArmed' = TRUE
  /\ UNCHANGED <<files, available, read, checkpoint, commit>>

(* FinishUpload()'s check of what was received against the declared CRC. *)
CrcMatches(u, chunk) == u.got \o chunk = u.declared

(* FinishUpload() of the upload u, all of whose data is there: the session *)
(* on the file is closed and its checkpoint dropped, then the staged file  *)
(* is renamed onto the asset.  The rename may fail, and on FAT it may fail *)
(* after it unlinked the asset.                                            *)
FinishUpload(u, chunk) ==
  LET entry  == EntryOf[u.name]
      closes == MayBeReadSessionOf(u.name)
      point  == Invalidated(IF closes THEN PointAfter(read, checkpoint)
                            ELSE checkpoint, u.name)
  IN  /\ Len(u.got) + Len(chunk) = Len(u.declared)
      /\ CrcMatches(u, chunk)
      /\ upload' = Closed
      /\ staged' = FALSE
      /\ read' = IF closes THEN NoRead ELSE Aged(read)
      /\ \/ /\ files' = [files EXCEPT ![entry] = u.got \o chunk]
            /\ checkpoint' = [valid |-> TRUE, name |-> u.name, fresh |-> TRUE,
                              size |-> Len(u.declared), crc |-> u.declared]
            /\ commit' = [valid |-> TRUE, name |-> u.name,
                          declared |-> u.declared, offset |-> Len(u.got),
                          chunk |-> chunk, kept |-> TRUE]
         \/ /\ files' \in {files, [files EXCEPT ![entry] = NoFile]}
            /\ checkpoint' = Aged(point)
            /\ commit' = [commit EXCEPT !.kept = @ /\ (files' = files \/ ~SameName(commit.name, u.name))]
      /\ UNCHANGED <<available, idleArmed>>

(* A first chunk that starts an upload: none is open, or the owner starts  *)
(* over, which aborts what it had.  Without room, when the staged file     *)
(* cannot be opened or written, or when the CRC is wrong, it ends at once. *)
WriteFirstChunk(name, content, chunk, owner) ==
  LET u == [open |-> TRUE, name |-> name, live |-> TRUE,
            declared |-> content, got |-> <<>>, first |-> chunk]
  IN  /\ TargetOk(name)
      /\ Len(chunk) <= Len(content)
      /\ owner \/ ~IsStoredFirstChunkRepeat(name, content, chunk)
      /\ upload.open => owner
      /\ AbortUpload \/ KeepChunk(u, chunk) \/ FinishUpload(u, chunk)

(* Its first chunk sent again: the answer got lost, the session goes on. *)
WriteFirstChunkAgain(name, content, chunk) ==
  /\ TargetOk(name)
  /\ IsFirstChunkRepeat(name, content, chunk)
  /\ idleArmed' = TRUE
  /\ UNCHANGED <<files, staged, available, read, checkpoint, upload, commit>>

IsUploadOf(name, owner) == upload.open /\ owner /\ upload.name = name

(* A chunk past the first, of the open upload: it ends the upload when the *)
(* kind or the volume went away, when it is too large or cannot be         *)
(* written, and is appended otherwise.                                     *)
WriteNextChunk(name, owner, offset, chunk) ==
  /\ IsUploadOf(name, owner)
  /\ \/ AbortUpload
     \/ /\ available /\ upload.live
        /\ offset > 0 /\ offset = Len(upload.got)
        /\ Len(chunk) <= Len(upload.declared) - Len(upload.got)
        /\ KeepChunk(upload, chunk) \/ FinishUpload(upload, chunk)

-----------------------------------------------------------------------------
\* Deleting and renaming.

(* DELETE: the session on the file, its checkpoint and its last commit go  *)
(* first; the unlink may fail.                                             *)
ExecuteDelete(name) ==
  LET closes == MayBeReadSessionOf(name)
      point  == IF closes THEN PointAfter(read, checkpoint) ELSE checkpoint
  IN  /\ TargetOk(name)
      /\ files[EntryOf[name]] # NoFile
      /\ read' = IF closes THEN NoRead ELSE Aged(read)
      /\ checkpoint' = Aged(Invalidated(point, name))
      /\ commit' = Uncommitted(commit, name)
      /\ files' \in {files, [files EXCEPT ![EntryOf[name]] = NoFile]}
      /\ UNCHANGED <<staged, available, upload, idleArmed>>

(* Mutant: a checkpoint of an older generation follows a rename. *)
MutantFollowsStale(point, name) ==
  point.valid /\ point.name = name /\ point.size = Len(files[EntryOf[name]])

(* Whether the checkpoint of a renamed file goes on as one of the new name. *)
Follows(point, name) == PointServes(point, name, Len(files[EntryOf[name]]))

(* Mutant: a rename does not look at the open upload. *)
MutantNeverBusy(name, to) == FALSE

(* An upload of either name is open: the rename is answered BUSY. *)
RenameBusy(name, to) ==
  upload.open /\ (SameName(upload.name, name) \/ SameName(upload.name, to))

(* RENAME: the sessions, checkpoints and the last commit of both names go  *)
(* first; a checkpoint of the present file follows it to its new name.     *)
ExecuteRename(name, to) ==
  LET closes == MayBeReadSessionOf(name) \/ MayBeReadSessionOf(to)
      point  == IF closes THEN PointAfter(read, checkpoint) ELSE checkpoint
      from   == EntryOf[name]
      target == EntryOf[to]
      forgot == Aged(Invalidated(Invalidated(point, name), to))
  IN  /\ TargetOk(name) /\ ~IsBuiltIn(to)
      /\ ~SameName(name, to)
      /\ files[from] # NoFile
      /\ ~RenameBusy(name, to)
      /\ read' = IF closes THEN NoRead ELSE Aged(read)
      /\ commit' = Uncommitted(Uncommitted(commit, name), to)
      /\ \/ /\ files' = [files EXCEPT ![target] = files[from], ![from] = NoFile]
            /\ checkpoint' = IF Follows(point, name)
                             THEN [point EXCEPT !.name = to, !.fresh = TRUE] ELSE forgot
         \/ /\ files' \in {files, [files EXCEPT ![target] = NoFile]}
            /\ checkpoint' = forgot
      /\ UNCHANGED <<staged, available, upload, idleArmed>>

-----------------------------------------------------------------------------
\* Time, the volume and power.

(* ExpireUpload(), which every WRITE does first and the idle task too. *)
ExpireUpload == upload.open /\ AbortUpload

(* Mutant: the idle task is armed again for a download only. *)
MutantForgetsUpload(readIdle, uploadIdle) ==
  /\ idleArmed
  /\ read' = IF readIdle THEN NoRead ELSE read
  /\ checkpoint' = IF readIdle THEN PointAfter(read, checkpoint) ELSE checkpoint
  /\ upload' = IF uploadIdle THEN Closed ELSE upload
  /\ staged' = IF uploadIdle /\ upload.open THEN StagedAfterDiscard ELSE staged
  /\ idleArmed' = read'.open
  /\ UNCHANGED <<files, available, commit>>

(* ProcessIdle(): sessions that were idle end; armed again while one is    *)
(* open.                                                                   *)
ProcessIdle(readIdle, uploadIdle) ==
  /\ idleArmed
  /\ read' = IF readIdle THEN NoRead ELSE read
  /\ checkpoint' = IF readIdle THEN PointAfter(read, checkpoint) ELSE checkpoint
  /\ upload' = IF uploadIdle THEN Closed ELSE upload
  /\ staged' = IF uploadIdle /\ upload.open THEN StagedAfterDiscard ELSE staged
  /\ idleArmed' = (read'.open \/ upload'.open)
  /\ UNCHANGED <<files, available, commit>>

(* SESSION_TIMEOUT_MS passes since the last commit: its record answers     *)
(* nothing any more.                                                       *)
CommitAges ==
  /\ commit.valid
  /\ commit' = NoCommit
  /\ UNCHANGED <<files, staged, available, read, checkpoint, upload, idleArmed>>

(* The SD card is pulled: the handles on it are dead, and what a session   *)
(* knows will be of another mount before it can be asked for.              *)
CardRemoved ==
  /\ available
  /\ available' = FALSE
  /\ read' = [read EXCEPT !.live = FALSE, !.fresh = FALSE]
  /\ upload' = [upload EXCEPT !.live = FALSE]
  /\ UNCHANGED <<files, staged, checkpoint, commit, idleArmed>>

(* SdMonitorHandler() remounts: this card or another one. *)
CardDetected ==
  /\ ~available
  /\ available' = TRUE
  /\ files' \in {files} \cup Cards
  /\ staged' \in {staged, FALSE}
  /\ checkpoint' = Aged(checkpoint)
  /\ commit' = [commit EXCEPT !.kept = FALSE]
  /\ UNCHANGED <<read, upload, idleArmed>>

(* Power is lost, in the middle of a rename perhaps, and the group starts  *)
(* again: Initialize() deletes what was staged.                            *)
PowerLoss ==
  /\ \/ files' = files
     \/ \E e \in Entries:
          /\ available
          /\ \/ upload.open /\ EntryOf[upload.name] = e
             \/ \E f \in Entries \ {e}: files[f] # NoFile
          /\ files' = [files EXCEPT ![e] = NoFile]
  /\ staged' = StagedAfterDiscard
  /\ read' = NoRead
  /\ checkpoint' = NoPoint
  /\ upload' = Closed
  /\ commit' = NoCommit
  /\ idleArmed' = FALSE
  /\ UNCHANGED available

-----------------------------------------------------------------------------
\* Requests clients send: any name, offset, token and chunk.

MaxSize == CHOOSE n \in {Len(c) : c \in Contents}: \A c \in Contents: Len(c) <= n

Chunks == UNION {[1..n -> Blocks] : n \in 1..MaxSize}

AskRead ==
  \E name \in Names, offset \in 0..MaxSize + 1, same \in {TRUE, ~read.open}:
    \/ ExecuteReadUnopened(name, offset, same)
    \/ \E fails \in BOOLEAN: ExecuteRead(name, offset, same, fails)

AskWriteFirst ==
  \E name \in UploadNames, content \in Contents, chunk \in Chunks:
    \/ \E owner \in BOOLEAN: WriteFirstChunk(name, content, chunk, owner)
    \/ WriteFirstChunkAgain(name, content, chunk)

AskWriteNext ==
  \E name \in UploadNames, owner \in BOOLEAN, offset \in 1..MaxSize, chunk \in Chunks:
    WriteNextChunk(name, owner, offset, chunk)

AssetsNext ==
  \/ AskRead
  \/ ExecuteReadUnavailable
  \/ \E name \in Names, same \in {TRUE, ~read.open}: ExecuteStat(name, same)
  \/ AskWriteFirst
  \/ AskWriteNext
  \/ \E name \in Names: ExecuteDelete(name)
  \/ \E name, to \in Names: ExecuteRename(name, to)
  \/ ExpireUpload
  \/ \E readIdle, uploadIdle \in BOOLEAN: ProcessIdle(readIdle, uploadIdle)
  \/ CommitAges
  \/ CardRemoved
  \/ CardDetected
  \/ PowerLoss

AssetsSpec == AssetsInit /\ [][AssetsNext]_assetVars

-----------------------------------------------------------------------------
(* The sessions and the volume stay well-formed; an open upload has data   *)
(* still to come.                                                          *)
AssetsTypeOK ==
  /\ files \in [Entries -> Seq(Blocks) \cup {NoFile}]
  /\ staged \in BOOLEAN /\ available \in BOOLEAN /\ idleArmed \in BOOLEAN
  /\ read.open => read.name \in Names /\ Len(read.crc) <= read.size
  /\ checkpoint.valid => checkpoint.name \in Names /\ Len(checkpoint.crc) <= checkpoint.size
  /\ upload.open => upload.name \in Names /\ Len(upload.got) < Len(upload.declared)

(* A CRC that is trusted without reading the file again is the CRC of the  *)
(* file as it is now, whatever uploads, deletes, renames, remounts and     *)
(* half-failed renames came since the checkpoint was taken, and under      *)
(* whatever spelling of the name.                                          *)
CheckpointDescribesFile ==
  (checkpoint.valid /\ checkpoint.fresh /\ available) =>
     LET content == files[EntryOf[checkpoint.name]]
     IN  content # NoFile /\ checkpoint.size = Len(content)
           => checkpoint.crc = SubSeq(content, 1, Len(checkpoint.crc))

(* The file of an open download is never deleted, renamed or replaced on   *)
(* its volume: FatFs has no open-file locking and would corrupt it.  So    *)
(* what the session summed is what the file holds.                         *)
OpenFileUntouched ==
  (read.open /\ read.live) =>
     LET content == files[EntryOf[read.name]]
     IN  /\ content # NoFile
         /\ read.size = Len(content)
         /\ read.crc = SubSeq(content, 1, Len(read.crc))

(* The record that answers a repeated last chunk "stored" is true: the     *)
(* file is there with the declared content, unless the volume changed or a *)
(* failed rename lost the file since.                                      *)
StoredAnswerTrue ==
  (commit.valid /\ commit.kept) => files[EntryOf[commit.name]] = commit.declared

(* A session that is open has the idle task armed, and an open upload has  *)
(* its staged file: a client that went away can hold neither the file of a *)
(* download nor the only upload for ever, and no other request takes the   *)
(* staged file away.                                                       *)
SessionsWatched ==
  /\ read.open \/ upload.open => idleArmed
  /\ upload.open /\ upload.live => staged

(* The service implements the catalog: an asset changes whole or not at    *)
(* all, and no chunk, failed write or power loss is ever seen half done.   *)
Catalog == INSTANCE AssetCatalog WITH
  assets  <- files,
  medium  <- available,
  pending <- IF upload.open
             THEN [entry |-> EntryOf[upload.name], content |-> upload.declared]
             ELSE NoUpload

ImplementsCatalog == Catalog!CatalogSpec
=============================================================================
