----------------------- MODULE AssetsMgmtGroup_proof -----------------------
(***************************************************************************)
(* Proofs about the assets group: for every set of names, spellings,       *)
(* built-ins and contents, what is known of a file without reading it is   *)
(* true of it, an open download's file stays as it is, and the service     *)
(* implements the catalog.                                                 *)
(***************************************************************************)
EXTENDS AssetsMgmtGroup, SequenceTheorems, TLAPS

(* Names whose file is on the volume: what CheckTarget() lets through. *)
Stored == {n \in Names: ~IsBuiltIn(n)}

(* What an entry of a volume may hold. *)
Volumes == [Entries -> Contents \cup {NoFile}]

Reads   == [open: BOOLEAN, name: Names \cup {NoName}, live: BOOLEAN, fresh: BOOLEAN,
            size: Nat, crc: Seq(Blocks)]
Points  == [valid: BOOLEAN, name: Names \cup {NoName}, size: Nat, fresh: BOOLEAN,
            crc: Seq(Blocks)]
Openings == [open: BOOLEAN, name: Names \cup {NoName}, live: BOOLEAN,
             declared: Contents \cup {<<>>}, got: Seq(Blocks), first: Seq(Blocks)]
Commits == [valid: BOOLEAN, name: Names \cup {NoName}, declared: Contents \cup {<<>>},
            offset: Nat, chunk: Seq(Blocks), kept: BOOLEAN]

(* The CRC of a download, or of a checkpoint, is the CRC of a beginning of *)
(* this file.                                                              *)
Sums(crc, content) == crc = SubSeq(content, 1, Len(crc))

(* A read session on the volume fs, mounted if av: fresh only while its    *)
(* handle is live, live only while the volume is there, and then its sum   *)
(* and its size are the file's.                                            *)
ReadOK(r, fs, av) ==
  /\ r \in Reads
  /\ r.open => r.name \in Stored /\ Len(r.crc) <= r.size
  /\ r.fresh => r.live
  /\ r.live => av
  /\ r.open /\ r.live => /\ fs[EntryOf[r.name]] # NoFile
                         /\ r.size = Len(fs[EntryOf[r.name]])
                         /\ Sums(r.crc, fs[EntryOf[r.name]])

(* A checkpoint of the present generation sums the file, if one of its     *)
(* size is there.                                                          *)
PointOK(p, fs, av) ==
  /\ p \in Points
  /\ p.valid => p.name \in Stored /\ Len(p.crc) <= p.size
  /\ p.valid /\ p.fresh /\ av /\ fs[EntryOf[p.name]] # NoFile
       /\ p.size = Len(fs[EntryOf[p.name]])
     => Sums(p.crc, fs[EntryOf[p.name]])

(* An upload waits for more; its writer is live only while the volume it   *)
(* stages on is there.                                                     *)
UploadOK(u, st, av) ==
  /\ u \in Openings
  /\ u.open => /\ u.name \in Stored
               /\ u.declared \in Contents
               /\ Len(u.got) < Len(u.declared)
  /\ u.live => av
  /\ u.open /\ u.live => st

CommitOK(c, fs) ==
  /\ c \in Commits
  /\ c.valid => c.name \in Stored
  /\ c.valid /\ c.kept => fs[EntryOf[c.name]] = c.declared

AssetsInv ==
  /\ files \in Volumes
  /\ staged \in BOOLEAN /\ available \in BOOLEAN /\ idleArmed \in BOOLEAN
  /\ ReadOK(read, files, available)
  /\ PointOK(checkpoint, files, available)
  /\ UploadOK(upload, staged, available)
  /\ CommitOK(commit, files)
  /\ read.open \/ upload.open => idleArmed

-----------------------------------------------------------------------------
(* Names and files *)

(* A name the service lets through is an entry of the volume. *)
LEMMA StoredEntry ==
  ASSUME NEW n \in Stored
  PROVE  n \in Names /\ EntryOf[n] \in Entries
<1>1. n \in Names /\ n \notin BuiltIns
  BY AssetsAssumption DEF Stored, IsBuiltIn, SameName
<1> QED BY <1>1 DEF Entries

(* What a file on the volume is. *)
LEMMA FileOnVolume ==
  ASSUME NEW fs \in Volumes, NEW n \in Stored, fs[EntryOf[n]] # NoFile
  PROVE  fs[EntryOf[n]] \in Contents /\ fs[EntryOf[n]] \in Seq(Blocks)
<1>1. fs[EntryOf[n]] \in Contents \cup {NoFile}
  BY StoredEntry DEF Volumes
<1> QED BY <1>1, AssetsAssumption

(* No content is mistaken for the absence of a file. *)
LEMMA ContentIsFile ==
  ASSUME NEW c \in Contents
  PROVE  c # NoFile /\ c \in Seq(Blocks) /\ Len(c) \in Nat
BY AssetsAssumption

-----------------------------------------------------------------------------
(* Sessions and checkpoints *)

(* Nothing is open, nothing is recorded. *)
LEMMA NothingOK ==
  ASSUME NEW fs, NEW av \in BOOLEAN, NEW st \in BOOLEAN
  PROVE  /\ ReadOK(NoRead, fs, av)
         /\ PointOK(NoPoint, fs, av)
         /\ UploadOK(Closed, st, av)
         /\ CommitOK(NoCommit, fs)
<1>1. <<>> \in Seq(Blocks) /\ Len(<<>>) = 0
  OBVIOUS
<1>2. ReadOK(NoRead, fs, av)
  BY <1>1 DEF ReadOK, NoRead, Reads
<1>3. PointOK(NoPoint, fs, av)
  BY <1>1 DEF PointOK, NoPoint, Points
<1>4. UploadOK(Closed, st, av)
  BY <1>1 DEF UploadOK, Closed, Openings
<1>5. CommitOK(NoCommit, fs)
  BY <1>1 DEF CommitOK, NoCommit, Commits
<1> QED BY <1>2, <1>3, <1>4, <1>5

(* CloseReadSession() leaves a checkpoint that is as true as the session. *)
LEMMA PointAfterOK ==
  ASSUME NEW fs, NEW av, NEW r, NEW p, ReadOK(r, fs, av), PointOK(p, fs, av)
  PROVE  PointOK(PointAfter(r, p), fs, av)
<1>1. CASE r.open /\ r.crc # <<>>
  <2> DEFINE q == PointAfter(r, p)
  <2>1. q = [valid |-> TRUE, name |-> r.name, size |-> r.size, fresh |-> r.fresh,
             crc |-> r.crc]
    BY <1>1 DEF PointAfter
  <2> HIDE DEF q
  <2>2. q \in Points /\ q.name = r.name /\ q.size = r.size /\ q.fresh = r.fresh /\ q.crc = r.crc
    <3>1. /\ r.name \in Names \cup {NoName} /\ r.size \in Nat /\ r.fresh \in BOOLEAN
          /\ r.crc \in Seq(Blocks)
      BY DEF ReadOK, Reads
    <3> QED BY <2>1, <3>1 DEF Points
  <2>3. r.fresh => Sums(r.crc, fs[EntryOf[r.name]])
    BY <1>1 DEF ReadOK
  <2>4. r.name \in Stored /\ Len(r.crc) <= r.size
    BY <1>1 DEF ReadOK
  <2>5. PointOK(q, fs, av)
    BY <2>2, <2>3, <2>4 DEF PointOK
  <2> QED BY <2>5 DEF q
<1>2. CASE ~(r.open /\ r.crc # <<>>)
  BY <1>2 DEF PointAfter
<1> QED BY <1>1, <1>2

(* Forgetting a checkpoint is always safe. *)
LEMMA InvalidatedOK ==
  ASSUME NEW fs, NEW av \in BOOLEAN, NEW p, NEW n, PointOK(p, fs, av)
  PROVE  PointOK(Invalidated(p, n), fs, av)
BY NothingOK DEF Invalidated

(* A checkpoint of an earlier generation claims nothing of any volume. *)
LEMMA AgedPointOK ==
  ASSUME NEW fs, NEW av, NEW gs, NEW aw, NEW p, PointOK(p, fs, av)
  PROVE  PointOK(Aged(p), gs, aw)
<1>1. Aged(p) \in Points /\ Aged(p).fresh = FALSE /\ Aged(p).valid = p.valid /\ Aged(p).name = p.name
      /\ Aged(p).size = p.size /\ Aged(p).crc = p.crc
  BY DEF Aged, PointOK, Points
<1> QED BY <1>1 DEF PointOK

(* A session on a file that did not change stays true when another file    *)
(* does.                                                                   *)
LEMMA AgedReadOK ==
  ASSUME NEW fs, NEW gs, NEW av, NEW r, ReadOK(r, fs, av),
         r.open => gs[EntryOf[r.name]] = fs[EntryOf[r.name]]
  PROVE  ReadOK(Aged(r), gs, av) /\ Aged(r).open = r.open
<1>1. Aged(r) \in Reads /\ Aged(r).fresh = FALSE /\ Aged(r).live = r.live /\ Aged(r).name = r.name
      /\ Aged(r).size = r.size /\ Aged(r).crc = r.crc /\ Aged(r).open = r.open
  BY DEF Aged, ReadOK, Reads
<1> QED BY <1>1 DEF ReadOK

(* OpenReadSession(): the new session's sum is empty or the checkpoint's. *)
LEMMA OpenedOK ==
  ASSUME files \in Volumes, available, NEW name \in Stored, files[EntryOf[name]] # NoFile,
         NEW p, PointOK(p, files, available), NEW use \in BOOLEAN
  PROVE  /\ ReadOK(Opened(name, p, use), files, available)
         /\ Opened(name, p, use).open = TRUE /\ Opened(name, p, use).name = name
<1> DEFINE content == files[EntryOf[name]]
           crc == IF use /\ PointServes(p, name, Len(content)) THEN p.crc ELSE <<>>
           r == Opened(name, p, use)
<1>1. content # NoFile /\ content \in Seq(Blocks) /\ Len(content) \in Nat
  BY FileOnVolume
<1>2. name \in Names
  BY DEF Stored
<1>3. r = [open |-> TRUE, name |-> name, live |-> TRUE, fresh |-> TRUE, size |-> Len(content), crc |-> crc]
  BY DEF Opened
<1>4. p.crc \in Seq(Blocks) /\ <<>> \in Seq(Blocks) /\ Len(<<>>) = 0
  <2>1. p.crc \in Seq(Blocks)
    BY DEF PointOK, Points
  <2> QED BY <2>1
<1>5. crc \in Seq(Blocks) /\ Len(crc) <= Len(content) /\ Sums(crc, content)
  <2>1. CASE use /\ PointServes(p, name, Len(content))
    BY <1>1, <1>4, <2>1 DEF PointOK, PointServes
  <2>2. CASE ~(use /\ PointServes(p, name, Len(content)))
    <3>1. crc = <<>>
      BY <2>2
    <3>2. Sums(<<>>, content)
      BY <1>4, SubSeqEmpty DEF Sums
    <3> QED BY <1>1, <1>4, <3>1, <3>2
  <2> QED BY <2>1, <2>2
<1> HIDE DEF r, crc
<1>6. r \in Reads
  BY <1>1, <1>2, <1>3, <1>5 DEF Reads
<1>7. ReadOK(r, files, available)
  BY <1>1, <1>3, <1>5, <1>6 DEF ReadOK
<1>8. r.open = TRUE /\ r.name = name
  BY <1>3
<1> QED BY <1>7, <1>8 DEF r

(* ExtendReadCrc(): the sum of a longer beginning of the same file. *)
LEMMA ExtendedOK ==
  ASSUME files \in Volumes, NEW r, ReadOK(r, files, available), r.open, r.live,
         NEW end \in Nat, end <= r.size
  PROVE  ReadOK(Extended(r, end), files, available) /\ Extended(r, end).open = r.open
<1> DEFINE content == files[EntryOf[r.name]]
           longer  == r.crc \o SubSeq(content, Len(r.crc) + 1, end)
           crc     == IF Len(r.crc) >= end THEN r.crc ELSE longer
           x       == Extended(r, end)
<1>1. /\ content \in Seq(Blocks) /\ r.size = Len(content)
      /\ r.crc = SubSeq(content, 1, Len(r.crc)) /\ Len(r.crc) <= r.size
      /\ r.crc \in Seq(Blocks) /\ Len(r.crc) \in Nat /\ r \in Reads
  <2>1. r \in Reads /\ r.name \in Stored /\ content # NoFile
    BY DEF ReadOK
  <2>2. /\ r.size = Len(content) /\ r.crc = SubSeq(content, 1, Len(r.crc))
        /\ Len(r.crc) <= r.size
    BY DEF ReadOK, Sums
  <2>3. r.crc \in Seq(Blocks) /\ Len(r.crc) \in Nat
    BY <2>1 DEF Reads
  <2>4. content \in Seq(Blocks)
    BY <2>1, FileOnVolume
  <2> QED BY <2>1, <2>2, <2>3, <2>4
<1>2. x = [r EXCEPT !.crc = crc]
  BY DEF Extended
<1>3. crc \in Seq(Blocks) /\ Len(crc) <= Len(content) /\ Sums(crc, content)
  <2>1. CASE Len(r.crc) >= end
    BY <1>1, <2>1 DEF Sums
  <2>2. CASE Len(r.crc) < end
    <3> DEFINE k == Len(r.crc)
    <3>1. 1 \in 1 .. Len(content) + 1 /\ k \in 1 - 1 .. Len(content) /\ end \in k .. Len(content)
      BY <1>1, <2>2
    <3>2. SubSeq(content, 1, k) \o SubSeq(content, k + 1, end) = SubSeq(content, 1, end)
      BY <1>1, <3>1, ConcatAdjacentSubSeq
    <3>3. crc = SubSeq(content, 1, end)
      <4>0. ~(Len(r.crc) >= end)
        BY <1>1, <2>2
      <4>1. crc = longer
        BY <4>0, Zenon
      <4> HIDE DEF crc
      <4>2. longer = SubSeq(content, 1, k) \o SubSeq(content, k + 1, end)
        BY <1>1
      <4> QED BY <3>2, <4>1, <4>2
    <3>4. \A i \in 1 .. end : content[i] \in Blocks
      BY <1>1
    <3>5. SubSeq(content, 1, end) \in Seq(Blocks) /\ Len(SubSeq(content, 1, end)) = end
      BY <1>1, <2>2, <3>4, SubSeqProperties
    <3> HIDE DEF crc, content
    <3>6. crc \in Seq(Blocks) /\ Len(crc) = end
      BY <3>3, <3>5
    <3>7. Len(crc) <= Len(content)
      BY <1>1, <3>6
    <3>8. crc = SubSeq(content, 1, Len(crc))
      BY <3>3, <3>6
    <3> QED BY <3>6, <3>7, <3>8 DEF Sums
  <2>3. Len(r.crc) >= end \/ Len(r.crc) < end
    BY <1>1
  <2> HIDE DEF crc, content
  <2> QED BY <2>1, <2>2, <2>3
<1> HIDE DEF x, crc
<1>4. /\ x \in Reads /\ x.open = r.open /\ x.name = r.name /\ x.live = r.live /\ x.fresh = r.fresh
      /\ x.size = r.size /\ x.crc = crc
  BY <1>1, <1>2, <1>3 DEF Reads
<1>5. ReadOK(x, files, available)
  BY <1>1, <1>3, <1>4 DEF ReadOK
<1> QED BY <1>4, <1>5 DEF x

-----------------------------------------------------------------------------
(* The steps *)

(* A card that is put in holds whole files only. *)
LEMMA CardsAreVolumes == Cards \subseteq Volumes
<1>1. (CHOOSE c \in Contents: TRUE) \in Contents
  BY AssetsAssumption
<1> QED BY <1>1 DEF Cards, Volumes

(* The initial state. *)
LEMMA AssetsInitInv == AssetsInit => AssetsInv
<1> SUFFICES ASSUME AssetsInit PROVE AssetsInv
  OBVIOUS
<1>1. NoRead.open = FALSE /\ Closed.open = FALSE
  BY DEF NoRead, Closed
<1> QED BY <1>1, NothingOK, CardsAreVolumes DEF AssetsInit, AssetsInv

(* A READ that finds no volume closes the session. *)
LEMMA ReadUnavailablePreserves == AssetsInv /\ ExecuteReadUnavailable => AssetsInv'
<1> SUFFICES ASSUME AssetsInv, ExecuteReadUnavailable PROVE AssetsInv'
  OBVIOUS
<1>1. NoRead.open = FALSE
  BY DEF NoRead
<1>2. ReadOK(read', files', available')
  BY NothingOK DEF AssetsInv, ExecuteReadUnavailable
<1>3. PointOK(checkpoint', files', available')
  BY PointAfterOK DEF AssetsInv, ExecuteReadUnavailable
<1> QED BY <1>1, <1>2, <1>3 DEF AssetsInv, ExecuteReadUnavailable

(* What OpenReadSession() keeps of the checkpoint is still true. *)
LEMMA PointBeforeOpenOK ==
  ASSUME AssetsInv, NEW name, NEW offset
  PROVE  PointOK(PointBeforeOpen(name, offset), files, available)
<1>1. PointOK(PointAfter(read, checkpoint), files, available)
  BY PointAfterOK DEF AssetsInv
<1> QED BY <1>1, InvalidatedOK DEF PointBeforeOpen, AssetsInv

(* A READ whose file cannot be opened. *)
LEMMA ReadUnopenedPreserves ==
  ASSUME AssetsInv, NEW name, NEW offset, NEW same, ExecuteReadUnopened(name, offset, same)
  PROVE  AssetsInv'
<1>1. NoRead.open = FALSE
  BY DEF NoRead
<1>2. ReadOK(read', files', available')
  BY NothingOK DEF AssetsInv, ExecuteReadUnopened
<1>3. PointOK(checkpoint', files', available')
  BY PointBeforeOpenOK DEF ExecuteReadUnopened
<1> QED BY <1>1, <1>2, <1>3 DEF AssetsInv, ExecuteReadUnopened

(* CheckTarget() lets only names of stored files through. *)
LEMMA TargetStored ==
  ASSUME NEW name \in Names, TargetOk(name)
  PROVE  name \in Stored /\ available
BY DEF TargetOk, Stored

(* A READ that is served, or fails on the way. *)
LEMMA ReadPreserves ==
  ASSUME AssetsInv, NEW name \in Names, NEW offset \in Nat, NEW same, NEW fails \in BOOLEAN,
         ExecuteRead(name, offset, same, fails)
  PROVE  AssetsInv'
<1> DEFINE reopen  == offset = 0 \/ ~IsReadSessionOf(name, same)
           point   == IF reopen THEN PointBeforeOpen(name, offset) ELSE checkpoint
           session == IF reopen THEN Opened(name, point, offset > 0) ELSE read
           end     == IF offset < session.size THEN offset + 1 ELSE offset
           broken  == ~session.live \/ fails
           ends    == offset <= session.size /\ (broken \/ end = session.size)
           summed  == IF offset > session.size \/ broken THEN session ELSE Extended(session, end)
<1>1. /\ TargetOk(name)
      /\ reopen => files[EntryOf[name]] # NoFile
      /\ read' = IF ends THEN NoRead ELSE summed
      /\ checkpoint' = IF ends THEN PointAfter(summed, point) ELSE point
      /\ idleArmed' = (idleArmed \/ reopen \/ (~broken /\ end < session.size))
      /\ UNCHANGED <<files, staged, available, upload, commit>>
  BY DEF ExecuteRead
<1>2. name \in Stored /\ available
  BY <1>1, TargetStored
<1>3. PointOK(point, files, available)
  BY PointBeforeOpenOK DEF AssetsInv
<1> HIDE DEF point
<1>4. ~reopen => read.open
  BY DEF IsReadSessionOf
<1>5. ReadOK(session, files, available) /\ session.open
  <2>1. CASE reopen
    <3>1. (offset > 0) \in BOOLEAN
      OBVIOUS
    <3>2. session = Opened(name, point, offset > 0)
      BY <2>1
    <3> HIDE DEF reopen, session
    <3>3. /\ ReadOK(Opened(name, point, offset > 0), files, available)
          /\ Opened(name, point, offset > 0).open = TRUE
      BY <1>1, <1>2, <1>3, <2>1, <3>1, OpenedOK DEF AssetsInv
    <3> QED BY <3>2, <3>3
  <2>2. CASE ~reopen
    BY <1>4, <2>2 DEF AssetsInv
  <2> QED BY <2>1, <2>2
<1> HIDE DEF session, reopen
<1>6. ReadOK(summed, files, available) /\ summed.open
  <2>1. CASE offset > session.size \/ broken
    BY <1>5, <2>1
  <2>2. CASE ~(offset > session.size \/ broken)
    <3>1. session.size \in Nat
      BY <1>5 DEF ReadOK, Reads
    <3>2. end \in Nat /\ end <= session.size
      BY <2>2, <3>1
    <3>3. session.live /\ summed = Extended(session, end)
      BY <2>2
    <3> HIDE DEF end
    <3>4. ReadOK(Extended(session, end), files, available) /\ Extended(session, end).open = session.open
      BY <1>5, <3>2, <3>3, ExtendedOK DEF AssetsInv
    <3> HIDE DEF summed
    <3> QED BY <1>5, <3>3, <3>4
  <2> QED BY <2>1, <2>2
<1> HIDE DEF summed, ends
<1>7. ReadOK(read', files', available')
  BY <1>1, <1>6, NothingOK DEF AssetsInv
<1>8. PointOK(checkpoint', files', available')
  BY <1>1, <1>3, <1>6, PointAfterOK
<1>9. idleArmed' = TRUE
  BY <1>1, <1>4 DEF AssetsInv
<1> QED BY <1>1, <1>7, <1>8, <1>9 DEF AssetsInv

(* STAT sums the whole file. *)
LEMMA StatPreserves ==
  ASSUME AssetsInv, NEW name \in Names, NEW same, ExecuteStat(name, same)
  PROVE  AssetsInv'
<1> DEFINE content == files[EntryOf[name]]
<1>1. /\ content # NoFile /\ name \in Stored
      /\ checkpoint' = [valid |-> TRUE, name |-> name, size |-> Len(content), fresh |-> TRUE,
                        crc |-> content]
      /\ UNCHANGED <<files, staged, available, read, upload, commit, idleArmed>>
  BY TargetStored DEF ExecuteStat
<1>2. content \in Seq(Blocks) /\ Len(content) \in Nat
  BY <1>1, FileOnVolume DEF AssetsInv
<1>3. SubSeq(content, 1, Len(content)) = content
  BY <1>2, SubSeqFull
<1>4. checkpoint' \in Points
  BY <1>1, <1>2 DEF Points, Stored
<1>5. PointOK(checkpoint', files', available')
  BY <1>1, <1>2, <1>3, <1>4 DEF PointOK, Sums
<1> QED BY <1>1, <1>5 DEF AssetsInv

(* A chunk is a sequence of blocks. *)
LEMMA ChunkType ==
  ASSUME NEW chunk \in Chunks
  PROVE  chunk \in Seq(Blocks)
<1>1. PICK n \in 1 .. MaxSize : chunk \in [1 .. n -> Blocks]
  BY DEF Chunks
<1>2. n \in Nat
  BY <1>1
<1> QED BY <1>1, <1>2, SeqDef

(* AbortUpload() leaves the files and what is known of them alone. *)
LEMMA AbortPreserves == AssetsInv /\ AbortUpload => AssetsInv'
<1> SUFFICES ASSUME AssetsInv, AbortUpload PROVE AssetsInv'
  OBVIOUS
<1>1. staged' \in BOOLEAN /\ Closed.open = FALSE
  BY DEF AbortUpload, StagedAfterDiscard, Closed
<1>2. UploadOK(upload', staged', available')
  BY <1>1, NothingOK DEF AbortUpload, AssetsInv
<1> QED BY <1>1, <1>2 DEF AssetsInv, AbortUpload

(* AcceptChunk() of a chunk that leaves more to come. *)
LEMMA KeepPreserves ==
  ASSUME AssetsInv, NEW u \in Openings, u.open, u.name \in Stored, u.declared \in Contents,
         u.live => available, NEW chunk \in Seq(Blocks), KeepChunk(u, chunk)
  PROVE  AssetsInv'
<1> DEFINE got == u.got \o chunk
<1>1. u.got \in Seq(Blocks)
  BY DEF Openings
<1>2. got \in Seq(Blocks) /\ Len(got) = Len(u.got) + Len(chunk)
  BY <1>1
<1>3. /\ Len(u.got) + Len(chunk) < Len(u.declared)
      /\ upload' = [u EXCEPT !.got = got]
      /\ staged' = TRUE /\ idleArmed' = TRUE
      /\ UNCHANGED <<files, available, read, checkpoint, commit>>
  BY DEF KeepChunk
<1> HIDE DEF got
<1>4. /\ upload' \in Openings /\ upload'.open = u.open /\ upload'.name = u.name
      /\ upload'.live = u.live /\ upload'.declared = u.declared /\ upload'.got = got
  BY <1>2, <1>3 DEF Openings
<1>5. UploadOK(upload', staged', available')
  BY <1>2, <1>3, <1>4 DEF UploadOK
<1> QED BY <1>3, <1>5 DEF AssetsInv

(* A record of the last commit stays true of a volume on which its file    *)
(* did not change.                                                         *)
LEMMA CommitStays ==
  ASSUME NEW fs, NEW gs, NEW c, CommitOK(c, fs),
         c.valid /\ c.kept => gs[EntryOf[c.name]] = fs[EntryOf[c.name]]
  PROVE  CommitOK(c, gs)
BY DEF CommitOK

(* The volume after the file of m became v. *)
Replaced(fs, m, v) == [fs EXCEPT ![EntryOf[m]] = v]

(* An open download whose entry is not the changed one keeps its file. *)
LEMMA OtherEntry ==
  ASSUME NEW fs \in Volumes, NEW n \in Stored, NEW m \in Stored, ~SameName(n, m), NEW v
  PROVE  Replaced(fs, m, v)[EntryOf[n]] = fs[EntryOf[n]]
<1>1. EntryOf[n] # EntryOf[m]
  BY StoredEntry DEF SameName
<1> QED BY <1>1, StoredEntry DEF Volumes, Replaced

(* A volume with one entry replaced is a volume. *)
LEMMA ReplacedVolume ==
  ASSUME NEW fs \in Volumes, NEW m \in Stored, NEW v \in Contents \cup {NoFile}
  PROVE  Replaced(fs, m, v) \in Volumes /\ Replaced(fs, m, v)[EntryOf[m]] = v
BY StoredEntry DEF Volumes, Replaced

(* The session that is closed, or goes on aged, when the file of m changes. *)
LEMMA ReadBesideChange ==
  ASSUME AssetsInv, NEW m \in Stored, NEW gs,
         \A n \in Stored : ~SameName(n, m) => gs[EntryOf[n]] = files[EntryOf[n]]
  PROVE  LET r == IF MayBeReadSessionOf(m) THEN NoRead ELSE Aged(read)
         IN  ReadOK(r, gs, available) /\ (r.open => read.open)
<1>1. CASE MayBeReadSessionOf(m)
  <2>1. NoRead.open = FALSE
    BY DEF NoRead
  <2> QED BY <1>1, <2>1, NothingOK DEF AssetsInv
<1>2. CASE ~MayBeReadSessionOf(m)
  <2>1. read.open => gs[EntryOf[read.name]] = files[EntryOf[read.name]]
    BY <1>2 DEF MayBeReadSessionOf, AssetsInv, ReadOK
  <2> QED BY <1>2, <2>1, AgedReadOK DEF AssetsInv
<1> QED BY <1>1, <1>2

(* What the file of m holds changes and no other does. *)
LEMMA ChangeOfOne ==
  ASSUME files \in Volumes, NEW m \in Stored, NEW v \in Contents \cup {NoFile},
         NEW gs \in {files, Replaced(files, m, v)}
  PROVE  /\ gs \in Volumes
         /\ \A n \in Stored : ~SameName(n, m) => gs[EntryOf[n]] = files[EntryOf[n]]
<1>1. CASE gs = files
  BY <1>1
<1>2. CASE gs = Replaced(files, m, v)
  <2>1. gs \in Volumes
    BY <1>2, ReplacedVolume
  <2>2. ASSUME NEW n \in Stored, ~SameName(n, m) PROVE gs[EntryOf[n]] = files[EntryOf[n]]
    BY <1>2, <2>2, OtherEntry
  <2> QED BY <2>1, <2>2
<1> QED BY <1>1, <1>2

(* FinishUpload(): the file is stored, with the checkpoint and the commit  *)
(* that describe it, or the rename failed and perhaps lost it.             *)
LEMMA FinishPreserves ==
  ASSUME AssetsInv, NEW u, u.name \in Stored, u.declared \in Contents, u.got \in Seq(Blocks),
         NEW chunk \in Seq(Blocks), FinishUpload(u, chunk)
  PROVE  AssetsInv'
<1> DEFINE closes == MayBeReadSessionOf(u.name)
           point  == Invalidated(IF closes THEN PointAfter(read, checkpoint) ELSE checkpoint, u.name)
           stored == Replaced(files, u.name, u.declared)
           lost   == Replaced(files, u.name, NoFile)
<1>1. /\ upload' = Closed /\ staged' = FALSE
      /\ read' = IF closes THEN NoRead ELSE Aged(read)
      /\ UNCHANGED <<available, idleArmed>>
  BY DEF FinishUpload
<1>2. u.got \o chunk = u.declared
  BY DEF FinishUpload, CrcMatches
<1>3. \/ /\ files' = stored
         /\ checkpoint' = [valid |-> TRUE, name |-> u.name, fresh |-> TRUE,
                           size |-> Len(u.declared), crc |-> u.declared]
         /\ commit' = [valid |-> TRUE, name |-> u.name, declared |-> u.declared,
                       offset |-> Len(u.got), chunk |-> chunk, kept |-> TRUE]
      \/ /\ files' \in {files, lost}
         /\ checkpoint' = Aged(point)
         /\ commit' = [commit EXCEPT !.kept = @ /\ (files' = files \/ ~SameName(commit.name, u.name))]
  BY <1>2 DEF FinishUpload, Replaced
<1>4. u.name \in Names /\ u.declared \in Seq(Blocks) /\ Len(u.declared) \in Nat /\ Len(u.got) \in Nat
      /\ u.declared # NoFile
  BY StoredEntry, ContentIsFile
<1>5. files' \in {files, stored} \/ files' \in {files, lost}
  BY <1>3
<1>6. /\ files' \in Volumes
      /\ \A n \in Stored : ~SameName(n, u.name) => files'[EntryOf[n]] = files[EntryOf[n]]
  <2>1. files \in Volumes
    BY DEF AssetsInv
  <2>2. CASE files' \in {files, stored}
    BY <2>1, <2>2, ChangeOfOne
  <2>3. CASE files' \in {files, lost}
    BY <2>1, <2>3, ChangeOfOne
  <2> QED BY <1>5, <2>2, <2>3
<1>7. ReadOK(read', files', available') /\ (read'.open => read.open)
  BY <1>1, <1>6, ReadBesideChange
<1>8. UploadOK(upload', staged', available') /\ upload'.open = FALSE
  BY <1>1, NothingOK DEF AssetsInv, Closed
<1>9. PointOK(checkpoint', files', available') /\ CommitOK(commit', files')
  <2>1. CASE /\ files' = stored
             /\ checkpoint' = [valid |-> TRUE, name |-> u.name, fresh |-> TRUE,
                               size |-> Len(u.declared), crc |-> u.declared]
             /\ commit' = [valid |-> TRUE, name |-> u.name, declared |-> u.declared,
                           offset |-> Len(u.got), chunk |-> chunk, kept |-> TRUE]
    <3>1. files'[EntryOf[u.name]] = u.declared
      BY <2>1, ReplacedVolume DEF AssetsInv
    <3>2. SubSeq(u.declared, 1, Len(u.declared)) = u.declared
      BY <1>4, SubSeqFull
    <3>3. checkpoint' \in Points /\ commit' \in Commits
      BY <1>4, <2>1 DEF Points, Commits
    <3>4. PointOK(checkpoint', files', available')
      BY <1>4, <2>1, <3>1, <3>2, <3>3 DEF PointOK, Sums
    <3>5. CommitOK(commit', files')
      BY <2>1, <3>1, <3>3 DEF CommitOK
    <3> QED BY <3>4, <3>5
  <2>2. CASE /\ files' \in {files, lost}
             /\ checkpoint' = Aged(point)
             /\ commit' = [commit EXCEPT !.kept = @ /\ (files' = files \/ ~SameName(commit.name, u.name))]
    <3>1. PointOK(point, files, available)
      BY PointAfterOK, InvalidatedOK DEF AssetsInv
    <3>2. PointOK(checkpoint', files', available')
      BY <2>2, <3>1, AgedPointOK
    <3>3. /\ commit' \in Commits /\ commit'.valid = commit.valid /\ commit'.name = commit.name
          /\ commit'.declared = commit.declared
          /\ commit'.kept = (commit.kept /\ (files' = files \/ ~SameName(commit.name, u.name)))
      BY <2>2 DEF AssetsInv, CommitOK, Commits
    <3>4. CommitOK(commit', files')
      BY <1>6, <3>3 DEF CommitOK, AssetsInv
    <3> QED BY <3>2, <3>4
  <2> QED BY <1>3, <2>1, <2>2
<1> QED BY <1>1, <1>6, <1>7, <1>8, <1>9 DEF AssetsInv

(* A first chunk, which may be the whole file. *)
LEMMA WriteFirstPreserves ==
  ASSUME AssetsInv, NEW name \in UploadNames, NEW content \in Contents, NEW chunk \in Chunks,
         NEW owner, WriteFirstChunk(name, content, chunk, owner)
  PROVE  AssetsInv'
<1> DEFINE u == [open |-> TRUE, name |-> name, live |-> TRUE, declared |-> content,
                 got |-> <<>>, first |-> chunk]
<1>1. TargetOk(name) /\ (AbortUpload \/ KeepChunk(u, chunk) \/ FinishUpload(u, chunk))
  BY DEF WriteFirstChunk
<1>2. name \in Names /\ chunk \in Seq(Blocks) /\ <<>> \in Seq(Blocks)
  BY AssetsAssumption, ChunkType
<1>3. name \in Stored /\ available
  BY <1>1, <1>2, TargetStored
<1>4. u \in Openings /\ u.open /\ u.name = name /\ u.declared = content /\ u.got = <<>>
  BY <1>2 DEF Openings
<1> HIDE DEF u
<1> QED BY <1>1, <1>2, <1>3, <1>4, AbortPreserves, KeepPreserves, FinishPreserves

(* The next chunk of the open upload. *)
LEMMA WriteNextPreserves ==
  ASSUME AssetsInv, NEW name, NEW owner, NEW offset, NEW chunk \in Chunks,
         WriteNextChunk(name, owner, offset, chunk)
  PROVE  AssetsInv'
<1>1. upload.open /\ (AbortUpload \/ KeepChunk(upload, chunk) \/ FinishUpload(upload, chunk))
  BY DEF WriteNextChunk, IsUploadOf
<1>2. /\ upload \in Openings /\ upload.name \in Stored /\ upload.declared \in Contents
      /\ upload.live => available
  BY <1>1 DEF AssetsInv, UploadOK
<1>3. upload.got \in Seq(Blocks) /\ chunk \in Seq(Blocks)
  BY <1>2, ChunkType DEF Openings
<1> QED BY <1>1, <1>2, <1>3, AbortPreserves, KeepPreserves, FinishPreserves

(* InvalidateLastCommit() of the name whose file changes. *)
LEMMA UncommittedOK ==
  ASSUME NEW fs, NEW gs, NEW c, CommitOK(c, fs), NEW m,
         \A n \in Stored : ~SameName(n, m) => gs[EntryOf[n]] = fs[EntryOf[n]]
  PROVE  CommitOK(Uncommitted(c, m), gs)
<1>1. CASE SameName(c.name, m)
  BY <1>1, NothingOK DEF Uncommitted
<1>2. CASE ~SameName(c.name, m)
  BY <1>2, CommitStays DEF Uncommitted, CommitOK
<1> QED BY <1>1, <1>2

(* DELETE: what was known of the file is forgotten whether or not the      *)
(* unlink succeeds.                                                        *)
LEMMA DeletePreserves ==
  ASSUME AssetsInv, NEW name \in Names, ExecuteDelete(name)
  PROVE  AssetsInv'
<1> DEFINE closes == MayBeReadSessionOf(name)
           point  == IF closes THEN PointAfter(read, checkpoint) ELSE checkpoint
<1>1. /\ TargetOk(name)
      /\ read' = IF closes THEN NoRead ELSE Aged(read)
      /\ checkpoint' = Aged(Invalidated(point, name))
      /\ commit' = Uncommitted(commit, name)
      /\ files' \in {files, Replaced(files, name, NoFile)}
      /\ UNCHANGED <<staged, available, upload, idleArmed>>
  BY DEF ExecuteDelete, Replaced
<1>2. name \in Stored
  BY <1>1, TargetStored
<1>3. files \in Volumes
  BY DEF AssetsInv
<1>4. /\ files' \in Volumes
      /\ \A n \in Stored : ~SameName(n, name) => files'[EntryOf[n]] = files[EntryOf[n]]
  BY <1>1, <1>2, <1>3, ChangeOfOne
<1>5. ReadOK(read', files', available') /\ (read'.open => read.open)
  BY <1>1, <1>2, <1>4, ReadBesideChange
<1>6. PointOK(Invalidated(point, name), files, available)
  BY PointAfterOK, InvalidatedOK DEF AssetsInv
<1>7. PointOK(checkpoint', files', available')
  BY <1>1, <1>6, AgedPointOK
<1>8. CommitOK(commit', files')
  BY <1>1, <1>4, UncommittedOK DEF AssetsInv
<1> QED BY <1>1, <1>4, <1>5, <1>7, <1>8 DEF AssetsInv

(* RENAME: neither file keeps a session or a commit, and only a checkpoint *)
(* of the moved file goes with it.                                         *)
LEMMA RenamePreserves ==
  ASSUME AssetsInv, NEW name \in Names, NEW to \in Names, ExecuteRename(name, to)
  PROVE  AssetsInv'
<1> DEFINE closes == MayBeReadSessionOf(name) \/ MayBeReadSessionOf(to)
           point  == IF closes THEN PointAfter(read, checkpoint) ELSE checkpoint
           forgot == Aged(Invalidated(Invalidated(point, name), to))
           moved  == Replaced(Replaced(files, to, files[EntryOf[name]]), name, NoFile)
           lost   == Replaced(files, to, NoFile)
<1>1. /\ TargetOk(name) /\ ~IsBuiltIn(to) /\ ~SameName(name, to) /\ files[EntryOf[name]] # NoFile
      /\ read' = IF closes THEN NoRead ELSE Aged(read)
      /\ commit' = Uncommitted(Uncommitted(commit, name), to)
      /\ UNCHANGED <<staged, available, upload, idleArmed>>
      /\ \/ /\ files' = moved
            /\ checkpoint' = IF Follows(point, name)
                             THEN [point EXCEPT !.name = to, !.fresh = TRUE] ELSE forgot
         \/ files' \in {files, lost} /\ checkpoint' = forgot
  BY DEF ExecuteRename, Replaced
<1>2. /\ name \in Stored /\ to \in Stored /\ available
      /\ ~SameName(to, name)
  BY <1>1, TargetStored DEF Stored, SameName
<1>3. files \in Volumes /\ files[EntryOf[name]] \in Contents
  BY <1>1, <1>2, FileOnVolume DEF AssetsInv
<1>4. /\ files' \in Volumes
      /\ \A n \in Stored : ~SameName(n, name) /\ ~SameName(n, to) => files'[EntryOf[n]] = files[EntryOf[n]]
      /\ files' = moved => files'[EntryOf[to]] = files[EntryOf[name]]
  <2> DEFINE half == Replaced(files, to, files[EntryOf[name]])
  <2>1. half \in Volumes /\ half[EntryOf[to]] = files[EntryOf[name]]
    BY <1>2, <1>3, ReplacedVolume
  <2>2. \A n \in Stored : ~SameName(n, to) => half[EntryOf[n]] = files[EntryOf[n]]
    BY <1>2, <1>3, OtherEntry
  <2> HIDE DEF half
  <2>3. /\ Replaced(half, name, NoFile) \in Volumes
        /\ \A n \in Stored : ~SameName(n, name) => Replaced(half, name, NoFile)[EntryOf[n]] = half[EntryOf[n]]
    BY <1>2, <2>1, ReplacedVolume, OtherEntry
  <2>4. moved = Replaced(half, name, NoFile)
    BY DEF half
  <2> HIDE DEF moved
  <2>5. CASE files' = moved
    BY <1>2, <2>1, <2>2, <2>3, <2>4, <2>5
  <2>6. CASE files' \in {files, lost} /\ files' # moved
    BY <1>2, <1>3, <2>6, ChangeOfOne
  <2> QED BY <1>1, <2>5, <2>6
<1> HIDE DEF moved, lost
<1>5. ReadOK(read', files', available') /\ (read'.open => read.open)
  <2>1. CASE closes
    BY <1>1, <2>1, NothingOK DEF AssetsInv, NoRead
  <2>2. CASE ~closes
    <3>1. read.open => files'[EntryOf[read.name]] = files[EntryOf[read.name]]
      BY <1>4, <2>2 DEF MayBeReadSessionOf, AssetsInv, ReadOK
    <3> QED BY <1>1, <2>2, <3>1, AgedReadOK DEF AssetsInv
  <2> QED BY <2>1, <2>2
<1>6. PointOK(point, files, available)
  BY PointAfterOK DEF AssetsInv
<1> HIDE DEF point
<1>7. PointOK(forgot, files', available')
  <2>1. PointOK(Invalidated(Invalidated(point, name), to), files, available)
    BY <1>6, InvalidatedOK DEF AssetsInv
  <2> QED BY <2>1, AgedPointOK
<1>8. PointOK(checkpoint', files', available')
  <2>1. CASE files' = moved /\ Follows(point, name) /\ checkpoint' = [point EXCEPT !.name = to, !.fresh = TRUE]
    <3>1. /\ point \in Points /\ point.valid /\ Len(point.crc) <= point.size
          /\ Sums(point.crc, files[EntryOf[name]])
      BY <1>1, <1>2, <1>6, <2>1 DEF PointOK, Follows, PointServes
    <3>2. /\ checkpoint' \in Points /\ checkpoint'.valid = point.valid /\ checkpoint'.name = to
          /\ checkpoint'.size = point.size /\ checkpoint'.crc = point.crc
      BY <2>1, <3>1 DEF Points
    <3> QED BY <1>2, <1>4, <2>1, <3>1, <3>2 DEF PointOK
  <2>2. CASE checkpoint' = forgot
    BY <1>7, <2>2
  <2> HIDE DEF forgot
  <2> QED BY <1>1, <2>1, <2>2
<1>9. CommitOK(commit', files')
  <2> DEFINE c == Uncommitted(commit, name)
  <2>1. c.valid => c = commit /\ ~SameName(commit.name, name)
    BY DEF Uncommitted, NoCommit
  <2>2. CommitOK(c, files)
    BY UncommittedOK DEF AssetsInv
  <2> HIDE DEF c
  <2>3. commit' = Uncommitted(c, to)
    BY <1>1 DEF c
  <2>4. CASE SameName(c.name, to)
    BY <2>3, <2>4, NothingOK DEF Uncommitted
  <2>5. CASE ~SameName(c.name, to)
    <3>1. c.valid => files'[EntryOf[c.name]] = files[EntryOf[c.name]]
      BY <1>4, <2>1, <2>2, <2>5 DEF CommitOK
    <3> QED BY <2>2, <2>3, <2>5, <3>1, CommitStays DEF Uncommitted
  <2> QED BY <2>4, <2>5
<1> QED BY <1>1, <1>4, <1>5, <1>8, <1>9 DEF AssetsInv

(* ProcessIdle(): sessions end, and the task stays armed for those that    *)
(* did not.                                                                *)
LEMMA IdlePreserves ==
  ASSUME AssetsInv, NEW readIdle \in BOOLEAN, NEW uploadIdle \in BOOLEAN, ProcessIdle(readIdle, uploadIdle)
  PROVE  AssetsInv'
<1>1. ReadOK(read', files', available') /\ read'.open \in BOOLEAN
  <2>1. read.open \in BOOLEAN /\ NoRead.open \in BOOLEAN
    BY DEF AssetsInv, ReadOK, Reads, NoRead
  <2> QED BY <2>1, NothingOK DEF ProcessIdle, AssetsInv
<1>2. PointOK(checkpoint', files', available')
  BY PointAfterOK DEF ProcessIdle, AssetsInv
<1>3. staged' \in BOOLEAN
  BY DEF ProcessIdle, AssetsInv, StagedAfterDiscard
<1>4. UploadOK(upload', staged', available') /\ upload'.open \in BOOLEAN
  <2>1. CASE uploadIdle
    <3>1. upload' = Closed /\ Closed.open = FALSE
      BY <2>1 DEF ProcessIdle, Closed
    <3> QED BY <1>3, <3>1, NothingOK DEF ProcessIdle, AssetsInv
  <2>2. CASE ~uploadIdle
    <3>1. upload' = upload /\ staged' = staged
      BY <2>2 DEF ProcessIdle
    <3> QED BY <3>1 DEF ProcessIdle, AssetsInv, UploadOK, Openings
  <2> QED BY <2>1, <2>2
<1>5. idleArmed' = (read'.open \/ upload'.open)
  BY DEF ProcessIdle
<1> QED BY <1>1, <1>2, <1>3, <1>4, <1>5 DEF ProcessIdle, AssetsInv

(* The card is pulled: the handles on it are dead. *)
LEMMA RemovedPreserves == AssetsInv /\ CardRemoved => AssetsInv'
<1> SUFFICES ASSUME AssetsInv, CardRemoved PROVE AssetsInv'
  OBVIOUS
<1>1. /\ read' \in Reads /\ read'.open = read.open /\ read'.name = read.name
      /\ read'.size = read.size /\ read'.crc = read.crc /\ read'.live = FALSE /\ read'.fresh = FALSE
  BY DEF CardRemoved, AssetsInv, ReadOK, Reads
<1>2. /\ upload' \in Openings /\ upload'.open = upload.open /\ upload'.name = upload.name
      /\ upload'.declared = upload.declared /\ upload'.got = upload.got /\ upload'.live = FALSE
  BY DEF CardRemoved, AssetsInv, UploadOK, Openings
<1>3. ReadOK(read', files', available')
  BY <1>1 DEF AssetsInv, ReadOK
<1>4. UploadOK(upload', staged', available')
  BY <1>2 DEF AssetsInv, UploadOK
<1>5. PointOK(checkpoint', files', available')
  BY DEF CardRemoved, AssetsInv, PointOK
<1> QED BY <1>1, <1>2, <1>3, <1>4, <1>5 DEF CardRemoved, AssetsInv

(* A card is mounted: whatever was known before is of another generation. *)
LEMMA DetectedPreserves == AssetsInv /\ CardDetected => AssetsInv'
<1> SUFFICES ASSUME AssetsInv, CardDetected PROVE AssetsInv'
  OBVIOUS
<1>1. files' \in Volumes /\ staged' \in BOOLEAN
  BY CardsAreVolumes DEF CardDetected, AssetsInv
<1>2. ReadOK(read', files', available')
  BY DEF CardDetected, AssetsInv, ReadOK
<1>3. PointOK(checkpoint', files', available')
  BY AgedPointOK DEF CardDetected, AssetsInv
<1>4. UploadOK(upload', staged', available')
  BY DEF CardDetected, AssetsInv, UploadOK
<1>5. commit' \in Commits /\ commit'.valid = commit.valid /\ commit'.name = commit.name /\ commit'.kept = FALSE
  BY DEF CardDetected, AssetsInv, CommitOK, Commits
<1>6. CommitOK(commit', files')
  BY <1>5 DEF AssetsInv, CommitOK
<1> QED BY <1>1, <1>2, <1>3, <1>4, <1>6 DEF CardDetected, AssetsInv

(* A restart forgets everything but the volume. *)
LEMMA PowerLossPreserves == AssetsInv /\ PowerLoss => AssetsInv'
<1> SUFFICES ASSUME AssetsInv, PowerLoss PROVE AssetsInv'
  OBVIOUS
<1>1. files' \in Volumes
  BY DEF PowerLoss, AssetsInv, Volumes
<1>2. staged' \in BOOLEAN /\ NoRead.open = FALSE /\ Closed.open = FALSE
  BY DEF PowerLoss, StagedAfterDiscard, NoRead, Closed
<1>3. /\ read' = NoRead /\ checkpoint' = NoPoint /\ upload' = Closed /\ commit' = NoCommit
      /\ idleArmed' = FALSE /\ available' = available
  BY DEF PowerLoss
<1>4. available' \in BOOLEAN
  BY <1>3 DEF AssetsInv
<1> QED BY <1>1, <1>2, <1>3, <1>4, NothingOK DEF AssetsInv

(* Every step of the service keeps the invariant. *)
LEMMA AssetsStep == AssetsInv /\ [AssetsNext]_assetVars => AssetsInv'
<1> SUFFICES ASSUME AssetsInv, [AssetsNext]_assetVars PROVE AssetsInv'
  OBVIOUS
<1>1. CASE AskRead
  <2>1. PICK name \in Names, offset \in 0 .. MaxSize + 1, same \in {TRUE, ~read.open} :
           \/ ExecuteReadUnopened(name, offset, same)
           \/ \E fails \in BOOLEAN: ExecuteRead(name, offset, same, fails)
    BY <1>1 DEF AskRead
  <2>2. offset \in Nat
    BY <2>1
  <2> QED BY <2>1, <2>2, ReadUnopenedPreserves, ReadPreserves
<1>2. CASE AskWriteFirst
  <2>1. PICK name \in UploadNames, content \in Contents, chunk \in Chunks :
           \/ \E owner \in BOOLEAN: WriteFirstChunk(name, content, chunk, owner)
           \/ WriteFirstChunkAgain(name, content, chunk)
    BY <1>2 DEF AskWriteFirst
  <2>2. CASE WriteFirstChunkAgain(name, content, chunk)
    BY <2>2 DEF WriteFirstChunkAgain, AssetsInv
  <2> QED BY <2>1, <2>2, WriteFirstPreserves
<1>3. CASE AskWriteNext
  BY <1>3, WriteNextPreserves DEF AskWriteNext
<1>4. CASE ExecuteReadUnavailable
  BY <1>4, ReadUnavailablePreserves
<1>5. CASE \E name \in Names, same \in {TRUE, ~read.open}: ExecuteStat(name, same)
  BY <1>5, StatPreserves
<1>6. CASE \E name \in Names: ExecuteDelete(name)
  BY <1>6, DeletePreserves
<1>7. CASE \E name, to \in Names: ExecuteRename(name, to)
  BY <1>7, RenamePreserves
<1>8. CASE ExpireUpload
  BY <1>8, AbortPreserves DEF ExpireUpload
<1>9. CASE \E readIdle, uploadIdle \in BOOLEAN: ProcessIdle(readIdle, uploadIdle)
  BY <1>9, IdlePreserves
<1>10. CASE CommitAges
  BY <1>10, NothingOK DEF CommitAges, AssetsInv
<1>11. CASE CardRemoved \/ CardDetected \/ PowerLoss
  BY <1>11, RemovedPreserves, DetectedPreserves, PowerLossPreserves
<1>12. CASE UNCHANGED assetVars
  BY <1>12 DEF assetVars, AssetsInv
<1> QED BY <1>1, <1>2, <1>3, <1>4, <1>5, <1>6, <1>7, <1>8, <1>9, <1>10, <1>11, <1>12 DEF AssetsNext

(* The invariant implies each of the properties.                           *)
LEMMA AssetsInvImplies ==
  AssetsInv => /\ AssetsTypeOK /\ CheckpointDescribesFile /\ OpenFileUntouched
               /\ StoredAnswerTrue /\ SessionsWatched
<1> SUFFICES ASSUME AssetsInv
             PROVE  /\ AssetsTypeOK /\ CheckpointDescribesFile /\ OpenFileUntouched
                    /\ StoredAnswerTrue /\ SessionsWatched
  OBVIOUS
<1>1. files \in [Entries -> Seq(Blocks) \cup {NoFile}]
  BY AssetsAssumption DEF AssetsInv, Volumes
<1>2. AssetsTypeOK
  BY <1>1 DEF AssetsInv, ReadOK, PointOK, UploadOK, Stored, AssetsTypeOK
<1>3. CheckpointDescribesFile
  BY DEF AssetsInv, PointOK, Sums, CheckpointDescribesFile
<1>4. OpenFileUntouched
  BY DEF AssetsInv, ReadOK, Sums, OpenFileUntouched
<1>5. StoredAnswerTrue
  BY DEF AssetsInv, CommitOK, StoredAnswerTrue
<1>6. SessionsWatched
  BY DEF AssetsInv, UploadOK, SessionsWatched
<1> QED BY <1>2, <1>3, <1>4, <1>5, <1>6

-----------------------------------------------------------------------------
(* The theorems *)

(* In every reachable state the sessions and the volume are well formed.   *)
THEOREM AssetsTypeCorrect == AssetsSpec => []AssetsTypeOK
<1>1. AssetsInv => AssetsTypeOK
  BY AssetsInvImplies
<1> QED BY <1>1, AssetsInitInv, AssetsStep, PTL DEF AssetsSpec

(* A CRC that STAT or a resumed download takes from the checkpoint is the  *)
(* CRC of the present file, for every set of names, spellings and files.   *)
THEOREM CheckpointIsTrue == AssetsSpec => []CheckpointDescribesFile
<1>1. AssetsInv => CheckpointDescribesFile
  BY AssetsInvImplies
<1> QED BY <1>1, AssetsInitInv, AssetsStep, PTL DEF AssetsSpec

(* No request changes the file of an open download under its handle. *)
THEOREM OpenFileIsSafe == AssetsSpec => []OpenFileUntouched
<1>1. AssetsInv => OpenFileUntouched
  BY AssetsInvImplies
<1> QED BY <1>1, AssetsInitInv, AssetsStep, PTL DEF AssetsSpec

(* A repeated last chunk is answered "stored" only when the file is. *)
THEOREM StoredAnswerIsTrue == AssetsSpec => []StoredAnswerTrue
<1>1. AssetsInv => StoredAnswerTrue
  BY AssetsInvImplies
<1> QED BY <1>1, AssetsInitInv, AssetsStep, PTL DEF AssetsSpec

(* No open session is left without the idle task that ends it. *)
THEOREM SessionsAreWatched == AssetsSpec => []SessionsWatched
<1>1. AssetsInv => SessionsWatched
  BY AssetsInvImplies
<1> QED BY <1>1, AssetsInitInv, AssetsStep, PTL DEF AssetsSpec

-----------------------------------------------------------------------------
(* The refinement *)

(* FinishUpload() stores the awaited file at once, or abandons it. *)
LEMMA FinishRefines ==
  ASSUME AssetsInv, available, NEW u, u.name \in Stored, u.declared \in Contents, NEW chunk,
         FinishUpload(u, chunk)
  PROVE  Catalog!Store \/ Catalog!Abandon
<1>1. EntryOf[u.name] \in Entries
  BY StoredEntry
<1>2. upload' = Closed /\ Closed.open = FALSE /\ available' = available
  BY DEF FinishUpload, Closed
<1>3. u.got \o chunk = u.declared
  BY DEF FinishUpload, CrcMatches
<1>4. \/ files' = [files EXCEPT ![EntryOf[u.name]] = u.declared]
      \/ files' \in {files, [files EXCEPT ![EntryOf[u.name]] = NoFile]}
  BY <1>3 DEF FinishUpload
<1>5. CASE files' = [files EXCEPT ![EntryOf[u.name]] = u.declared]
  <2> DEFINE up == [entry |-> EntryOf[u.name], content |-> u.declared]
  <2>1. up \in Catalog!Uploads /\ files' = [files EXCEPT ![up.entry] = up.content]
    BY <1>1, <1>5 DEF Catalog!Uploads
  <2> QED BY <1>2, <2>1 DEF Catalog!Store
<1>6. CASE files' \in {files, [files EXCEPT ![EntryOf[u.name]] = NoFile]}
  BY <1>1, <1>2, <1>6 DEF Catalog!Abandon
<1> QED BY <1>4, <1>5, <1>6

(* AbortUpload() abandons the upload, if one was open. *)
LEMMA AbortRefines == AbortUpload => Catalog!Abandon
<1> SUFFICES ASSUME AbortUpload PROVE Catalog!Abandon
  OBVIOUS
<1>1. upload' = Closed /\ Closed.open = FALSE /\ available' = available /\ files' = files
  BY DEF AbortUpload, Closed
<1> QED BY <1>1 DEF Catalog!Abandon

(* The requests that only read, and the record of the last commit, change  *)
(* nothing the catalog shows.                                              *)
LEMMA SilentSteps ==
  ASSUME UNCHANGED <<files, available>>, upload'.open = upload.open, upload'.name = upload.name,
         upload'.declared = upload.declared
  PROVE  UNCHANGED Catalog!catalogVars
BY DEF Catalog!catalogVars

(* WRITE: the first chunk begins an upload, a later one keeps it or        *)
(* completes it.                                                           *)
LEMMA WriteRefines ==
  ASSUME AssetsInv, AskWriteFirst \/ AskWriteNext
  PROVE  [Catalog!CatalogNext]_(Catalog!catalogVars)
<1> USE DEF Catalog!CatalogNext
<1>1. CASE AskWriteFirst
  <2>1. PICK name \in UploadNames, content \in Contents, chunk \in Chunks :
           \/ \E owner \in BOOLEAN: WriteFirstChunk(name, content, chunk, owner)
           \/ WriteFirstChunkAgain(name, content, chunk)
    BY <1>1 DEF AskWriteFirst
  <2>2. CASE WriteFirstChunkAgain(name, content, chunk)
    BY <2>2, SilentSteps DEF WriteFirstChunkAgain
  <2>3. CASE \E owner \in BOOLEAN: WriteFirstChunk(name, content, chunk, owner)
    <3> DEFINE u == [open |-> TRUE, name |-> name, live |-> TRUE, declared |-> content,
                     got |-> <<>>, first |-> chunk]
    <3>1. TargetOk(name) /\ (AbortUpload \/ KeepChunk(u, chunk) \/ FinishUpload(u, chunk))
      BY <2>3 DEF WriteFirstChunk
    <3>2. name \in Stored /\ available
      BY <3>1, AssetsAssumption, TargetStored
    <3>3. u.open = TRUE /\ u.name = name /\ u.declared = content
      OBVIOUS
    <3>4. CASE KeepChunk(u, chunk)
      <4>1. /\ upload'.open = TRUE /\ upload'.name = name /\ upload'.declared = content
            /\ files' = files /\ available' = available
        BY <3>4 DEF KeepChunk
      <4>2. EntryOf[name] \in Entries
        BY <3>2, StoredEntry
      <4> QED BY <3>2, <4>1, <4>2 DEF Catalog!Begin, Catalog!Uploads
    <3> HIDE DEF u
    <3>5. CASE FinishUpload(u, chunk)
      BY <3>2, <3>3, <3>5, FinishRefines
    <3> QED BY <3>1, <3>4, <3>5, AbortRefines
  <2> QED BY <2>1, <2>2, <2>3
<1>2. CASE AskWriteNext
  <2>1. PICK chunk \in Chunks : /\ upload.open
                                /\ \/ AbortUpload
                                   \/ available /\ KeepChunk(upload, chunk)
                                   \/ available /\ FinishUpload(upload, chunk)
    BY <1>2 DEF AskWriteNext, WriteNextChunk, IsUploadOf
  <2>2. upload \in Openings /\ upload.name \in Stored /\ upload.declared \in Contents
    BY <2>1 DEF AssetsInv, UploadOK
  <2>3. CASE KeepChunk(upload, chunk)
    <3>1. upload'.open = upload.open /\ upload'.name = upload.name /\ upload'.declared = upload.declared
      BY <2>2, <2>3 DEF KeepChunk, Openings
    <3> QED BY <2>3, <3>1, SilentSteps DEF KeepChunk
  <2>4. CASE available /\ FinishUpload(upload, chunk)
    BY <2>2, <2>4, FinishRefines
  <2> QED BY <2>1, <2>3, <2>4, AbortRefines
<1> QED BY <1>1, <1>2

(* DELETE removes an asset or does nothing. *)
LEMMA DeleteRefines ==
  ASSUME AssetsInv, NEW name \in Names, ExecuteDelete(name)
  PROVE  [Catalog!CatalogNext]_(Catalog!catalogVars)
<1>1. name \in Stored /\ available
  BY TargetStored DEF ExecuteDelete
<1>2. EntryOf[name] \in Entries
  BY <1>1, StoredEntry
<1>3. available' = available /\ upload' = upload
  BY DEF ExecuteDelete
<1>4. CASE files' = files
  BY <1>3, <1>4, SilentSteps
<1>5. CASE files' = [files EXCEPT ![EntryOf[name]] = NoFile]
  BY <1>1, <1>2, <1>3, <1>5 DEF Catalog!Remove, Catalog!CatalogNext
<1> QED BY <1>4, <1>5 DEF ExecuteDelete

(* RENAME moves an asset, loses its target, or does nothing; never while   *)
(* an upload waits for either.                                             *)
LEMMA RenameRefines ==
  ASSUME AssetsInv, NEW name \in Names, NEW to \in Names, ExecuteRename(name, to)
  PROVE  [Catalog!CatalogNext]_(Catalog!catalogVars)
<1> DEFINE from   == EntryOf[name]
           target == EntryOf[to]
           pend   == IF upload.open
                     THEN [entry |-> EntryOf[upload.name], content |-> upload.declared]
                     ELSE NoUpload
<1>1. name \in Stored /\ to \in Stored /\ available
  BY TargetStored DEF ExecuteRename, Stored
<1>2. from \in Entries /\ target \in Entries
  BY <1>1, StoredEntry
<1>3. from # target /\ files[from] # NoFile
  BY DEF ExecuteRename, SameName
<1>4. available' = available /\ upload' = upload
  BY DEF ExecuteRename
<1>5. upload.open => EntryOf[upload.name] \notin {from, target}
  <2>1. upload.open => upload.name \in Names
    BY DEF AssetsInv, UploadOK, Stored
  <2> QED BY <2>1 DEF ExecuteRename, RenameBusy, SameName
<1>6. pend # NoUpload => pend.entry \notin {from, target}
  <2>1. CASE upload.open
    <3>1. pend.entry = EntryOf[upload.name]
      BY <2>1
    <3> QED BY <1>5, <2>1, <3>1
  <2>2. CASE ~upload.open
    BY <2>2
  <2> QED BY <2>1, <2>2
<1>7. \/ files' = files
      \/ files' \in {[files EXCEPT ![target] = files[from], ![from] = NoFile],
                     [files EXCEPT ![target] = NoFile]}
  BY DEF ExecuteRename
<1>8. CASE files' = files
  BY <1>4, <1>8, SilentSteps
<1>9. CASE files' \in {[files EXCEPT ![target] = files[from], ![from] = NoFile],
                       [files EXCEPT ![target] = NoFile]}
  <2>1. Catalog!Move
    BY <1>1, <1>2, <1>3, <1>4, <1>6, <1>9 DEF Catalog!Move
  <2> QED BY <2>1 DEF Catalog!CatalogNext
<1> QED BY <1>7, <1>8, <1>9

(* Timeouts, the card coming and going, and power loss. *)
LEMMA EventRefines ==
  ASSUME AssetsInv,
         \/ ExpireUpload \/ CommitAges \/ CardRemoved \/ CardDetected \/ PowerLoss
         \/ \E readIdle, uploadIdle \in BOOLEAN: ProcessIdle(readIdle, uploadIdle)
  PROVE  [Catalog!CatalogNext]_(Catalog!catalogVars)
<1> USE DEF Catalog!CatalogNext
<1>0. Closed.open = FALSE
  BY DEF Closed
<1>1. CASE ExpireUpload
  BY <1>1, AbortRefines DEF ExpireUpload
<1>2. CASE CommitAges
  BY <1>2, SilentSteps DEF CommitAges
<1>3. CASE CardRemoved
  <2>1. upload'.open = upload.open /\ upload'.name = upload.name /\ upload'.declared = upload.declared
    BY <1>3 DEF CardRemoved, AssetsInv, UploadOK, Openings
  <2> QED BY <1>3, <2>1 DEF CardRemoved, Catalog!Eject
<1>4. CASE CardDetected
  <2>1. files' \in [Entries -> Contents \cup {NoFile}]
    BY <1>4, CardsAreVolumes DEF CardDetected, AssetsInv, Volumes
  <2> QED BY <1>4, <2>1 DEF CardDetected, Catalog!Insert
<1>5. CASE PowerLoss
  <2>1. files' = files \/ \E e \in Entries: files' = [files EXCEPT ![e] = NoFile]
    BY <1>5 DEF PowerLoss
  <2> QED BY <1>0, <1>5, <2>1 DEF PowerLoss, Catalog!Abandon
<1>6. CASE \E readIdle, uploadIdle \in BOOLEAN: ProcessIdle(readIdle, uploadIdle)
  <2>1. files' = files /\ available' = available /\ (upload' = Closed \/ upload' = upload)
    BY <1>6 DEF ProcessIdle
  <2>2. CASE upload' = Closed
    BY <1>0, <2>1, <2>2 DEF Catalog!Abandon
  <2>3. CASE upload' = upload
    BY <2>1, <2>3, SilentSteps
  <2> QED BY <2>1, <2>2, <2>3
<1> QED BY <1>1, <1>2, <1>3, <1>4, <1>5, <1>6

(* Every step of the service is a step of the catalog, or shows nothing. *)
LEMMA StepRefines ==
  ASSUME AssetsInv, [AssetsNext]_assetVars
  PROVE  [Catalog!CatalogNext]_(Catalog!catalogVars)
<1>1. CASE AskRead \/ ExecuteReadUnavailable
           \/ \E name \in Names, same \in {TRUE, ~read.open}: ExecuteStat(name, same)
  <2>1. UNCHANGED <<files, available, upload>>
    <3>1. ASSUME NEW name, NEW offset, NEW same, NEW fails, ExecuteRead(name, offset, same, fails)
          PROVE  UNCHANGED <<files, available, upload>>
      BY <3>1, Zenon DEF ExecuteRead
    <3>2. ASSUME NEW name, NEW offset, NEW same, ExecuteReadUnopened(name, offset, same)
          PROVE  UNCHANGED <<files, available, upload>>
      BY <3>2 DEF ExecuteReadUnopened
    <3>3. ASSUME NEW name, NEW same, ExecuteStat(name, same)
          PROVE  UNCHANGED <<files, available, upload>>
      BY <3>3 DEF ExecuteStat
    <3>4. CASE ExecuteReadUnavailable
      BY <3>4 DEF ExecuteReadUnavailable
    <3> QED BY <1>1, <3>1, <3>2, <3>3, <3>4 DEF AskRead
  <2> QED BY <2>1, SilentSteps
<1>2. CASE UNCHANGED assetVars
  BY <1>2, SilentSteps DEF assetVars
<1>3. CASE \E name \in Names: ExecuteDelete(name)
  BY <1>3, DeleteRefines
<1>4. CASE \E name, to \in Names: ExecuteRename(name, to)
  BY <1>4, RenameRefines
<1> QED BY <1>1, <1>2, <1>3, <1>4, WriteRefines, EventRefines DEF AssetsNext

(* The service implements the catalog: an asset changes whole or not at    *)
(* all, for every set of names, built-ins and contents.                    *)
THEOREM ServiceIsCatalog == AssetsSpec => ImplementsCatalog
<1>1. AssetsInit => Catalog!CatalogInit
  <2> SUFFICES ASSUME AssetsInit PROVE Catalog!CatalogInit
    OBVIOUS
  <2>1. upload.open = FALSE
    BY DEF AssetsInit, Closed
  <2>2. files \in [Entries -> Contents \cup {NoFile}]
    BY CardsAreVolumes DEF AssetsInit, Volumes
  <2> QED BY <2>1, <2>2 DEF AssetsInit, Catalog!CatalogInit
<1>2. AssetsInv /\ [AssetsNext]_assetVars => [Catalog!CatalogNext]_(Catalog!catalogVars)
  BY StepRefines
<1> QED BY <1>1, <1>2, AssetsInitInv, AssetsStep, PTL
        DEF AssetsSpec, ImplementsCatalog, Catalog!CatalogSpec
=============================================================================
