----------------------------- MODULE FsService ------------------------------
(***************************************************************************)
(* The file service: the stream buffer of its files, and the rename on its *)
(* volume.                                                                 *)
(***************************************************************************)
EXTENDS Naturals, Sequences, Functions

(***************************************************************************)
(* FsServiceStreamBuf: the stream buffer a log is written through and      *)
(* files are read through.  Written bytes wait in a put area; a write that *)
(* falls short latches the stream.  Read bytes wait in a get area; the     *)
(* file's own position is ahead by what is unread.                         *)
(***************************************************************************)

CONSTANTS BufferSize,  \* the put area's size, 0: every write goes to the file
          GetSize,     \* the get area's size
          MaxBytes     \* bound: bytes written, and length of a file read

ASSUME StreamAssumption == BufferSize \in Nat /\ GetSize \in Nat \ {0} /\ MaxBytes \in Nat

VARIABLES mode,      \* "closed", "write" or "read"
          file,      \* the file's bytes
          pos,       \* the file's position
          put,       \* pptr() - pbase(): pending bytes
          unread,    \* egptr() - gptr(): the bytes of the get area
          failed,    \* write_failed_
          image,     \* ghost: the file if every accepted byte had gone to it
          cursor,    \* ghost: where in image the next byte goes, or is read
          result,    \* ghost: how the last write, sync or seek ended
          bytes      \* ghost: what the last read result

streamVars == <<mode, file, pos, put, unread, failed, image, cursor, result, bytes>>

StreamInit ==
  /\ mode = "closed"
  /\ file = <<>> /\ image = <<>>
  /\ pos = 0 /\ cursor = 0
  /\ put = <<>> /\ unread = <<>>
  /\ failed = FALSE
  /\ result = "none" /\ bytes = <<>>

(* At most n bytes of s from its i-th on. *)
Slice(s, i, n) == SubSeq(s, i, IF i + n - 1 < Len(s) THEN i + n - 1 ELSE Len(s))

(* The bytes s written into f at position p. *)
Written(f, p, s) ==
  Slice(f, 1, p) \o s \o SubSeq(f, p + Len(s) + 1, Len(f))

(* The constructor; the file is truncated, appended to or read. *)
Open(m, f) ==
  /\ mode = "closed"
  /\ mode' = m
  /\ file' = f /\ image' = f
  /\ pos' = IF m = "read" THEN 0 ELSE Len(f)
  /\ cursor' = pos'
  /\ put' = <<>> /\ unread' = <<>> /\ failed' = FALSE
  /\ result' = "none" /\ bytes' = <<>>

(* WriteToFile(): n of the bytes of s reach the file; less than all latch  *)
(* the stream.                                                             *)
WriteToFile(f, p, s, n) == [file |-> Written(f, p, SubSeq(s, 1, n)), pos |-> p + n,
                            ok |-> n = Len(s)]

(* Mutant: a flush that falls short is not latched. *)
MutantUnlatched(n) == [file |-> Written(file, pos, SubSeq(put, 1, n)), pos |-> pos + n,
                       ok |-> TRUE]

(* FlushPutArea() of which n bytes reach the file: the put area is empty   *)
(* after it either way.                                                    *)
FlushPutArea(n) == WriteToFile(file, pos, put, n)

(* The ghosts of s accepted for writing at the cursor. *)
Accept(s) ==
  /\ image' = Written(image, cursor, s)
  /\ cursor' = cursor + Len(s)

NewBytes(n) == [i \in 1..n |-> Len(image) + i]

(* sputc() and overflow(): a byte that finds the put area full flushes it. *)
(* With a flush that fails the byte is refused.                            *)
PutOne(got) ==
  LET full  == Len(put) = BufferSize
      flush == FlushPutArea(got)
  IN  /\ mode = "write" /\ ~failed
      /\ full => got <= Len(put)
      /\ IF full /\ ~flush.ok
         THEN /\ failed' = TRUE /\ put' = <<>> /\ result' = "short"
              /\ UNCHANGED <<image, cursor>>
         ELSE /\ put' = (IF full THEN <<>> ELSE put) \o NewBytes(1)
              /\ result' = "all" /\ Accept(NewBytes(1))
              /\ UNCHANGED failed
      /\ file' = IF full THEN flush.file ELSE file
      /\ pos' = IF full THEN flush.pos ELSE pos
      /\ UNCHANGED <<mode, unread, bytes>>

(* xsputn(): bytes that fit the put area wait there, a full one is         *)
(* flushed; a request as large as the buffer flushes what is pending and   *)
(* goes straight to the file.  One write may fall short.                   *)
Put(n, got) ==
  LET s      == NewBytes(n)
      direct == n >= BufferSize
      first  == IF direct THEN put
                ELSE put \o Slice(s, 1, BufferSize - Len(put))
      flush  == WriteToFile(file, pos, first, IF got < Len(first) THEN got ELSE Len(first))
      whole  == WriteToFile(flush.file, flush.pos, s,
                            IF got < Len(first) + Len(s) THEN got - Len(first) ELSE Len(s))
      fills  == direct \/ Len(put) + n >= BufferSize
  IN  /\ mode = "write" /\ ~failed
      /\ Accept(s)
      /\ IF ~fills
         THEN put' = put \o s /\ UNCHANGED <<file, pos, failed>> /\ result' = "all"
         ELSE LET last == IF direct /\ flush.ok THEN whole ELSE flush
              IN  /\ file' = last.file /\ pos' = last.pos
                  /\ failed' = ~last.ok
                  /\ put' = IF direct \/ failed' THEN <<>>
                            ELSE SubSeq(s, BufferSize - Len(put) + 1, n)
                  /\ result' = IF last.ok THEN "all" ELSE "short"
      /\ UNCHANGED <<mode, unread, bytes>>

(* Mutant: a latched stream still takes single bytes. *)
MutantWritesOn ==
  /\ mode = "write" /\ failed
  /\ file' = Written(file, pos, NewBytes(1))
  /\ UNCHANGED <<mode, pos, put, unread, failed, image, cursor, result, bytes>>

(* A latched or a closed stream refuses every write. *)
PutRefused ==
  /\ mode = "write" /\ failed
  /\ result' = "short"
  /\ UNCHANGED <<mode, file, pos, put, unread, failed, image, cursor, bytes>>

(* sync(), of a stream that is not latched: the put area, then fs_sync(). *)
Sync(n, syncs) ==
  LET flush == FlushPutArea(n)
  IN  /\ mode = "write" /\ ~failed /\ n <= Len(put)
      /\ file' = flush.file /\ pos' = flush.pos /\ failed' = ~flush.ok
      /\ put' = <<>>
      /\ result' = IF flush.ok /\ syncs THEN "synced" ELSE "error"
      /\ UNCHANGED <<mode, unread, image, cursor, bytes>>

(* seekoff(): pending output goes out before the position moves, what was  *)
(* read ahead is dropped.  From the current position, the unread bytes of  *)
(* the get area are taken off.                                             *)
Seek(n, way, to) ==
  LET flush  == FlushPutArea(n)
      length == Len(flush.file)
      target == CASE way = "beg" -> to
                  [] way = "cur" -> flush.pos + to - Len(unread)
                  [] way = "end" -> length - to
  IN  /\ mode # "closed" /\ n <= Len(put)
      /\ target \in 0..length
      /\ file' = flush.file /\ put' = <<>>
      /\ failed' = (failed \/ ~flush.ok)
      /\ pos' = IF flush.ok THEN target ELSE flush.pos
      /\ unread' = IF flush.ok THEN <<>> ELSE unread
      /\ cursor' = IF ~flush.ok THEN cursor
                   ELSE CASE way = "beg" -> to
                          [] way = "cur" -> cursor + to
                          [] way = "end" -> Len(image) - to
      /\ result' = IF flush.ok THEN "moved" ELSE "error"
      /\ bytes' = <<>>
      /\ UNCHANGED <<mode, image>>

(* Mutant: a bulk read goes to the file past what underflow() pulled in. *)
MutantSkipsGetArea(n) == Slice(file, pos + 1, n)

(* xsgetn() that gets n bytes, asked for as many or more: the get area     *)
(* first, then the file.                                                   *)
Got(n) ==
  IF n <= Len(unread) THEN SubSeq(unread, 1, n)
  ELSE unread \o SubSeq(file, pos + 1, pos + n - Len(unread))

GetMany(n) ==
  LET rest == IF n <= Len(unread) THEN 0 ELSE n - Len(unread)
  IN  /\ mode = "read"
      /\ cursor + n <= Len(file)
      /\ bytes' = Got(n)
      /\ unread' = SubSeq(unread, n + 1, Len(unread))
      /\ pos' = pos + rest
      /\ cursor' = cursor + n
      /\ UNCHANGED <<mode, file, put, failed, image, result>>

(* underflow(): the get area is filled when it is empty, and one byte is   *)
(* taken from it.                                                          *)
GetOne ==
  LET pulled == IF unread # <<>> THEN unread ELSE Slice(file, pos + 1, GetSize)
  IN  /\ mode = "read"
      /\ pulled # <<>>
      /\ bytes' = <<Head(pulled)>>
      /\ unread' = Tail(pulled)
      /\ pos' = IF unread # <<>> THEN pos ELSE pos + Len(pulled)
      /\ cursor' = cursor + 1
      /\ UNCHANGED <<mode, file, put, failed, image, result>>

(* close(): the put area is flushed, the handle released either way. *)
CloseStream(n) ==
  LET flush == FlushPutArea(n)
  IN  /\ mode # "closed" /\ n <= Len(put)
      /\ mode' = "closed"
      /\ file' = flush.file /\ pos' = flush.pos /\ put' = <<>> /\ unread' = <<>>
      /\ failed' = (failed \/ ~flush.ok)
      /\ result' = IF flush.ok THEN "closed" ELSE "error"
      /\ UNCHANGED <<image, cursor, bytes>>

StreamNext ==
  \/ \E m \in {"read", "write"}, l \in 0..MaxBytes: Open(m, [i \in 1..l |-> i])
  \/ \E n \in 1..BufferSize + 1, got \in 0..2 * BufferSize + 1:
       Len(image) + n <= MaxBytes /\ Put(n, got)
  \/ \E got \in 0..BufferSize: Len(image) < MaxBytes /\ PutOne(got)
  \/ PutRefused
  \/ \E n \in 0..BufferSize: \/ \E syncs \in BOOLEAN: Sync(n, syncs)
                             \/ \E way \in {"beg", "cur", "end"}, to \in 0..MaxBytes: Seek(n, way, to)
                             \/ CloseStream(n)
  \/ \E n \in 1..MaxBytes: GetMany(n)
  \/ GetOne

-----------------------------------------------------------------------------
(* A stream that did not fail has lost nothing: what is in the file plus   *)
(* what is pending is what was accepted, overwritten and appended where    *)
(* the caller stood; and a sync that reported success left nothing behind. *)
AcceptedIsKept ==
  mode = "write" /\ ~failed =>
    /\ Written(file, pos, put) = image /\ pos + Len(put) = cursor
    /\ result = "synced" => file = image

(* A failed write shows as a file cut short, never as one with a hole:     *)
(* once the stream latched, no byte reaches the file any more.             *)
NoWriteAfterFailure == [][failed /\ mode # "closed" => file' = file]_streamVars

(* However single bytes, bulk reads and seeks follow each other, the       *)
(* caller reads the file's bytes in order from where it stands.            *)
ReadsInOrder ==
  mode = "read" =>
    /\ pos - Len(unread) = cursor
    /\ unread = SubSeq(file, cursor + 1, pos)
    /\ bytes = SubSeq(file, cursor + 1 - Len(bytes), cursor)

-----------------------------------------------------------------------------
(***************************************************************************)
(* FsService::Rename() on a FAT volume, whose own rename unlinks a target  *)
(* that exists before it looks for the source.                             *)
(*                                                                         *)
(* Callers spell paths, FAT resolves them to entries: it folds case, drops *)
(* trailing dots and knows more separators.  A file is the number of the   *)
(* write that made it, 0 for none.                                         *)
(***************************************************************************)

CONSTANTS Spellings,   \* relative paths
          Inside,      \* spellings TryBuildPath() joins: not absolute, no "..", not too long
          Plain,       \* spellings IsPlainPath() lets through
          FoldedOf,    \* spellings: the names as IsSameEntryIgnoringCase() compares them
          EntryOf,     \* spellings: the entry FAT resolves
          MaxFiles     \* bound: files written

ASSUME FsVolumeAssumption ==
  \A p, q \in Inside \cap Plain : FoldedOf[p] = FoldedOf[q] <=> EntryOf[p] = EntryOf[q]

VARIABLES volume,     \* entries: the file
          isMounted,
          filesMade,  \* ghost: numbers the files
          lastRename  \* ghost: the rename that returned last

volumeVars == <<volume, isMounted, filesMade, lastRename>>

NoRename == [from |-> "none", to |-> "none", result |-> "none"]

FsVolumeInit ==
  /\ volume = [e \in Range(EntryOf) |-> 0] /\ isMounted = TRUE
  /\ filesMade = 0 /\ lastRename = NoRename

(* Creates, replaces or appends; what a failed write leaves is another file too. *)
WriteFile(p) ==
  /\ isMounted /\ p \in Inside /\ filesMade < MaxFiles
  /\ filesMade' = filesMade + 1
  /\ volume' = [volume EXCEPT ![EntryOf[p]] = filesMade']
  /\ lastRename' = NoRename /\ UNCHANGED isMounted

DeleteFile(p) ==
  /\ isMounted /\ p \in Inside /\ volume[EntryOf[p]] # 0
  /\ volume' = [volume EXCEPT ![EntryOf[p]] = 0]
  /\ lastRename' = NoRename /\ UNCHANGED <<isMounted, filesMade>>

MountChanges ==
  /\ isMounted' = ~isMounted
  /\ lastRename' = NoRename /\ UNCHANGED <<volume, filesMade>>

(* Mutants: each drops one of the three conditions. *)
AnySpelling(from, to)   == FoldedOf[from] # FoldedOf[to] /\ volume[EntryOf[from]] # 0
MissingSource(from, to) == {from, to} \subseteq Plain /\ FoldedOf[from] # FoldedOf[to]
OntoItself(from, to)    == {from, to} \subseteq Plain /\ volume[EntryOf[from]] # 0

(* Plain spellings, of two entries, and the source is there. *)
MayRename(from, to) ==
  /\ {from, to} \subseteq Plain
  /\ FoldedOf[from] # FoldedOf[to]
  /\ volume[EntryOf[from]] # 0

(* The driver's rename: the target goes first.  The card may fail in between. *)
FatRename(from, to) ==
  LET unlinked == [volume EXCEPT ![EntryOf[to]] = 0]
      found    == unlinked[EntryOf[from]] # 0
      moved    == [unlinked EXCEPT ![EntryOf[from]] = 0, ![EntryOf[to]] = volume[EntryOf[from]]]
  IN  \/ /\ volume' = IF found THEN moved ELSE unlinked
         /\ lastRename' = [from |-> EntryOf[from], to |-> EntryOf[to],
                           result |-> IF found THEN "done" ELSE "not found"]
      \/ /\ volume' \in {volume, unlinked}
         /\ lastRename' = [from |-> EntryOf[from], to |-> EntryOf[to], result |-> "io error"]

Rename(from, to) ==
  /\ isMounted /\ {from, to} \subseteq Inside
  /\ \/ MayRename(from, to) /\ FatRename(from, to)
     \/ /\ ~MayRename(from, to) /\ UNCHANGED volume
        /\ lastRename' = [from |-> EntryOf[from], to |-> EntryOf[to], result |-> "refused"]
  /\ UNCHANGED <<isMounted, filesMade>>

FsVolumeNext ==
  \/ \E p \in Spellings : WriteFile(p) \/ DeleteFile(p)
  \/ \E from, to \in Spellings : Rename(from, to)
  \/ MountChanges

FsVolumeSpec == FsVolumeInit /\ [][FsVolumeNext]_volumeVars

(* A rename never loses the file that it moves, whatever the two paths     *)
(* spell and even when the card fails; it loses the file at its target     *)
(* only when it puts the source there or the card failed; and it touches   *)
(* no third file.  Paths that FAT resolves to one entry, and a source that *)
(* is missing, are refused before the driver unlinks anything.             *)
RenameKeepsFiles ==
  [][LET r == lastRename' IN
     r.result # "none" =>
       /\ volume[r.from] \in Range(volume') \cup {0}
       /\ volume[r.to] \in Range(volume') \cup {0}
          \/ r.result = "io error"
          \/ (r.result = "done" /\ volume'[r.to] = volume[r.from])
       /\ \A e \in DOMAIN volume \ {r.from, r.to} : volume'[e] = volume[e]]_volumeVars
=============================================================================
