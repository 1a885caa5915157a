----------------------------- MODULE AssetFiles -----------------------------
(***************************************************************************)
(* What the assets group shows of its files without changing them: the     *)
(* pages of LIST, and the reader of one file.                              *)
(***************************************************************************)
EXTENDS Naturals, Sequences, FiniteSets, SequencesExt

(***************************************************************************)
(* The LIST command of the `assets` group: the stored files that a         *)
(* built-in of the firmware shadows are moved out of the way when the      *)
(* group starts, then a client asks for page after page until the answer   *)
(* has no `next`.                                                          *)
(*                                                                         *)
(* Positions are 0-based as in the protocol: the built-ins first, then the *)
(* directory's entries, among them some that are no assets.  How many      *)
(* entries fit a response depends on their names and the transport, so     *)
(* each request has any `room`.                                            *)
(***************************************************************************)

CONSTANTS Directories,     \* directories a volume may come with: sequences of names
          NotAssets,       \* entries that are directories or have another extension
          BuiltInNames,    \* built_ins of the provider, in order
          MovedNames,      \* ShadowedFileName(): name -> the names it may move to
          MaxPageEntries   \* MAX_PAGE_ENTRIES

ASSUME ListingAssumption ==
  /\ MaxPageEntries \in Nat \ {0, 1}
  /\ \A d \in Directories: IsInjective(d)

VARIABLES phase,    \* "start", "moving", "serving", "done"
          dir,      \* the names in the directory, in readdir order
          shadowed, \* names RenameShadowedFiles() still has to move
          offset,   \* what the client asks for next
          listed    \* what it was told so far

listVars == <<phase, dir, shadowed, offset, listed>>

ListInit ==
  /\ phase = "start"
  /\ dir = <<>>
  /\ shadowed = <<>>
  /\ offset = 0
  /\ listed = <<>>

Least(m, n) == IF m < n THEN m ELSE n

(* FindBuiltIn(). *)
Shadows(name) == name \in ToSet(BuiltInNames)

(* FsService::ListDirectory() and AssetStore::List(): of at most `max`     *)
(* entries from position `first` on, the assets, each with its position.   *)
Scanned(first, max) == SubSeq(dir, first + 1, Least(first + max, Len(dir)))

StoredEntries(first, max) ==
  SelectSeq([i \in 1..Len(Scanned(first, max)) |->
               [name |-> Scanned(first, max)[i], index |-> first + i - 1]],
            LAMBDA e: e.name \notin NotAssets)

-----------------------------------------------------------------------------
(* The volume at the start of the group, read page by page for shadowed    *)
(* names; a page that cannot be read ends the scan.                        *)
CollectShadowed(d, pages) ==
  /\ phase = "start"
  /\ phase' = "moving"
  /\ dir' = d
  /\ shadowed' = SelectSeq(SubSeq(d, 1, Least(pages * MaxPageEntries, Len(d))), Shadows)
  /\ UNCHANGED <<offset, listed>>

(* Mutant: whether a file of the new name is there is not asked. *)
MutantTakesAnyName(name, to) == to \notin ToSet(BuiltInNames)

(* A name a shadowed file may move to: not a built-in's, not in use. *)
IsFree(name, to) == to \notin ToSet(BuiltInNames) /\ to \notin ToSet(dir)

(* AssetStore::Rename() onto a free name; on FAT the target, were there    *)
(* one, would be unlinked.  The entry may move within the directory.       *)
Renamed(name, to) ==
  LET others == SelectSeq(dir, LAMBDA n: n # to)
      place  == CHOOSE i \in DOMAIN others: others[i] = name
  IN  {ReplaceAt(others, place, to), Append(RemoveAt(others, place), to)}

(* RenameShadowedFiles(), one file: the first free name whose rename       *)
(* succeeds; a file that finds none stays, hidden.                         *)
MoveShadowed ==
  /\ phase = "moving" /\ shadowed # <<>>
  /\ shadowed' = Tail(shadowed)
  /\ \/ \E i \in DOMAIN MovedNames[Head(shadowed)]:
          LET to == MovedNames[Head(shadowed)][i]
          IN  IsFree(Head(shadowed), to) /\ dir' \in Renamed(Head(shadowed), to)
     \/ dir' = dir
  /\ UNCHANGED <<phase, offset, listed>>

StartServing ==
  /\ phase = "moving" /\ shadowed = <<>>
  /\ phase' = "serving"
  /\ UNCHANGED <<dir, shadowed, offset, listed>>

-----------------------------------------------------------------------------
(* Mutant: `next` counts the entries listed, not their positions. *)
MutantNextCounts(entries, fits, stored, scanned) ==
  IF fits < Len(entries) THEN {Len(BuiltInNames) + stored + fits}
  ELSE IF scanned > 0 /\ stored + scanned < Len(dir)
       THEN {Len(BuiltInNames) + stored + scanned} ELSE {}

(* Where to go on once the built-ins are through: the first entry that did *)
(* not fit, else the end of what was read, unless the directory ends here. *)
NextStored(entries, fits, stored, scanned) ==
  IF fits < Len(entries) THEN {Len(BuiltInNames) + entries[fits + 1].index}
  ELSE IF scanned > 0 /\ stored + scanned < Len(dir)
       THEN {Len(BuiltInNames) + stored + scanned} ELSE {}

(* ExecuteList() for a client at `offset`.  A response too small for one   *)
(* entry is EMSGSIZE: the client gets nothing.                             *)
ExecuteList(room) ==
  LET built     == Len(BuiltInNames)
      first     == Least(offset, built)
      stored    == IF offset > built THEN offset - built ELSE 0
      page      == Least(built - first, MaxPageEntries - 1)
      entries   == SelectSeq(StoredEntries(stored, MaxPageEntries - page),
                             LAMBDA e: ~Shadows(e.name))
      builtFits == Least(room, page)
      allBuilt  == first + builtFits = built
      left      == room - builtFits
      fits      == IF allBuilt THEN Least(left, Len(entries)) ELSE 0
      next      == IF ~allBuilt THEN {first + builtFits}
                   ELSE NextStored(entries, fits, stored,
                                   Len(Scanned(stored, MaxPageEntries - page)))
      tooSmall  == builtFits + fits = 0 /\ (~allBuilt \/ fits < Len(entries))
  IN  /\ phase = "serving"
      /\ ~tooSmall
      /\ listed' = listed \o SubSeq(BuiltInNames, first + 1, first + builtFits)
                          \o [i \in 1..fits |-> entries[i].name]
      /\ IF next = {} THEN phase' = "done" /\ UNCHANGED offset
         ELSE phase' = phase /\ offset' \in next
      /\ UNCHANGED <<dir, shadowed>>

(* The client lists again from the start; the group is not restarted. *)
ListAgain ==
  /\ phase = "done"
  /\ phase' = "serving"
  /\ offset' = 0
  /\ listed' = <<>>
  /\ UNCHANGED <<dir, shadowed>>

ListNext ==
  \/ \E d \in Directories: \E pages \in 0..Len(d): CollectShadowed(d, pages)
  \/ MoveShadowed
  \/ StartServing
  \/ \E room \in 0..MaxPageEntries: ExecuteList(room)
  \/ ListAgain

-----------------------------------------------------------------------------
(* The stored files a client can see. *)
Visible == {n \in ToSet(dir): n \notin NotAssets /\ ~Shadows(n)}

(* Paging to the end lists every built-in and every visible file exactly   *)
(* once, whatever the pages' sizes and however many entries of the         *)
(* directory are hidden or no assets; and on the way nothing comes twice.  *)
ListsEachOnce ==
  /\ IsInjective(listed)
  /\ phase = "done" => ToSet(listed) = ToSet(BuiltInNames) \cup Visible

(* Moving shadowed files aside at the start loses no file: none is ever    *)
(* renamed onto another one, which FAT would unlink.                       *)
MovesLoseNothing == [][phase = "moving" => Len(dir') = Len(dir)]_listVars

-----------------------------------------------------------------------------
(***************************************************************************)
(* AssetReader: a file read in blocks through one buffer.  The reader      *)
(* tracks where the handle stands to save seeks, which on FAT walk the     *)
(* cluster chain; the handle's own position is another thing after an      *)
(* error.  The byte at position p of the file is p itself.                 *)
(***************************************************************************)

CONSTANTS FileSize,    \* size_ when the file was opened
          BlockSize,   \* BUFFER_SIZE
          Unknown      \* UNKNOWN_POSITION

ASSUME ReaderAssumption == FileSize \in Nat /\ BlockSize \in Nat \ {0} /\ Unknown \notin Nat

VARIABLES step,       \* "idle", "copy", "seek", "fill": where Read() is
          ask,        \* the request being served
          out,        \* what was copied to the caller
          block,      \* buffer_: offset, what it holds, how many it is to hold
          tracked,    \* file_position_
          handle,     \* where the file's handle really is
          fileEnd     \* the file's length now: it may have got shorter

readerVars == <<step, ask, out, block, tracked, handle, fileEnd>>

ReaderInit ==
  /\ step = "idle"
  /\ ask = [offset |-> 0, length |-> 0]
  /\ out = <<>>
  /\ block = [offset |-> 0, data |-> <<>>]
  /\ tracked = 0
  /\ handle = 0
  /\ fileEnd = FileSize

Position == ask.offset + Len(out)

InBlock(position) ==
  block.offset <= position /\ position < block.offset + Len(block.data)

(* Read() of some bytes at an offset within the file. *)
BeginRead(from, length) ==
  /\ step = "idle"
  /\ step' = "copy"
  /\ ask' = [offset |-> from,
             length |-> IF length < FileSize - from THEN length ELSE FileSize - from]
  /\ out' = <<>>
  /\ UNCHANGED <<block, tracked, handle, fileEnd>>

(* The loop of Read(): what the buffer has is copied. *)
CopyFromBlock ==
  LET at    == Position - block.offset
      held  == Len(block.data) - at
      chunk == IF ask.length - Len(out) < held THEN ask.length - Len(out) ELSE held
  IN  /\ step = "copy"
      /\ Len(out) < ask.length
      /\ InBlock(Position)
      /\ out' = out \o SubSeq(block.data, at + 1, at + chunk)
      /\ UNCHANGED <<step, ask, block, tracked, handle, fileEnd>>

EndRead ==
  /\ step = "copy" /\ Len(out) = ask.length
  /\ step' = "idle"
  /\ UNCHANGED <<ask, out, block, tracked, handle, fileEnd>>

(* Fill(): the buffer is emptied before anything can fail. *)
BeginFill ==
  /\ step = "copy" /\ Len(out) < ask.length /\ ~InBlock(Position)
  /\ block' = [offset |-> Position - (Position % BlockSize), data |-> <<>>]
  /\ step' = IF tracked = block'.offset THEN "fill" ELSE "seek"
  /\ UNCHANGED <<ask, out, tracked, handle, fileEnd>>

(* fs_seek(): an error leaves the handle anywhere. *)
SeekBlock ==
  /\ step = "seek"
  /\ \/ step' = "fill" /\ handle' = block.offset /\ tracked' = block.offset
     \/ step' = "idle" /\ handle' \in 0..fileEnd /\ tracked' = Unknown
  /\ UNCHANGED <<ask, out, block, fileEnd>>

Expected ==
  IF BlockSize < FileSize - block.offset THEN BlockSize ELSE FileSize - block.offset

(* fs_read() gives what is left of the block or less of it, or nothing at  *)
(* the file's end: the block is what was filled.                           *)
FillBlock(n) ==
  /\ step = "fill"
  /\ n <= Expected - Len(block.data)
  /\ n > 0 => handle + n <= fileEnd
  /\ n = 0 => handle >= fileEnd
  /\ block' = [block EXCEPT !.data = @ \o [i \in 1..n |-> handle + i - 1]]
  /\ handle' = handle + n
  /\ tracked' = tracked + n
  /\ step' = IF n > 0 /\ Len(block'.data) < Expected THEN "fill"
             ELSE IF ask.offset + Len(out) < block.offset + Len(block'.data)
                  THEN "copy" ELSE "idle"
  /\ UNCHANGED <<ask, out, fileEnd>>

(* Mutant: a failed read leaves the tracked position as it was. *)
MutantKeepsPosition ==
  /\ step = "fill"
  /\ step' = "idle"
  /\ handle' \in handle..fileEnd
  /\ UNCHANGED <<ask, out, block, tracked, fileEnd>>

(* fs_read() fails: the handle may have moved, so its position is unknown. *)
FillFails ==
  /\ step = "fill"
  /\ step' = "idle"
  /\ handle' \in handle..fileEnd
  /\ tracked' = Unknown
  /\ UNCHANGED <<ask, out, block, fileEnd>>

(* Something else truncates the file: FatFs has no open-file locking. *)
FileShrinks ==
  /\ fileEnd > 0
  /\ fileEnd' = fileEnd - 1
  /\ UNCHANGED <<step, ask, out, block, tracked, handle>>

ReaderNext ==
  \/ \E from \in 0..FileSize - 1, length \in 1..FileSize: BeginRead(from, length)
  \/ CopyFromBlock
  \/ EndRead
  \/ BeginFill
  \/ SeekBlock
  \/ \E n \in 0..BlockSize: FillBlock(n)
  \/ FillFails
  \/ FileShrinks

-----------------------------------------------------------------------------
(* Whatever came before, failed seeks and reads and short reads included,  *)
(* a reader only ever hands out the bytes it was asked for, in order; and  *)
(* the buffer holds what it says it holds.                                 *)
ReadsWhatWasAsked ==
  /\ \A i \in DOMAIN out: out[i] = ask.offset + i - 1
  /\ \A i \in DOMAIN block.data: block.data[i] = block.offset + i - 1
=============================================================================
