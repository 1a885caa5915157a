---------------------------- MODULE LogEndTimes ----------------------------
(***************************************************************************)
(* The index of where each finished log file ended: entries in memory and  *)
(* a text file on the card, a line per log.  Record() appends a line and   *)
(* rewrites the file when the lines outnumber the cap twice; Load() reads  *)
(* the file once per mount and rewrites it when it dropped anything.  A    *)
(* write may fail part of the way, and power may go at any point.          *)
(*                                                                         *)
(* Logs are numbered.  A line is <<log, number>>: which log it names, 0    *)
(* for one that names none or cannot be read, and whether its number is    *)
(* the log's own.  A write that was cut leaves the file without the end of *)
(* its last line, and the next append goes on there.                       *)
(***************************************************************************)
EXTENDS Naturals, Sequences, SequencesExt

CONSTANTS LogCount,     \* bound: log files, finished one after the other
          MaxEntries,   \* MAX_ENTRIES
          MaxFileLines  \* lines of MAX_FILE_SIZE, 4 * MAX_ENTRIES of 64 bytes

ASSUME EndTimesAssumption ==
  /\ LogCount \in Nat /\ MaxEntries \in Nat \ {0} /\ MaxFileLines \in Nat

VARIABLES endTimes,  \* entries_, lines in the order recorded
          endFile,   \* the lines of the file
          ending,    \* how its last line ends: "whole", or cut in the "number", "name" or "newline"
          fileLines, \* file_lines_
          isLoaded,  \* the mount of the volume has been read
          onCard,    \* logs on the volume
          finished,  \* ghost: the last log finished
          torn,      \* ghost: a write failed since the mount was read
          glued,     \* ghost: a number was put together after such a failure
          joined,    \* ghost: a line was put behind one that lacks only its newline
          refusals   \* ghost: rewrites the volume refused

endVars == <<endTimes, endFile, ending, fileLines, isLoaded, onCard, finished, torn, glued, joined,
             refusals>>

Unreadable == <<0, "other">>

EndTimesInit ==
  /\ endTimes = <<>> /\ endFile = <<>> /\ ending = "whole" /\ fileLines = 0 /\ isLoaded = FALSE
  /\ onCard = {} /\ finished = 0 /\ torn = FALSE /\ glued = FALSE
  /\ joined = FALSE /\ refusals = 0

-----------------------------------------------------------------------------
Cuts == {"nothing", "number", "name", "newline"}

(* A line cut there, as it reads when it begins a line. *)
CutLine(line, cut) == IF cut \in {"number", "name"} THEN Unreadable ELSE line

(* A line written, or cut, behind a last line that has no end.  The digits of two numbers are *)
(* one number, unless they overflow; everything else makes a name no log has.                 *)
Behind(line, cut) ==
  IF ending = "number" /\ cut \notin {"number", "name"}
  THEN {<<line[1], "other">>, Unreadable} ELSE {Unreadable}

(* WriteFile() in append mode: what the file may become. *)
Appended(line, cut) ==
  IF cut = "nothing" THEN {endFile}
  ELSE IF ending = "whole" THEN {Append(endFile, CutLine(line, cut))}
  ELSE {Append(Front(endFile), l) : l \in Behind(line, cut)}

(* Two cut numbers are a cut number; a cut name stays one. *)
EndingAfter(cut) ==
  CASE cut = "nothing" -> ending
    [] cut = "number" /\ ending \in {"name", "newline"} -> "name"
    [] OTHER -> cut

(* Put(): puts or replaces an entry, dropping the oldest at the cap. *)
PutEntry(list, line) ==
  LET others == SelectSeq(list, LAMBDA e : e[1] # line[1])
  IN  Append(IF Len(others) >= MaxEntries THEN Tail(others) ELSE others, line)

MutantUnchecked(line) == TRUE
IsKept(line) == line[1] \in onCard

(* What Load() makes of a file: the readable lines whose log is on the volume. *)
Loaded(file) ==
  FoldLeft(LAMBDA list, line : IF IsKept(line) THEN PutEntry(list, line) ELSE list, <<>>, file)

IsDirty(file) == \E i \in DOMAIN file : ~IsKept(file[i])

(* Rewrite(): the file is truncated, and holds what was written of the entries. *)
Rewritten(list, ok) ==
  IF ok
  THEN endFile' = list /\ ending' = "whole" /\ UNCHANGED refusals
  ELSE \/ \E n \in 0..Len(list), cut \in {"whole", "number", "name", "newline"} :
            /\ n > 0 \/ cut = "whole"
            /\ endFile' = IF n = 0 THEN <<>> ELSE [SubSeq(list, 1, n) EXCEPT ![n] = CutLine(@, cut)]
            /\ ending' = cut /\ UNCHANGED refusals
       \/ refusals = 0 /\ refusals' = 1 /\ UNCHANGED <<endFile, ending>>

-----------------------------------------------------------------------------
RewritesLoaded(file) ==
  IsDirty(file) \/ Len(SelectSeq(file, IsKept)) # Len(Loaded(file))
    \/ Len(file) > MaxEntries

MutantNotCounted(file) == 0
LinesLoaded(file) == Len(file)

(* Load(), for a mount not read yet; a file that is too large or unreadable starts empty. *)
Load(readable, ok) ==
  LET list == IF readable /\ Len(endFile) <= MaxFileLines THEN Loaded(endFile) ELSE <<>>
      rewrites == ~readable \/ Len(endFile) > MaxFileLines \/ RewritesLoaded(endFile)
  IN  /\ ~isLoaded /\ isLoaded' = TRUE /\ endTimes' = list
      /\ IF rewrites
         THEN Rewritten(list, ok) /\ fileLines' = Len(list) /\ torn' = ~ok
         ELSE ok /\ fileLines' = LinesLoaded(endFile) /\ torn' = FALSE
              /\ UNCHANGED <<endFile, ending, refusals>>
      /\ joined' = FALSE /\ UNCHANGED <<onCard, finished, glued>>

(* What a rewrite by Record() holds: the entries with the new one. *)
MutantWithoutNew(list, log) == list
RewrittenBy(list, log) == PutEntry(list, <<log, "own">>)

(* Record(), of a log the writer has just finished. *)
Record(log, ok, cut) ==
  /\ isLoaded /\ log = finished + 1 /\ finished' = log /\ onCard' = onCard \cup {log}
  /\ endTimes' = PutEntry(endTimes, <<log, "own">>)
  /\ IF fileLines + 1 > 2 * MaxEntries
     THEN /\ cut = "nothing" /\ Rewritten(RewrittenBy(endTimes, log), ok)
          /\ fileLines' = Len(endTimes') /\ UNCHANGED <<glued, joined>>
     ELSE /\ ok <=> cut = "whole"
          /\ endFile' \in Appended(<<log, "own">>, cut) /\ ending' = EndingAfter(cut)
          /\ fileLines' = fileLines + 1 /\ glued' = (glued \/ (torn /\ ending = "number"))
          /\ joined' = (joined \/ (ending = "newline")) /\ UNCHANGED refusals
  /\ torn' = (torn \/ ~ok)
  /\ UNCHANGED isLoaded

(* The client deletes a log. *)
DeleteLog(log) ==
  /\ onCard' = onCard \ {log} /\ log \in onCard
  /\ UNCHANGED <<endTimes, endFile, ending, fileLines, isLoaded, finished, torn, glued, joined,
                 refusals>>

(* The unit restarts, or the card goes and comes back. *)
Remount(restarts) ==
  /\ isLoaded /\ isLoaded' = FALSE /\ endTimes' = IF restarts THEN <<>> ELSE endTimes
  /\ UNCHANGED <<endFile, ending, fileLines, onCard, finished, torn, glued, joined,
                 refusals>>

EndTimesNext ==
  \/ \E readable, ok \in BOOLEAN : Load(readable, ok)
  \/ \E log \in 1..LogCount, ok \in BOOLEAN, cut \in Cuts \cup {"whole"} : Record(log, ok, cut)
  \/ \E log \in 1..LogCount : DeleteLog(log)
  \/ \E restarts \in BOOLEAN : Remount(restarts)

-----------------------------------------------------------------------------
(* Find() tells the right end of a log or none, whatever line a power loss  *)
(* or a failed write cut: a line that goes on behind another is not taken   *)
(* for a log's, unless a number was cut and the index went on without       *)
(* reading the file again.                                                  *)
RightOrAbsent == ~glued => \A i \in DOMAIN endTimes : endTimes[i][2] = "own"

(* A restart forgets nothing: while no write has failed, what is in memory  *)
(* of the logs on the card is what the next Load() finds.  The exception is *)
(* a file whose last line lacks only its newline: Load() finds nothing to   *)
(* drop and leaves it, so the next line ends in the same one.               *)
RestartForgetsNothing ==
  isLoaded /\ ~torn /\ ~joined =>
    \A i \in DOMAIN endTimes : endTimes[i][1] \in onCard => Contains(Loaded(endFile), endTimes[i])

(* The file stays one that Load() reads, when a rewrite was refused once    *)
(* too: file_lines_ counts the entries then, and not the lines.             *)
FileStaysReadable == Len(endFile) <= MaxFileLines
=============================================================================
