----------------------------- MODULE Mdf4Layout -----------------------------
(***************************************************************************)
(* The block structure in front of a log file's records.  The logger       *)
(* builds it once, from its sensors; every file it starts lays it out      *)
(* again: Reset() takes the last file's addresses off, ResolveAddress()    *)
(* hands out new ones, WriteToStream() writes the blocks.  The three walks *)
(* find shared blocks by different marks and must still agree.  A block is *)
(* <<kind, owner>>; texts are shared by their content.                     *)
(***************************************************************************)
EXTENDS Naturals, Sequences, SequencesExt

CONSTANTS KindsOf,       \* sensor -> "value", "formula", "documented" or "can"
          SensorLists,   \* the sensor configurations of a logger
          Rooms,         \* bound: after how many blocks a stream fails
          MaxOneByteId,  \* MAX_ONE_BYTE_RECORD_ID
          TextSize       \* the padded size of a text

ASSUME LayoutAssumption == MaxOneByteId \in Nat \ {0} /\ TextSize \in Nat \ {0}

VARIABLES targets,     \* the sensors of the logger, in order
          structure,   \* block -> its size and links
          nextAddress, \* block -> address_, 0: none
          serialized,  \* the blocks with is_serialized_
          output,      \* the blocks in the file, in order
          header       \* "none", "written", "failed" or "refused": the last header

layoutVars == <<targets, structure, nextAddress, serialized, output, header>>

NoBlock == <<"none", "">>
(* A block that is linked if p holds. *)
Optional(p, b) == IF p THEN <<b>> ELSE <<>>

(* A block's size, *_next link and other links in the order of the file. *)
Block(links, data, next, children) ==
  [size |-> 24 + 8 * links + data, next |-> next, children |-> children]

Members == <<"BusChannel", "ID", "IDE", "DLC", "Dir", "EDL", "BRS", "ESI",
             "DataLength", "DataBytes">>

(* The channel groups of sensor s, in the order they are created. *)
GroupsOf(s) == IF KindsOf[s] = "can" THEN <<<<"VLSD", s>>, <<"CG", s>>>> ELSE <<<<"CG", s>>>>
Chain(list) == FlattenSeq([i \in 1..Len(list) |-> GroupsOf(list[i])])
NextGroup(list, g) ==
  LET chain == Chain(list)
      i     == CHOOSE j \in 1..Len(chain) : chain[j] = g
  IN  IF i < Len(chain) THEN chain[i + 1] ELSE NoBlock

HeaderBlock == Block(6, 32, NoBlock, <<<<"MD", "HD">>, <<"FH", "">>, <<"DG", "">>>>)
FileHistoryBlock == Block(2, 16, NoBlock, <<<<"MD", "FH">>>>)
DataGroupBlock(list) ==
  Block(4, 8, NoBlock, SubSeq(Chain(list), 1, IF list = <<>> THEN 0 ELSE 1) \o <<<<"DT", "">>>>)
DataBlock == Block(0, 0, NoBlock, <<>>)

(* CreateVLSDChannelGroup() and CreateTimeChannelGroup() with what the     *)
(* logger sets: name, source and, for a CAN group, a comment.              *)
ChannelGroupBlock(list, g) ==
  LET s   == g[2]
      can == KindsOf[s] = "can"
  IN  Block(6, 32, NextGroup(list, g),
            IF g[1] = "VLSD" THEN <<>>
            ELSE Optional(can, <<"MD", s>>) \o
                 <<<<"TX", s>>, <<"SI", IF can THEN s ELSE "sensor">>, <<"CN time", s>>>>)

SourceInformationBlock(s) ==
  Block(3, 8, NoBlock,
        IF s = "sensor" THEN <<<<"TX", "Eerie Leap Sensor">>>>
        ELSE <<<<"TX", "CAN">>, <<"TX", "CAN">>>>)

ChannelBlock(next, children) == Block(8, 72, next, children)

(* The channels of a group: the master time, then the value with its raw   *)
(* channel, or the CAN frame.                                              *)
TimeChannel(s) ==
  ChannelBlock(IF KindsOf[s] = "can" THEN <<"CN frame", s>> ELSE <<"CN value", s>>,
        <<<<"TX", "Timestamp">>, <<"TX", "s">>>>)
ValueChannel(s) ==
  ChannelBlock(IF KindsOf[s] = "value" THEN NoBlock ELSE <<"CN raw", s>>,
        <<<<"MD", s>>, <<"TX", s>>, <<"TX", "unit">>>>)
(* The raw channel carries the expression as a conversion, or documents it. *)
RawChannel(s) ==
  ChannelBlock(NoBlock,
        Optional(KindsOf[s] = "documented", <<"MD raw", s>>) \o <<<<"TX raw", s>>>> \o
        Optional(KindsOf[s] = "formula", <<"CC", s>>))
ChannelConversionBlock(s) == Block(5, 24, NoBlock, <<<<"TX formula", s>>>>)
FrameChannel(s) == ChannelBlock(NoBlock, <<<<"TX", "CAN_DataFrame">>, <<Members[1], s>>>>)
(* The frame's members are a chain of their own; the last one's data is in *)
(* the VLSD group, so the links have a cycle.                              *)
MemberChannel(i, s) ==
  ChannelBlock(IF i < Len(Members) THEN <<Members[i + 1], s>> ELSE NoBlock,
        <<<<"TX", Members[i]>>>> \o Optional(i = Len(Members), <<"VLSD", s>>))
TextBlock == Block(0, TextSize, NoBlock, <<>>)
MetadataBlock == Block(0, 2 * TextSize, NoBlock, <<>>)
IdBlock == [size |-> 64, next |-> NoBlock, children |-> <<>>]

(* Every block by its name. *)
BlockOf(list, b) ==
  CASE b[1] = "ID" -> IdBlock
    [] b[1] = "HD" -> HeaderBlock
    [] b[1] = "FH" -> FileHistoryBlock
    [] b[1] = "DG" -> DataGroupBlock(list)
    [] b[1] = "DT" -> DataBlock
    [] b[1] \in {"CG", "VLSD"} -> ChannelGroupBlock(list, b)
    [] b[1] = "SI" -> SourceInformationBlock(b[2])
    [] b[1] = "CN time" -> TimeChannel(b[2])
    [] b[1] = "CN value" -> ValueChannel(b[2])
    [] b[1] = "CN raw" -> RawChannel(b[2])
    [] b[1] = "CC" -> ChannelConversionBlock(b[2])
    [] b[1] = "CN frame" -> FrameChannel(b[2])
    [] b[1] \in Range(Members) ->
         MemberChannel(CHOOSE i \in 1..Len(Members) : Members[i] = b[1], b[2])
    [] b[1] \in {"MD", "MD raw"} -> MetadataBlock
    [] OTHER -> TextBlock

LinksOf(block) == Range(block.children) \cup ({block.next} \ {NoBlock})

RECURSIVE Reached(_, _)
Reached(list, set) ==
  LET more == set \cup UNION {LinksOf(BlockOf(list, b)) : b \in set}
  IN  IF more = set THEN set ELSE Reached(list, more)
(* The blocks of a logger for a list of sensors, and what each links to. *)
Structure(list) ==
  [b \in {<<"ID", "">>} \cup Reached(list, {<<"HD", "">>}) |-> BlockOf(list, b)]


-----------------------------------------------------------------------------
(* ResolveAddress(): a block, its children without an address, then the    *)
(* blocks after it on its chain.  r is what is resolved and the next       *)
(* address.                                                                *)
RECURSIVE ResolveAddress(_, _, _)
ResolveBlockAddress(g, b, r) ==
  FoldLeft(LAMBDA acc, c : IF acc.of[c] = 0 THEN ResolveAddress(g, c, acc) ELSE acc,
           [of |-> [r.of EXCEPT ![b] = r.next], next |-> r.next + g[b].size],
           g[b].children)
ResolveAddress(g, b, r) ==
  LET one  == ResolveBlockAddress(g, b, r)
      next == g[b].next
  IN  IF next = NoBlock \/ one.of[next] # 0 THEN one ELSE ResolveAddress(g, next, one)

(* WriteToStream(): the same walk over the blocks not yet serialized.      *)
(* Serialize() refuses a link to a block without an address; a stream that *)
(* takes `room' more blocks fails the next one.                            *)
RECURSIVE WriteToStream(_, _, _)
WriteBlock(g, b, w) ==
  IF \E l \in LinksOf(g[b]) : w.of[l] = 0 THEN [w EXCEPT !.ended = "refused"]
  ELSE IF w.room = 0 THEN [w EXCEPT !.marked = @ \cup {b}, !.ended = "failed"]
  ELSE [w EXCEPT !.marked = @ \cup {b}, !.out = Append(@, b), !.room = @ - 1]
WriteBlockToStream(g, b, w) ==
  FoldLeft(LAMBDA acc, c : IF acc.ended # "no" \/ c \in acc.marked THEN acc
                           ELSE WriteToStream(g, c, acc),
           WriteBlock(g, b, w), g[b].children)
WriteToStream(g, b, w) ==
  LET one  == WriteBlockToStream(g, b, w)
      next == g[b].next
  IN  IF one.ended # "no" \/ next = NoBlock \/ next \in one.marked THEN one
      ELSE WriteToStream(g, next, one)

(* Reset(): a clean block ends the walk, which the cycle needs. *)
RECURSIVE Reset(_, _, _)
Clean(m, b) == m.of[b] = 0 /\ b \notin m.marked
ResetBlock(g, b, m) ==
  FoldLeft(LAMBDA acc, c : Reset(g, c, acc),
           [of |-> [m.of EXCEPT ![b] = 0], marked |-> m.marked \ {b}],
           g[b].children)
(* Mutant: the blocks after it on its chain are left. *)
MutantOneBlock(g, b, m) == IF Clean(m, b) THEN m ELSE ResetBlock(g, b, m)
Reset(g, b, m) ==
  LET one  == ResetBlock(g, b, m)
      next == g[b].next
  IN  IF Clean(m, b) THEN m
      ELSE IF next = NoBlock \/ Clean(one, next) THEN one
      ELSE Reset(g, next, one)

-----------------------------------------------------------------------------
LayoutInit ==
  /\ targets = <<>>
  /\ structure = <<>> /\ nextAddress = <<>> /\ serialized = {}
  /\ output = <<>> /\ header = "none"

(* The logger's constructor: AddValueTarget() or AddCanFrameTarget() for   *)
(* each of its sensors.                                                    *)
Construct(list) ==
  /\ structure = <<>>
  /\ targets' = list /\ structure' = Structure(list)
  /\ nextAddress' = [b \in DOMAIN structure' |-> 0]
  /\ UNCHANGED <<serialized, output, header>>

(* WriteHeaderToStream() of a new file on a stream that takes `room'       *)
(* blocks.  Records follow the header, so its last block is the DT block.  *)
WriteHeaderToStream(room) ==
  LET idLess == Reset(structure, <<"ID", "">>, [of |-> nextAddress, marked |-> serialized])
      blank  == Reset(structure, <<"HD", "">>, idLess)
      id     == ResolveAddress(structure, <<"ID", "">>, [of |-> blank.of, next |-> 0])
      laid   == ResolveAddress(structure, <<"HD", "">>, id)
      idOut  == WriteToStream(structure, <<"ID", "">>,
                  [of |-> laid.of, marked |-> blank.marked, out |-> <<>>, room |-> room,
                   ended |-> "no"])
      out    == IF idOut.ended = "no" THEN WriteToStream(structure, <<"HD", "">>, idOut)
                ELSE idOut
  IN  /\ structure # <<>>
      /\ nextAddress' = out.of /\ serialized' = out.marked /\ output' = out.out
      /\ header' = CASE out.ended # "no" -> out.ended
                     [] out.out[Len(out.out)] # <<"DT", "">> -> "refused"
                     [] OTHER -> "written"
      /\ UNCHANGED <<targets, structure>>

LayoutNext ==
  \/ \E list \in SensorLists : Construct(list)
  \/ \E room \in Rooms \cup {Cardinality(DOMAIN structure)} : WriteHeaderToStream(room)

-----------------------------------------------------------------------------
(* The record IDs of the groups of a list of sensors: next_record_id_++. *)
RecordIds(list) == [i \in 1..Len(Chain(list)) |-> i]

(* Mutant: a CAN sensor counted as one group. *)
MutantOnePerSensor(count) == IF count + 1 <= MaxOneByteId THEN 1 ELSE 2
(* GetRecordIdSizeBytes() *)
GetRecordIdSizeBytes(count) == IF 2 * count + 1 <= MaxOneByteId THEN 1 ELSE 2

(* Every group's record ID fits the bytes it is written in, so records of  *)
(* two groups are told apart and the constructor never throws.             *)
RecordIdsFit ==
  \A i \in 1..Len(Chain(targets)) :
    GetRecordIdSizeBytes(Len(targets)) = 1 => RecordIds(targets)[i] <= MaxOneByteId

SizeUpTo(n) == FoldLeft(LAMBDA acc, b : acc + structure[b].size, 0, SubSeq(output, 1, n))

(* A header that is written holds every block once, at the address its     *)
(* links give, and ends in the DT block; a stream that takes it all is     *)
(* never refused, also after a header that failed half way.                *)
HeaderIsLaidOut ==
  /\ header # "refused"
  /\ header = "written" =>
       /\ Range(output) = DOMAIN structure
       /\ IsInjective(output)
       /\ \A n \in 1..Len(output) : nextAddress[output[n]] = SizeUpTo(n - 1)
=============================================================================
