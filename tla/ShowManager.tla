----------------------------- MODULE ShowManager -----------------------------
(***************************************************************************)
(* The ShowManager: the list of CPL files, the show loaded from it, and    *)
(* the one AuxDataParser it keeps open between requests for data items.    *)
(* A file is the sequence of its data items; AS_DCP finds one when the     *)
(* file is open and long enough.  AS_DCP fails to open an unreliable file  *)
(* whenever it likes.                                                      *)
(***************************************************************************)
EXTENDS Show, AuxData

CONSTANTS
  Items,       \* Items[p]: the data items in the file p, each the sequence of its bytes
  Unreliable,  \* the files that cannot always be opened
  MaxCPLs      \* bound on the length of CPLList

AuxDataParsers == [start : Nat, end : Nat, path : {a.path : a \in Mapped}, open : BOOLEAN, for : Nat]

ASSUME ShowManagerAssumption ==
  /\ \A a \in Elements : a.coding \in Seq(0 .. Byte - 1)
  /\ \A p \in DOMAIN Items : Items[p] \in Seq(Seq(0 .. Byte - 1))
  /\ MaxCPLs \in Nat
  /\ Null \notin AuxDataParsers

VARIABLES
  CPLList,        \* CPLList_
  show,           \* show_
  showLoaded,     \* showLoaded_
  auxDataParser,  \* auxDataParser_, with the generation of the show it was opened for
  generation      \* history: how many times the manager was reset

managerVars == <<CPLList, show, showLoaded, auxDataParser, generation>>

InitManager ==
  /\ CPLList = <<>> /\ show = Null /\ showLoaded = FALSE
  /\ auxDataParser = Null /\ generation = 0

AddCPL(f) ==
  /\ Len(CPLList) < MaxCPLs
  /\ IsFileCPL(f)
  /\ CPLList' = Append(CPLList, f)
  /\ UNCHANGED <<show, showLoaded, auxDataParser, generation>>

(* AddCPLList stops at the first file that is a CPL, and then adds none.   *)
AddCPLList(files) ==
  /\ Len(CPLList) + Len(files) <= MaxCPLs
  /\ \A i \in DOMAIN files : ~IsFileCPL(files[i])
  /\ CPLList' = CPLList \o files
  /\ UNCHANGED <<show, showLoaded, auxDataParser, generation>>

(* Reset leaves the parser alone.                                          *)
Reset ==
  /\ showLoaded' = FALSE /\ show' = Null /\ CPLList' = <<>>
  /\ generation' = generation + 1
  /\ UNCHANGED auxDataParser

(* Load fails when there is a show already, even one without a frame.      *)
Load ==
  /\ show = Null /\ CPLList # <<>>
  /\ show' = ShowOf(CPLList)
  /\ showLoaded' = (ShowOf(CPLList).frames # 0)
  /\ UNCHANGED <<CPLList, auxDataParser, generation>>

GetLengthInFrames == IF show = Null THEN 0 ELSE show.frames

(* OpenAuxDataParser(frame), called without a parser: the parser it leaves.*)
(* It stays when the file does not open.                                   *)
OpenAuxDataParser(frame, missing) ==
  LET found == PlacesAt(show, frame, "AuxData")
      First(at) == AssetIn(show, FirstOf(PlacesAt(show, at, "AuxData")))
      asset == First(frame)
      path == First(asset.startFrame).path
  IN IF found = {} THEN Null
     ELSE [start |-> asset.startFrame, end |-> EndFrame(asset), path |-> path,
           open |-> path \in DOMAIN Items \ missing, for |-> generation]

\* Mutated: only whether the frame is before the range.
NotBefore(parser, frame) == parser.start <= frame

InRange(parser, frame) == parser.start <= frame /\ frame <= parser.end

\* Mutated: the frame is not offset to the file's index.
GetDataItemUnshifted(parser, frame) ==
  IF parser.open /\ frame >= 0 /\ frame < Len(Items[parser.path])
  THEN <<Items[parser.path][frame + 1]>> ELSE <<>>

GetDataItem(parser, frame) ==
  LET item == frame - parser.start
  IN IF parser.open /\ item >= 0 /\ item < Len(Items[parser.path])
     THEN <<Items[parser.path][item + 1]>> ELSE <<>>

(* GetDataItems(start, count): the blocks it writes and the parser it      *)
(* keeps.  It goes on from frame to frame until one has no item.           *)
DataBlock(frame, dataItem) ==
  LET info == FrameInfo(show, frame)
  IN [editUnit |-> frame, rateNumerator |-> info.rate[1], rateDenominator |-> info.rate[2],
      codingUL |-> UL(info.coding), dataItem |-> dataItem, cryptographicContext |-> <<>>]

NextDataItem(read, frame, missing) ==
  LET kept == read.parser # Null /\ InRange(read.parser, frame)
      parser == IF kept THEN read.parser ELSE OpenAuxDataParser(frame, missing)
      unit == IF parser = Null THEN <<>> ELSE GetDataItem(parser, frame)
  IN IF ~read.goesOn THEN read
     ELSE IF unit = <<>> THEN [parser |-> parser, blocks |-> read.blocks, goesOn |-> FALSE]
     ELSE [parser |-> parser, blocks |-> Append(read.blocks, DataBlock(frame, unit[1])), goesOn |-> TRUE]

GetDataItems(start, count, missing) ==
  LET asked == IF count < 0 THEN 0 ELSE count
      read[i \in 0 .. asked] ==
        IF i = 0 THEN [parser |-> auxDataParser, blocks |-> <<>>, goesOn |-> TRUE]
        ELSE NextDataItem(read[i - 1], start + i - 1, missing)
  IN  read[asked]

(* The content of a reply: nothing without a show, else a header with the  *)
(* number of blocks, and the blocks.                                       *)
NoContent == <<>>

Content(start, read) ==
  WriteTransferHeader(start, Len(read.blocks))
    \o FlattenSeq([i \in DOMAIN read.blocks |-> WriteBlock(read.blocks[i])])

=============================================================================
