------------------------------- MODULE AuxData -------------------------------
(***************************************************************************)
(* The data items as the SS_Server sends them: an                          *)
(* AuxDataBlockTransferHeader, and an AuxDataBlock for every item.  Both   *)
(* begin with a key and a BER length, which nobody looks at when they are  *)
(* read: the blocks are told apart by the lengths within them.             *)
(***************************************************************************)
EXTENDS SerializationUtils

KeyLength == 16
PackKey(kind) == <<6, 14, 43, 52, 2, 127, 1, 1, 12, 3, 1, kind, 0, 0, 0, 0>>

NoUL == [i \in 1 .. KeyLength |-> 0]

\* SetFromString: what is no UL leaves it as it was made.
UL(coding) == IF Len(coding) = KeyLength THEN coding ELSE NoUL

Long(n) == [hi |-> 0, lo |-> n]

-----------------------------------------------------------------------------
(* AuxDataBlockTransferHeader.                                             *)

headerLength == KeyLength + 5 + 4 + 4

WriteTransferHeader(start, count) ==
  PackKey(1) \o WriteBER5(8) \o Write32(start) \o Write32(count)

ReadTransferHeader(buf) ==
  Read([start |-> Read32(buf, KeyLength + 6), count |-> Read32(buf, KeyLength + 10)],
       headerLength + 1)

-----------------------------------------------------------------------------
(* AuxDataBlock.                                                           *)

BlockSize(block) ==
  KeyLength + 5 + 4 + 4 + 4 + KeyLength
    + 8 + Len(block.dataItem) + 8 + Len(block.cryptographicContext)

WriteCounted(data) == Write64(Long(Len(data))) \o data

WriteBlock(block) ==
  PackKey(2) \o WriteBER5(BlockSize(block) - KeyLength - 5)
    \o Write32(block.editUnit) \o Write32(block.rateNumerator) \o Write32(block.rateDenominator)
    \o block.codingUL
    \o WriteCounted(block.dataItem) \o WriteCounted(block.cryptographicContext)

ReadCounted(buf, at) ==
  LET n == Read64(buf, at).lo IN Read(SubSeq(buf, at + 8, at + 7 + n), at + 8 + n)

ReadBlock(buf, at) ==
  LET units == at + KeyLength + 5
      data == ReadCounted(buf, units + 12 + KeyLength)
      context == ReadCounted(buf, data.at)
  IN  Read([editUnit |-> Read32(buf, units), rateNumerator |-> Read32(buf, units + 4),
            rateDenominator |-> Read32(buf, units + 8),
            codingUL |-> SubSeq(buf, units + 12, units + 11 + KeyLength),
            dataItem |-> data.value, cryptographicContext |-> context.value],
           context.at)

NextBlock(buf, read) ==
  LET block == ReadBlock(buf, read.at)
  IN  IF read.consumed >= Len(buf) THEN read
      ELSE [consumed |-> read.consumed + BlockSize(block.value),
            at |-> block.at, blocks |-> Append(read.blocks, block.value)]

\* The end of a response, as the client reads it: blocks as long as the sizes of
\* those before, which count the same bytes on their own, are not all of it.  There
\* are no more of them than keys.
ReadContent(buf) ==
  LET header == ReadTransferHeader(buf)
      most == Len(buf) \div KeyLength
      read[i \in 0 .. most] ==
        IF i = 0 THEN [consumed |-> headerLength, at |-> header.at, blocks |-> <<>>]
        ELSE NextBlock(buf, read[i - 1])
  IN  [start |-> header.value.start, count |-> header.value.count, blocks |-> read[most].blocks]
==============================================================================
