----------------------------- MODULE SyncPacket -----------------------------
(***************************************************************************)
(* The sync packet as samples: class syncPacket, and how FrameValidator    *)
(* reads one.  A word is a pair of 24-bit samples, its lead and its two's  *)
(* complement, here an integer and its negative.  Only the lead of the     *)
(* marker has a bit beyond a word's: no word in a packet can be taken for  *)
(* it.                                                                     *)
(*                                                                         *)
(* A byte has Byte values, 256 in the program, and a UUID is 16 bytes, or  *)
(* 8 words.  The packets are those SE_Server sends, without an extension.  *)
(***************************************************************************)
EXTENDS Integers, Sequences, SequencesExt

CONSTANTS
  Byte,        \* the number of values of a byte
  UUIDWords,   \* the words of a UUID
  SYNCMARKER   \* the word a packet begins with

Word == Byte * Byte

\* BASE_PAYLOAD_LENGTH: the words behind the length; and the samples of a packet.
PayloadWords == 18 + 3 * UUIDWords
payloadDuration == 2 * (2 + PayloadWords)

\* The marker and the length are words.
ASSUME SyncPacketAssumption ==
  /\ Byte \in Nat \ {0, 1} /\ UUIDWords \in Nat \ {0}
  /\ SYNCMARKER \in 0 .. Word - 1 /\ PayloadWords < Word

UInt16 == 0 .. Word - 1
UInt32 == 0 .. Word * Word - 1
Int32 == -((Word * Word) \div 2) .. (Word * Word) \div 2 - 1
UUID == [1 .. 2 * UUIDWords -> 0 .. Byte - 1]

SyncPackets ==
  [flags : UInt16, timelineEditUnitIndex : UInt32, playoutID : UInt32,
   editUnitDuration : UInt16, sampleDurationEnum : UInt32, sampleDurationDenom : UInt32,
   primaryPictureOutputOffset : Int32, primaryPictureScreenOffset : UInt32,
   primaryPictureTrackFileEditUnitIndex : UInt32, primaryPictureTrackFileUUID : UUID,
   primarySoundTrackFileEditUnitIndex : UInt32, primarySoundTrackFileUUID : UUID,
   compositionPlaylistUUID : UUID]

-----------------------------------------------------------------------------
(* Writing.                                                                *)

Pair(sample) == <<sample, -sample>>

WriteMarker == Pair(Word + SYNCMARKER)
WriteUInt16(v) == Pair(v)
WriteUInt32(v) == WriteUInt16(v \div Word) \o WriteUInt16(v % Word)
WriteInt32(v) == WriteUInt32(v % (Word * Word))

\* The first byte of two is the upper one.
WriteUUID(uuid) ==
  FlattenSeq([i \in 1 .. UUIDWords |-> WriteUInt16(uuid[2 * i - 1] * Byte + uuid[2 * i])])

WriteSyncPacket(p) ==
  WriteMarker \o WriteUInt16(PayloadWords)
    \o WriteUInt16(p.flags) \o WriteUInt32(p.timelineEditUnitIndex)
    \o WriteUInt32(p.playoutID) \o WriteUInt16(p.editUnitDuration)
    \o WriteUInt32(p.sampleDurationEnum) \o WriteUInt32(p.sampleDurationDenom)
    \o WriteInt32(p.primaryPictureOutputOffset) \o WriteUInt32(p.primaryPictureScreenOffset)
    \o WriteUInt32(p.primaryPictureTrackFileEditUnitIndex)
    \o WriteUUID(p.primaryPictureTrackFileUUID)
    \o WriteUInt32(p.primarySoundTrackFileEditUnitIndex)
    \o WriteUUID(p.primarySoundTrackFileUUID) \o WriteUUID(p.compositionPlaylistUUID)

-----------------------------------------------------------------------------
(* Reading the w-th word of the payload in a frame, a function on samples. *)

ReadUInt16(f, w) == f[4 + 2 * w] % Word

\* Mutated: the lower word comes first.
ReadUInt32Swapped(f, w) == ReadUInt16(f, w + 1) * Word + ReadUInt16(f, w)

ReadUInt32(f, w) == ReadUInt16(f, w) * Word + ReadUInt16(f, w + 1)

ReadInt32(f, w) ==
  LET v == ReadUInt32(f, w) IN IF v \in Int32 THEN v ELSE v - Word * Word

\* The two bytes of a word are copied as they are in memory, the lower one first.
ReadUUID(f, w) ==
  [i \in 1 .. 2 * UUIDWords |->
     LET word == ReadUInt16(f, w + (i - 1) \div 2)
     IN  IF i % 2 = 1 THEN word % Byte ELSE word \div Byte]

ReadSyncPacket(f) ==
  [flags |-> ReadUInt16(f, 0), timelineEditUnitIndex |-> ReadUInt32(f, 1),
   playoutID |-> ReadUInt32(f, 3), editUnitDuration |-> ReadUInt16(f, 5),
   sampleDurationEnum |-> ReadUInt32(f, 6), sampleDurationDenom |-> ReadUInt32(f, 8),
   primaryPictureOutputOffset |-> ReadInt32(f, 10),
   primaryPictureScreenOffset |-> ReadUInt32(f, 12),
   primaryPictureTrackFileEditUnitIndex |-> ReadUInt32(f, 14),
   primaryPictureTrackFileUUID |-> ReadUUID(f, 16),
   primarySoundTrackFileEditUnitIndex |-> ReadUInt32(f, 16 + UUIDWords),
   primarySoundTrackFileUUID |-> ReadUUID(f, 18 + UUIDWords),
   compositionPlaylistUUID |-> ReadUUID(f, 18 + 2 * UUIDWords)]
=============================================================================
