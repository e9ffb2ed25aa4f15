----------------------------- MODULE MCSEClient -----------------------------
(***************************************************************************)
(* Instances of SEClient for TLC, with bytes of 8 values, or of 10 where   *)
(* frames are long.                                                        *)
(***************************************************************************)
EXTENDS SEClient, TLC

\* A packet whose members all differ, and whose playout ID holds the marker's word.
Packet(flags, index, duration) ==
  [flags |-> flags, timelineEditUnitIndex |-> index, playoutID |-> SYNCMARKER,
   editUnitDuration |-> duration, sampleDurationEnum |-> 1, sampleDurationDenom |-> 480,
   primaryPictureOutputOffset |-> -70, primaryPictureScreenOffset |-> 3,
   primaryPictureTrackFileEditUnitIndex |-> index + 100,
   primaryPictureTrackFileUUID |-> <<1, 2>>,
   primarySoundTrackFileEditUnitIndex |-> index + 200,
   primarySoundTrackFileUUID |-> <<0, 4>>,
   compositionPlaylistUUID |-> <<5, 0>>]

\* Frames of two durations, with indices on both sides of a word's end, and, where
\* buffers are short, frames that have one sample behind the payload of 46, that end
\* within it, and that are all payload.
ManyDurations ==
  {Packet(2, 63, 57), Packet(2, 64, 59), Packet(1, 65, 57),
   Packet(2, 66, 47), Packet(1, 67, 40), Packet(2, 68, 46)}

\* Three packets of frames that hold two payloads.
LongFrames == {Packet(2, i, 96) : i \in 0 .. 2}
=============================================================================
