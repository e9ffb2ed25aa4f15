--------------------------- MODULE SEServerStream ---------------------------
(***************************************************************************)
(* The sync emitter as a FrameStream: what lies in the buffers between the *)
(* builder and the audio device is the stream's pipe.                      *)
(***************************************************************************)
EXTENDS SEServer, SequencesExt

\* The packets of a show of frames FramesWithData.
ShowPackets == [index : FramesWithData, flags : {StoppedFlag, PausedFlag, PlayingFlag}]

\* The pipe: the buffers queued for the callback and the one being filled.
Pipe ==
  FlattenSeq([i \in DOMAIN sampleQueue |-> content[sampleQueue[i]]])
    \o IF currentAudioBuffer = NoBuffer THEN <<>> ELSE content[currentAudioBuffer]

Stream == INSTANCE FrameStream WITH
  BlockSize <- BufferSize,
  Capacity <- BufferSize * Cardinality(Buffers),
  FramePackets <- ShowPackets \cup {Silence},
  Durations <- FrameDurations \cup {MaxFrameDuration},
  pipe <- Pipe,
  heard <- played,
  writing <- pc \notin {"dead", "exited", "crashed"}

\* Whatever the user does short of Reset, what the device is given is a stream
\* of whole frames: no sample is lost, repeated, reordered or stale where a
\* frame straddles two buffers, a buffer is only played when it is full, and at
\* most the buffers' worth of samples is under way.
DeliversFrames == Stream!Spec
=============================================================================
