---------------------------- MODULE FrameStream ----------------------------
(***************************************************************************)
(* What the sync emitter promises to the audio device, without threads,    *)
(* queues or buffers: a bounded first-in first-out pipe of samples.  What  *)
(* goes in is one frame after the other, each whole and in order; what     *)
(* comes out is the same samples, one block at a time.                     *)
(***************************************************************************)
EXTENDS Integers, Sequences

CONSTANTS
  BlockSize,   \* samples per callback
  Capacity,    \* the pipe never holds more than this many samples
  FramePackets,\* the packets a frame may carry
  Durations    \* the durations a frame may have

VARIABLES
  pipe,    \* written, not yet heard
  heard,   \* the last block the device was given
  writing  \* the writer has not ended

svars == <<pipe, heard, writing>>

Init == pipe = <<>> /\ heard = <<>> /\ writing = TRUE

\* The last sample that was written, as a sequence of one, or of none.
LastWritten ==
  LET all == heard \o pipe
  IN  IF all = <<>> THEN <<>> ELSE <<all[Len(all)]>>

\* The samples that may follow: the rest of the frame, or a new frame's first.
NextSamples ==
  IF LastWritten # <<>> /\ LastWritten[1].at + 1 < LastWritten[1].of
  THEN {[LastWritten[1] EXCEPT !.at = @ + 1]}
  ELSE [packet : FramePackets, at : {0}, of : Durations]

\* Some samples of one frame are written.
Write ==
  /\ writing
  /\ \E first \in NextSamples :
       \E n \in 1 .. BlockSize :
         /\ n <= first.of - first.at /\ Len(pipe) + n <= Capacity
         /\ pipe' = pipe \o [i \in 1 .. n |-> [first EXCEPT !.at = @ + i - 1]]
  /\ UNCHANGED <<heard, writing>>

\* The device is given a block.
Deliver ==
  /\ Len(pipe) >= BlockSize
  /\ heard' = SubSeq(pipe, 1, BlockSize)
  /\ pipe' = SubSeq(pipe, BlockSize + 1, Len(pipe))
  /\ UNCHANGED writing

\* The writer ends for good, and may drop the block it had not finished.
End ==
  /\ writing = TRUE /\ writing' = FALSE
  /\ pipe' \in {pipe, SubSeq(pipe, 1, BlockSize * (Len(pipe) \div BlockSize))}
  /\ UNCHANGED heard

\* Behind a writer that has ended, what was not heard is dropped.
Close ==
  /\ ~writing
  /\ pipe' = <<>>
  /\ UNCHANGED <<heard, writing>>

Next == Write \/ Deliver \/ End \/ Close

Spec == Init /\ [][Next]_svars
=============================================================================
