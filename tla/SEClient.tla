------------------------------ MODULE SEClient ------------------------------
(***************************************************************************)
(* The client's end of the sync signal: class SE_Client, its audio         *)
(* callback and its parser thread, behind a line that carries the frames   *)
(* of an emitter.  The callback copies what the line carries into an       *)
(* unused buffer and queues it; when there is none, the samples are lost.  *)
(* The parser thread pops the buffers and runs the FrameValidator on them, *)
(* which calls HandleFrame and EncounteredSilence.                         *)
(*                                                                         *)
(* The line is what SE_Server plays: frames back to back, each as long as  *)
(* its packet says, or zeros when its own callback finds no buffer.  One   *)
(* restriction is this model's and not the code's: at most one frame ends  *)
(* in a buffer, so a line carries only frames that are longer than its     *)
(* buffers (OnLine).  Frames may be as short as they like otherwise, down  *)
(* to those with no room for their payload, which is then cut short.  And  *)
(* the device fills its buffers: of a shorter callback the rest of an old  *)
(* buffer would be parsed again.                                           *)
(*                                                                         *)
(* Each queued buffer is kept with what the client owes its user once it   *)
(* has parsed it: the packet of the last frame that arrived whole and      *)
(* behind a whole frame, if nothing was lost since.                        *)
(***************************************************************************)
EXTENDS FrameValidator

CONSTANTS
  Sent,         \* the packets that are sent
  StartsAt,     \* where in a frame the client may start to listen
  QueueDepth,   \* the number of buffers
  MaxGlitches,  \* bounds the losses, silences and dropouts
  Splices,      \* whether a loss or a silence may end within a payload
  DropoutsAt    \* the places in a buffer where a sample may drop out

ASSUME SEClientAssumption ==
  /\ Sent \subseteq SyncPackets
  /\ StartsAt \subseteq 0 .. payloadDuration
  /\ QueueDepth \in Nat \ {0} /\ MaxGlitches \in Nat /\ Splices \in BOOLEAN /\ DropoutsAt \subseteq Nat

VARIABLES
  sampleQueue,            \* the queued buffers
  popped,                 \* the buffer the parser thread has popped, if any
  state, currentFrame,    \* state_, currentFrame_
  validated,              \* history: the packet validator_ was last called with
  \* the line
  packet, at,             \* the packet being sent, and the next sample of its frame
  silent,                 \* nothing is being played
  glitches,               \* how many losses, silences and dropouts there were
  \* what is owed
  whole,                  \* frames in a row without a loss, the one being sent included; cut off at 2
  owed,                   \* what is owed once the line so far has been parsed
  due,                    \* what is owed now
  quiet                   \* how many zeros in a row have been parsed

lineVars   == <<packet, at, silent, glitches>>
clientVars == <<state, currentFrame, validated>>
owedVars   == <<whole, owed>>
vars == <<vvars, sampleQueue, popped, clientVars, lineVars, owedVars, due, quiet>>

FlagsToState(flags) == CASE flags = 0 -> "Stopped"
                         [] flags = 1 -> "Paused"
                         [] flags = 2 -> "Playing"
                         [] OTHER -> "NoData"

\* The i-th sample of the frame of packet p: the packet, and fill.
Written == [p \in Sent |-> WriteSyncPacket(p)]
SampleAt(p, i) == IF i < payloadDuration THEN Written[p][i + 1] ELSE 0

\* The packets of the frames this line carries.
OnLine == {p \in Sent : p.editUnitDuration > bufferSize}

\* A frame that has samples behind its payload.  The validator accepts every
\* duration but 0 (FrameValidator.cpp:465).
HasFill(p) == p.editUnitDuration > payloadDuration

\* Two assumptions that theorems name as such, and the model does not make.
FramesHaveFill == \A p \in Sent : HasFill(p)
BuffersAreShort == \A p \in Sent, b \in BufferSizes : p.editUnitDuration > b

\* What a buffer behind (packet, at) carries, when the frame behind is next's.
LineSamples(next) ==
  [i \in 0 .. bufferSize - 1 |->
     IF at + i < packet.editUnitDuration THEN SampleAt(packet, at + i)
     ELSE SampleAt(next, at + i - packet.editUnitDuration)]

NothingOwed == NoPacket

\* The durations a frame may have in the validator, and how many zeros are to be noticed.
Durations == {InitialDuration} \cup {p.editUnitDuration : p \in Sent}
LongestFrame == CHOOSE d \in Durations : \A e \in Durations : e <= d
QuietBound == SilenceLimit + LongestFrame

ClientInit ==
  /\ Init
  /\ sampleQueue = <<>> /\ popped = <<>>
  /\ state = "NoData" /\ currentFrame = 0 /\ validated = NoPacket
  /\ packet \in OnLine /\ at \in StartsAt /\ at < packet.editUnitDuration
  /\ silent = FALSE /\ glitches = 0
  /\ whole = 0 /\ owed = NothingOwed
  /\ due = NothingOwed /\ quiet = 0

-----------------------------------------------------------------------------
(* The audio callback.                                                     *)

\* The number of buffers in unusedSampleQueue_.
Unused == QueueDepth - Len(sampleQueue) - Len(popped)

\* A buffer is queued, with what is owed behind it.
Queues(samples, owes) ==
  /\ Unused > 0
  /\ sampleQueue' = Append(sampleQueue, [samples |-> samples, owed |-> owes])

Glitch == glitches < MaxGlitches /\ glitches' = glitches + 1

\* Where the line may go on behind a gap.
MayResume(sample) == Splices \/ sample \notin 1 .. payloadDuration - 1

\* The line after the samples of a buffer.
Advance(next) ==
  IF at + bufferSize < packet.editUnitDuration
  THEN at' = at + bufferSize /\ UNCHANGED packet
  ELSE packet' = next /\ at' = at + bufferSize - packet.editUnitDuration

\* The buffer is within the frame being sent.
HearFrame ==
  /\ at + bufferSize < packet.editUnitDuration
  /\ at' = at + bufferSize
  /\ Queues(LineSamples(packet), owed)
  /\ silent' = FALSE
  /\ UNCHANGED <<packet, glitches, owedVars>>

\* The frame ends in the buffer.  Of one without fill, the payload is cut short or
\* is all there is, which counts as a torn frame.
HearEndOfFrame(next) ==
  /\ at + bufferSize >= packet.editUnitDuration
  /\ packet' = next /\ at' = at + bufferSize - packet.editUnitDuration
  /\ owed' = IF whole = 2 /\ HasFill(packet) THEN packet ELSE NothingOwed
  /\ whole' = IF ~HasFill(packet) THEN 1 ELSE IF whole = 2 THEN 2 ELSE whole + 1
  /\ Queues(LineSamples(next), owed')
  /\ silent' = FALSE
  /\ UNCHANGED glitches

\* The emitter has nothing to play: a frame it is sending is torn.
HearSilence ==
  /\ whole' = IF at = 0 THEN whole ELSE 0
  /\ owed' = NothingOwed
  /\ Queues(Zeros(bufferSize), NothingOwed)
  /\ silent' = TRUE
  /\ IF silent THEN UNCHANGED glitches ELSE Glitch /\ MayResume(at)
  /\ UNCHANGED <<packet, at>>

\* One sample drops out.
HearDropout(next) ==
  /\ \E i \in DropoutsAt :
       /\ i < bufferSize
       /\ Queues([LineSamples(next) EXCEPT ![i] = 0], NothingOwed)
  /\ Advance(next)
  /\ whole' = 0 /\ owed' = NothingOwed
  /\ silent' = FALSE
  /\ Glitch

\* The samples are lost: there is no unused buffer, or the device calls back with other
\* than one channel or more samples than a buffer holds, which is returned from at once.
LoseSamples(next) ==
  /\ Advance(next)
  /\ whole' = 0 /\ owed' = NothingOwed
  /\ silent' = FALSE
  /\ Glitch /\ MayResume(at')
  /\ UNCHANGED sampleQueue

\* The packet behind this one: that of the next frame, or of the show's first.
NextPackets ==
  LET later == {p \in OnLine : p.timelineEditUnitIndex > packet.timelineEditUnitIndex}
      ahead == IF later = {} THEN OnLine ELSE later
  IN  {p \in ahead : \A q \in ahead : p.timelineEditUnitIndex <= q.timelineEditUnitIndex}

audioDeviceIOCallback ==
  /\ \/ HearFrame \/ HearSilence
     \/ \E next \in NextPackets : HearEndOfFrame(next) \/ HearDropout(next) \/ LoseSamples(next)
  /\ UNCHANGED <<vvars, popped, clientVars, due, quiet>>

-----------------------------------------------------------------------------
(* The parser thread.                                                      *)

PopBuffer ==
  /\ Idle /\ popped = <<>> /\ sampleQueue # <<>>
  /\ popped' = <<Head(sampleQueue)>>
  /\ sampleQueue' = Tail(sampleQueue)
  /\ UNCHANGED <<vvars, clientVars, lineVars, owedVars, due, quiet>>

\* The popped buffer is converted, recycled, and then parsed.
RecycleBuffer ==
  /\ popped # <<>>
  /\ popped' = <<>>
  /\ AddSamples(popped[1].samples)
  /\ due' = popped[1].owed
  /\ quiet' = IF popped[1].samples # Zeros(bufferSize) THEN 0
              ELSE quiet + (IF quiet > QuietBound THEN 0 ELSE bufferSize)
  /\ UNCHANGED <<sampleQueue, clientVars, lineVars, owedVars>>

\* The functions the validator calls: HandleFrame and EncounteredSilence.
React ==
  CASE event'.kind = "frame" ->
         /\ state' = FlagsToState(event'.packet.flags)
         /\ currentFrame' = event'.packet.timelineEditUnitIndex
         /\ validated' = event'.packet
    [] event'.kind = "silence" /\ event'.exceeds ->
         state' = "NoData" /\ UNCHANGED <<currentFrame, validated>>
    [] OTHER -> UNCHANGED clientVars

Parse ==
  /\ ParseFrames
  /\ React
  /\ UNCHANGED <<sampleQueue, popped, lineVars, owedVars, due, quiet>>

\* What the client does behind an overrun is undefined, and not modelled.
Undefined == Overrun /\ UNCHANGED vars

Next == audioDeviceIOCallback \/ PopBuffer \/ RecycleBuffer \/ Parse \/ Undefined

Spec == ClientInit /\ [][Next]_vars

\* The parser thread is scheduled.
FairSpec == Spec /\ WF_vars(Parse)

-----------------------------------------------------------------------------
(* Properties.                                                             *)

\* What is read of a packet: the two bytes of each word of a UUID change places.
BytesSwapped(uuid) == [i \in DOMAIN uuid |-> uuid[IF i % 2 = 1 THEN i + 1 ELSE i - 1]]

AsRead(p) ==
  [p EXCEPT !.primaryPictureTrackFileUUID = BytesSwapped(@),
            !.primarySoundTrackFileUUID = BytesSwapped(@),
            !.compositionPlaylistUUID = BytesSwapped(@)]

\* A frame that arrives whole, behind a frame that arrived whole, is handed over
\* with its own packet, member by member, by the time its last sample has been parsed,
\* however the buffers cut it and whatever was lost before.
FollowsTheSignal ==
  Idle /\ due # NothingOwed =>
    /\ currentFrame = due.timelineEditUnitIndex /\ state = FlagsToState(due.flags)
    /\ validated = AsRead(due)

\* Three seconds without a signal, behind at most a torn frame, and the client
\* says there is no data.
SilenceIsNoticed == Idle /\ quiet > QuietBound => state = "NoData"

\* A buffer is parsed to its end: no sample is looked at for ever.  The exceptions are
\* a frame that is all payload, which ParseFrames handles again and again, so that the
\* parser thread never comes back, and one that is overrun ("The frame duration needs to
\* be a reasonable size", FrameValidator.cpp:463, but all that is rejected is 0).
AddSamplesReturns == ~Idle ~> Idle \/ currentFrameDuration = payloadDuration \/ Overrun
=============================================================================
