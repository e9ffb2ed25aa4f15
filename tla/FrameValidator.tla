--------------------------- MODULE FrameValidator ---------------------------
(***************************************************************************)
(* The receiver of the sync signal: class FrameValidator, which finds the  *)
(* sync frames in the audio buffers it is given and hands over the packet  *)
(* of each.  ParseFrames goes through a buffer once; every pass of its     *)
(* loop is two actions here: what it takes from the buffer, and what it    *)
(* checks of the frame then.                                               *)
(*                                                                         *)
(* A packet's samples are as SyncPacket says, and a fill sample is 0.      *)
(***************************************************************************)
EXTENDS SyncPacket, FiniteSets

CONSTANTS
  Garbage,          \* what new memory holds
  BufferSizes,      \* the sizes of an audio buffer, in samples
  InitialDuration,  \* currentFrameDuration_ before the first packet
  SilenceLimit      \* three seconds, in samples

ASSUME FrameValidatorAssumption ==
  /\ Garbage \in Int
  /\ BufferSizes \subseteq Nat \ {0}
  /\ InitialDuration \in Nat /\ InitialDuration > payloadDuration
  /\ SilenceLimit \in Nat

VARIABLES
  bufferSize,           \* bufferSize_
  currentAudioBuffer,   \* currentAudioBuffer_, a function on 0 .. bufferSize - 1
  currentSample,        \* how far ParseFrames has read it
  checking,             \* between the two halves of a pass
  frame,                \* frame_, a function on 0 .. currentFrameDuration - 1
  currentFrameDuration, offsetIntoFrame,
  lookingForSyncMarker, lookingForSyncMarker2sComplement,
  payloadLength,
  syncPacket,           \* syncPacket_
  foundSilence, isFirstSilentSample, notifiedSilence, numberOfSilentSamples,
  event                 \* the virtual function the last step called, and its argument

searchVars  == <<lookingForSyncMarker, lookingForSyncMarker2sComplement>>
silenceVars == <<foundSilence, isFirstSilentSample, notifiedSilence, numberOfSilentSamples>>
frameVars   == <<frame, currentFrameDuration, offsetIntoFrame>>
packetVars  == <<payloadLength, syncPacket>>
bufferVars  == <<bufferSize, currentAudioBuffer>>
vvars == <<bufferVars, currentSample, checking, frameVars, searchVars, packetVars,
           silenceVars, event>>

NoEvent == [kind |-> "none"]
NoPacket == <<>>   \* syncPacket_ after Reset

SyncMarker == WriteMarker[1]

\* n zeroed samples.
Zeros(n) == [i \in 0 .. n - 1 |-> 0]

Init ==
  /\ bufferSize \in BufferSizes
  /\ currentAudioBuffer = Zeros(bufferSize)
  /\ currentSample = bufferSize /\ checking = FALSE
  /\ frame = Zeros(InitialDuration)
  /\ currentFrameDuration = InitialDuration /\ offsetIntoFrame = 0
  /\ lookingForSyncMarker = TRUE /\ lookingForSyncMarker2sComplement = TRUE
  /\ payloadLength = 0 /\ syncPacket = NoPacket
  /\ foundSilence = FALSE /\ isFirstSilentSample = FALSE
  /\ notifiedSilence = FALSE /\ numberOfSilentSamples = 0
  /\ event = NoEvent

-----------------------------------------------------------------------------
(* What the steps share.                                                   *)

\* AddSamples has returned.
Idle == currentSample >= bufferSize /\ ~checking

ClearSilenceFlags ==
  /\ foundSilence' = FALSE /\ isFirstSilentSample' = FALSE
  /\ notifiedSilence' = FALSE /\ numberOfSilentSamples' = 0

ResetFrame ==
  /\ syncPacket' = NoPacket
  /\ frame' = Zeros(currentFrameDuration)
  /\ lookingForSyncMarker' = TRUE /\ lookingForSyncMarker2sComplement' = TRUE
  /\ offsetIntoFrame' = 0
  /\ ClearSilenceFlags
  /\ UNCHANGED currentFrameDuration

\* n samples of the buffer, from the given one on, are copied into f at an offset.
Copied(f, offset, from, n) ==
  [i \in DOMAIN f |-> IF offset <= i /\ i < offset + n
                      THEN currentAudioBuffer[from + i - offset]
                      ELSE f[i]]

\* How much is copied with a marker's tail: one sample is in the frame already.
SamplesWithTail(from) ==
  IF bufferSize - from >= payloadDuration THEN payloadDuration - 1 ELSE bufferSize - from

IsMarker(sample) == sample = SyncMarker
IsTail(sample)   == sample = -SyncMarker

-----------------------------------------------------------------------------
(* The first half of a pass: samples are taken from the buffer.            *)

Searching == lookingForSyncMarker \/ lookingForSyncMarker2sComplement

Takes ==
  /\ currentSample < bufferSize /\ ~checking
  /\ checking' = TRUE
  /\ UNCHANGED bufferVars

FindsMarker == Takes /\ lookingForSyncMarker /\ IsMarker(currentAudioBuffer[currentSample])

\* The marker and its tail are in this buffer.
FindMarkerAndTail ==
  /\ FindsMarker
  /\ currentSample + 1 < bufferSize
  /\ IsTail(currentAudioBuffer[currentSample + 1])
  /\ LET n == SamplesWithTail(currentSample + 1)
     IN  /\ frame' = Copied([frame EXCEPT ![0] = SyncMarker], 1, currentSample + 1, n)
         /\ offsetIntoFrame' = 1 + n
         /\ currentSample' = currentSample + 1 + n
  /\ lookingForSyncMarker' = FALSE /\ lookingForSyncMarker2sComplement' = FALSE
  /\ ClearSilenceFlags
  /\ event' = NoEvent
  /\ UNCHANGED <<currentFrameDuration, packetVars>>

\* The marker's next sample is not its tail.
FindMarkerWithoutTail ==
  /\ FindsMarker
  /\ currentSample + 1 < bufferSize
  /\ ~IsTail(currentAudioBuffer[currentSample + 1])
  /\ currentSample' = currentSample + 1
  /\ ResetFrame
  /\ event' = NoEvent
  /\ UNCHANGED payloadLength

\* Mutated: the offset is not moved behind the marker.
FindMarkerAndForgetIt ==
  /\ FindsMarker
  /\ currentSample + 1 = bufferSize
  /\ frame' = [frame EXCEPT ![0] = SyncMarker]
  /\ currentSample' = currentSample + 1
  /\ lookingForSyncMarker' = FALSE
  /\ ClearSilenceFlags
  /\ event' = NoEvent
  /\ UNCHANGED <<currentFrameDuration, offsetIntoFrame, lookingForSyncMarker2sComplement,
                 packetVars>>

\* The marker is the buffer's last sample.
FindMarkerAtTheEnd ==
  /\ FindsMarker
  /\ currentSample + 1 = bufferSize
  /\ frame' = [frame EXCEPT ![0] = SyncMarker]
  /\ offsetIntoFrame' = 1
  /\ currentSample' = currentSample + 1
  /\ lookingForSyncMarker' = FALSE
  /\ ClearSilenceFlags
  /\ event' = NoEvent
  /\ UNCHANGED <<currentFrameDuration, lookingForSyncMarker2sComplement, packetVars>>

\* The tail of the marker that ended the buffer before.
FindTail ==
  /\ Takes /\ ~lookingForSyncMarker /\ lookingForSyncMarker2sComplement
  /\ IsTail(currentAudioBuffer[currentSample])
  /\ LET n == SamplesWithTail(currentSample)
     IN  /\ frame' = Copied(frame, offsetIntoFrame, currentSample, n)
         /\ offsetIntoFrame' = offsetIntoFrame + n
         /\ currentSample' = currentSample + n
  /\ lookingForSyncMarker2sComplement' = FALSE
  /\ ClearSilenceFlags
  /\ event' = NoEvent
  /\ UNCHANGED <<currentFrameDuration, lookingForSyncMarker, packetVars>>

\* Mutated: the frame is not reset.
MissTailForEver ==
  /\ Takes /\ ~lookingForSyncMarker /\ lookingForSyncMarker2sComplement
  /\ ~IsTail(currentAudioBuffer[currentSample])
  /\ event' = NoEvent
  /\ UNCHANGED <<currentSample, frameVars, searchVars, packetVars, silenceVars>>

\* That marker has no tail: the same sample is looked at again.
MissTail ==
  /\ Takes /\ ~lookingForSyncMarker /\ lookingForSyncMarker2sComplement
  /\ ~IsTail(currentAudioBuffer[currentSample])
  /\ ResetFrame
  /\ event' = NoEvent
  /\ UNCHANGED <<currentSample, payloadLength>>

\* How many samples are tested for silence at a time.
SamplesToTest == IF bufferSize - currentSample >= payloadDuration
                 THEN payloadDuration ELSE bufferSize - currentSample

SilenceAhead ==
  \A i \in currentSample .. currentSample + SamplesToTest - 1 : currentAudioBuffer[i] = 0

\* Mutated: the limit is not noticed.
NoticesOnlyTheFirst == foundSilence' /\ isFirstSilentSample'

\* EncounteredSilence is called for the first silence, and once for the limit.
Notices == \/ foundSilence' /\ isFirstSilentSample'
           \/ numberOfSilentSamples' > SilenceLimit /\ ~notifiedSilence

NotifySilence ==
  IF Notices
  THEN /\ event' = [kind |-> "silence", exceeds |-> numberOfSilentSamples' > SilenceLimit]
       /\ notifiedSilence' = (notifiedSilence \/ numberOfSilentSamples' > SilenceLimit)
  ELSE event' = NoEvent /\ UNCHANGED notifiedSilence

\* No marker, but silence.  The count is cut off above the limit, which is all
\* it is compared with.
SkipSilence ==
  /\ Takes /\ lookingForSyncMarker
  /\ ~IsMarker(currentAudioBuffer[currentSample]) /\ SilenceAhead
  /\ isFirstSilentSample' = (~isFirstSilentSample /\ ~foundSilence)
  /\ foundSilence' = TRUE
  /\ LET n == numberOfSilentSamples + SamplesToTest
     IN  numberOfSilentSamples' = IF n > SilenceLimit THEN SilenceLimit + 1 ELSE n
  /\ NotifySilence
  /\ currentSample' = currentSample + SamplesToTest
  /\ UNCHANGED <<frameVars, searchVars, packetVars>>

\* Neither a marker nor silence.
SkipSample ==
  /\ Takes /\ lookingForSyncMarker
  /\ ~IsMarker(currentAudioBuffer[currentSample]) /\ ~SilenceAhead
  /\ currentSample' = currentSample + 1
  /\ ClearSilenceFlags
  /\ event' = NoEvent
  /\ UNCHANGED <<frameVars, searchVars, packetVars>>

\* The payload of a packet that gives its frame fewer samples than a payload has been copied
\* beyond the frame's end.  What the validator does then is undefined: here it stops.
Overrun == offsetIntoFrame > currentFrameDuration

\* A frame has begun: what its payload, and then the frame, still lacks.
SamplesNeeded ==
  (IF offsetIntoFrame < payloadDuration THEN payloadDuration ELSE currentFrameDuration)
    - offsetIntoFrame

TakeSamples ==
  /\ Takes /\ ~Searching /\ ~Overrun
  /\ LET available == bufferSize - currentSample
         n == IF available > SamplesNeeded THEN SamplesNeeded ELSE available
     IN  /\ frame' = Copied(frame, offsetIntoFrame, currentSample, n)
         /\ offsetIntoFrame' = offsetIntoFrame + n
         /\ currentSample' = currentSample + n
  /\ event' = NoEvent
  /\ UNCHANGED <<currentFrameDuration, searchVars, packetVars, silenceVars>>

-----------------------------------------------------------------------------
(* The second half: the frame is checked.                                  *)

CheckSyncMarker == IsMarker(frame[0]) /\ IsTail(frame[1])

\* No other marker, and no other tail, in the payload.
ValidateSyncMarkers ==
  /\ CheckSyncMarker
  /\ \A i \in 2 .. payloadDuration - 1 : ~IsMarker(frame[i]) /\ ~IsTail(frame[i])

ValidateLeadAndTailStructures(sample) ==
  /\ sample + 2 < currentFrameDuration
  /\ frame[sample + 1] = -frame[sample]

\* The pairs that are checked: the one at sample 6, and those from 4 on that
\* begin before twice the length.
CheckedPairs(length) == {6} \cup {i \in 4 .. 2 * length - 1 : i % 2 = 0}

ValidatePayload ==
  /\ ValidateSyncMarkers
  /\ frame[2] \in 0 .. payloadDuration - 2 * 2 * 3   \* read as unsigned
  /\ \A i \in CheckedPairs(frame[2]) : ValidateLeadAndTailStructures(i)

\* What is behind the payload is zero.
ValidateFillSamples ==
  \A i \in 4 + 2 * payloadLength .. currentFrameDuration - 1 : frame[i] = 0

Checks ==
  /\ checking /\ checking' = FALSE
  /\ UNCHANGED <<bufferVars, currentSample>>

\* The whole payload is there and valid; memory for a frame of another duration
\* is allocated, and the payload copied over.
HandlePayload ==
  /\ Checks
  /\ offsetIntoFrame = payloadDuration /\ ValidatePayload
  /\ payloadLength' = frame[2]
  /\ syncPacket' = ReadSyncPacket(frame)
  /\ LET duration == ReadSyncPacket(frame).editUnitDuration
     IN  /\ duration # 0
         /\ currentFrameDuration' = duration
         /\ frame' = IF duration = currentFrameDuration THEN frame
                     ELSE [i \in 0 .. duration - 1 |->
                             IF i < payloadDuration THEN frame[i] ELSE Garbage]
  /\ event' = NoEvent
  /\ UNCHANGED <<offsetIntoFrame, searchVars, silenceVars>>

\* The payload is not valid, or gives its frame no samples; its length has been
\* read where the marker and the pair at sample 6 are valid.
RejectPayload ==
  /\ Checks
  /\ offsetIntoFrame = payloadDuration
  /\ ~ValidatePayload \/ ReadSyncPacket(frame).editUnitDuration = 0
  /\ payloadLength' = IF ValidateSyncMarkers /\ ValidateLeadAndTailStructures(6)
                      THEN frame[2] ELSE payloadLength
  /\ ResetFrame
  /\ event' = NoEvent

FrameFull == offsetIntoFrame = currentFrameDuration /\ offsetIntoFrame # payloadDuration

HandleFrame ==
  /\ Checks
  /\ FrameFull /\ ValidateFillSamples
  /\ event' = [kind |-> "frame", packet |-> syncPacket]
  /\ ResetFrame
  /\ UNCHANGED payloadLength

\* The markers beyond the frame's own.
LaterMarkers == {i \in 2 .. currentFrameDuration - 1 : IsMarker(frame[i])}

\* CheckOverlappingFramesAndShuffle: the first of them becomes the start of the frame.
ShuffleFrame ==
  /\ Checks
  /\ FrameFull /\ ~ValidateFillSamples
  /\ CheckSyncMarker /\ LaterMarkers # {}
  /\ \E first \in LaterMarkers :
       /\ \A other \in LaterMarkers : first <= other
       /\ frame' = [i \in DOMAIN frame |->
                      IF i + first < currentFrameDuration THEN frame[i + first] ELSE 0]
       /\ offsetIntoFrame' = currentFrameDuration - first
       /\ lookingForSyncMarker2sComplement' =
            (lookingForSyncMarker2sComplement \/ first = currentFrameDuration - 1)
  /\ event' = NoEvent
  /\ UNCHANGED <<currentFrameDuration, lookingForSyncMarker, packetVars, silenceVars>>

RejectFrame ==
  /\ Checks
  /\ FrameFull /\ ~ValidateFillSamples
  /\ ~(CheckSyncMarker /\ LaterMarkers # {})
  /\ ResetFrame
  /\ event' = NoEvent
  /\ UNCHANGED payloadLength

\* Neither the payload nor the frame has just become full.
Continue ==
  /\ Checks
  /\ offsetIntoFrame \notin {payloadDuration, currentFrameDuration}
  /\ event' = NoEvent
  /\ UNCHANGED <<frameVars, searchVars, packetVars, silenceVars>>

ParseFrames ==
  \/ FindMarkerAndTail \/ FindMarkerWithoutTail \/ FindMarkerAtTheEnd
  \/ FindTail \/ MissTail \/ SkipSilence \/ SkipSample \/ TakeSamples
  \/ HandlePayload \/ RejectPayload \/ HandleFrame \/ ShuffleFrame \/ RejectFrame
  \/ Continue

\* A buffer is given to a validator that is done with the one before.
AddSamples(samples) ==
  /\ Idle
  /\ currentAudioBuffer' = samples /\ currentSample' = 0
  /\ event' = NoEvent
  /\ UNCHANGED <<bufferSize, checking, frameVars, searchVars, packetVars, silenceVars>>

-----------------------------------------------------------------------------
(* Properties.                                                             *)

\* The offset stays in the frame, the copies in their buffers, and a search for
\* a tail is for the tail of the sample the frame holds: the asserts of
\* ProcessSyncMarker and what the memcpys rely on.  The one exception is the copy of a
\* payload into a frame whose duration, as its packet tells it, is less than that
\* (FrameValidator.cpp:485; line 465 rejects only 0).
OffsetsInBounds ==
  /\ currentSample <= bufferSize
  /\ DOMAIN frame = 0 .. currentFrameDuration - 1
  /\ Overrun => offsetIntoFrame = payloadDuration /\ syncPacket.editUnitDuration = currentFrameDuration
  /\ ~Searching => frame[0] = SyncMarker /\ offsetIntoFrame > 0
  /\ ~lookingForSyncMarker /\ lookingForSyncMarker2sComplement =>
       offsetIntoFrame = 1 /\ frame[0] = SyncMarker

\* The packet that is handed over is the one in the frame that was validated:
\* "Once all of these have been validated, the frame is considered valid."
HandsOverWhatItValidated ==
  checking /\ FrameFull /\ ValidateFillSamples => syncPacket = ReadSyncPacket(frame)
=============================================================================
