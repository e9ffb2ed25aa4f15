------------------------ MODULE SEServerStreamProofs ------------------------
(***************************************************************************)
(* The sync emitter, while the user does not call Reset, loses no buffer   *)
(* and is a stream of whole frames; and while he does not seek either, the *)
(* frames go through the show one by one.                                  *)
(***************************************************************************)
EXTENDS SEServerStream, SEServerProofs, FlattenTheorems

-----------------------------------------------------------------------------
(* What the builder holds between two of its steps.                        *)

\* The builder's steps between waking up and going back to the loop's head.
RoundSteps == {"drain", "drained", "waiting", "start", "startUnready", "reread",
               "create", "advance", "setup", "fill", "filled", "slice", "sliced"}

\* The steps between the frame before, used up, and the next.
BetweenFrames == {"waiting", "start", "startUnready", "reread", "create", "advance",
                  "setup"}

\* Without the user's Reset, no data is only said between frames, with the builder
\* outside of a round.
CallsHold ==
  /\ user \notin {"reset", "clear"}
  /\ user \in {"initReset", "initClear", "initStop"} => state = "NoData"
  /\ user = "join" => sampleBuffer = NoBuffer
  /\ pc # "crashed"
  /\ pc \in RoundSteps => state # "NoData"

\* needMore says whether the builder has a buffer in its hand.
HandHolds ==
  /\ pc \in RoundSteps \ CopySteps => (needMore <=> currentAudioBuffer # NoBuffer)
  /\ pc \in {"drained", "sliced"} => ~needMore

\* A buffer is only in the builder's hand when its frame is used up, and the frame
\* is used up whenever it is replaced.
OffsetHolds ==
  /\ currentFrameDuration # 0
  /\ pc \in BetweenFrames => offsetIntoFrame = currentFrameDuration
  /\ pc \in {"reset", "clear"} => offsetIntoFrame \in {0, currentFrameDuration}
  /\ state = "NoData" => offsetIntoFrame \in {0, currentFrameDuration}
  /\ pc = "fill" => offsetIntoFrame = 0 /\ currentAudioBuffer # NoBuffer
  /\ pc \in {"drain", "slice"} /\ currentAudioBuffer # NoBuffer
       => offsetIntoFrame = currentFrameDuration

\* A copy takes at least one sample, and ends at the end of its frame or of its buffer.
CopyHolds ==
  pc \in CopySteps =>
    /\ copying.from = offsetIntoFrame /\ copying.n # 0
    /\ \/ Len(content[currentAudioBuffer]) = BufferSize
       \/ offsetIntoFrame + copying.n = currentFrameDuration

\* What is queued is full, and what is in the builder's hand between copies is not.
FullHolds ==
  /\ \A i \in DOMAIN sampleQueue : Len(content[sampleQueue[i]]) = BufferSize
  /\ currentAudioBuffer # NoBuffer /\ pc \notin CopySteps
       => Len(content[currentAudioBuffer]) < BufferSize

HoldInv == /\ OwnerInv /\ CallsHold /\ HandHolds /\ OffsetHolds
           /\ CopyHolds /\ FullHolds

-----------------------------------------------------------------------------
(* The steps keep what the builder holds.                                  *)

\* The variables a part of the invariant is about.
offsets == <<currentFrameDuration, offsetIntoFrame, currentAudioBuffer>>
filling == <<sampleQueue, content, currentAudioBuffer>>

\* The buffers stay as full as they are when no copy begins or ends.
LEMMA UnchangedFull ==
  FullHolds /\ UNCHANGED filling /\ (pc \in CopySteps <=> pc' \in CopySteps) => FullHolds'
BY DEF FullHolds, filling

\* The steps of the builder that only change its place, the timeline or the packet.
LEMMA QuietBuilderHolds ==
  ASSUME HoldInv,
         \/ LoopHead \/ WakeWithoutData \/ Wake \/ SetFlags \/ ReadReady
         \/ StartPlaying \/ ReadStateAgain \/ CreateFrame \/ AdvanceFrame
         \/ FrameDataFails \/ NextFrame \/ BuilderSetsNoData
  PROVE  CallsHold' /\ HandHolds' /\ OffsetHolds' /\ CopyHolds' /\ FullHolds'
<1> USE DEF HoldInv
<1>1. /\ UNCHANGED <<offsets, filling, copying, sampleBuffer, user>>
      /\ pc \notin CopySteps /\ pc' \notin CopySteps
  BY DEF LoopHead, WakeWithoutData, Wake, SetFlags, ReadReady, StartPlaying,
     ReadStateAgain, CreateFrame, AdvanceFrame, FrameDataFails, NextFrame,
     BuilderSetsNoData, sharedVars, frameVars, bufferVars, roundVars, callbackVars,
     userVars, offsets, filling, CopySteps
<1>2. CallsHold'
  BY <1>1 DEF CallsHold, RoundSteps, LoopHead, WakeWithoutData, Wake, SetFlags, ReadReady,
     StartPlaying, ReadStateAgain, CreateFrame, AdvanceFrame, FrameDataFails, NextFrame,
     BuilderSetsNoData, sharedVars, timeline
<1>3. HandHolds'
  BY <1>1 DEF HandHolds, RoundSteps, LoopHead, WakeWithoutData, Wake, SetFlags, ReadReady,
     StartPlaying, ReadStateAgain, CreateFrame, AdvanceFrame, FrameDataFails, NextFrame,
     BuilderSetsNoData, roundVars, offsets, CopySteps
<1>4. OffsetHolds'
  <2>1. /\ offsetIntoFrame \in Nat /\ currentFrameDuration \in Nat
        /\ offsetIntoFrame <= currentFrameDuration
    BY DEF OwnerInv, BuilderInv, TypeOK, FrameType, CopiesStayInBounds
  <2>2. QED
    BY <1>1, <2>1 DEF OffsetHolds, CallsHold, RoundSteps, BetweenFrames, LoopHead,
       WakeWithoutData, Wake, SetFlags, ReadReady, StartPlaying, ReadStateAgain, CreateFrame,
       AdvanceFrame, FrameDataFails, NextFrame, BuilderSetsNoData, sharedVars, timeline,
       offsets
<1>5. CopyHolds' /\ FullHolds'
  BY <1>1, UnchangedFull DEF CopyHolds
<1>6. QED
  BY <1>2, <1>3, <1>4, <1>5

\* What HoldInv says of numbers.
LEMMA HoldTypes ==
  ASSUME HoldInv
  PROVE  /\ offsetIntoFrame \in Nat /\ currentFrameDuration \in Nat \ {0}
         /\ offsetIntoFrame <= currentFrameDuration
         /\ copying.from \in Nat /\ copying.n \in Nat
         /\ pc \notin CopySteps => copying.n = 0 /\ copying.from = 0
         /\ content \in [Buffers -> Seq(Samples)]
         /\ BufferSize \in Nat \ {0} /\ NoBuffer \notin Buffers
BY SEServerAssumption DEF HoldInv, OwnerInv, BuilderInv, TypeOK, FrameType, BufferType,
   BuilderType, CopiesStayInBounds, OffsetHolds

\* As many samples as there is room for and as are left: some, if there are both.
LEMMA LesserOfSome ==
  ASSUME NEW room \in Nat \ {0}, NEW left \in Nat \ {0}
  PROVE  /\ Lesser(room, left) \in Nat \ {0}
         /\ Lesser(room, left) = room \/ Lesser(room, left) = left
BY DEF Lesser

\* A buffer that is popped is not queued: filling it leaves what is queued alone.
LEMMA PopHolds ==
  ASSUME HoldInv, NEW here \in {"drain", "slice"}, NEW next \in {"drained", "sliced"},
         PopAndCopy(here, next)
  PROVE  /\ CallsHold' /\ HandHolds' /\ OffsetHolds' /\ CopyHolds' /\ FullHolds'
         /\ currentAudioBuffer = NoBuffer
<1> USE DEF HoldInv
<1> DEFINE b == Head(unusedSampleQueue)
           n == Lesser(BufferSize, currentFrameDuration - offsetIntoFrame)
           chunk == Chunk(frameBuffer, offsetIntoFrame, currentFrameDuration, n)
<1>1. /\ pc = here /\ pc' = next
      /\ offsetIntoFrame < currentFrameDuration
      /\ currentAudioBuffer' = b /\ content' = [content EXCEPT ![b] = <<>> \o chunk]
      /\ copying' = [from |-> offsetIntoFrame, n |-> n]
      /\ UNCHANGED <<sampleQueue, needMore, state, currentFrameDuration, offsetIntoFrame,
                     sampleBuffer, user>>
  BY DEF PopAndCopy, StartCopy, sharedVars, timeline, frameVars, callbackVars, userVars
<1>2. currentAudioBuffer = NoBuffer
  BY <1>1, HoldTypes DEF OffsetHolds
<1>3. b \in Buffers /\ b \notin InQueue(sampleQueue)
  <2>1. /\ unusedSampleQueue \in Seq(Buffers) /\ unusedSampleQueue # <<>>
        /\ NoDuplicates(unusedSampleQueue)
        /\ InQueue(unusedSampleQueue) \cap InQueue(sampleQueue) = {}
    BY DEF OwnerInv, OneOwner, BuilderInv, TypeOK, BufferType, PopAndCopy
  <2>2. b \in InQueue(unusedSampleQueue)
    BY <2>1, PopQueue
  <2>3. QED
    BY <2>1, <2>2
<1>4. /\ n \in Nat /\ n # 0
      /\ n = BufferSize \/ offsetIntoFrame + n = currentFrameDuration
  <2>1. BufferSize \in Nat \ {0} /\ currentFrameDuration - offsetIntoFrame \in Nat \ {0}
    BY <1>1, HoldTypes
  <2>2. n \in Nat \ {0} /\ (n = BufferSize \/ n = currentFrameDuration - offsetIntoFrame)
    BY <2>1, LesserOfSome
  <2> HIDE DEF n
  <2>3. QED
    BY <2>2, HoldTypes
<1> HIDE DEF n
<1>5. <<>> \o chunk = chunk /\ Len(chunk) = n
  <2>1. /\ frameBuffer \in Packets \cup {Silence}
        /\ offsetIntoFrame \in Nat /\ currentFrameDuration \in Nat
    BY DEF OwnerInv, BuilderInv, TypeOK, FrameType
  <2>2. /\ Chunk(frameBuffer, offsetIntoFrame, currentFrameDuration, n) \in Seq(Samples)
        /\ Len(Chunk(frameBuffer, offsetIntoFrame, currentFrameDuration, n)) = n
    BY <1>4, <2>1, ChunkType
  <2> HIDE DEF chunk
  <2>3. chunk \in Seq(Samples) /\ Len(chunk) = n
    BY <2>2 DEF chunk
  <2>4. QED
    BY <2>3
<1> HIDE DEF b, n, chunk
<1>6. content'[b] = chunk /\ \A c \in Buffers \ {b} : content'[c] = content[c]
  BY <1>1, <1>3, <1>5, HoldTypes
<1>7. CallsHold'
  BY <1>1 DEF CallsHold, RoundSteps
<1>8. HandHolds'
  BY <1>1, <1>2 DEF HandHolds, RoundSteps, CopySteps
<1>9. OffsetHolds'
  BY <1>1, HoldTypes DEF OffsetHolds, CallsHold, RoundSteps, BetweenFrames
<1>10. CopyHolds'
  BY <1>1, <1>4, <1>5, <1>6 DEF CopyHolds
<1>11. FullHolds'
  <2>1. \A i \in DOMAIN sampleQueue : sampleQueue[i] \in Buffers \ {b}
    BY <1>3 DEF InQueue, OwnerInv, BuilderInv, TypeOK, BufferType
  <2>2. \A i \in DOMAIN sampleQueue : Len(content'[sampleQueue[i]]) = BufferSize
    BY <1>6, <2>1 DEF FullHolds
  <2>3. QED
    BY <1>1, <2>2 DEF FullHolds, CopySteps
<1>12. QED
  BY <1>2, <1>7, <1>8, <1>9, <1>10, <1>11

LEMMA PopFailsHolds ==
  ASSUME HoldInv, NEW here \in {"drain", "slice"}, PopFails(here)
  PROVE  /\ CallsHold' /\ HandHolds' /\ OffsetHolds' /\ CopyHolds' /\ FullHolds'
         /\ currentAudioBuffer = NoBuffer
<1> USE DEF HoldInv
<1>1. /\ pc = here /\ pc' = "head" /\ currentAudioBuffer' = NoBuffer
      /\ offsetIntoFrame < currentFrameDuration
      /\ UNCHANGED <<sampleQueue, content, state, currentFrameDuration, offsetIntoFrame,
                     copying, sampleBuffer, user>>
  BY DEF PopFails, sharedVars, timeline, frameVars, roundVars, callbackVars, userVars
<1>2. currentAudioBuffer = NoBuffer
  BY <1>1, HoldTypes DEF OffsetHolds
<1>3. CallsHold' /\ HandHolds' /\ OffsetHolds'
  BY <1>1 DEF CallsHold, HandHolds, OffsetHolds, RoundSteps, BetweenFrames, CopySteps
<1>4. CopyHolds' /\ FullHolds'
  BY <1>1, <1>2 DEF CopyHolds, FullHolds, CopySteps
<1>5. QED
  BY <1>2, <1>3, <1>4

LEMMA WakeFatalHolds ==
  HoldInv /\ WakeFatal => CallsHold' /\ HandHolds' /\ OffsetHolds' /\ CopyHolds' /\ FullHolds'
<1> SUFFICES ASSUME HoldInv, WakeFatal
             PROVE  CallsHold' /\ HandHolds' /\ OffsetHolds' /\ CopyHolds' /\ FullHolds'
  OBVIOUS
<1> USE DEF HoldInv
<1>1. /\ pc = "asleep" /\ pc' = "dead" /\ currentAudioBuffer' = NoBuffer
      /\ UNCHANGED <<sampleQueue, content, state, currentFrameDuration, offsetIntoFrame,
                     copying, sampleBuffer, user>>
  BY DEF WakeFatal, timeline, frameVars, callbackVars, userVars
<1>2. CallsHold' /\ HandHolds' /\ OffsetHolds'
  BY <1>1 DEF CallsHold, HandHolds, OffsetHolds, RoundSteps, BetweenFrames, CopySteps
<1>3. CopyHolds' /\ FullHolds'
  BY <1>1 DEF CopyHolds, FullHolds, CopySteps
<1>4. QED
  BY <1>2, <1>3

\* The first samples of a frame go behind what the builder's buffer holds.
LEMMA FillHolds ==
  HoldInv /\ Fill => CallsHold' /\ HandHolds' /\ OffsetHolds' /\ CopyHolds' /\ FullHolds'
<1> SUFFICES ASSUME HoldInv, Fill
             PROVE  CallsHold' /\ HandHolds' /\ OffsetHolds' /\ CopyHolds' /\ FullHolds'
  OBVIOUS
<1> USE DEF HoldInv
<1> DEFINE b == currentAudioBuffer
           n == Lesser(BufferSize - Len(content[b]), currentFrameDuration - offsetIntoFrame)
           chunk == Chunk(frameBuffer, offsetIntoFrame, currentFrameDuration, n)
<1>1. /\ pc = "fill" /\ pc' = "filled" /\ b # NoBuffer
      /\ currentAudioBuffer' = b /\ content' = [content EXCEPT ![b] = content[b] \o chunk]
      /\ copying' = [from |-> offsetIntoFrame, n |-> n]
      /\ UNCHANGED <<sampleQueue, needMore, state, currentFrameDuration, offsetIntoFrame,
                     sampleBuffer, user>>
  BY DEF Fill, StartCopy, sharedVars, timeline, frameVars, callbackVars, userVars
<1>2. /\ b \in Buffers /\ b \notin InQueue(sampleQueue)
      /\ frameBuffer \in Packets \cup {Silence}
  BY <1>1 DEF OwnerInv, OneOwner, BuilderInv, TypeOK, BufferType, FrameType
<1>3. /\ Len(content[b]) \in Nat /\ Len(content[b]) < BufferSize /\ offsetIntoFrame = 0
      /\ content[b] \in Seq(Samples)
  BY <1>1, <1>2, HoldTypes DEF FullHolds, OffsetHolds, CopySteps
<1>4. /\ n \in Nat /\ n # 0
      /\ Len(content[b]) + n = BufferSize \/ offsetIntoFrame + n = currentFrameDuration
  <2>1. /\ BufferSize - Len(content[b]) \in Nat \ {0}
        /\ currentFrameDuration - offsetIntoFrame \in Nat \ {0}
    BY <1>3, HoldTypes
  <2>2. /\ n \in Nat \ {0}
        /\ n = BufferSize - Len(content[b]) \/ n = currentFrameDuration - offsetIntoFrame
    BY <2>1, LesserOfSome
  <2> HIDE DEF n
  <2>3. QED
    BY <1>3, <2>2, HoldTypes
<1> HIDE DEF n
<1>5. Len(content[b] \o chunk) = Len(content[b]) + n
  <2>3. offsetIntoFrame \in Nat /\ currentFrameDuration \in Nat
    BY HoldTypes
  <2>4. /\ Chunk(frameBuffer, offsetIntoFrame, currentFrameDuration, n) \in Seq(Samples)
        /\ Len(Chunk(frameBuffer, offsetIntoFrame, currentFrameDuration, n)) = n
    BY <1>2, <1>4, <2>3, ChunkType
  <2> HIDE DEF chunk, b
  <2>1. chunk \in Seq(Samples) /\ Len(chunk) = n
    BY <2>4 DEF chunk
  <2>2. QED
    BY <1>3, <2>1, SamplesBehind
<1> HIDE DEF n, chunk
<1>6. /\ content'[b] = content[b] \o chunk
      /\ \A c \in Buffers \ {b} : content'[c] = content[c]
  BY <1>1, <1>2, HoldTypes
<1>7. CallsHold' /\ HandHolds' /\ OffsetHolds'
  BY <1>1, HoldTypes DEF CallsHold, HandHolds, OffsetHolds, RoundSteps, BetweenFrames, CopySteps
<1>8. CopyHolds'
  BY <1>1, <1>4, <1>5, <1>6 DEF CopyHolds
<1>9. FullHolds'
  <2>1. \A i \in DOMAIN sampleQueue : sampleQueue[i] \in Buffers \ {b}
    BY <1>2 DEF InQueue, OwnerInv, BuilderInv, TypeOK, BufferType
  <2>2. \A i \in DOMAIN sampleQueue : Len(content'[sampleQueue[i]]) = BufferSize
    BY <1>6, <2>1 DEF FullHolds
  <2>3. QED
    BY <1>1, <2>2 DEF FullHolds, CopySteps
<1>10. QED
  BY <1>7, <1>8, <1>9

LEMMA FillHasBuffer == HoldInv => ~FillThroughNull
BY DEF HoldInv, OffsetHolds, FillThroughNull

\* With no Reset under the copy, both offsets it may be added to are the same.
LEMMA CopiedHolds ==
  ASSUME HoldInv, NEW here \in CopySteps, NEW next \in {"drain", "slice"},
         NEW more \in BOOLEAN, Copied(here, next, more),
         more = FALSE
  PROVE  /\ CallsHold' /\ HandHolds' /\ OffsetHolds' /\ CopyHolds' /\ FullHolds'
         /\ offsetIntoFrame' = offsetIntoFrame + copying.n
<1> USE DEF HoldInv
<1>1. /\ pc = here /\ pc' = next /\ pc \in CopySteps /\ pc' \notin CopySteps
      /\ copying' = [from |-> 0, n |-> 0]
      /\ UNCHANGED <<content, state, currentFrameDuration, sampleBuffer, user>>
  BY DEF Copied, FinishCopy, PushFullBuffer, CopySteps, timeline, callbackVars, userVars
<1>2. /\ copying.from = offsetIntoFrame
      /\ currentAudioBuffer \in Buffers /\ currentAudioBuffer # NoBuffer
      /\ content[currentAudioBuffer] \in Seq(Samples)
      /\ Len(content[currentAudioBuffer]) <= BufferSize
      /\ offsetIntoFrame + copying.n <= currentFrameDuration
  BY <1>1, HoldTypes DEF CopyHolds, OwnerInv, BuilderInv, CopiesStayInBounds
<1>3. offsetIntoFrame' = offsetIntoFrame + copying.n
  BY <1>2 DEF Copied, FinishCopy, PushFullBuffer
<1>4. CallsHold'
  BY <1>1 DEF CallsHold, RoundSteps, CopySteps
<1>5. CopyHolds'
  BY <1>1 DEF CopyHolds
<1>6. state # "NoData"
  BY <1>1 DEF CallsHold, RoundSteps, CopySteps
<1>7. CASE Len(content[currentAudioBuffer]) = BufferSize
  <2>1. /\ sampleQueue' = Append(sampleQueue, currentAudioBuffer)
        /\ currentAudioBuffer' = NoBuffer /\ needMore' = FALSE
    BY <1>7 DEF Copied, FinishCopy, PushFullBuffer
  <2>2. HandHolds' /\ OffsetHolds'
    BY <1>1, <1>6, <2>1 DEF HandHolds, OffsetHolds, RoundSteps, BetweenFrames
  <2>3. sampleQueue \in Seq(Buffers)
    BY DEF OwnerInv, BuilderInv, TypeOK, BufferType
  <2>4. \A i \in DOMAIN sampleQueue' :
          \/ i \in DOMAIN sampleQueue /\ sampleQueue'[i] = sampleQueue[i]
          \/ sampleQueue'[i] = currentAudioBuffer
    BY <1>2, <2>1, <2>3
  <2>5. FullHolds'
    BY <1>1, <1>7, <2>1, <2>4 DEF FullHolds
  <2>6. QED
    BY <1>3, <1>4, <1>5, <2>2, <2>5
<1>8. CASE Len(content[currentAudioBuffer]) # BufferSize
  <2>1. UNCHANGED <<sampleQueue, currentAudioBuffer>> /\ needMore' = TRUE
    BY <1>8 DEF Copied, FinishCopy, PushFullBuffer
  <2>2. offsetIntoFrame' = currentFrameDuration
    BY <1>1, <1>3, <1>8 DEF CopyHolds
  <2>3. HandHolds' /\ OffsetHolds'
    BY <1>1, <1>2, <1>6, <2>1, <2>2 DEF HandHolds, OffsetHolds, RoundSteps, BetweenFrames
  <2>4. Len(content[currentAudioBuffer]) < BufferSize
    BY <1>2, <1>8, HoldTypes
  <2>5. FullHolds'
    BY <1>1, <2>1, <2>4 DEF FullHolds
  <2>6. QED
    BY <1>3, <1>4, <1>5, <2>3, <2>5
<1>9. QED
  BY <1>7, <1>8

LEMMA SetupPacketHolds ==
  HoldInv /\ SetupPacket
    => CallsHold' /\ HandHolds' /\ OffsetHolds' /\ CopyHolds' /\ FullHolds'
<1> SUFFICES ASSUME HoldInv, SetupPacket
             PROVE  CallsHold' /\ HandHolds' /\ OffsetHolds' /\ CopyHolds' /\ FullHolds'
  OBVIOUS
<1> USE DEF HoldInv
<1>1. /\ pc = "setup" /\ pc' \in {"fill", "slice"} /\ (pc' = "fill" <=> needMore)
      /\ currentFrameDuration' # 0 /\ offsetIntoFrame' = 0
      /\ UNCHANGED <<filling, state, needMore, sampleBuffer, user, copying>>
  BY SEServerAssumption DEF SetupPacket, timeline, bufferVars, roundVars, callbackVars,
     userVars, filling
<1>2. CallsHold'
  BY <1>1 DEF CallsHold, RoundSteps
<1>3. needMore <=> currentAudioBuffer # NoBuffer
  BY <1>1 DEF HandHolds, RoundSteps, CopySteps
<1>4. HandHolds'
  BY <1>1, <1>3 DEF HandHolds, filling
<1>5. OffsetHolds'
  BY <1>1, <1>3 DEF OffsetHolds, CallsHold, RoundSteps, BetweenFrames, filling
<1>6. CopyHolds' /\ FullHolds'
  BY <1>1, UnchangedFull DEF CopyHolds, CopySteps
<1>7. QED
  BY <1>2, <1>4, <1>5, <1>6

LEMMA BuilderClearsHolds ==
  HoldInv /\ BuilderClears
    => CallsHold' /\ HandHolds' /\ OffsetHolds' /\ CopyHolds' /\ FullHolds'
<1> SUFFICES ASSUME HoldInv, BuilderClears
             PROVE  CallsHold' /\ HandHolds' /\ OffsetHolds' /\ CopyHolds' /\ FullHolds'
  OBVIOUS
<1> USE DEF HoldInv
<1>1. /\ pc = "clear" /\ pc' = "head" /\ offsetIntoFrame' = 0
      /\ UNCHANGED <<filling, state, currentFrameDuration, sampleBuffer, user>>
  BY DEF BuilderClears, ClearFrame, bufferVars, roundVars, callbackVars, userVars, filling
<1>2. CallsHold' /\ HandHolds' /\ OffsetHolds'
  BY <1>1 DEF CallsHold, HandHolds, OffsetHolds, RoundSteps, BetweenFrames
<1>3. CopyHolds' /\ FullHolds'
  BY <1>1, UnchangedFull DEF CopyHolds, CopySteps
<1>4. QED
  BY <1>2, <1>3

\* The device takes what is queued first, and a buffer comes back when it is played.
LEMMA CallbackHolds ==
  HoldInv /\ audioDeviceIOCallback
    => CallsHold' /\ HandHolds' /\ OffsetHolds' /\ CopyHolds' /\ FullHolds'
<1> SUFFICES ASSUME HoldInv, audioDeviceIOCallback
             PROVE  CallsHold' /\ HandHolds' /\ OffsetHolds' /\ CopyHolds' /\ FullHolds'
  OBVIOUS
<1> USE DEF HoldInv
<1>1. /\ UNCHANGED <<state, currentFrameDuration, offsetIntoFrame, currentAudioBuffer, pc,
                     needMore, copying, user>>
      /\ user # "join"
  BY DEF audioDeviceIOCallback, Play1Buffer, ReturnBuffer, CallbackRegistered, sharedVars,
     timeline, frameVars, builderVars, roundVars, userVars
<1>2. CallsHold' /\ HandHolds' /\ OffsetHolds'
  BY <1>1 DEF CallsHold, HandHolds, OffsetHolds
<1>3. CASE Play1Buffer
  <2>1. sampleQueue # <<>> /\ sampleQueue' = Tail(sampleQueue) /\ UNCHANGED content
    BY <1>3 DEF Play1Buffer
  <2>2. \A i \in DOMAIN sampleQueue' : i + 1 \in DOMAIN sampleQueue
                                       /\ sampleQueue'[i] = sampleQueue[i + 1]
    BY <2>1 DEF OwnerInv, BuilderInv, TypeOK, BufferType
  <2>3. CopyHolds' /\ FullHolds'
    BY <1>1, <2>1, <2>2 DEF CopyHolds, FullHolds
  <2>4. QED
    BY <1>2, <2>3
<1>4. CASE ReturnBuffer
  <2>1. /\ sampleBuffer \in Buffers /\ sampleBuffer \notin InQueue(sampleQueue)
        /\ sampleBuffer # currentAudioBuffer
        /\ content' = [content EXCEPT ![sampleBuffer] = <<>>] /\ UNCHANGED sampleQueue
    BY <1>4 DEF ReturnBuffer, BufferPopped, OwnerInv, OneOwner, BuilderInv, TypeOK,
       CallbackType
  <2>2. \A c \in Buffers \ {sampleBuffer} : content'[c] = content[c]
    BY <2>1, HoldTypes
  <2>3. /\ \A i \in DOMAIN sampleQueue : sampleQueue[i] \in Buffers \ {sampleBuffer}
        /\ currentAudioBuffer # NoBuffer => currentAudioBuffer \in Buffers \ {sampleBuffer}
        /\ pc \in CopySteps => currentAudioBuffer # NoBuffer
    BY <2>1, SEServerAssumption DEF InQueue, OwnerInv, BuilderInv, TypeOK, BufferType
  <2>4. CopyHolds'
    BY <1>1, <2>2, <2>3 DEF CopyHolds
  <2>5. FullHolds'
    BY <1>1, <2>1, <2>2, <2>3 DEF FullHolds
  <2>6. QED
    BY <1>2, <2>4, <2>5
<1>5. QED
  BY <1>3, <1>4 DEF audioDeviceIOCallback

\* The user's calls but Reset find the builder outside of a round when they clear.
LEMMA UserHolds ==
  ASSUME HoldInv, User, "Reset" \notin Commands
  PROVE  CallsHold' /\ HandHolds' /\ OffsetHolds' /\ CopyHolds' /\ FullHolds'
<1> USE DEF HoldInv
<1>1. UNCHANGED <<content, pc, needMore, copying, currentFrameDuration, sampleBuffer>>
  BY DEF User, Pause, Stop, Play, SetFrame, SetStateStep, SetFrameStep, Initialize,
     Reset, ResetStep, ClearStep, Destroy, SetProcessorIsReady, SetPlayoutID, Joined,
     Begins, UserSetsState, ClearFrame, sharedVars, bufferVars, frameVars, builderVars,
     roundVars, callbackVars
<1>2. CASE Joined
  <2>1. /\ pc \in {"exited", "dead"} /\ user' = "gone" /\ sampleQueue' = <<>>
        /\ currentAudioBuffer' = NoBuffer /\ UNCHANGED <<state, offsetIntoFrame>>
    BY <1>2 DEF Joined, sharedVars, timeline, frameVars
  <2>2. CallsHold' /\ HandHolds' /\ OffsetHolds'
    BY <1>1, <2>1 DEF CallsHold, HandHolds, OffsetHolds, RoundSteps, BetweenFrames
  <2>3. CopyHolds' /\ FullHolds'
    BY <1>1, <2>1 DEF CopyHolds, FullHolds, CopySteps
  <2>4. QED
    BY <2>2, <2>3
<1>3. CASE ~Joined
  <2>1. UNCHANGED filling
    BY <1>3 DEF User, Pause, Stop, Play, SetFrame, SetStateStep, SetFrameStep, Initialize,
       Reset, ResetStep, ClearStep, Destroy, SetProcessorIsReady, SetPlayoutID,
       Begins, UserSetsState, bufferVars, filling
  <2>2. HandHolds' /\ CopyHolds' /\ FullHolds'
    <3>1. HandHolds'
      BY <1>1, <2>1 DEF HandHolds, filling
    <3>2. pc \in CopySteps => UNCHANGED offsetIntoFrame
      BY <1>3 DEF User, Pause, Stop, Play, SetFrame, SetStateStep, SetFrameStep, Initialize,
         Reset, ResetStep, ClearStep, Destroy, SetProcessorIsReady, SetPlayoutID,
         Begins, UserSetsState, sharedVars, frameVars, CallsHold, RoundSteps, CopySteps
    <3>3. CopyHolds'
      BY <1>1, <2>1, <3>2 DEF CopyHolds, filling
    <3>4. QED
      BY <1>1, <2>1, <3>1, <3>3, UnchangedFull
  <2>3. CallsHold'
    BY <1>1, <1>3 DEF User, Pause, Stop, Play, SetFrame, SetStateStep, SetFrameStep,
       Initialize, Reset, ResetStep, ClearStep, Destroy, SetProcessorIsReady, SetPlayoutID,
       Begins, UserSetsState, sharedVars, timeline, userVars, CallsHold, RoundSteps
  <2>4. OffsetHolds'
    <3>1. CASE ClearStep
      <4>1. offsetIntoFrame' = 0 /\ state = "NoData" /\ UNCHANGED state
        BY <3>1 DEF ClearStep, ClearFrame, CallsHold
      <4>2. pc \notin RoundSteps
        BY <4>1 DEF CallsHold
      <4>3. QED
        BY <1>1, <2>1, <4>1, <4>2 DEF OffsetHolds, RoundSteps, BetweenFrames, filling
    <3>2. CASE ~ClearStep
      <4>1. UNCHANGED offsetIntoFrame
        BY <1>3, <3>2 DEF User, Pause, Stop, Play, SetFrame, SetStateStep, SetFrameStep,
           Initialize, Reset, ResetStep, Destroy, SetProcessorIsReady, SetPlayoutID,
           Begins, UserSetsState, sharedVars, frameVars
      <4>2. state' = "NoData" => state = "NoData"
        BY <1>3, <3>2 DEF User, Pause, Stop, Play, SetFrame, SetStateStep, SetFrameStep,
           Initialize, Reset, ResetStep, Destroy, SetProcessorIsReady, SetPlayoutID,
           Begins, UserSetsState, sharedVars, timeline, CallsHold
      <4>3. QED
        BY <1>1, <2>1, <4>1, <4>2 DEF OffsetHolds, filling
    <3>3. QED
      BY <3>1, <3>2
  <2>5. QED
    BY <2>2, <2>3, <2>4
<1>4. QED
  BY <1>2, <1>3

LEMMA InitHolds == Init => HoldInv
<1> SUFFICES ASSUME Init PROVE HoldInv
  OBVIOUS
<1>1. OwnerInv
  BY InitBuilderInv, InitOneOwner DEF OwnerInv
<1>2. CallsHold /\ HandHolds /\ OffsetHolds /\ CopyHolds /\ FullHolds
  BY SEServerAssumption DEF Init, CallsHold, HandHolds, OffsetHolds, CopyHolds, FullHolds,
     RoundSteps, BetweenFrames, CopySteps
<1>3. QED
  BY <1>1, <1>2 DEF HoldInv

LEMMA BuilderHolds ==
  HoldInv /\ Builder => CallsHold' /\ HandHolds' /\ OffsetHolds' /\ CopyHolds' /\ FullHolds'
<1> SUFFICES ASSUME HoldInv, Builder
             PROVE  CallsHold' /\ HandHolds' /\ OffsetHolds' /\ CopyHolds' /\ FullHolds'
  OBVIOUS
<1>1. CASE Drain \/ Slice
  BY <1>1, PopHolds DEF Drain, Slice
<1>2. CASE DrainFails \/ SliceFails
  BY <1>2, PopFailsHolds DEF DrainFails, SliceFails
<1>3. CASE Drained \/ Sliced
  <2>1. needMore \in BOOLEAN /\ needMore = FALSE
    <3>1. needMore \in BOOLEAN
      BY DEF HoldInv, OwnerInv, BuilderInv, TypeOK, BuilderType
    <3>2. pc \in {"drained", "sliced"}
      BY <1>3 DEF Drained, Sliced, Copied
    <3>3. QED
      BY <3>1, <3>2 DEF HoldInv, HandHolds
  <2>2. QED
    BY <1>3, <2>1, CopiedHolds DEF Drained, Sliced, CopySteps
<1>4. CASE Filled
  BY <1>4, CopiedHolds DEF Filled, CopySteps
<1>5. CASE WakeFatal \/ Fill \/ SetupPacket \/ BuilderClears
  BY <1>5, WakeFatalHolds, FillHolds, SetupPacketHolds, BuilderClearsHolds
<1>6. CASE \/ LoopHead \/ WakeWithoutData \/ Wake \/ SetFlags \/ ReadReady
           \/ StartPlaying \/ ReadStateAgain \/ CreateFrame \/ AdvanceFrame
           \/ FrameDataFails \/ NextFrame \/ BuilderSetsNoData
  BY <1>6, QuietBuilderHolds
<1>7. QED
  BY <1>1, <1>2, <1>3, <1>4, <1>5, <1>6, FillHasBuffer DEF Builder

LEMMA HoldInvInductive ==
  HoldInv /\ "Reset" \notin Commands /\ [Next]_vars => HoldInv'
<1> SUFFICES ASSUME HoldInv, "Reset" \notin Commands, [Next]_vars
             PROVE  HoldInv'
  OBVIOUS
<1>1. OwnerInv'
  BY OwnerInvInductive DEF HoldInv
<1>2. CASE Next
  BY <1>1, <1>2, BuilderHolds, CallbackHolds, UserHolds DEF Next, HoldInv
<1>3. CASE UNCHANGED vars
  <2>1. UNCHANGED <<offsets, filling, copying, sampleBuffer, user, pc, needMore, state>>
    BY <1>3 DEF vars, sharedVars, timeline, frameVars, bufferVars, builderVars, roundVars,
       callbackVars, userVars, offsets, filling
  <2>2. CallsHold' /\ HandHolds' /\ OffsetHolds' /\ CopyHolds' /\ FullHolds'
    BY <2>1, UnchangedFull DEF HoldInv, CallsHold, HandHolds, OffsetHolds, CopyHolds,
       offsets, filling
  <2>3. QED
    BY <1>1, <2>2 DEF HoldInv
<1>4. QED
  BY <1>2, <1>3

LEMMA HoldInvHolds == Spec /\ "Reset" \notin Commands => []HoldInv
<1>1. CASE "Reset" \notin Commands
  <2>1. HoldInv /\ [Next]_vars => HoldInv'
    BY <1>1, HoldInvInductive
  <2>2. QED
    BY <2>1, InitHolds, PTL DEF Spec
<1>2. QED
  BY <1>1

-----------------------------------------------------------------------------
(* No buffer is lost.                                                      *)

LEMMA InitNoneLost == Init => NoBufferLost
<1> SUFFICES ASSUME Init PROVE NoBufferLost
  OBVIOUS
<1> DEFINE n == Cardinality(Buffers)
<1>1. /\ unusedSampleQueue \in [1 .. n -> Buffers]
      /\ \A i, j \in 1 .. n : unusedSampleQueue[i] = unusedSampleQueue[j] => i = j
  BY DEF Init
<1>2. n \in Nat /\ IsFiniteSet(Buffers) /\ IsFiniteSet(1 .. n) /\ Cardinality(1 .. n) = n
  BY SEServerAssumption, FS_CardinalityType, FS_Interval
<1>3. unusedSampleQueue \in Injection(1 .. n, Buffers)
  BY <1>1 DEF Injection, IsInjective
<1>4. InQueue(unusedSampleQueue) = Buffers
  <2>1. unusedSampleQueue \in Surjection(1 .. n, Buffers)
    BY <1>2, <1>3, FS_Injection
  <2>2. \A b \in Buffers : \E i \in 1 .. n : unusedSampleQueue[i] = b
    BY <2>1 DEF Surjection
  <2>3. DOMAIN unusedSampleQueue = 1 .. n
    BY <1>1
  <2>4. QED
    BY <1>1, <2>2, <2>3 DEF InQueue
<1>5. QED
  BY <1>4 DEF NoBufferLost

\* Where the buffers are, in all.
Whereabouts == InQueue(unusedSampleQueue) \cup InQueue(sampleQueue)
                 \cup {currentAudioBuffer, sampleBuffer} \cup freed

\* No step drops a buffer: whoever takes one out of a queue has a free hand.
LEMMA StepLosesNone ==
  ASSUME HoldInv, Next
  PROVE  Whereabouts \ {NoBuffer} \subseteq Whereabouts'
<1>1. /\ unusedSampleQueue \in Seq(Buffers) /\ sampleQueue \in Seq(Buffers)
      /\ sampleBuffer \in Buffers \cup {NoBuffer}
      /\ pc \in CopySteps => currentAudioBuffer \in Buffers
  BY DEF HoldInv, OwnerInv, BuilderInv, TypeOK, BufferType, CallbackType
<1>2. CASE Drain \/ Slice
  <2>1. currentAudioBuffer = NoBuffer
    BY <1>2, PopHolds DEF Drain, Slice
  <2>2. /\ unusedSampleQueue # <<>> /\ unusedSampleQueue' = Tail(unusedSampleQueue)
        /\ currentAudioBuffer' = Head(unusedSampleQueue)
        /\ UNCHANGED <<sampleQueue, freed, sampleBuffer>>
    BY <1>2 DEF Drain, Slice, PopAndCopy, StartCopy, callbackVars
  <2>3. InQueue(unusedSampleQueue) = InQueue(unusedSampleQueue') \cup {currentAudioBuffer'}
    BY <1>1, <2>2, PopKeepsOthers
  <2>4. InQueue(sampleQueue') = InQueue(sampleQueue)
    BY <2>2
  <2>5. QED
    BY <2>1, <2>2, <2>3, <2>4 DEF Whereabouts
<1>3. CASE DrainFails \/ SliceFails
  <2>1. UNCHANGED places
    BY <1>3, PopFailsHolds DEF DrainFails, SliceFails, PopFails, callbackVars, places
  <2>2. QED
    BY <2>1 DEF Whereabouts, places, InQueue
<1>4. CASE Drained \/ Filled \/ Sliced
  <2>1. /\ currentAudioBuffer \in Buffers
        /\ UNCHANGED <<unusedSampleQueue, freed, sampleBuffer>>
    BY <1>1, <1>4 DEF Drained, Filled, Sliced, Copied, CopySteps, callbackVars
  <2>2. \/ UNCHANGED <<sampleQueue, currentAudioBuffer>>
        \/ sampleQueue' = Append(sampleQueue, currentAudioBuffer)
    BY <1>4 DEF Drained, Filled, Sliced, Copied, FinishCopy, PushFullBuffer
  <2>3. \/ UNCHANGED places
        \/ InQueue(sampleQueue') = InQueue(sampleQueue) \cup {currentAudioBuffer}
    BY <1>1, <2>1, <2>2, PushKeepsOthers DEF places
  <2>4. InQueue(unusedSampleQueue') = InQueue(unusedSampleQueue)
    BY <2>1
  <2>5. QED
    BY <2>1, <2>3, <2>4 DEF Whereabouts, places, InQueue
<1>5. CASE WakeFatal
  <2>1. /\ freed' = freed \cup {currentAudioBuffer}
        /\ UNCHANGED <<unusedSampleQueue, sampleQueue, sampleBuffer>>
    BY <1>5 DEF WakeFatal, callbackVars
  <2>2. /\ InQueue(unusedSampleQueue') = InQueue(unusedSampleQueue)
        /\ InQueue(sampleQueue') = InQueue(sampleQueue)
    BY <2>1
  <2>3. QED
    BY <2>1, <2>2 DEF Whereabouts
<1>6. CASE Play1Buffer
  <2>1. /\ sampleBuffer = NoBuffer /\ sampleQueue # <<>>
        /\ sampleQueue' = Tail(sampleQueue) /\ sampleBuffer' = Head(sampleQueue)
        /\ UNCHANGED <<unusedSampleQueue, freed, currentAudioBuffer>>
    BY <1>6 DEF Play1Buffer
  <2>2. InQueue(sampleQueue) = InQueue(sampleQueue') \cup {sampleBuffer'}
    BY <1>1, <2>1, PopKeepsOthers
  <2>3. InQueue(unusedSampleQueue') = InQueue(unusedSampleQueue)
    BY <2>1
  <2>4. QED
    BY <2>1, <2>2, <2>3 DEF Whereabouts
<1>7. CASE ReturnBuffer
  <2>1. /\ sampleBuffer \in Buffers
        /\ unusedSampleQueue' = Append(unusedSampleQueue, sampleBuffer)
        /\ UNCHANGED <<sampleQueue, freed, currentAudioBuffer>>
    BY <1>1, <1>7 DEF ReturnBuffer, BufferPopped, PushPlayedBuffer
  <2>2. InQueue(unusedSampleQueue') = InQueue(unusedSampleQueue) \cup {sampleBuffer}
    BY <1>1, <2>1, PushKeepsOthers
  <2>3. InQueue(sampleQueue') = InQueue(sampleQueue)
    BY <2>1
  <2>4. QED
    BY <2>1, <2>2, <2>3 DEF Whereabouts
<1>8. CASE Joined
  <2>1. /\ freed' = freed \cup InQueue(unusedSampleQueue) \cup InQueue(sampleQueue)
                      \cup ({currentAudioBuffer} \ {NoBuffer})
        /\ sampleBuffer' = sampleBuffer
    BY <1>8 DEF Joined, callbackVars
  <2>2. QED
    BY <2>1 DEF Whereabouts
<1>9. CASE \/ LoopHead \/ WakeWithoutData \/ Wake \/ SetFlags \/ ReadReady
           \/ StartPlaying \/ ReadStateAgain \/ CreateFrame \/ AdvanceFrame
           \/ SetupPacket \/ FrameDataFails \/ Fill \/ FillThroughNull \/ NextFrame
           \/ BuilderSetsNoData \/ BuilderClears
  <2>1. UNCHANGED places
    BY <1>9 DEF LoopHead, WakeWithoutData, Wake, SetFlags, ReadReady, StartPlaying,
       ReadStateAgain, CreateFrame, AdvanceFrame, SetupPacket, FrameDataFails, Fill,
       StartCopy, FillThroughNull, NextFrame, BuilderSetsNoData, BuilderClears,
       bufferVars, callbackVars, places
  <2>2. QED
    BY <2>1 DEF Whereabouts, places, InQueue
<1>10. CASE \/ Pause \/ Stop \/ Play \/ SetFrame \/ SetStateStep \/ SetFrameStep
            \/ Initialize \/ Reset \/ ResetStep \/ ClearStep
            \/ Destroy \/ SetProcessorIsReady \/ SetPlayoutID
  <2>1. UNCHANGED places
    BY <1>10 DEF Pause, Stop, Play, SetFrame, SetStateStep, SetFrameStep, Initialize,
       Reset, ResetStep, ClearStep, Destroy, SetProcessorIsReady, SetPlayoutID,
       Begins, UserSetsState, places, bufferVars, callbackVars
  <2>2. QED
    BY <2>1 DEF Whereabouts, places, InQueue
<1>11. QED
  BY <1>2, <1>3, <1>4, <1>5, <1>6, <1>7, <1>8, <1>9, <1>10
     DEF Next, Builder, audioDeviceIOCallback, User

\* Without the user's Reset no buffer is lost, for any number and size of buffers,
\* any show, and any order of the other calls.
THEOREM NoneIsLost == Spec /\ "Reset" \notin Commands => []NoBufferLost
<1>1. NoBufferLost <=> Buffers \subseteq Whereabouts
  BY DEF NoBufferLost, Whereabouts
<1>2. HoldInv /\ NoBufferLost /\ [Next]_vars => NoBufferLost'
  <2> SUFFICES ASSUME HoldInv, NoBufferLost, [Next]_vars
               PROVE  NoBufferLost'
    OBVIOUS
  <2>1. CASE Next
    <3>1. Buffers \subseteq Whereabouts \ {NoBuffer}
      BY <1>1, SEServerAssumption
    <3>2. Buffers \subseteq Whereabouts'
      BY <2>1, <3>1, StepLosesNone
    <3>3. QED
      BY <3>2 DEF NoBufferLost, Whereabouts
  <2>2. CASE UNCHANGED vars
    BY <2>2 DEF NoBufferLost, vars, bufferVars, callbackVars, InQueue
  <2>3. QED
    BY <2>1, <2>2
<1>3. QED
  BY <1>2, InitNoneLost, HoldInvHolds, PTL DEF Spec

-----------------------------------------------------------------------------
(* What the pipe holds.                                                    *)

Blocks == [i \in DOMAIN sampleQueue |-> content[sampleQueue[i]]]
Queued == FlattenSeq(Blocks)
InHand == IF currentAudioBuffer = NoBuffer THEN <<>> ELSE content[currentAudioBuffer]

LEMMA PipeIs == Pipe = Queued \o InHand
BY DEF Pipe, Queued, InHand, Blocks

LEMMA PipeIsNext == Pipe' = Queued' \o InHand'
BY DEF Pipe, Queued, InHand, Blocks

LEMMA PipeTypes ==
  ASSUME HoldInv
  PROVE  /\ Blocks \in Seq(Seq(Samples)) /\ Len(Blocks) = Len(sampleQueue)
         /\ \A i \in 1 .. Len(Blocks) : Len(Blocks[i]) = BufferSize
         /\ Queued \in Seq(Samples) /\ InHand \in Seq(Samples)
         /\ Pipe \in Seq(Samples) /\ played \in Seq(Samples)
<1>1. /\ sampleQueue \in Seq(Buffers) /\ content \in [Buffers -> Seq(Samples)]
      /\ currentAudioBuffer \in Buffers \cup {NoBuffer} /\ played \in Seq(Samples)
  BY DEF HoldInv, OwnerInv, BuilderInv, TypeOK, BufferType, CallbackType
<1>2. \A i \in DOMAIN sampleQueue : Len(content[sampleQueue[i]]) = BufferSize
  BY DEF HoldInv, FullHolds
<1>3. /\ Len(sampleQueue) \in Nat /\ DOMAIN sampleQueue = 1 .. Len(sampleQueue)
      /\ \A i \in 1 .. Len(sampleQueue) : content[sampleQueue[i]] \in Seq(Samples)
  BY <1>1
<1>4. Blocks \in [1 .. Len(sampleQueue) -> Seq(Samples)]
  BY <1>3 DEF Blocks
<1>5. Blocks \in Seq(Seq(Samples)) /\ Len(Blocks) = Len(sampleQueue)
  BY <1>3, <1>4
<1>6. \A i \in 1 .. Len(Blocks) : Len(Blocks[i]) = BufferSize
  BY <1>2, <1>3, <1>5 DEF Blocks
<1>7. Queued \in Seq(Samples)
  BY <1>5, FlattenType DEF Queued
<1>8. InHand \in Seq(Samples)
  BY <1>1 DEF InHand
<1>9. Pipe \in Seq(Samples)
  BY <1>7, <1>8, PipeIs
<1>10. QED
  BY <1>1, <1>5, <1>6, <1>7, <1>8, <1>9

\* Whole buffers, and what is in the builder's hand.
LEMMA PipeLength ==
  ASSUME HoldInv
  PROVE  /\ Len(Queued) = BufferSize * Len(sampleQueue)
         /\ Len(Pipe) = BufferSize * Len(sampleQueue) + Len(InHand)
         /\ Len(sampleQueue) \in Nat
<1>1. Len(Queued) = BufferSize * Len(sampleQueue)
  <2>1. BufferSize \in Nat
    BY SEServerAssumption
  <2>2. Len(FlattenSeq(Blocks)) = BufferSize * Len(Blocks)
    BY <2>1, PipeTypes, FlattenLength
  <2>3. QED
    BY <2>2, PipeTypes DEF Queued
<1>2. Len(Queued \o InHand) = Len(Queued) + Len(InHand)
  BY PipeTypes, SamplesBehind
<1>3. Len(sampleQueue) \in Nat
  BY DEF HoldInv, OwnerInv, BuilderInv, TypeOK, BufferType
<1>4. QED
  BY <1>1, <1>2, <1>3, PipeIs

\* While a copy is under way the queue lacks a buffer, and the pipe has its capacity.
LEMMA PipeFits ==
  ASSUME HoldInv, pc \in CopySteps
  PROVE  Len(Pipe) <= BufferSize * Cardinality(Buffers)
<1>1. /\ currentAudioBuffer \in Buffers /\ currentAudioBuffer # NoBuffer
      /\ Len(content[currentAudioBuffer]) <= BufferSize
      /\ content[currentAudioBuffer] \in Seq(Samples)
  BY HoldTypes DEF HoldInv, OwnerInv, BuilderInv, CopiesStayInBounds
<1>2. /\ sampleQueue \in Seq(Buffers) /\ NoDuplicates(sampleQueue)
      /\ currentAudioBuffer \notin InQueue(sampleQueue)
  BY DEF HoldInv, OwnerInv, OneOwner, BuilderInv, TypeOK, BufferType
<1>3. Len(sampleQueue) < Cardinality(Buffers)
  BY <1>1, <1>2, QueueHasRoom
<1>4. \A size, m, k \in Nat : m < k => size * m + size <= size * k
  <2> SUFFICES ASSUME NEW size \in Nat, NEW m \in Nat, NEW k \in Nat, m < k
               PROVE  size * m + size <= size * k
    OBVIOUS
  <2> DEFINE more == k - (m + 1)
  <2>1. more \in Nat /\ k = (m + 1) + more
    OBVIOUS
  <2> HIDE DEF more
  <2>2. size * k = (size * m + size) + size * more /\ size * more \in Nat
    BY <2>1
  <2>3. QED
    BY <2>2
<1>5. /\ Len(InHand) \in Nat /\ Len(InHand) <= BufferSize
      /\ Len(Pipe) = BufferSize * Len(sampleQueue) + Len(InHand)
      /\ BufferSize \in Nat /\ Len(sampleQueue) \in Nat /\ Cardinality(Buffers) \in Nat
  <2>1. InHand = content[currentAudioBuffer]
    BY <1>1 DEF InHand
  <2>2. Len(InHand) \in Nat /\ Len(InHand) <= BufferSize
    BY <1>1, <2>1
  <2>3. Cardinality(Buffers) \in Nat /\ BufferSize \in Nat
    BY SEServerAssumption, FS_CardinalityType
  <2>4. QED
    BY <2>2, <2>3, PipeLength
<1>6. BufferSize * Len(sampleQueue) + BufferSize <= BufferSize * Cardinality(Buffers)
  BY <1>3, <1>4, <1>5
<1>7. /\ BufferSize * Len(sampleQueue) \in Nat
      /\ BufferSize * Cardinality(Buffers) \in Nat
  BY <1>5
<1>8. QED
  BY <1>5, <1>6, <1>7

-----------------------------------------------------------------------------
(* The last sample that was written.                                       *)

\* What a frame carries is a packet of the show or, after a reset, silence.
FrameInv ==
  /\ currentFrameDuration \in FrameDurations \cup {MaxFrameDuration}
  /\ frameBuffer \in ShowPackets \cup {Silence}

\* A last sample is the one before `done` of the packet's frame, or, with all or none of
\* the frame written, one that ends its own.
EndsAt(last, packet, done, duration) ==
  IF 0 < done /\ done < duration
  THEN last = <<[packet |-> packet, at |-> done - 1, of |-> duration]>>
  ELSE last # <<>> => ~(last[1].at + 1 < last[1].of)

LastInv ==
  pc \notin {"dead", "exited"} =>
    EndsAt(Stream!LastWritten, frameBuffer, offsetIntoFrame + copying.n, currentFrameDuration)

StreamInv == HoldInv /\ FrameInv /\ LastInv

LEMMA PipeFitsNext ==
  (HoldInv /\ pc \in CopySteps => Len(Pipe) <= BufferSize * Cardinality(Buffers))'
<1>1. HoldInv /\ pc \in CopySteps => Len(Pipe) <= BufferSize * Cardinality(Buffers)
  BY PipeFits
<1>2. QED
  BY <1>1, PTL

\* The last sample of samples written behind others.
LEMMA LastBehind ==
  ASSUME NEW s \in Seq(Samples), NEW t \in Seq(Samples), Len(t) # 0
  PROVE  s \o t # <<>> /\ (s \o t)[Len(s \o t)] = t[Len(t)]
OBVIOUS

LEMMA SamplesJoin ==
  ASSUME NEW s \in Seq(Samples), NEW t \in Seq(Samples), NEW u \in Seq(Samples)
  PROVE  s \o t \in Seq(Samples) /\ (s \o t) \o u = s \o (t \o u)
OBVIOUS

\* Two sequences, one behind the other, are cut where the first ends.
LEMMA CutBehind ==
  ASSUME NEW s \in Seq(Samples), NEW t \in Seq(Samples)
  PROVE  /\ Len(s \o t) >= Len(s) /\ Len(s \o t) = Len(s) + Len(t)
         /\ s = SubSeq(s \o t, 1, Len(s))
         /\ t = SubSeq(s \o t, Len(s) + 1, Len(s \o t))
OBVIOUS

\* A sequence is what comes before a place and what comes behind it.
LEMMA CutAt ==
  ASSUME NEW s \in Seq(Samples), NEW n \in Nat, n <= Len(s)
  PROVE  /\ SubSeq(s, 1, n) \in Seq(Samples) /\ SubSeq(s, n + 1, Len(s)) \in Seq(Samples)
         /\ Len(SubSeq(s, 1, n)) = n
         /\ s = SubSeq(s, 1, n) \o SubSeq(s, n + 1, Len(s))
<1> DEFINE left == SubSeq(s, 1, n)
           right == SubSeq(s, n + 1, Len(s))
<1>1. /\ left \in Seq(Samples) /\ Len(left) = n /\ Len(s) \in Nat
      /\ \A i \in 1 .. n : left[i] = s[i]
  OBVIOUS
<1>2. /\ right \in Seq(Samples) /\ Len(right) = Len(s) - n
      /\ \A i \in 1 .. Len(s) - n : right[i] = s[n + i]
  OBVIOUS
<1> HIDE DEF left, right
<1>3. left \o right \in Seq(Samples) /\ Len(left \o right) = Len(s)
  BY <1>1, <1>2
<1>4. ASSUME NEW i \in 1 .. Len(s)
      PROVE  (left \o right)[i] = s[i]
  <2>1. CASE i <= n
    BY <1>1, <1>2, <2>1
  <2>2. CASE i > n
    <3>1. i - n \in 1 .. Len(s) - n /\ n + (i - n) = i
      BY <1>1, <2>2
    <3>2. (left \o right)[i] = right[i - n] /\ right[i - n] = s[n + (i - n)]
      BY <1>1, <1>2, <2>2, <3>1
    <3>3. QED
      BY <3>1, <3>2
  <2>3. i \in Nat /\ n \in Nat
    BY <1>1
  <2>4. i <= n \/ i > n
    BY <2>3
  <2>5. QED
    BY <2>1, <2>2, <2>4
<1>5. \A u, v \in Seq(Samples) :
        Len(u) = Len(v) /\ (\A i \in 1 .. Len(u) : u[i] = v[i]) => u = v
  OBVIOUS
<1>6. left \o right = s
  BY <1>3, <1>4, <1>5
<1>7. QED
  BY <1>1, <1>2, <1>6 DEF left, right

LEMMA CutLast ==
  ASSUME NEW s \in Seq(Samples), Len(s) # 0
  PROVE  /\ SubSeq(s, 1, Len(s) - 1) \in Seq(Samples) /\ <<s[Len(s)]>> \in Seq(Samples)
         /\ SubSeq(s, 1, Len(s) - 1) \o <<s[Len(s)]>> = s
OBVIOUS

LEMMA TailIs ==
  ASSUME NEW S, NEW q \in Seq(S), q # <<>>, NEW r \in Seq(S),
         Len(r) = Len(q) - 1, \A i \in 1 .. Len(q) - 1 : r[i] = q[i + 1]
  PROVE  r = Tail(q)
<1>1. /\ Tail(q) \in Seq(S) /\ Len(Tail(q)) = Len(q) - 1
      /\ \A i \in 1 .. Len(q) - 1 : Tail(q)[i] = q[i + 1]
  OBVIOUS
<1>2. \A u, v \in Seq(S) : Len(u) = Len(v) /\ (\A i \in 1 .. Len(u) : u[i] = v[i]) => u = v
  OBVIOUS
<1>3. QED
  BY <1>1, <1>2

LEMMA NothingBehind ==
  ASSUME NEW s \in Seq(Samples)
  PROVE  s \o <<>> = s
OBVIOUS

\* The step that begins a copy puts the next n samples of the frame behind what is under
\* way.
ChunkBehind(n) ==
  /\ pc \in {"drain", "slice", "fill"} /\ pc' \in CopySteps
  /\ n <= BufferSize /\ offsetIntoFrame + n <= currentFrameDuration
  /\ copying'.n = n
  /\ UNCHANGED <<frameBuffer, currentFrameDuration, offsetIntoFrame, played>>
  /\ Pipe' = Pipe \o Chunk(frameBuffer, offsetIntoFrame, currentFrameDuration, n)

LEMMA WriteChunk ==
  ASSUME StreamInv, HoldInv', NEW n \in Nat \ {0}, ChunkBehind(n)
  PROVE  Stream!Write /\ LastInv'
<1> /\ pc \in {"drain", "slice", "fill"} /\ pc' \in CopySteps
    /\ n <= BufferSize /\ offsetIntoFrame + n <= currentFrameDuration
    /\ copying'.n = n
    /\ UNCHANGED <<frameBuffer, currentFrameDuration, offsetIntoFrame, played>>
    /\ Pipe' = Pipe \o Chunk(frameBuffer, offsetIntoFrame, currentFrameDuration, n)
  BY DEF ChunkBehind
<1> DEFINE first == [packet |-> frameBuffer, at |-> offsetIntoFrame,
                     of |-> currentFrameDuration]
           chunk == Chunk(frameBuffer, offsetIntoFrame, currentFrameDuration, n)
<1>1. /\ HoldInv /\ FrameInv /\ LastInv /\ copying.n = 0 /\ pc \notin {"dead", "exited", "crashed"}
      /\ offsetIntoFrame \in Nat /\ currentFrameDuration \in Nat
      /\ frameBuffer \in Packets \cup {Silence}
  BY HoldTypes DEF StreamInv, CopySteps, HoldInv, OwnerInv, BuilderInv, TypeOK, FrameType
<1>2. EndsAt(Stream!LastWritten, frameBuffer, offsetIntoFrame, currentFrameDuration)
  <2>1. offsetIntoFrame + copying.n = offsetIntoFrame
    BY <1>1
  <2>2. QED
    BY <1>1, <2>1 DEF LastInv
<1>3. first \in Stream!NextSamples
  <2>1. CASE offsetIntoFrame = 0
    <3>1. first \in [packet : ShowPackets \cup {Silence}, at : {0},
                     of : FrameDurations \cup {MaxFrameDuration}]
      BY <1>1, <2>1 DEF FrameInv
    <3>2. ~ /\ Stream!LastWritten # <<>>
            /\ Stream!LastWritten[1].at + 1 < Stream!LastWritten[1].of
      BY <1>2, <2>1 DEF EndsAt
    <3>3. QED
      BY <3>1, <3>2 DEF Stream!NextSamples
  <2>2. CASE offsetIntoFrame # 0
    <3>1. Stream!LastWritten = <<[packet |-> frameBuffer, at |-> offsetIntoFrame - 1,
                                   of |-> currentFrameDuration]>>
      BY <1>1, <1>2, <2>2 DEF EndsAt
    <3> DEFINE last == [packet |-> frameBuffer, at |-> offsetIntoFrame - 1,
                        of |-> currentFrameDuration]
    <3>2. /\ Stream!LastWritten # <<>> /\ Stream!LastWritten[1] = last
          /\ last.at + 1 < last.of /\ [last EXCEPT !.at = @ + 1] = first
      BY <1>1, <3>1
    <3> HIDE DEF last, first
    <3>3. QED
      BY <3>2 DEF Stream!NextSamples
  <2>3. QED
    BY <2>1, <2>2
<1>4. chunk \in Seq(Samples) /\ Len(chunk) = n
  BY <1>1, ChunkType
<1>5. chunk = [i \in 1 .. n |-> [first EXCEPT !.at = @ + i - 1]]
  BY DEF Chunk
<1>6. Len(Pipe) + n = Len(Pipe') /\ Len(Pipe') <= BufferSize * Cardinality(Buffers)
  <2>1. Len(Pipe') <= BufferSize * Cardinality(Buffers)
    <3>1. HoldInv' /\ pc' \in CopySteps
      OBVIOUS
    <3>2. QED
      BY <3>1, PipeFitsNext
  <2>2. Len(Pipe \o chunk) = Len(Pipe) + n
    <3>1. Pipe \in Seq(Samples) /\ HoldInv
      BY <1>1, PipeTypes
    <3> HIDE DEF chunk
    <3>2. QED
      BY <1>4, <3>1, SamplesBehind
  <2>3. QED
    BY <2>1, <2>2
<1> HIDE DEF first, chunk
<1>7. Stream!Write
  <2>1. pc' \notin {"dead", "exited", "crashed"}
    BY DEF CopySteps
  <2>2. first.of = currentFrameDuration /\ first.at = offsetIntoFrame
    BY DEF first
  <2>3. n \in 1 .. BufferSize /\ n <= first.of - first.at
    BY <1>1, <2>2, SEServerAssumption
  <2>4. QED
    BY <1>1, <1>3, <1>5, <1>6, <2>1, <2>3 DEF Stream!Write, chunk
<1>8. LastInv'
  <2>1. chunk[n] = [packet |-> frameBuffer, at |-> offsetIntoFrame + n - 1,
                    of |-> currentFrameDuration]
    BY DEF chunk, Chunk
  <2>2. played \in Seq(Samples) /\ Pipe \in Seq(Samples)
    BY <1>1, PipeTypes
  <2>3. played \o Pipe \in Seq(Samples) /\ (played \o Pipe) \o chunk = played \o (Pipe \o chunk)
    BY <1>4, <2>2, SamplesJoin
  <2>4. /\ played \o Pipe' # <<>>
        /\ (played \o Pipe')[Len(played \o Pipe')] = chunk[n]
    BY <1>4, <2>3, LastBehind DEF chunk
  <2>5. (Stream!LastWritten)' = <<chunk[n]>>
    BY <2>4 DEF Stream!LastWritten
  <2>6. EndsAt(<<chunk[n]>>, frameBuffer, offsetIntoFrame + n, currentFrameDuration)
    BY <1>1, <2>1 DEF EndsAt
  <2>7. QED
    BY <2>5, <2>6 DEF LastInv
<1>9. QED
  BY <1>7, <1>8

\* A step that leaves the queued buffers and what they hold alone.
LEMMA BlocksStay ==
  ASSUME UNCHANGED sampleQueue,
         \A i \in DOMAIN sampleQueue : content'[sampleQueue[i]] = content[sampleQueue[i]]
  PROVE  UNCHANGED Queued
<1>1. UNCHANGED Blocks
  BY DEF Blocks
<1>2. QED
  BY <1>1 DEF Queued

\* Behind what is in the builder's hand comes a new chunk of the frame.
LEMMA PopAppends ==
  ASSUME HoldInv, NEW here \in {"drain", "slice"}, NEW next \in {"drained", "sliced"},
         PopAndCopy(here, next)
  PROVE  \E n \in Nat \ {0} : ChunkBehind(n)
<1> DEFINE b == Head(unusedSampleQueue)
           n == Lesser(BufferSize, currentFrameDuration - offsetIntoFrame)
           chunk == Chunk(frameBuffer, offsetIntoFrame, currentFrameDuration, n)
<1>1. /\ pc = here /\ pc' = next
      /\ offsetIntoFrame < currentFrameDuration
      /\ currentAudioBuffer' = b /\ content' = [content EXCEPT ![b] = <<>> \o chunk]
      /\ copying'.n = n
      /\ UNCHANGED <<sampleQueue, frameBuffer, currentFrameDuration, offsetIntoFrame, played>>
  BY DEF PopAndCopy, StartCopy, sharedVars, frameVars, callbackVars
<1>2. HoldInv /\ currentAudioBuffer = NoBuffer
  BY PopHolds
<1>3. b \in Buffers /\ b \notin InQueue(sampleQueue)
  <2>1. /\ unusedSampleQueue \in Seq(Buffers) /\ unusedSampleQueue # <<>>
        /\ NoDuplicates(unusedSampleQueue)
        /\ InQueue(unusedSampleQueue) \cap InQueue(sampleQueue) = {}
    BY <1>2 DEF HoldInv, OwnerInv, OneOwner, BuilderInv, TypeOK, BufferType, PopAndCopy
  <2>2. b \in InQueue(unusedSampleQueue)
    BY <2>1, PopQueue
  <2>3. QED
    BY <2>1, <2>2
<1>4. n \in Nat \ {0} /\ n <= BufferSize /\ offsetIntoFrame + n <= currentFrameDuration
  <2>1. /\ BufferSize \in Nat \ {0} /\ currentFrameDuration - offsetIntoFrame \in Nat \ {0}
        /\ BufferSize \in Nat /\ currentFrameDuration - offsetIntoFrame \in Nat
    BY <1>1, <1>2, HoldTypes
  <2>2. n \in Nat \ {0} /\ n <= BufferSize /\ n <= currentFrameDuration - offsetIntoFrame
    BY <2>1, LesserOfSome, LesserBounds
  <2> HIDE DEF n
  <2>3. QED
    BY <1>2, <2>2, HoldTypes
<1> HIDE DEF n
<1>5. chunk \in Seq(Samples)
  <2>1. /\ frameBuffer \in Packets \cup {Silence} /\ n \in Nat
        /\ offsetIntoFrame \in Nat /\ currentFrameDuration \in Nat
    BY <1>2, <1>4 DEF HoldInv, OwnerInv, BuilderInv, TypeOK, FrameType
  <2>2. QED
    BY <2>1, ChunkType
<1> HIDE DEF b, chunk
<1>6. Pipe' = Pipe \o chunk
  <2>1. UNCHANGED Queued
    <3>1. \A i \in DOMAIN sampleQueue : sampleQueue[i] \in Buffers \ {b}
      BY <1>2, <1>3 DEF InQueue, HoldInv, OwnerInv, BuilderInv, TypeOK, BufferType
    <3>2. \A i \in DOMAIN sampleQueue : content'[sampleQueue[i]] = content[sampleQueue[i]]
      BY <1>1, <1>2, <3>1, HoldTypes
    <3>3. QED
      BY <1>1, <3>2, BlocksStay
  <2>2. InHand = <<>> /\ InHand' = chunk
    <3>1. content'[b] = <<>> \o chunk /\ <<>> \o chunk = chunk /\ b # NoBuffer
      BY <1>1, <1>2, <1>3, <1>5, HoldTypes
    <3>2. QED
      BY <1>1, <1>2, <3>1 DEF InHand
  <2>3. Queued \in Seq(Samples)
    BY <1>2, PipeTypes
  <2>4. Queued \o <<>> = Queued
    BY <2>3, NothingBehind
  <2>5. Pipe = Queued /\ Pipe' = Queued \o chunk
    BY <2>1, <2>2, <2>4, PipeIs, PipeIsNext
  <2>6. QED
    BY <2>5
<1>7. pc \in {"drain", "slice", "fill"} /\ pc' \in CopySteps
  BY <1>1 DEF CopySteps
<1>8. QED
  BY <1>1, <1>4, <1>6, <1>7 DEF chunk, ChunkBehind

LEMMA FillAppends ==
  ASSUME HoldInv, Fill
  PROVE  \E n \in Nat \ {0} : ChunkBehind(n)
<1> DEFINE b == currentAudioBuffer
           n == Lesser(BufferSize - Len(content[b]), currentFrameDuration - offsetIntoFrame)
           chunk == Chunk(frameBuffer, offsetIntoFrame, currentFrameDuration, n)
<1>1. /\ pc = "fill" /\ pc' = "filled" /\ b # NoBuffer
      /\ currentAudioBuffer' = b /\ content' = [content EXCEPT ![b] = content[b] \o chunk]
      /\ copying'.n = n
      /\ UNCHANGED <<sampleQueue, frameBuffer, currentFrameDuration, offsetIntoFrame, played>>
  BY DEF Fill, StartCopy, sharedVars, frameVars, callbackVars
<1>2. /\ HoldInv /\ b \in Buffers /\ b \notin InQueue(sampleQueue)
  BY <1>1 DEF HoldInv, OwnerInv, OneOwner, BuilderInv, TypeOK, BufferType
<1>3. /\ Len(content[b]) \in Nat /\ Len(content[b]) < BufferSize /\ offsetIntoFrame = 0
      /\ content[b] \in Seq(Samples)
  BY <1>1, <1>2, HoldTypes DEF HoldInv, FullHolds, OffsetHolds, CopySteps
<1>4. n \in Nat \ {0} /\ n <= BufferSize /\ offsetIntoFrame + n <= currentFrameDuration
  <2>1. /\ BufferSize - Len(content[b]) \in Nat \ {0}
        /\ currentFrameDuration - offsetIntoFrame \in Nat \ {0}
        /\ BufferSize - Len(content[b]) \in Nat
        /\ currentFrameDuration - offsetIntoFrame \in Nat
    BY <1>2, <1>3, HoldTypes
  <2>2. /\ n \in Nat \ {0} /\ n <= BufferSize - Len(content[b])
        /\ n <= currentFrameDuration - offsetIntoFrame
    BY <2>1, LesserOfSome, LesserBounds
  <2> HIDE DEF n
  <2>3. QED
    BY <1>2, <1>3, <2>2, HoldTypes
<1> HIDE DEF n
<1>5. chunk \in Seq(Samples)
  <2>1. /\ frameBuffer \in Packets \cup {Silence} /\ n \in Nat
        /\ offsetIntoFrame \in Nat /\ currentFrameDuration \in Nat
    BY <1>2, <1>4 DEF HoldInv, OwnerInv, BuilderInv, TypeOK, FrameType
  <2>2. QED
    BY <2>1, ChunkType
<1> HIDE DEF chunk, b
<1>6. Pipe' = Pipe \o chunk
  <2>1. UNCHANGED Queued
    <3>1. \A i \in DOMAIN sampleQueue : sampleQueue[i] \in Buffers \ {b}
      BY <1>2 DEF InQueue, HoldInv, OwnerInv, BuilderInv, TypeOK, BufferType
    <3>2. \A i \in DOMAIN sampleQueue : content'[sampleQueue[i]] = content[sampleQueue[i]]
      BY <1>1, <1>2, <3>1, HoldTypes
    <3>3. QED
      BY <1>1, <3>2, BlocksStay
  <2>2. InHand = content[b] /\ InHand' = content[b] \o chunk
    <3>1. content'[b] = content[b] \o chunk
      BY <1>1, <1>2, HoldTypes
    <3>2. QED
      BY <1>1, <3>1 DEF InHand, b
  <2>3. Queued \in Seq(Samples)
    BY <1>2, PipeTypes
  <2>4. (Queued \o content[b]) \o chunk = Queued \o (content[b] \o chunk)
    BY <1>3, <1>5, <2>3, SamplesJoin
  <2>5. Pipe = Queued \o content[b] /\ Pipe' = Queued \o (content[b] \o chunk)
    <3>1. Pipe = Queued \o InHand /\ Pipe' = Queued' \o InHand'
      BY PipeIs, PipeIsNext
    <3>2. QED
      BY <2>1, <2>2, <3>1
  <2>6. QED
    BY <2>4, <2>5
<1>7. pc \in {"drain", "slice", "fill"} /\ pc' \in CopySteps
  BY <1>1 DEF CopySteps
<1>8. QED
  BY <1>1, <1>4, <1>6, <1>7 DEF chunk, ChunkBehind

LEMMA CopyAppends ==
  ASSUME HoldInv, Drain \/ Slice \/ Fill
  PROVE  \E n \in Nat \ {0} : ChunkBehind(n)
BY PopAppends, FillAppends DEF Drain, Slice

-----------------------------------------------------------------------------
(* The steps that write nothing.                                           *)

WriterEnds == {"dead", "exited", "crashed"}

\* What is under way and what was played stays: so does the stream.
LEMMA StreamStays ==
  ASSUME UNCHANGED <<Pipe, played>>, pc \in WriterEnds <=> pc' \in WriterEnds
  PROVE  UNCHANGED Stream!svars /\ UNCHANGED Stream!LastWritten
<1>1. (pc \notin {"dead", "exited", "crashed"})' = (pc \notin {"dead", "exited", "crashed"})
  BY DEF WriterEnds
<1>2. QED
  BY <1>1 DEF Stream!svars, Stream!LastWritten

LEMMA FillingStays ==
  ASSUME UNCHANGED filling
  PROVE  UNCHANGED <<Queued, InHand, Pipe>>
<1>1. UNCHANGED <<Queued, InHand>>
  BY DEF filling, Queued, Blocks, InHand
<1>2. QED
  BY <1>1, PipeIs, PipeIsNext

\* The last sample is where it was in its frame.
LEMMA LastStays ==
  ASSUME LastInv, UNCHANGED <<Stream!LastWritten, frameBuffer, currentFrameDuration>>,
         offsetIntoFrame' + copying'.n = offsetIntoFrame + copying.n,
         pc \in {"dead", "exited"} => pc' \in {"dead", "exited"}
  PROVE  LastInv'
BY DEF LastInv

\* A frame of which all or nothing is written may be replaced.
LEMMA LastEndsItsFrame ==
  ASSUME StreamInv, UNCHANGED Stream!LastWritten, pc \notin {"dead", "exited"},
         copying.n = 0, copying'.n = 0, offsetIntoFrame \in {0, currentFrameDuration},
         currentFrameDuration' \in Nat, offsetIntoFrame' \in {0, currentFrameDuration'}
  PROVE  LastInv'
<1>1. offsetIntoFrame \in Nat /\ currentFrameDuration \in Nat
  BY HoldTypes DEF StreamInv
<1>2. \A d, n \in Nat : d \in {0, n} => ~(0 < d + 0 /\ d + 0 < n)
  OBVIOUS
<1>3. /\ ~(0 < offsetIntoFrame + copying.n /\ offsetIntoFrame + copying.n < currentFrameDuration)
      /\ ~ /\ 0 < offsetIntoFrame' + copying'.n
           /\ offsetIntoFrame' + copying'.n < currentFrameDuration'
  BY <1>1, <1>2
<1>4. QED
  BY <1>3 DEF StreamInv, LastInv, EndsAt

\* The device is given the first block of the pipe.
LEMMA PlayStream ==
  ASSUME StreamInv, Play1Buffer
  PROVE  Stream!Deliver /\ LastInv'
<1> DEFINE first == Head(Blocks)
           rest == Queued' \o InHand
<1>1. /\ HoldInv /\ sampleQueue # <<>> /\ sampleQueue' = Tail(sampleQueue)
      /\ played' = content[Head(sampleQueue)]
      /\ UNCHANGED <<content, currentAudioBuffer, pc, frameBuffer, currentFrameDuration,
                     offsetIntoFrame, copying>>
  BY DEF StreamInv, Play1Buffer, sharedVars, frameVars, builderVars, roundVars
<1>2. sampleQueue \in Seq(Buffers) /\ content \in [Buffers -> Seq(Samples)]
  BY <1>1 DEF HoldInv, OwnerInv, BuilderInv, TypeOK, BufferType
<1>3. /\ Blocks \in Seq(Seq(Samples)) /\ Blocks # <<>>
      /\ first \in Seq(Samples) /\ Len(first) = BufferSize /\ BufferSize \in Nat \ {0}
      /\ InHand \in Seq(Samples) /\ played \in Seq(Samples)
  <2>1. /\ Blocks \in Seq(Seq(Samples)) /\ Len(Blocks) = Len(sampleQueue)
        /\ \A i \in 1 .. Len(Blocks) : Len(Blocks[i]) = BufferSize
    BY <1>1, PipeTypes
  <2>2. Len(sampleQueue) # 0 /\ Len(sampleQueue) \in Nat
    BY <1>1, <1>2
  <2>3. Blocks # <<>> /\ first = Blocks[1] /\ 1 \in 1 .. Len(Blocks) /\ first \in Seq(Samples)
    BY <2>1, <2>2
  <2>4. QED
    BY <1>1, <2>1, <2>3, PipeTypes, SEServerAssumption
<1>4. played' = first /\ Blocks' = Tail(Blocks)
  <2>1. /\ DOMAIN sampleQueue = 1 .. Len(sampleQueue) /\ Len(sampleQueue) \in Nat
        /\ 1 \in DOMAIN sampleQueue /\ Head(sampleQueue) = sampleQueue[1]
        /\ sampleQueue' \in Seq(Buffers) /\ Len(sampleQueue') = Len(sampleQueue) - 1
        /\ \A i \in 1 .. Len(sampleQueue') : sampleQueue'[i] = sampleQueue[i + 1]
    BY <1>1, <1>2
  <2>2. Head(Blocks) = Blocks[1] /\ Blocks[1] = content[sampleQueue[1]]
    BY <1>3, <2>1 DEF Blocks
  <2>3. Blocks' = [i \in 1 .. Len(sampleQueue) - 1 |-> content[sampleQueue[i + 1]]]
    BY <1>1, <2>1 DEF Blocks
  <2>4. /\ \A i \in 1 .. Len(sampleQueue) - 1 :
             /\ content[sampleQueue[i + 1]] = Blocks[i + 1]
             /\ content[sampleQueue[i + 1]] \in Seq(Samples)
        /\ Len(Blocks) = Len(sampleQueue)
    BY <1>1, <1>2, <2>1, PipeTypes DEF Blocks
  <2>5. PICK m \in Nat : m = Len(sampleQueue) - 1
    <3>1. Len(sampleQueue) - 1 \in Nat
      BY <2>1
    <3>2. QED
      BY <3>1, Zenon
  <2>6. PICK s \in Seq(Seq(Samples)) : Blocks' = s
    <3>1. Blocks' \in [1 .. m -> Seq(Samples)]
      BY <2>3, <2>4, <2>5
    <3>2. QED
      BY <2>5, <3>1
  <2>7. Len(s) = Len(Blocks) - 1 /\ \A i \in 1 .. Len(Blocks) - 1 : s[i] = Blocks[i + 1]
    <3>1. s = [i \in 1 .. m |-> content[sampleQueue[i + 1]]]
      BY <2>3, <2>5, <2>6
    <3>2. Len(s) = m /\ \A i \in 1 .. m : s[i] = content[sampleQueue[i + 1]]
      BY <2>5, <3>1
    <3>3. QED
      BY <2>4, <2>5, <3>2
  <2>8. s = Tail(Blocks)
    BY <1>3, <2>7, TailIs
  <2>9. QED
    BY <1>1, <2>1, <2>2, <2>6, <2>8
<1>5. Queued = first \o Queued' /\ Queued' \in Seq(Samples)
  <2>1. Tail(Blocks) \in Seq(Seq(Samples))
    BY <1>3
  <2>2. FlattenSeq(Blocks) = Head(Blocks) \o FlattenSeq(Tail(Blocks))
    BY <1>3, FlattenPop
  <2>3. FlattenSeq(Tail(Blocks)) \in Seq(Samples)
    BY <2>1, FlattenType
  <2>4. Queued' = FlattenSeq(Tail(Blocks))
    BY <1>4 DEF Queued
  <2>5. QED
    BY <2>2, <2>3, <2>4 DEF Queued
<1> HIDE DEF first
<1>6. Pipe' = rest /\ Pipe = first \o rest /\ rest \in Seq(Samples)
  <2>1. UNCHANGED InHand
    BY <1>1 DEF InHand
  <2>2. (first \o Queued') \o InHand = first \o (Queued' \o InHand) /\ rest \in Seq(Samples)
    <3>1. PICK q \in Seq(Samples) : q = Queued'
      BY <1>5
    <3>2. first \in Seq(Samples) /\ InHand \in Seq(Samples)
      BY <1>3
    <3>3. (first \o q) \o InHand = first \o (q \o InHand)
      BY <3>2, SamplesJoin, SMTT(30)
    <3>4. q \o InHand \in Seq(Samples)
      BY <3>2
    <3>5. QED
      BY <3>1, <3>3, <3>4
  <2>3. QED
    BY <1>5, <2>1, <2>2, PipeIs, PipeIsNext
<1> HIDE DEF rest
<1>7. /\ Len(Pipe) >= BufferSize /\ first = SubSeq(Pipe, 1, BufferSize)
      /\ rest = SubSeq(Pipe, BufferSize + 1, Len(Pipe))
  BY <1>3, <1>6, CutBehind
<1>8. Stream!Deliver
  BY <1>1, <1>4, <1>6, <1>7 DEF Stream!Deliver
<1>9. UNCHANGED Stream!LastWritten
  <2>1. Pipe \in Seq(Samples) /\ Len(Pipe) # 0
    <3>1. Pipe \in Seq(Samples) /\ Len(Pipe) \in Nat
      BY <1>1, PipeTypes
    <3>2. QED
      BY <1>3, <1>7, <3>1
  <2>2. played \o Pipe # <<>> /\ (played \o Pipe)[Len(played \o Pipe)] = Pipe[Len(Pipe)]
    BY <1>3, <2>1, LastBehind
  <2>3. played' \o Pipe' = Pipe /\ Pipe # <<>>
    BY <1>4, <1>6, <2>1
  <2>4. Stream!LastWritten = <<Pipe[Len(Pipe)]>>
    BY <2>2 DEF Stream!LastWritten
  <2>5. (Stream!LastWritten)' = <<Pipe[Len(Pipe)]>>
    BY <2>3 DEF Stream!LastWritten
  <2>6. QED
    BY <2>4, <2>5
<1>10. LastInv'
  BY <1>1, <1>9, LastStays DEF StreamInv
<1>11. QED
  BY <1>8, <1>10
\* A full buffer goes to the end of the queue: what is under way stays.
LEMMA CopiedStream ==
  ASSUME StreamInv, NEW here \in CopySteps, NEW next \in {"drain", "slice"},
         NEW more \in BOOLEAN, Copied(here, next, more), more = FALSE
  PROVE  UNCHANGED Stream!svars /\ LastInv'
<1>1. /\ HoldInv /\ pc = here /\ pc' = next /\ pc \in CopySteps
      /\ pc \notin WriterEnds /\ pc' \notin WriterEnds /\ copying'.n = 0
      /\ UNCHANGED <<content, played, frameBuffer, currentFrameDuration>>
  BY DEF StreamInv, Copied, FinishCopy, CopySteps, WriterEnds, callbackVars
<1>2. offsetIntoFrame' = offsetIntoFrame + copying.n
  BY <1>1, CopiedHolds
<1>3. UNCHANGED Pipe
  <2>1. CASE UNCHANGED <<sampleQueue, currentAudioBuffer>>
    <3>1. UNCHANGED filling
      BY <1>1, <2>1 DEF filling
    <3>2. QED
      BY <3>1, FillingStays
  <2>2. CASE PushFullBuffer
    <3> DEFINE b == currentAudioBuffer
    <3>1. /\ sampleQueue \in Seq(Buffers) /\ b \in Buffers /\ b # NoBuffer
          /\ content[b] \in Seq(Samples)
      BY <1>1, HoldTypes DEF HoldInv, OwnerInv, BuilderInv, TypeOK, BufferType
    <3>2. sampleQueue' = Append(sampleQueue, b) /\ currentAudioBuffer' = NoBuffer
      BY <2>2 DEF PushFullBuffer
    <3>3. /\ Blocks \in Seq(Seq(Samples)) /\ Len(Blocks) = Len(sampleQueue)
          /\ Queued \in Seq(Samples)
      BY <1>1, PipeTypes
    <3>4. Blocks' = Append(Blocks, content[b])
      <4>1. /\ DOMAIN sampleQueue' = 1 .. Len(sampleQueue) + 1
            /\ DOMAIN sampleQueue = 1 .. Len(sampleQueue) /\ Len(sampleQueue) \in Nat
            /\ \A i \in 1 .. Len(sampleQueue) : sampleQueue'[i] = sampleQueue[i]
            /\ sampleQueue'[Len(sampleQueue) + 1] = b
        BY <3>1, <3>2
      <4>2. Blocks' = [i \in 1 .. Len(sampleQueue) + 1 |-> content[sampleQueue'[i]]]
        BY <1>1, <4>1 DEF Blocks
      <4>3. \A i \in 1 .. Len(sampleQueue) : content[sampleQueue'[i]] = Blocks[i]
        BY <4>1 DEF Blocks
      <4>4. Append(Blocks, content[b]) =
              [i \in 1 .. Len(sampleQueue) + 1 |->
                 IF i = Len(sampleQueue) + 1 THEN content[b] ELSE Blocks[i]]
        <5>1. Len(Blocks) = Len(sampleQueue) /\ Blocks \in Seq(Seq(Samples))
          BY <3>3
        <5> HIDE DEF b
        <5>2. QED
          BY <5>1, <3>1
      <4>5. QED
        BY <4>1, <4>2, <4>3, <4>4
    <3>5. Queued' = Queued \o content[b]
      <4>1. FlattenSeq(Append(Blocks, content[b]))
              = FlattenSeq(Blocks) \o content[b]
        BY <3>1, <3>3, FlattenPush
      <4>2. QED
        BY <3>4, <4>1 DEF Queued
    <3>6. InHand = content[b] /\ InHand' = <<>>
      BY <3>1, <3>2 DEF InHand
    <3>7. (Queued \o content[b]) \o <<>> = Queued \o content[b]
      <4>1. Queued \o content[b] \in Seq(Samples)
        BY <3>1, <3>3
      <4>2. QED
        BY <4>1, NothingBehind
    <3>8. QED
      BY <3>5, <3>6, <3>7, PipeIs, PipeIsNext
  <2>3. QED
    BY <2>1, <2>2 DEF Copied, FinishCopy
<1>4. UNCHANGED Stream!svars /\ UNCHANGED Stream!LastWritten
  BY <1>1, <1>3, StreamStays
<1>5. offsetIntoFrame' + copying'.n = offsetIntoFrame + copying.n
  BY <1>1, <1>2, HoldTypes
<1>6. QED
  BY <1>1, <1>4, <1>5, LastStays DEF StreamInv, WriterEnds

\* The builder leaves its loop, or meets a buffer in its hand and drops it.
LEMMA EndStream ==
  ASSUME StreamInv, LoopHead \/ WakeFatal, pc' # "asleep"
  PROVE  Stream!End /\ LastInv'
<1>1. /\ pc \in {"head", "asleep"} /\ pc' \in {"exited", "dead"}
      /\ HoldInv /\ UNCHANGED <<sampleQueue, content, played>>
  BY DEF StreamInv, LoopHead, WakeFatal, bufferVars, callbackVars
<1>2. LastInv'
  BY <1>1 DEF LastInv
<1>3. CASE UNCHANGED currentAudioBuffer
  <2>1. UNCHANGED Pipe
    BY <1>1, <1>3, FillingStays DEF filling
  <2>2. QED
    BY <1>1, <1>2, <2>1 DEF Stream!End
<1>4. CASE WakeFatal
  <2>1. currentAudioBuffer # NoBuffer /\ currentAudioBuffer' = NoBuffer
    BY <1>4 DEF WakeFatal
  <2>2. /\ Queued \in Seq(Samples) /\ InHand \in Seq(Samples)
        /\ Len(Queued) = BufferSize * Len(sampleQueue) /\ Len(sampleQueue) \in Nat
        /\ Len(Pipe) = BufferSize * Len(sampleQueue) + Len(InHand)
    BY <1>1, PipeTypes, PipeLength
  <2>3. Len(InHand) < BufferSize /\ BufferSize \in Nat \ {0} /\ Len(InHand) \in Nat
    <3>1. InHand = content[currentAudioBuffer]
      BY <2>1 DEF InHand
    <3>2. Len(content[currentAudioBuffer]) < BufferSize
      BY <1>1, <2>1 DEF HoldInv, FullHolds, CopySteps
    <3>3. QED
      BY <2>2, <3>1, <3>2, SEServerAssumption
  <2>4. Len(Pipe) \div BufferSize = Len(sampleQueue)
    <3>1. \A size \in Nat \ {0}, m, r \in Nat : r < size => (size * m + r) \div size = m
      OBVIOUS
    <3>2. QED
      BY <2>2, <2>3, <3>1
  <2>5. Pipe' = Queued
    <3>1. UNCHANGED Queued
      BY <1>1, BlocksStay
    <3>2. InHand' = <<>>
      BY <2>1 DEF InHand
    <3>3. Queued \o <<>> = Queued
      BY <2>2, NothingBehind
    <3>4. QED
      BY <3>1, <3>2, <3>3, PipeIsNext
  <2>6. Queued = SubSeq(Pipe, 1, Len(Queued))
    BY <2>2, PipeIs, CutBehind
  <2>7. QED
    BY <1>1, <1>2, <2>2, <2>4, <2>5, <2>6 DEF Stream!End
<1>5. QED
  BY <1>3, <1>4 DEF LoopHead, bufferVars

\* The destructor drops what is queued, behind a builder that has ended.
LEMMA CloseStream ==
  ASSUME StreamInv, Joined
  PROVE  Stream!Close /\ LastInv'
<1>1. /\ pc \in {"exited", "dead"} /\ sampleQueue' = <<>> /\ currentAudioBuffer' = NoBuffer
      /\ UNCHANGED <<pc, played>>
  BY DEF Joined, builderVars, callbackVars
<1>2. Blocks' = <<>>
  BY <1>1 DEF Blocks
<1>3. Queued' = <<>> /\ InHand' = <<>>
  BY <1>1, <1>2, FlattenNone DEF Queued, InHand
<1>4. Pipe' = <<>>
  BY <1>3, PipeIsNext
<1>5. QED
  BY <1>1, <1>4 DEF Stream!Close, LastInv
LEMMA QuietBuilderStream ==
  ASSUME StreamInv,
         \/ (LoopHead /\ pc' = "asleep") \/ WakeWithoutData \/ Wake \/ SetFlags \/ ReadReady
         \/ StartPlaying \/ ReadStateAgain \/ CreateFrame \/ AdvanceFrame
         \/ FrameDataFails \/ NextFrame \/ BuilderSetsNoData \/ DrainFails \/ SliceFails
  PROVE  UNCHANGED Stream!svars /\ LastInv'
<1>1. /\ pc \notin WriterEnds /\ pc' \notin WriterEnds
      /\ UNCHANGED <<sampleQueue, content, played, frameBuffer, currentFrameDuration,
                     offsetIntoFrame, copying>>
  BY DEF WriterEnds, LoopHead, WakeWithoutData, Wake, SetFlags, ReadReady, StartPlaying,
     ReadStateAgain, CreateFrame, AdvanceFrame, FrameDataFails, NextFrame,
     BuilderSetsNoData, DrainFails, SliceFails, PopFails, sharedVars, frameVars, bufferVars,
     roundVars, callbackVars
<1>2. UNCHANGED currentAudioBuffer
  <2>1. CASE DrainFails \/ SliceFails
    <3>1. currentAudioBuffer = NoBuffer
      BY <2>1, PopFailsHolds DEF StreamInv, DrainFails, SliceFails
    <3>2. currentAudioBuffer' = NoBuffer
      BY <2>1 DEF DrainFails, SliceFails, PopFails
    <3>3. QED
      BY <3>1, <3>2
  <2>2. CASE ~(DrainFails \/ SliceFails)
    BY <2>2 DEF LoopHead, WakeWithoutData, Wake, SetFlags, ReadReady, StartPlaying,
       ReadStateAgain, CreateFrame, AdvanceFrame, FrameDataFails, NextFrame,
       BuilderSetsNoData, bufferVars
  <2>3. QED
    BY <2>1, <2>2
<1>3. UNCHANGED Pipe
  BY <1>1, <1>2, FillingStays DEF filling
<1>4. UNCHANGED Stream!svars /\ UNCHANGED Stream!LastWritten
  BY <1>1, <1>3, StreamStays
<1>5. QED
  BY <1>1, <1>4, LastStays DEF StreamInv, WriterEnds

\* A new frame, or none: the one before is used up.
LEMMA ReplacedStream ==
  ASSUME StreamInv, HoldInv',
         \/ SetupPacket \/ BuilderClears
         \/ ClearStep /\ "Reset" \notin Commands
         \/ Initialize
  PROVE  UNCHANGED Stream!svars /\ LastInv'
<1>1. UNCHANGED <<filling, played, copying>>
  BY DEF SetupPacket, BuilderClears, ClearStep, Initialize, bufferVars, builderVars,
     roundVars, callbackVars, filling
<1>2. UNCHANGED <<Pipe, played>>
  BY <1>1, FillingStays
<1>3. UNCHANGED Stream!svars /\ UNCHANGED Stream!LastWritten
  <2>1. CASE SetupPacket \/ BuilderClears
    <3>1. pc \notin WriterEnds /\ pc' \notin WriterEnds
      BY <2>1 DEF SetupPacket, BuilderClears, WriterEnds
    <3>2. QED
      BY <1>2, <3>1, StreamStays
  <2>2. CASE ClearStep \/ Initialize
    <3>1. UNCHANGED pc
      BY <2>2 DEF ClearStep, Initialize, builderVars
    <3>2. QED
      BY <1>2, <3>1, StreamStays
  <2>3. QED
    BY <2>1, <2>2
<1>4. CASE pc' \in {"dead", "exited"}
  BY <1>3, <1>4 DEF LastInv
<1>5. CASE pc' \notin {"dead", "exited"}
  <2>1. pc \notin {"dead", "exited", "crashed"} /\ HoldInv
    BY <1>1, <1>5 DEF StreamInv, HoldInv, CallsHold, SetupPacket, BuilderClears,
       ClearStep, Initialize, builderVars
  <2>2. offsetIntoFrame \in {0, currentFrameDuration} /\ pc \notin CopySteps
    <3>1. CASE SetupPacket \/ BuilderClears
      BY <2>1, <3>1 DEF SetupPacket, BuilderClears, HoldInv, OffsetHolds, BetweenFrames, CopySteps
    <3>2. CASE ClearStep \/ Initialize
      <4>1. state = "NoData"
        BY <2>1, <3>2 DEF ClearStep, Initialize, HoldInv, CallsHold
      <4>2. QED
        BY <2>1, <4>1 DEF HoldInv, CallsHold, OffsetHolds, RoundSteps, CopySteps
    <3>3. QED
      BY <3>1, <3>2
  <2>3. copying.n = 0 /\ copying'.n = 0
    BY <1>1, <2>1, <2>2, HoldTypes
  <2>4. currentFrameDuration' \in Nat
    BY DEF HoldInv, OwnerInv, BuilderInv, TypeOK, FrameType
  <2>5. offsetIntoFrame' \in {0, currentFrameDuration'}
    BY <2>2 DEF SetupPacket, BuilderClears, ClearStep, Initialize, ClearFrame
  <2>6. QED
    BY <1>3, <2>1, <2>2, <2>3, <2>4, <2>5, LastEndsItsFrame
<1>6. QED
  BY <1>3, <1>4, <1>5

\* A buffer that was played is emptied: it is not under way.
LEMMA ReturnStream ==
  ASSUME StreamInv, ReturnBuffer
  PROVE  UNCHANGED Stream!svars /\ LastInv'
<1>1. /\ HoldInv /\ sampleBuffer # NoBuffer
      /\ content' = [content EXCEPT ![sampleBuffer] = <<>>]
      /\ UNCHANGED <<sampleQueue, currentAudioBuffer, played, pc, frameBuffer,
                     currentFrameDuration, offsetIntoFrame, copying>>
  BY DEF StreamInv, ReturnBuffer, BufferPopped, sharedVars, frameVars, builderVars, roundVars
<1>2. /\ content \in [Buffers -> Seq(Samples)] /\ sampleQueue \in Seq(Buffers)
      /\ sampleBuffer \notin InQueue(sampleQueue) /\ sampleBuffer # currentAudioBuffer
      /\ currentAudioBuffer \in Buffers \cup {NoBuffer}
  BY <1>1 DEF HoldInv, OwnerInv, OneOwner, BuilderInv, TypeOK, BufferType
<1>3. \A b \in Buffers : b # sampleBuffer => content'[b] = content[b]
  BY <1>1, <1>2
<1>4. UNCHANGED Queued
  <2>1. \A i \in DOMAIN sampleQueue : sampleQueue[i] \in Buffers /\ sampleQueue[i] # sampleBuffer
    BY <1>2 DEF InQueue
  <2>2. QED
    BY <1>1, <1>3, <2>1, BlocksStay
<1>5. UNCHANGED InHand
  BY <1>1, <1>2, <1>3 DEF InHand
<1>6. UNCHANGED Pipe
  BY <1>4, <1>5, PipeIs, PipeIsNext
<1>7. UNCHANGED Stream!svars /\ UNCHANGED Stream!LastWritten
  BY <1>1, <1>6, StreamStays
<1>8. QED
  BY <1>1, <1>7, LastStays DEF StreamInv

LEMMA QuietUserStream ==
  ASSUME StreamInv,
         \/ Pause \/ Stop \/ Play \/ SetFrame \/ SetStateStep \/ SetFrameStep
         \/ Reset \/ ResetStep \/ Destroy \/ SetProcessorIsReady \/ SetPlayoutID
  PROVE  UNCHANGED Stream!svars /\ LastInv'
<1>1. UNCHANGED <<filling, played, pc, frameBuffer, currentFrameDuration, offsetIntoFrame,
                  copying>>
  BY DEF Pause, Stop, Play, SetFrame, SetStateStep, SetFrameStep, Reset, ResetStep, Destroy,
     SetProcessorIsReady, SetPlayoutID, Begins, UserSetsState, sharedVars, frameVars, bufferVars,
     builderVars, roundVars, callbackVars, filling
<1>2. UNCHANGED Pipe
  BY <1>1, FillingStays
<1>3. UNCHANGED Stream!svars /\ UNCHANGED Stream!LastWritten
  BY <1>1, <1>2, StreamStays
<1>4. QED
  BY <1>1, <1>3, LastStays DEF StreamInv

\* The steps that write, deliver or end.
StreamSteps == \/ Drain \/ Slice \/ Fill \/ Play1Buffer \/ Joined
               \/ (LoopHead \/ WakeFatal) /\ pc' # "asleep"

\* Every other step is none of the stream's.
LEMMA SilentSteps ==
  ASSUME StreamInv, HoldInv', Next, ~StreamSteps, "Reset" \notin Commands
  PROVE  UNCHANGED Stream!svars /\ LastInv'
<1>1. CASE Drained \/ Sliced
  <2>1. needMore \in BOOLEAN /\ needMore = FALSE
    <3>1. needMore \in BOOLEAN
      BY DEF StreamInv, HoldInv, OwnerInv, BuilderInv, TypeOK, BuilderType
    <3>2. pc \in {"drained", "sliced"}
      BY <1>1 DEF Drained, Sliced, Copied
    <3>3. QED
      BY <3>1, <3>2 DEF StreamInv, HoldInv, HandHolds
  <2>2. QED
    BY <1>1, <2>1, CopiedStream DEF Drained, Sliced, CopySteps
<1>2. CASE Filled
  BY <1>2, CopiedStream DEF Filled, CopySteps
<1>3. CASE \/ (LoopHead /\ pc' = "asleep") \/ WakeWithoutData \/ Wake \/ SetFlags \/ ReadReady
           \/ StartPlaying \/ ReadStateAgain \/ CreateFrame \/ AdvanceFrame
           \/ FrameDataFails \/ NextFrame \/ BuilderSetsNoData \/ DrainFails \/ SliceFails
  BY <1>3, QuietBuilderStream
<1>4. CASE SetupPacket \/ BuilderClears \/ ClearStep \/ Initialize
  BY <1>4, ReplacedStream
<1>5. CASE ReturnBuffer
  BY <1>5, ReturnStream
<1>6. CASE \/ Pause \/ Stop \/ Play \/ SetFrame \/ SetStateStep \/ SetFrameStep
           \/ Reset \/ ResetStep \/ Destroy \/ SetProcessorIsReady \/ SetPlayoutID
  BY <1>6, QuietUserStream
<1>7. ~FillThroughNull
  BY FillHasBuffer DEF StreamInv
<1>8. WakeFatal => pc' # "asleep"
  BY DEF WakeFatal
<1>9. QED
  BY <1>1, <1>2, <1>3, <1>4, <1>5, <1>6, <1>7, <1>8
     DEF StreamSteps, Next, Builder, audioDeviceIOCallback, User

\* Every step is a step of the stream, or none.
LEMMA StepIsStream ==
  ASSUME StreamInv, HoldInv', Next, "Reset" \notin Commands
  PROVE  [Stream!Next]_(Stream!svars) /\ LastInv'
<1>1. CASE Drain \/ Slice \/ Fill
  <2>1. PICK n \in Nat \ {0} : ChunkBehind(n)
    BY <1>1, CopyAppends DEF StreamInv
  <2>2. QED
    BY <2>1, WriteChunk DEF Stream!Next
<1>2. CASE (LoopHead \/ WakeFatal) /\ pc' # "asleep"
  BY <1>2, EndStream DEF Stream!Next
<1>3. CASE Play1Buffer
  BY <1>3, PlayStream DEF Stream!Next
<1>4. CASE Joined
  BY <1>4, CloseStream DEF Stream!Next
<1>5. CASE ~StreamSteps
  BY <1>5, SilentSteps
<1>6. QED
  BY <1>1, <1>2, <1>3, <1>4, <1>5 DEF StreamSteps

\* The packets that are sent are those of the show.
LEMMA FrameInvKept == FrameInv /\ HoldInv /\ [Next]_vars => FrameInv'
<1> SUFFICES ASSUME FrameInv, HoldInv, [Next]_vars
             PROVE  FrameInv'
  OBVIOUS
<1>1. syncSamp.flags \in {StoppedFlag, PausedFlag, PlayingFlag}
  BY DEF HoldInv, OwnerInv, BuilderInv, TypeOK, FrameType, Packets
<1>2. CASE SetupPacket
  BY <1>1, <1>2 DEF SetupPacket, FrameInv, ShowPackets
<1>3. CASE BuilderClears \/ ClearStep \/ Initialize
  BY <1>3 DEF BuilderClears, ClearStep, Initialize, ClearFrame, FrameInv
<1>4. CASE UNCHANGED <<frameBuffer, currentFrameDuration>>
  BY <1>4 DEF FrameInv
<1>5. CASE Builder /\ ~SetupPacket /\ ~BuilderClears
  <2>1. UNCHANGED <<frameBuffer, currentFrameDuration>>
    BY <1>5 DEF Builder, LoopHead, WakeWithoutData, Wake, WakeFatal, Drain, DrainFails, Drained,
       SetFlags, ReadReady, StartPlaying, ReadStateAgain, CreateFrame, AdvanceFrame,
       FrameDataFails, Fill, FillThroughNull, Filled, Slice, SliceFails, Sliced, NextFrame,
       BuilderSetsNoData, PopAndCopy, PopFails, Copied, sharedVars, frameVars
  <2>2. QED
    BY <1>4, <2>1
<1>6. CASE audioDeviceIOCallback
  BY <1>4, <1>6 DEF audioDeviceIOCallback, Play1Buffer, ReturnBuffer, sharedVars, frameVars
<1>7. CASE User /\ ~ClearStep /\ ~Initialize
  <2>1. UNCHANGED <<frameBuffer, currentFrameDuration>>
    BY <1>7 DEF User, Pause, Stop, Play, SetFrame, SetStateStep, SetFrameStep, Reset, ResetStep,
       Destroy, Joined, SetProcessorIsReady, SetPlayoutID, Begins, UserSetsState, sharedVars,
       frameVars
  <2>2. QED
    BY <1>4, <2>1
<1>8. CASE UNCHANGED vars
  BY <1>4, <1>8 DEF vars, sharedVars, frameVars
<1>9. QED
  BY <1>2, <1>3, <1>5, <1>6, <1>7, <1>8 DEF Next

LEMMA InitStream == Init => Stream!Init /\ FrameInv /\ LastInv
<1> SUFFICES ASSUME Init PROVE Stream!Init /\ FrameInv /\ LastInv
  OBVIOUS
<1>1. /\ sampleQueue = <<>> /\ currentAudioBuffer = NoBuffer /\ played = <<>> /\ pc = "head"
      /\ offsetIntoFrame = 0 /\ copying.n = 0 /\ frameBuffer = Silence
      /\ currentFrameDuration = MaxFrameDuration
  BY DEF Init
<1>2. Blocks = <<>> /\ InHand = <<>>
  BY <1>1 DEF Blocks, InHand
<1>3. Pipe = <<>>
  BY <1>2, FlattenNone, PipeIs DEF Queued
<1>4. Stream!LastWritten = <<>>
  BY <1>1, <1>3 DEF Stream!LastWritten
<1>5. LastInv
  BY <1>1, <1>4 DEF LastInv, EndsAt
<1>6. QED
  BY <1>1, <1>3, <1>5 DEF Stream!Init, FrameInv

\* Without the user's Reset the emitter implements the stream, for any number and size
\* of buffers, any show, and any order of the other calls: what the device is given is
\* one frame behind the other, each whole, in full blocks.
THEOREM EmitterIsAStream == Spec /\ "Reset" \notin Commands => DeliversFrames
<1>1. CASE "Reset" \notin Commands
  <2>1. StreamInv /\ HoldInv' /\ [Next]_vars => [Stream!Next]_(Stream!svars) /\ StreamInv'
    <3> SUFFICES ASSUME StreamInv, HoldInv', [Next]_vars
                 PROVE  [Stream!Next]_(Stream!svars) /\ StreamInv'
      OBVIOUS
    <3>1. FrameInv'
      BY FrameInvKept DEF StreamInv
    <3>2. CASE Next
      BY <1>1, <3>1, <3>2, StepIsStream DEF StreamInv
    <3>3. CASE UNCHANGED vars
      <4>1. UNCHANGED <<filling, played, pc, frameBuffer, currentFrameDuration,
                        offsetIntoFrame, copying>>
        BY <3>3 DEF vars, sharedVars, frameVars, bufferVars, builderVars, roundVars,
           callbackVars, filling
      <4>2. UNCHANGED Pipe
        BY <4>1, FillingStays
      <4>3. UNCHANGED Stream!svars /\ UNCHANGED Stream!LastWritten
        BY <4>1, <4>2, StreamStays
      <4>4. QED
        BY <3>1, <4>1, <4>3, LastStays DEF StreamInv
    <3>4. QED
      BY <3>2, <3>3
  <2>2. Init => Stream!Init /\ FrameInv /\ LastInv
    BY InitStream
  <2>3. QED
    BY <1>1, <2>1, <2>2, HoldInvHolds, PTL DEF Spec, DeliversFrames, Stream!Spec, StreamInv
<1>2. CASE "Reset" \in Commands
  BY <1>2
<1>3. QED
  BY <1>1, <1>2

-----------------------------------------------------------------------------
(* The order of the frames.                                                *)

\* A packet may stand behind another: the same frame's, or the next frame's.
Follows(p, q) == p # Silence /\ q # Silence => q.index - p.index \in {0, 1}

InOrder(s) == \A i \in 1 .. Len(s) - 1 : Follows(s[i].packet, s[i + 1].packet)

\* Frame n may be built behind the frame in the buffer.
Near(n) == frameBuffer # Silence => n - frameBuffer.index \in {0, 1}

\* What was played and what is under way is in order; the device is given whole buffers.
SoundOrder ==
  /\ InOrder(played \o Pipe)
  /\ played = <<>> \/ Len(played) = BufferSize

\* The frame in the buffer is the one that was written last, or it may follow it; while
\* the user sets up a session it may have been cleared.
LastOrder ==
  pc \notin {"dead", "exited"} /\ Stream!LastWritten # <<>> =>
    /\ offsetIntoFrame + copying.n # 0 =>
         \/ Stream!LastWritten[1].packet = frameBuffer
         \/ user \in {"initReset", "initClear"} /\ frameBuffer = Silence
    /\ offsetIntoFrame + copying.n = 0 =>
         Follows(Stream!LastWritten[1].packet, frameBuffer)

\* The packet that is put together is of the current frame, and the current frame is the
\* one in the buffer or the next.
TimelineOrder ==
  /\ user \notin {"seek", "setFrame"}
  /\ pc \in {"waiting", "start", "startUnready", "reread", "advance"}
       => syncSamp.index = currentFrame
  /\ pc \in {"create", "setup", "fill", "filled", "slice", "sliced"} /\ seen # "Playing"
       => syncSamp.index = currentFrame
  /\ pc = "advance" => seen = "Playing"
  /\ pc = "setup" => Near(syncSamp.index) /\ currentFrame - syncSamp.index \in {0, 1}
  /\ pc \notin {"setup", "reset", "clear"} => Near(currentFrame)

OrderInv == StreamInv /\ SoundOrder /\ LastOrder /\ TimelineOrder

\* Samples of one packet stand in order, also behind others it may follow.
LEMMA OrderBehind ==
  ASSUME NEW s \in Seq(Samples), NEW t \in Seq(Samples), NEW packet \in Packets \cup {Silence},
         InOrder(s), \A i \in 1 .. Len(t) : t[i].packet = packet,
         Len(s) # 0 => Follows(s[Len(s)].packet, packet)
  PROVE  InOrder(s \o t)
<1> DEFINE st == s \o t
<1>1. /\ Len(s) \in Nat /\ Len(t) \in Nat /\ Len(st) = Len(s) + Len(t)
      /\ \A i \in 1 .. Len(s) : st[i] = s[i]
      /\ \A i \in 1 .. Len(t) : st[Len(s) + i] = t[i]
  OBVIOUS
<1>2. Follows(packet, packet)
  BY DEF Follows, Packets
<1> HIDE DEF st
<1>3. ASSUME NEW i \in 1 .. Len(st) - 1
      PROVE  Follows(st[i].packet, st[i + 1].packet)
  <2>1. CASE i < Len(s)
    <3>1. i \in 1 .. Len(s) - 1 /\ st[i] = s[i] /\ st[i + 1] = s[i + 1]
      BY <1>1, <2>1
    <3>2. QED
      BY <3>1 DEF InOrder
  <2>2. CASE i = Len(s)
    <3>1. st[i] = s[i] /\ 1 \in 1 .. Len(t) /\ st[i + 1] = t[1] /\ Len(s) # 0
      BY <1>1, <2>2
    <3>2. QED
      BY <2>2, <3>1
  <2>3. CASE i > Len(s)
    <3>1. PICK k \in 1 .. Len(t) : i = Len(s) + k /\ k + 1 \in 1 .. Len(t)
      <4>1. /\ i - Len(s) \in 1 .. Len(t) /\ i = Len(s) + (i - Len(s))
            /\ (i - Len(s)) + 1 \in 1 .. Len(t)
        BY <1>1, <2>3
      <4>2. QED
        BY <4>1, Zenon
    <3>2. st[Len(s) + k] = t[k] /\ st[Len(s) + (k + 1)] = t[k + 1]
      BY <1>1, <3>1
    <3>3. i + 1 = Len(s) + (k + 1)
      BY <1>1, <3>1
    <3>4. st[i].packet = packet /\ st[i + 1].packet = packet
      BY <3>1, <3>2, <3>3
    <3>5. QED
      BY <1>2, <3>4
  <2>4. QED
    BY <1>1, <2>1, <2>2, <2>3
<1>4. QED
  BY <1>3 DEF InOrder, st

\* What is cut from samples in order, in front or behind, is in order.
LEMMA OrderCut ==
  ASSUME NEW s \in Seq(Samples), NEW t \in Seq(Samples), InOrder(s \o t)
  PROVE  InOrder(s) /\ InOrder(t)
<1> DEFINE st == s \o t
<1>1. /\ Len(s) \in Nat /\ Len(t) \in Nat /\ Len(st) = Len(s) + Len(t)
      /\ \A i \in 1 .. Len(s) : st[i] = s[i]
      /\ \A i \in 1 .. Len(t) : st[Len(s) + i] = t[i]
  OBVIOUS
<1>2. \A i \in 1 .. Len(st) - 1 : Follows(st[i].packet, st[i + 1].packet)
  BY DEF InOrder
<1> HIDE DEF st
<1>3. ASSUME NEW i \in 1 .. Len(s) - 1
      PROVE  Follows(s[i].packet, s[i + 1].packet)
  <2>1. i \in 1 .. Len(st) - 1 /\ st[i] = s[i] /\ st[i + 1] = s[i + 1]
    BY <1>1
  <2>2. QED
    BY <1>2, <2>1
<1>4. ASSUME NEW i \in 1 .. Len(t) - 1
      PROVE  Follows(t[i].packet, t[i + 1].packet)
  <2>1. /\ i \in 1 .. Len(t) /\ i + 1 \in 1 .. Len(t) /\ Len(s) + i \in 1 .. Len(st) - 1
        /\ Len(s) + (i + 1) = (Len(s) + i) + 1
    BY <1>1
  <2>2. st[Len(s) + i] = t[i] /\ st[(Len(s) + i) + 1] = t[i + 1]
    BY <1>1, <2>1
  <2>3. QED
    BY <1>2, <2>1, <2>2
<1>5. QED
  BY <1>3, <1>4 DEF InOrder

\* The step that begins a copy.
LEMMA CopyOrder ==
  ASSUME OrderInv, NEW n \in Nat \ {0}, ChunkBehind(n)
  PROVE  SoundOrder' /\ LastOrder'
<1> DEFINE chunk == Chunk(frameBuffer, offsetIntoFrame, currentFrameDuration, n)
           all == played \o Pipe
<1>1. /\ HoldInv /\ pc \in {"drain", "slice", "fill"} /\ pc' \in CopySteps
      /\ copying'.n = n /\ Pipe' = Pipe \o chunk
      /\ UNCHANGED <<frameBuffer, currentFrameDuration, offsetIntoFrame, played>>
  BY DEF OrderInv, StreamInv, ChunkBehind
<1>2. /\ offsetIntoFrame \in Nat /\ currentFrameDuration \in Nat /\ copying.n = 0
      /\ frameBuffer \in Packets \cup {Silence}
      /\ played \in Seq(Samples) /\ Pipe \in Seq(Samples)
  BY <1>1, HoldTypes, PipeTypes DEF CopySteps, HoldInv, OwnerInv, BuilderInv, TypeOK, FrameType
<1>3. chunk \in Seq(Samples) /\ Len(chunk) = n /\ \A i \in 1 .. Len(chunk) : chunk[i].packet = frameBuffer
  <2>1. chunk \in Seq(Samples) /\ Len(chunk) = n
    BY <1>2, ChunkType
  <2>2. \A i \in 1 .. n : chunk[i].packet = frameBuffer
    BY DEF Chunk
  <2> HIDE DEF chunk
  <2>3. QED
    BY <2>1, <2>2
<1> HIDE DEF chunk
<1>4. all \in Seq(Samples) /\ played' \o Pipe' = all \o chunk
  BY <1>1, <1>2, <1>3, SamplesJoin, SMTT(30)
<1>5. Len(all) # 0 => Follows(all[Len(all)].packet, frameBuffer)
  <2> SUFFICES ASSUME Len(all) # 0 PROVE Follows(all[Len(all)].packet, frameBuffer)
    OBVIOUS
  <2>1. all # <<>>
    BY <1>4
  <2> HIDE DEF all
  <2>2. Stream!LastWritten = <<all[Len(all)]>>
    BY <2>1 DEF Stream!LastWritten, all
  <2>3. Stream!LastWritten # <<>> /\ Stream!LastWritten[1] = all[Len(all)]
    BY <2>2
  <2>4. user \notin {"initReset", "initClear"}
    BY <1>1 DEF HoldInv, CallsHold, RoundSteps
  <2>5. pc \notin {"dead", "exited"}
    BY <1>1
  <2>6. \/ all[Len(all)].packet = frameBuffer
        \/ Follows(all[Len(all)].packet, frameBuffer)
    BY <2>3, <2>4, <2>5 DEF OrderInv, LastOrder
  <2>7. Follows(frameBuffer, frameBuffer)
    BY <1>2 DEF Follows, Packets
  <2>8. QED
    BY <2>6, <2>7
<1>6. InOrder(all)
  BY DEF OrderInv, SoundOrder
<1> HIDE DEF all
<1>7. InOrder(all \o chunk)
  BY <1>2, <1>3, <1>4, <1>5, <1>6, OrderBehind
<1>8. SoundOrder'
  BY <1>1, <1>4, <1>7 DEF SoundOrder, OrderInv
<1>9. LastOrder'
  <2>1. all \o chunk # <<>> /\ (all \o chunk)[Len(all \o chunk)] = chunk[Len(chunk)]
    BY <1>3, <1>4, LastBehind
  <2>2. (Stream!LastWritten)' = <<chunk[Len(chunk)]>>
    BY <1>4, <2>1 DEF Stream!LastWritten
  <2>3. (Stream!LastWritten)'[1].packet = frameBuffer
    <3>1. Len(chunk) \in 1 .. Len(chunk)
      BY <1>3
    <3>2. QED
      BY <1>3, <2>2, <3>1
  <2>4. offsetIntoFrame' + copying'.n # 0
    BY <1>1, <1>2
  <2>5. QED
    BY <1>1, <2>3, <2>4 DEF LastOrder
<1>10. QED
  BY <1>8, <1>9

\* What the device is given follows what it was given before.
HeardInOrder ==
  played' # played =>
    LET heard == (IF played = <<>> THEN <<>> ELSE <<played[BufferSize]>>) \o played'
    IN  \A i \in 1 .. Len(heard) - 1 :
          heard[i].packet # Silence /\ heard[i + 1].packet # Silence =>
            heard[i + 1].packet.index - heard[i].packet.index \in {0, 1}

LEMMA LastOrderStays ==
  ASSUME LastOrder, UNCHANGED <<Stream!LastWritten, frameBuffer>>,
         offsetIntoFrame' + copying'.n = offsetIntoFrame + copying.n,
         pc \in {"dead", "exited"} => pc' \in {"dead", "exited"},
         user \in {"initReset", "initClear"} => user' \in {"initReset", "initClear"}
  PROVE  LastOrder'
BY DEF LastOrder

\* The last sample of the block before, and the next block, from the samples in order.
LEMMA HeardFollows ==
  ASSUME NEW before \in Seq(Samples), NEW first \in Seq(Samples), NEW rest \in Seq(Samples),
         InOrder(before \o (first \o rest))
  PROVE  InOrder((IF before = <<>> THEN <<>> ELSE <<before[Len(before)]>>) \o first)
<1> DEFINE all == before \o (first \o rest)
<1>1. (before \o first) \o rest = all /\ before \o first \in Seq(Samples)
  BY SamplesJoin
<1>2. InOrder(before \o first)
  BY <1>1, OrderCut
<1>3. CASE before = <<>>
  BY <1>2, <1>3
<1>4. CASE before # <<>>
  <2> DEFINE head == SubSeq(before, 1, Len(before) - 1)
             last == <<before[Len(before)]>>
  <2>1. Len(before) \in Nat \ {0} /\ Len(before) - 1 \in Nat /\ Len(before) \in 1 .. Len(before)
    BY <1>4
  <2>2. head \in Seq(Samples) /\ last \in Seq(Samples) /\ head \o last = before
    BY <2>1, CutLast
  <2> HIDE DEF head, last
  <2>3. before \o first = head \o (last \o first) /\ last \o first \in Seq(Samples)
    <3>1. \A h, l \in Seq(Samples) : (h \o l) \o first = h \o (l \o first)
      BY SamplesJoin
    <3>2. last \o first \in Seq(Samples)
      BY <2>2
    <3>3. QED
      BY <2>2, <3>1, <3>2
  <2>4. InOrder(last \o first)
    BY <1>2, <2>2, <2>3, OrderCut
  <2>5. QED
    BY <1>4, <2>4 DEF last
<1>5. QED
  BY <1>3, <1>4

\* The device takes a block.
LEMMA PlayOrder ==
  ASSUME OrderInv, Play1Buffer
  PROVE  SoundOrder' /\ LastOrder' /\ HeardInOrder
<1>1. /\ Stream!Deliver /\ HoldInv
      /\ UNCHANGED <<pc, user, frameBuffer, offsetIntoFrame, copying>>
  BY PlayStream DEF OrderInv, StreamInv, Play1Buffer, sharedVars, frameVars, builderVars,
     roundVars, userVars
<1>2. /\ Len(Pipe) >= BufferSize /\ BufferSize \in Nat \ {0}
      /\ played' = SubSeq(Pipe, 1, BufferSize) /\ Pipe' = SubSeq(Pipe, BufferSize + 1, Len(Pipe))
      /\ played \in Seq(Samples) /\ Pipe \in Seq(Samples)
  BY <1>1, PipeTypes, SEServerAssumption DEF Stream!Deliver
<1>3. /\ played' \in Seq(Samples) /\ Pipe' \in Seq(Samples) /\ Len(played') = BufferSize
      /\ Pipe = played' \o Pipe'
  BY <1>2, CutAt
<1>4. InOrder(played \o Pipe)
  BY DEF OrderInv, SoundOrder
<1>5. InOrder(Pipe)
  BY <1>2, <1>4, OrderCut
<1>6. SoundOrder'
  BY <1>3, <1>5 DEF SoundOrder
<1>7. UNCHANGED Stream!LastWritten
  <2>1. Pipe # <<>> /\ Len(Pipe) # 0
    BY <1>2
  <2>2. played \o Pipe # <<>> /\ (played \o Pipe)[Len(played \o Pipe)] = Pipe[Len(Pipe)]
    BY <1>2, <2>1, LastBehind
  <2>3. Stream!LastWritten = <<Pipe[Len(Pipe)]>>
    BY <2>2 DEF Stream!LastWritten
  <2>4. (Stream!LastWritten)' = <<Pipe[Len(Pipe)]>>
    BY <1>3, <2>1 DEF Stream!LastWritten
  <2>5. QED
    BY <2>3, <2>4
<1>8. LastOrder'
  BY <1>1, <1>7, LastOrderStays DEF OrderInv
<1>9. HeardInOrder
  <2>1. PICK first \in Seq(Samples), rest \in Seq(Samples) : first = played' /\ rest = Pipe'
    BY <1>3
  <2>2. InOrder((IF played = <<>> THEN <<>> ELSE <<played[Len(played)]>>) \o first)
    BY <1>2, <1>3, <1>4, <2>1, HeardFollows
  <2>3. played # <<>> => Len(played) = BufferSize
    BY DEF OrderInv, SoundOrder
  <2>4. InOrder((IF played = <<>> THEN <<>> ELSE <<played[BufferSize]>>) \o first)
    BY <2>2, <2>3
  <2>5. QED
    BY <2>1, <2>4 DEF HeardInOrder, InOrder, Follows
<1>10. QED
  BY <1>6, <1>8, <1>9

\* The builder ends, or what it leaves is dropped.
LEMMA EndOrder ==
  ASSUME OrderInv, \/ (LoopHead \/ WakeFatal) /\ pc' # "asleep"
                   \/ Joined
  PROVE  SoundOrder' /\ LastOrder'
<1>1. /\ pc' \in {"exited", "dead"} /\ HoldInv /\ UNCHANGED played
      /\ played \in Seq(Samples) /\ Pipe \in Seq(Samples)
  BY PipeTypes DEF OrderInv, StreamInv, LoopHead, WakeFatal, Joined, builderVars, callbackVars
<1>2. LastOrder'
  BY <1>1 DEF LastOrder
<1>3. InOrder(played \o Pipe)
  BY DEF OrderInv, SoundOrder
<1>4. \E rest \in Seq(Samples) : Pipe' \in Seq(Samples) /\ Pipe = Pipe' \o rest
  <2>1. CASE Pipe' = <<>>
    <3>1. <<>> \o Pipe = Pipe /\ <<>> \in Seq(Samples)
      BY <1>1
    <3>2. QED
      BY <1>1, <2>1, <3>1
  <2>2. CASE Pipe' = Pipe
    <3>1. Pipe \o <<>> = Pipe /\ <<>> \in Seq(Samples)
      BY <1>1, NothingBehind
    <3>2. QED
      BY <1>1, <2>2, <3>1
  <2>3. CASE Pipe' = SubSeq(Pipe, 1, BufferSize * (Len(Pipe) \div BufferSize))
    <3>1. \A size \in Nat \ {0}, k \in Nat :
            size * (k \div size) \in Nat /\ size * (k \div size) <= k
      OBVIOUS
    <3>2. PICK n \in Nat : n = BufferSize * (Len(Pipe) \div BufferSize) /\ n <= Len(Pipe)
      <4>1. Len(Pipe) \in Nat
        BY <1>1
      <4>2. /\ BufferSize * (Len(Pipe) \div BufferSize) \in Nat
            /\ BufferSize * (Len(Pipe) \div BufferSize) <= Len(Pipe)
        BY <3>1, <4>1, SEServerAssumption, Zenon
      <4>3. QED
        BY <4>2, Zenon
    <3>3. /\ SubSeq(Pipe, 1, n) \in Seq(Samples) /\ SubSeq(Pipe, n + 1, Len(Pipe)) \in Seq(Samples)
          /\ Pipe = SubSeq(Pipe, 1, n) \o SubSeq(Pipe, n + 1, Len(Pipe))
      BY <1>1, <3>2, CutAt
    <3>4. QED
      BY <2>3, <3>2, <3>3
  <2>4. QED
    BY <2>1, <2>2, <2>3, EndStream, CloseStream DEF OrderInv, Stream!End, Stream!Close
<1>5. PICK front \in Seq(Samples), rest \in Seq(Samples) : Pipe' = front /\ Pipe = front \o rest
  BY <1>4
<1>6. InOrder(played \o front)
  <2>1. (played \o front) \o rest = played \o Pipe /\ played \o front \in Seq(Samples)
    BY <1>1, <1>5, SamplesJoin
  <2>2. QED
    BY <1>3, <2>1, OrderCut
<1>7. SoundOrder'
  BY <1>1, <1>5, <1>6 DEF SoundOrder, OrderInv
<1>8. QED
  BY <1>2, <1>7

\* The steps in which nothing is written, delivered or dropped.
LEMMA SilentOrder ==
  ASSUME OrderInv, HoldInv', Next, ~StreamSteps, "Reset" \notin Commands
  PROVE  SoundOrder' /\ LastOrder'
<1>1. UNCHANGED Stream!svars
  BY SilentSteps DEF OrderInv
<1>2. UNCHANGED <<Pipe, played, Stream!LastWritten>>
  BY <1>1 DEF Stream!svars, Stream!LastWritten
<1>3. SoundOrder'
  BY <1>2 DEF OrderInv, SoundOrder
<1>4. HoldInv /\ LastOrder /\ TimelineOrder
  BY DEF OrderInv, StreamInv
<1>5. LastOrder'
  <2>1. CASE Drained \/ Filled \/ Sliced
    <3>1. needMore \in BOOLEAN /\ (pc \in {"drained", "sliced"} => needMore = FALSE)
      BY <1>4 DEF HoldInv, HandHolds, OwnerInv, BuilderInv, TypeOK, BuilderType
    <3>2. /\ UNCHANGED <<frameBuffer, user>> /\ pc \in CopySteps /\ copying'.n = 0
      BY <2>1 DEF Drained, Filled, Sliced, Copied, FinishCopy, userVars, CopySteps
    <3>3. offsetIntoFrame' = offsetIntoFrame + copying.n
      <4>1. CASE Filled
        BY <1>4, <4>1, CopiedHolds DEF Filled, CopySteps
      <4>2. CASE Drained \/ Sliced
        <5>1. needMore = FALSE
          BY <3>1, <4>2 DEF Drained, Sliced, Copied
        <5>2. QED
          BY <1>4, <3>1, <4>2, <5>1, CopiedHolds DEF Drained, Sliced, CopySteps
      <4>3. QED
        BY <2>1, <4>1, <4>2
    <3>4. offsetIntoFrame' + copying'.n = offsetIntoFrame + copying.n
      BY <1>4, <3>2, <3>3, HoldTypes
    <3>5. QED
      BY <1>2, <1>4, <3>2, <3>4, LastOrderStays DEF CopySteps
  <2>2. CASE SetupPacket
    <3>1. /\ pc = "setup" /\ pc' \in {"fill", "slice"} /\ offsetIntoFrame' = 0
          /\ frameBuffer' = [index |-> syncSamp.index, flags |-> syncSamp.flags]
          /\ UNCHANGED copying
      BY <2>2 DEF SetupPacket, roundVars
    <3>2. /\ user \notin {"initReset", "initClear"} /\ offsetIntoFrame = currentFrameDuration
          /\ copying.n = 0 /\ currentFrameDuration \in Nat \ {0}
      BY <1>4, <3>1, HoldTypes DEF HoldInv, CallsHold, OffsetHolds, RoundSteps, BetweenFrames,
         CopySteps
    <3>3. offsetIntoFrame + copying.n # 0 /\ offsetIntoFrame' + copying'.n = 0
      BY <3>1, <3>2
    <3>4. Stream!LastWritten # <<>> => Stream!LastWritten[1].packet = frameBuffer
      BY <1>4, <3>1, <3>2, <3>3 DEF LastOrder
    <3>5. Follows(frameBuffer, frameBuffer')
      BY <1>4, <3>1 DEF TimelineOrder, Near, Follows
    <3>6. Stream!LastWritten # <<>> => Follows(Stream!LastWritten[1].packet, frameBuffer')
      BY <3>4, <3>5
    <3>7. QED
      BY <1>2, <3>3, <3>6 DEF LastOrder
  <2>3. CASE BuilderClears \/ ClearStep
    <3>1. offsetIntoFrame' = 0 /\ frameBuffer' = Silence /\ UNCHANGED copying
      BY <2>3 DEF BuilderClears, ClearStep, ClearFrame, builderVars, roundVars
    <3>2. pc \notin CopySteps
      BY <1>4, <2>3 DEF BuilderClears, ClearStep, HoldInv, CallsHold, RoundSteps, CopySteps
    <3>3. offsetIntoFrame' + copying'.n = 0
      BY <1>4, <3>1, <3>2, HoldTypes
    <3>4. \A packet : Follows(packet, frameBuffer')
      BY <3>1 DEF Follows
    <3>5. QED
      BY <3>3, <3>4 DEF LastOrder
  <2>4. CASE Initialize
    <3>1. /\ user' = "initReset" /\ frameBuffer' \in {frameBuffer, Silence} /\ user = "idle"
          /\ UNCHANGED <<pc, offsetIntoFrame, copying>>
      BY <2>4 DEF Initialize, builderVars, roundVars
    <3>2. \A packet : Follows(packet, Silence)
      BY DEF Follows
    <3>3. CASE frameBuffer' = frameBuffer
      BY <1>2, <1>4, <3>1, <3>3, LastOrderStays
    <3>4. CASE frameBuffer' = Silence
      BY <3>1, <3>2, <3>4 DEF LastOrder
    <3>5. QED
      BY <3>1, <3>3, <3>4
  <2>5. CASE ~(Drained \/ Filled \/ Sliced \/ SetupPacket \/ BuilderClears \/ ClearStep \/ Initialize)
    <3>1. CASE Builder
      <4>1. UNCHANGED <<frameBuffer, offsetIntoFrame, copying, user>> /\ pc \notin {"dead", "exited"}
        BY <2>5, <3>1, FillHasBuffer, <1>4 DEF StreamSteps, Builder, LoopHead, WakeWithoutData,
           Wake, WakeFatal, DrainFails, SetFlags, ReadReady, StartPlaying, ReadStateAgain,
           CreateFrame, AdvanceFrame, FrameDataFails, SliceFails, NextFrame, BuilderSetsNoData,
           PopFails, sharedVars, frameVars, roundVars, userVars
      <4>2. QED
        BY <1>2, <1>4, <4>1, LastOrderStays
    <3>2. CASE audioDeviceIOCallback
      <4>1. UNCHANGED <<frameBuffer, offsetIntoFrame, copying, user, pc>>
        BY <3>2 DEF audioDeviceIOCallback, Play1Buffer, ReturnBuffer, sharedVars, frameVars,
           builderVars, roundVars, userVars
      <4>2. QED
        BY <1>2, <1>4, <4>1, LastOrderStays
    <3>3. CASE User
      <4>1. /\ UNCHANGED <<frameBuffer, offsetIntoFrame, copying, pc>>
            /\ user \in {"initReset", "initClear"} => user' \in {"initReset", "initClear"}
        BY <2>5, <3>3 DEF StreamSteps, User, Pause, Stop, Play, SetFrame, SetStateStep,
           SetFrameStep, Reset, ResetStep, Destroy, SetProcessorIsReady, SetPlayoutID, Begins,
           UserSetsState, sharedVars, frameVars, builderVars, roundVars, userVars
      <4>2. QED
        BY <1>2, <1>4, <4>1, LastOrderStays
    <3>4. QED
      BY <3>1, <3>2, <3>3 DEF Next
  <2>6. QED
    BY <2>1, <2>2, <2>3, <2>4, <2>5
<1>6. QED
  BY <1>3, <1>5

\* The current frame and the packet that is put together keep up with each other.
LEMMA TimelineOrderKept ==
  ASSUME HoldInv, HoldInv', TimelineOrder, Next,
         "Reset" \notin Commands, "SetFrame" \notin Commands
  PROVE  TimelineOrder'
<1>1. /\ syncSamp \in Packets /\ currentFrame \in Nat /\ syncSamp.index \in Nat
      /\ frameBuffer \in Packets \cup {Silence}
  BY DEF HoldInv, OwnerInv, BuilderInv, TypeOK, FrameType, TimelineType, Packets
<1>2. user' \notin {"seek", "setFrame"}
  <2>1. CASE User
    BY <2>1 DEF User, Pause, Stop, Play, SetFrame, SetStateStep, SetFrameStep, Initialize,
       Reset, ResetStep, ClearStep, Destroy, Joined, SetProcessorIsReady, SetPlayoutID,
       Begins, UserSetsState, userVars, TimelineOrder
  <2>2. CASE ~User
    <3>1. UNCHANGED user
      BY <2>2, FillHasBuffer DEF Next, Builder, LoopHead, WakeWithoutData, Wake, WakeFatal,
         Drain, DrainFails, Drained, SetFlags, ReadReady, StartPlaying, ReadStateAgain,
         CreateFrame, AdvanceFrame, SetupPacket, FrameDataFails, Fill, Filled, Slice,
         SliceFails, Sliced, NextFrame, BuilderSetsNoData, BuilderClears, PopAndCopy,
         PopFails, Copied, audioDeviceIOCallback, Play1Buffer, ReturnBuffer, userVars
    <3>2. QED
      BY <3>1 DEF TimelineOrder
  <2>3. QED
    BY <2>1, <2>2
<1>3. CASE UNCHANGED <<pc, seen, syncSamp, currentFrame, frameBuffer>>
  BY <1>2, <1>3 DEF TimelineOrder, Near
<1>4. CASE SetFlags
  <2>1. /\ pc = "drain" /\ pc' \in {"waiting", "create"}
        /\ syncSamp'.index = currentFrame /\ UNCHANGED <<currentFrame, frameBuffer>>
    BY <1>4 DEF SetFlags, timeline
  <2>2. QED
    BY <1>2, <2>1 DEF TimelineOrder, Near
<1>5. CASE CreateFrame
  <2>1. pc = "create" /\ UNCHANGED <<currentFrame, frameBuffer, seen>> /\ Near(currentFrame)
    BY <1>5 DEF CreateFrame, timeline, roundVars, TimelineOrder
  <2>2. CASE seen = "Playing"
    <3>1. pc' \in {"reset", "advance"} /\ syncSamp'.index = currentFrame
      BY <1>5, <2>2 DEF CreateFrame
    <3>2. QED
      BY <1>2, <2>1, <2>2, <3>1 DEF TimelineOrder, Near
  <2>3. CASE seen # "Playing"
    <3>1. pc' = "setup" /\ UNCHANGED syncSamp /\ syncSamp.index = currentFrame
      BY <1>5, <2>1, <2>3 DEF CreateFrame, TimelineOrder
    <3>2. Near(syncSamp.index)' /\ currentFrame' - syncSamp'.index \in {0, 1}
      BY <1>1, <2>1, <3>1 DEF Near
    <3>3. QED
      BY <1>2, <2>1, <3>1, <3>2 DEF TimelineOrder
  <2>4. QED
    BY <2>2, <2>3
<1>6. CASE AdvanceFrame
  <2>1. /\ pc = "advance" /\ pc' = "setup" /\ currentFrame' = currentFrame + 1
        /\ UNCHANGED <<syncSamp, frameBuffer, seen>>
        /\ syncSamp.index = currentFrame /\ Near(currentFrame) /\ seen = "Playing"
    BY <1>6 DEF AdvanceFrame, frameVars, roundVars, TimelineOrder
  <2>2. Near(syncSamp.index)' /\ currentFrame' - syncSamp'.index \in {0, 1}
    BY <1>1, <2>1 DEF Near
  <2>3. QED
    BY <1>2, <2>1, <2>2 DEF TimelineOrder
<1>7. CASE SetupPacket
  <2>1. /\ pc = "setup" /\ pc' \in {"fill", "slice"} /\ frameBuffer'.index = syncSamp.index
        /\ UNCHANGED <<syncSamp, currentFrame, seen>>
        /\ currentFrame - syncSamp.index \in {0, 1}
    BY <1>7 DEF SetupPacket, timeline, roundVars, TimelineOrder
  <2>2. Near(currentFrame)'
    BY <2>1 DEF Near
  <2>3. QED
    BY <1>2, <2>1, <2>2 DEF TimelineOrder
<1>8. CASE BuilderClears
  <2>1. pc' = "head" /\ frameBuffer' = Silence
    BY <1>8 DEF BuilderClears, ClearFrame
  <2>2. QED
    BY <1>2, <2>1 DEF TimelineOrder, Near
<1>9. CASE ClearStep
  <2>1. pc \notin RoundSteps /\ UNCHANGED pc /\ frameBuffer' = Silence
    BY <1>9 DEF ClearStep, ClearFrame, builderVars, HoldInv, CallsHold
  <2>2. QED
    BY <1>2, <2>1 DEF TimelineOrder, Near, RoundSteps
<1>10. CASE Initialize
  <2>1. /\ UNCHANGED <<pc, seen, syncSamp, currentFrame>>
        /\ frameBuffer' = frameBuffer \/ frameBuffer' = Silence
    BY <1>10 DEF Initialize, builderVars, roundVars
  <2>2. QED
    BY <1>2, <2>1 DEF TimelineOrder, Near
<1>11. CASE ReadReady \/ StartPlaying \/ ReadStateAgain
  <2>1. UNCHANGED <<syncSamp, currentFrame, frameBuffer>>
    BY <1>11 DEF ReadReady, StartPlaying, ReadStateAgain, sharedVars, timeline, frameVars
  <2>2. /\ pc \in {"waiting", "start", "startUnready", "reread"}
        /\ pc' \in {"start", "startUnready", "reread", "create"}
    BY <1>11 DEF ReadReady, StartPlaying, ReadStateAgain
  <2>3. QED
    BY <1>2, <2>1, <2>2 DEF TimelineOrder, Near
<1>12. CASE \/ LoopHead \/ WakeWithoutData \/ Wake \/ WakeFatal \/ DrainFails \/ SliceFails
            \/ FrameDataFails \/ BuilderSetsNoData
  <2>1. UNCHANGED <<syncSamp, currentFrame, frameBuffer>>
    BY <1>12 DEF LoopHead, WakeWithoutData, Wake, WakeFatal, DrainFails, SliceFails, PopFails,
       FrameDataFails, BuilderSetsNoData, sharedVars, timeline, frameVars
  <2>2. \/ /\ pc \in {"head", "asleep", "drain", "slice"}
           /\ pc' \in {"head", "asleep", "drain", "dead", "exited"}
        \/ pc' \in {"reset", "clear"}
    BY <1>12 DEF LoopHead, WakeWithoutData, Wake, WakeFatal, DrainFails, SliceFails, PopFails,
       FrameDataFails, BuilderSetsNoData
  <2>3. QED
    BY <1>2, <2>1, <2>2 DEF TimelineOrder, Near
<1>13. CASE Drain \/ Drained \/ Fill \/ Filled \/ Slice \/ Sliced \/ NextFrame
  <2>1. UNCHANGED <<syncSamp, currentFrame, frameBuffer, seen>>
    BY <1>13 DEF Drain, Drained, Fill, Filled, Slice, Sliced, NextFrame, PopAndCopy, Copied,
       StartCopy, sharedVars, timeline, frameVars, roundVars
  <2>2. \/ pc \in {"drain", "drained"} /\ pc' \in {"drain", "drained"}
        \/ /\ pc \in {"fill", "filled", "slice", "sliced"}
           /\ pc' \in {"filled", "slice", "sliced", "create"}
    BY <1>13 DEF Drain, Drained, Fill, Filled, Slice, Sliced, NextFrame, PopAndCopy, Copied
  <2>3. QED
    BY <1>2, <2>1, <2>2 DEF TimelineOrder, Near
<1>14. CASE audioDeviceIOCallback
  BY <1>3, <1>14 DEF audioDeviceIOCallback, Play1Buffer, ReturnBuffer, sharedVars, timeline,
     frameVars, builderVars, roundVars
<1>15. CASE User
  BY <1>3, <1>9, <1>10, <1>15 DEF User, Pause, Stop, Play, SetFrame, SetStateStep,
     SetFrameStep, Reset, ResetStep, Destroy, Joined, SetProcessorIsReady, SetPlayoutID,
     Begins, UserSetsState, sharedVars, timeline, frameVars, builderVars, roundVars,
     TimelineOrder
<1>16. QED
  BY <1>4, <1>5, <1>6, <1>7, <1>8, <1>11, <1>12, <1>13, <1>14, <1>15, FillHasBuffer
     DEF Next, Builder

LEMMA InitOrder == Init => SoundOrder /\ LastOrder /\ TimelineOrder
<1> SUFFICES ASSUME Init PROVE SoundOrder /\ LastOrder /\ TimelineOrder
  OBVIOUS
<1>1. /\ pc = "head" /\ user = "idle" /\ frameBuffer = Silence /\ played = <<>>
      /\ Stream!Init
  BY InitStream DEF Init
<1>2. Pipe = <<>> /\ played \o Pipe = <<>>
  BY <1>1 DEF Stream!Init
<1>3. SoundOrder
  BY <1>1, <1>2 DEF SoundOrder, InOrder
<1>4. LastOrder
  BY <1>2 DEF LastOrder, Stream!LastWritten
<1>5. TimelineOrder
  BY <1>1 DEF TimelineOrder, Near
<1>6. QED
  BY <1>3, <1>4, <1>5

\* The steps keep the samples in order.
LEMMA OrderKept ==
  ASSUME OrderInv, HoldInv', Next, "Reset" \notin Commands, "SetFrame" \notin Commands
  PROVE  SoundOrder' /\ LastOrder' /\ HeardInOrder
<1>1. CASE Play1Buffer
  BY <1>1, PlayOrder
<1>2. CASE Drain \/ Slice \/ Fill
  <2>1. PICK n \in Nat \ {0} : ChunkBehind(n)
    BY <1>2, CopyAppends DEF OrderInv, StreamInv
  <2>2. UNCHANGED played
    BY <2>1 DEF ChunkBehind
  <2>3. QED
    BY <2>1, <2>2, CopyOrder DEF HeardInOrder
<1>3. CASE ((LoopHead \/ WakeFatal) /\ pc' # "asleep") \/ Joined
  <2>1. UNCHANGED played
    BY <1>3 DEF LoopHead, WakeFatal, Joined, callbackVars
  <2>2. QED
    BY <1>3, <2>1, EndOrder DEF HeardInOrder
<1>4. CASE ~StreamSteps
  <2>1. UNCHANGED Stream!svars
    BY <1>4, SilentSteps DEF OrderInv
  <2>2. UNCHANGED played
    BY <2>1 DEF Stream!svars
  <2>3. QED
    BY <1>4, <2>2, SilentOrder DEF HeardInOrder
<1>5. QED
  BY <1>1, <1>2, <1>3, <1>4 DEF StreamSteps

\* While the user neither resets nor seeks, the frames the device is given go through
\* the show one by one, for any buffers, any show, and any order of the other calls.
THEOREM FramesGoInOrder ==
  Spec /\ "Reset" \notin Commands /\ "SetFrame" \notin Commands => FramesInOrder
<1>1. CASE "Reset" \notin Commands /\ "SetFrame" \notin Commands
  <2>1. OrderInv /\ HoldInv' /\ [Next]_vars => [HeardInOrder]_vars /\ OrderInv'
    <3> SUFFICES ASSUME OrderInv, HoldInv', [Next]_vars
                 PROVE  [HeardInOrder]_vars /\ OrderInv'
      OBVIOUS
    <3>1. FrameInv' /\ HoldInv /\ TimelineOrder
      BY FrameInvKept DEF OrderInv, StreamInv
    <3>2. CASE Next
      <4>1. StreamInv'
        BY <1>1, <3>1, <3>2, StepIsStream DEF OrderInv, StreamInv
      <4>2. SoundOrder' /\ LastOrder' /\ HeardInOrder
        BY <1>1, <3>2, OrderKept
      <4>3. TimelineOrder'
        BY <1>1, <3>1, <3>2, TimelineOrderKept
      <4>4. QED
        BY <4>1, <4>2, <4>3 DEF OrderInv
    <3>3. CASE UNCHANGED vars
      <4>1. UNCHANGED <<filling, played, pc, user, seen, syncSamp, currentFrame, frameBuffer,
                        currentFrameDuration, offsetIntoFrame, copying>>
        BY <3>3 DEF vars, sharedVars, timeline, frameVars, bufferVars, builderVars, roundVars,
           callbackVars, userVars, filling
      <4>2. UNCHANGED Pipe
        BY <4>1, FillingStays
      <4>3. UNCHANGED Stream!LastWritten
        BY <4>1, <4>2, StreamStays
      <4>4. StreamInv'
        BY <3>1, <4>1, <4>3, LastStays DEF OrderInv, StreamInv
      <4>5. SoundOrder'
        BY <4>1, <4>2 DEF OrderInv, SoundOrder
      <4>6. LastOrder'
        BY <4>1, <4>3, LastOrderStays DEF OrderInv
      <4>7. TimelineOrder'
        BY <3>1, <4>1 DEF TimelineOrder, Near
      <4>8. QED
        BY <3>3, <4>4, <4>5, <4>6, <4>7 DEF OrderInv
    <3>4. QED
      BY <3>2, <3>3
  <2>2. Init => FrameInv /\ LastInv /\ SoundOrder /\ LastOrder /\ TimelineOrder
    BY InitStream, InitOrder, SMTT(30)
  <2>3. [HeardInOrder]_vars
          => [played' # played =>
                LET heard == (IF played = <<>> THEN <<>> ELSE <<played[BufferSize]>>) \o played'
                IN  \A i \in 1 .. Len(heard) - 1 :
                      heard[i].packet # Silence /\ heard[i + 1].packet # Silence =>
                        heard[i + 1].packet.index - heard[i].packet.index \in {0, 1}]_vars
    BY DEF HeardInOrder
  <2>4. QED
    BY <1>1, <2>1, <2>2, <2>3, HoldInvHolds, PTL DEF Spec, FramesInOrder, OrderInv, StreamInv
<1>2. CASE ~("Reset" \notin Commands /\ "SetFrame" \notin Commands)
  BY <1>2
<1>3. QED
  BY <1>1, <1>2
=============================================================================
