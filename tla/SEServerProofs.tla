--------------------------- MODULE SEServerProofs ---------------------------
(***************************************************************************)
(* What holds of the sync emitter for every number and size of buffers,    *)
(* every show and everything the user does, Reset included.                *)
(*                                                                         *)
(* The types are not inductive by themselves: how many samples the builder *)
(* copies is a natural number only because no offset is beyond its frame   *)
(* and no buffer is overfilled, and the buffer it fills is one of the      *)
(* buffers only between the two halves of a copy.  BuilderInv says so.     *)
(***************************************************************************)
EXTENDS SEServer, FiniteSetTheorems, TLAPS

\* The steps between the two halves of a copy.
CopySteps == {"drained", "filled", "sliced"}

BuilderInv ==
  /\ TypeOK
  /\ CopiesStayInBounds
  /\ pc \in CopySteps => currentAudioBuffer \in Buffers
  /\ pc \notin CopySteps => copying = [from |-> 0, n |-> 0]

-----------------------------------------------------------------------------
(* A copy.                                                                 *)

\* A chunk of n samples is that: n of them, and samples.
LEMMA ChunkType ==
  ASSUME NEW packet \in Packets \cup {Silence}, NEW offset \in Nat,
         NEW duration \in Nat, NEW n \in Nat
  PROVE  /\ Chunk(packet, offset, duration, n) \in Seq(Samples)
         /\ Len(Chunk(packet, offset, duration, n)) = n
<1> DEFINE sample(i) == [packet |-> packet, at |-> offset + i - 1, of |-> duration]
<1>1. \A i \in 1 .. n : sample(i) \in Samples
  BY DEF Samples
<1> HIDE DEF sample
<1>2. [i \in 1 .. n |-> sample(i)] \in [1 .. n -> Samples]
  BY <1>1
<1>3. /\ [i \in 1 .. n |-> sample(i)] \in Seq(Samples)
      /\ Len([i \in 1 .. n |-> sample(i)]) = n
  BY <1>2
<1>4. QED
  BY <1>3 DEF Chunk, sample

\* The lesser of two numbers is one, and not beyond either.
LEMMA LesserBounds ==
  ASSUME NEW a \in Nat, NEW b \in Nat
  PROVE  Lesser(a, b) \in Nat /\ Lesser(a, b) <= a /\ Lesser(a, b) <= b
BY DEF Lesser

\* Samples behind samples.
LEMMA SamplesBehind ==
  ASSUME NEW s \in Seq(Samples), NEW t \in Seq(Samples)
  PROVE  s \o t \in Seq(Samples) /\ Len(s \o t) = Len(s) + Len(t)
OBVIOUS

\* With no copy under way there is nothing to add to the offset.
LEMMA NoCopyInBounds ==
  ASSUME NEW duration \in Nat, NEW offset \in Nat, offset <= duration,
         NEW copy, copy = [from |-> 0, n |-> 0]
  PROVE  offset + copy.n <= duration /\ copy.from + copy.n <= duration
<1>1. copy.n = 0 /\ copy.from = 0
  OBVIOUS
<1>2. offset + 0 <= duration /\ 0 + 0 <= duration
  OBVIOUS
<1>3. QED
  BY <1>1, <1>2

LEMMA InitBuilderInv == Init => BuilderInv
<1> SUFFICES ASSUME Init PROVE BuilderInv
  OBVIOUS
<1> USE SEServerAssumption
<1>1. TimelineType /\ SettingsType
  <2>1. 3 * MaxFrameDuration \in Nat /\ MaxFrameDuration \in Nat
    OBVIOUS
  <2>2. QED
    BY <2>1 DEF Init, TimelineType, SettingsType, States
<1>2. FrameType
  BY DEF Init, FrameType, Packets, Silence, StoppedFlag
<1>3. BufferType
  <2>1. Cardinality(Buffers) \in Nat
    BY FS_CardinalityType
  <2>2. unusedSampleQueue \in [1 .. Cardinality(Buffers) -> Buffers]
    BY DEF Init
  <2>3. unusedSampleQueue \in Seq(Buffers)
    BY <2>1, <2>2
  <2>4. content \in [Buffers -> Seq(Samples)]
    BY DEF Init
  <2>5. QED
    BY <2>3, <2>4 DEF Init, BufferType
<1>4. BuilderType
  BY DEF Init, BuilderType, BuilderSteps, States
<1>5. CallbackType /\ UserType
  BY DEF Init, CallbackType, UserType, UserSteps
<1>6. CopiesStayInBounds
  BY DEF Init, CopiesStayInBounds
<1>7. QED
  BY <1>1, <1>2, <1>3, <1>4, <1>5, <1>6 DEF Init, BuilderInv, TypeOK, CopySteps

-----------------------------------------------------------------------------
(* The steps.                                                              *)

\* What a step leaves alone keeps its type.
LEMMA UnchangedTypes ==
  /\ TimelineType /\ UNCHANGED timeline => TimelineType'
  /\ SettingsType /\ UNCHANGED settings => SettingsType'
  /\ FrameType /\ UNCHANGED frameVars => FrameType'
  /\ BufferType /\ UNCHANGED bufferVars => BufferType'
  /\ BuilderType /\ UNCHANGED builderVars => BuilderType'
  /\ CallbackType /\ UNCHANGED callbackVars => CallbackType'
  /\ UserType /\ UNCHANGED userVars => UserType'
<1>1. TimelineType /\ UNCHANGED timeline => TimelineType'
  BY DEF TimelineType, timeline
<1>2. SettingsType /\ UNCHANGED settings => SettingsType'
  BY DEF SettingsType, settings
<1>3. FrameType /\ UNCHANGED frameVars => FrameType'
  BY DEF FrameType, frameVars
<1>4. BufferType /\ UNCHANGED bufferVars => BufferType'
  BY DEF BufferType, bufferVars
<1>5. BuilderType /\ UNCHANGED builderVars => BuilderType'
  BY DEF BuilderType, builderVars, roundVars
<1>6. CallbackType /\ UNCHANGED callbackVars => CallbackType'
  BY DEF CallbackType, callbackVars
<1>7. UserType /\ UNCHANGED userVars => UserType'
  BY DEF UserType, userVars
<1>8. QED
  BY <1>1, <1>2, <1>3, <1>4, <1>5, <1>6, <1>7

\* Copies stay in bounds when neither the frame, the buffers nor the copy change.
LEMMA UnchangedBounds ==
  CopiesStayInBounds /\ UNCHANGED <<currentFrameDuration, offsetIntoFrame, content, copying>>
    => CopiesStayInBounds'
BY DEF CopiesStayInBounds

\* The builder's steps that only change its own variables, the timeline or the packet.
LEMMA QuietBuilderSteps ==
  ASSUME BuilderInv,
         \/ LoopHead \/ WakeWithoutData \/ Wake \/ SetFlags \/ ReadReady
         \/ StartPlaying \/ ReadStateAgain \/ CreateFrame \/ AdvanceFrame
         \/ FrameDataFails \/ NextFrame \/ BuilderSetsNoData
  PROVE  BuilderInv'
<1> USE DEF BuilderInv, TypeOK, CopySteps
<1>1. UNCHANGED <<settings, bufferVars, callbackVars, userVars,
                  currentFrameDuration, offsetIntoFrame, copying>>
  BY DEF LoopHead, WakeWithoutData, Wake, SetFlags, ReadReady, StartPlaying,
     ReadStateAgain, CreateFrame, AdvanceFrame, FrameDataFails, NextFrame,
     BuilderSetsNoData, sharedVars, frameVars, roundVars
<1>2. SettingsType' /\ BufferType' /\ CallbackType' /\ UserType'
  BY <1>1, UnchangedTypes
<1>3. CopiesStayInBounds'
  BY <1>1, UnchangedBounds DEF bufferVars
<1>4. TimelineType'
  BY UnchangedTypes DEF LoopHead, WakeWithoutData, Wake, SetFlags, ReadReady,
     StartPlaying, ReadStateAgain, CreateFrame, AdvanceFrame, FrameDataFails,
     NextFrame, BuilderSetsNoData, sharedVars, TimelineType, timeline, States
<1>5. FrameType'
  <2>1. CASE SetFlags \/ CreateFrame
    BY <2>1 DEF SetFlags, CreateFrame, FrameType, TimelineType, Packets,
       StoppedFlag, PausedFlag, PlayingFlag
  <2>2. CASE ~(SetFlags \/ CreateFrame)
    BY <2>2, UnchangedTypes DEF LoopHead, WakeWithoutData, Wake, ReadReady,
       StartPlaying, ReadStateAgain, AdvanceFrame, FrameDataFails, NextFrame,
       BuilderSetsNoData, sharedVars
  <2>3. QED
    BY <2>1, <2>2
<1>6. BuilderType' /\ pc' \notin CopySteps /\ pc \notin CopySteps
  BY DEF LoopHead, WakeWithoutData, Wake, SetFlags, ReadReady, StartPlaying,
     ReadStateAgain, CreateFrame, AdvanceFrame, FrameDataFails, NextFrame,
     BuilderSetsNoData, roundVars, BuilderType, BuilderSteps, TimelineType
<1>7. QED
  BY <1>1, <1>2, <1>3, <1>4, <1>5, <1>6

LEMMA WakeFatalKeeps == BuilderInv /\ WakeFatal => BuilderInv'
<1> SUFFICES ASSUME BuilderInv, WakeFatal PROVE BuilderInv'
  OBVIOUS
<1> USE DEF BuilderInv, TypeOK, CopySteps
<1>1. TimelineType' /\ FrameType' /\ CallbackType' /\ UserType'
  BY UnchangedTypes DEF WakeFatal
<1>2. SettingsType'
  BY DEF WakeFatal, SettingsType
<1>3. BufferType'
  BY DEF WakeFatal, BufferType
<1>4. BuilderType'
  BY DEF WakeFatal, BuilderType, BuilderSteps, TimelineType
<1>5. CopiesStayInBounds'
  BY UnchangedBounds DEF WakeFatal, frameVars
<1>6. QED
  BY <1>1, <1>2, <1>3, <1>4, <1>5 DEF WakeFatal

\* The first half of a copy: the builder has a buffer, k of whose samples are
\* kept, and room in it and in the frame for n more.
LEMMA StartCopyKeeps ==
  ASSUME BuilderInv, pc \notin CopySteps, pc' \in CopySteps,
         NEW b \in Buffers, NEW done \in Seq(Samples), NEW n \in Nat,
         Len(done) + n <= BufferSize, offsetIntoFrame + n <= currentFrameDuration,
         StartCopy(b, done, n),
         unusedSampleQueue' \in Seq(Buffers),
         UNCHANGED <<sharedVars, sampleQueue, freed, seen, needMore, callbackVars, userVars>>
  PROVE  BuilderInv'
<1> USE DEF BuilderInv, TypeOK
<1>1. TimelineType' /\ SettingsType' /\ FrameType' /\ CallbackType' /\ UserType'
  BY UnchangedTypes DEF sharedVars
<1> DEFINE filled == done \o Chunk(frameBuffer, offsetIntoFrame, currentFrameDuration, n)
<1>2. filled \in Seq(Samples) /\ Len(filled) = Len(done) + n
  <2>1. /\ frameBuffer \in Packets \cup {Silence}
        /\ offsetIntoFrame \in Nat /\ currentFrameDuration \in Nat
    BY DEF FrameType
  <2>2. Chunk(frameBuffer, offsetIntoFrame, currentFrameDuration, n) \in Seq(Samples)
    BY <2>1, ChunkType
  <2>3. Len(Chunk(frameBuffer, offsetIntoFrame, currentFrameDuration, n)) = n
    BY <2>1, ChunkType
  <2>4. QED
    BY <2>2, <2>3, SamplesBehind
<1>3. content' = [content EXCEPT ![b] = filled]
  BY DEF StartCopy
<1> HIDE DEF filled
<1>4. BufferType'
  BY <1>2, <1>3 DEF StartCopy, BufferType
<1>5. BuilderType'
  BY DEF StartCopy, BuilderType, CopySteps, BuilderSteps, FrameType
<1>6. CopiesStayInBounds'
  BY <1>2, <1>3 DEF StartCopy, CopiesStayInBounds, BufferType, FrameType, sharedVars, frameVars
<1>7. QED
  BY <1>1, <1>4, <1>5, <1>6 DEF StartCopy

LEMMA PopAndCopyKeeps ==
  ASSUME BuilderInv, NEW here \in {"drain", "slice"}, NEW next \in CopySteps,
         PopAndCopy(here, next)
  PROVE  BuilderInv'
<1> USE DEF BuilderInv, TypeOK
<1> DEFINE n == Lesser(BufferSize, currentFrameDuration - offsetIntoFrame)
<1>1. n \in Nat /\ n <= BufferSize /\ offsetIntoFrame + n <= currentFrameDuration
  BY SEServerAssumption DEF PopAndCopy, FrameType, Lesser
<1>2. /\ Head(unusedSampleQueue) \in Buffers
      /\ unusedSampleQueue' \in Seq(Buffers)
  BY DEF PopAndCopy, BufferType
<1>3. StartCopy(Head(unusedSampleQueue), <<>>, n) /\ pc' \in CopySteps /\ pc \notin CopySteps
  BY DEF PopAndCopy, CopySteps
<1>4. UNCHANGED <<sharedVars, sampleQueue, freed, seen, needMore, callbackVars, userVars>>
  BY DEF PopAndCopy
<1> HIDE DEF n
<1>5. <<>> \in Seq(Samples) /\ Len(<<>>) + n <= BufferSize
  BY <1>1
<1>6. QED
  BY <1>1, <1>2, <1>3, <1>4, <1>5, StartCopyKeeps

LEMMA PopFailsKeeps ==
  ASSUME BuilderInv, NEW here \in {"drain", "slice"}, PopFails(here)
  PROVE  BuilderInv'
<1> USE DEF BuilderInv, TypeOK, CopySteps
<1>1. /\ TimelineType' /\ SettingsType' /\ FrameType' /\ CallbackType' /\ UserType'
  BY UnchangedTypes DEF PopFails, sharedVars
<1>2. BufferType'
  BY DEF PopFails, BufferType
<1>3. BuilderType'
  BY DEF PopFails, BuilderType, BuilderSteps, roundVars
<1>4. CopiesStayInBounds'
  BY UnchangedBounds DEF PopFails, sharedVars, frameVars, roundVars
<1>5. QED
  BY <1>1, <1>2, <1>3, <1>4 DEF PopFails, roundVars

LEMMA FillKeeps == BuilderInv /\ Fill => BuilderInv'
<1> SUFFICES ASSUME BuilderInv, Fill PROVE BuilderInv'
  OBVIOUS
<1> USE DEF BuilderInv, TypeOK
<1> DEFINE b == currentAudioBuffer
           n == Lesser(BufferSize - Len(content[b]), currentFrameDuration - offsetIntoFrame)
<1>1. b \in Buffers /\ content[b] \in Seq(Samples) /\ Len(content[b]) <= BufferSize
  BY DEF Fill, BufferType, CopiesStayInBounds
<1>2. /\ n \in Nat /\ Len(content[b]) + n <= BufferSize
      /\ offsetIntoFrame + n <= currentFrameDuration
  <2>1. /\ Len(content[b]) \in Nat /\ BufferSize \in Nat
        /\ currentFrameDuration \in Nat /\ offsetIntoFrame \in Nat
        /\ offsetIntoFrame <= currentFrameDuration
    BY <1>1, SEServerAssumption DEF FrameType, CopiesStayInBounds
  <2>2. BufferSize - Len(content[b]) \in Nat
    BY <1>1, <2>1
  <2>3. currentFrameDuration - offsetIntoFrame \in Nat
    BY <2>1
  <2>4. /\ n \in Nat /\ n <= BufferSize - Len(content[b])
        /\ n <= currentFrameDuration - offsetIntoFrame
    BY <2>2, <2>3, LesserBounds
  <2>5. QED
    BY <2>1, <2>4
<1>3. StartCopy(b, content[b], n) /\ pc' \in CopySteps /\ pc \notin CopySteps
  BY DEF Fill, CopySteps
<1>4. UNCHANGED <<sharedVars, unusedSampleQueue, sampleQueue, freed, seen, needMore,
                  callbackVars, userVars>>
  BY DEF Fill
<1>5. unusedSampleQueue' \in Seq(Buffers)
  BY <1>4 DEF BufferType
<1> HIDE DEF n, b
<1>6. QED
  BY <1>1, <1>2, <1>3, <1>4, <1>5, StartCopyKeeps

\* The second half of a copy: whichever offset was added to, the sum is in the frame.
LEMMA CopiedKeeps ==
  ASSUME BuilderInv, NEW here \in CopySteps, NEW next \in {"drain", "slice"},
         NEW more \in BOOLEAN, Copied(here, next, more)
  PROVE  BuilderInv'
<1> USE DEF BuilderInv, TypeOK
<1>1. TimelineType' /\ SettingsType' /\ CallbackType' /\ UserType'
  BY UnchangedTypes DEF Copied
<1>2. /\ pc = here /\ pc' = next /\ currentAudioBuffer \in Buffers
      /\ copying' = [from |-> 0, n |-> 0]
      /\ UNCHANGED <<frameBuffer, syncSamp, currentFrameDuration, content, seen>>
  BY DEF Copied, FinishCopy, PushFullBuffer
<1>3. copying.from \in Nat /\ copying.n \in Nat
  BY DEF BuilderType
<1>4. offsetIntoFrame' \in Nat /\ offsetIntoFrame' <= currentFrameDuration
  <2>1. PICK offset \in {copying.from, offsetIntoFrame} : offsetIntoFrame' = offset + copying.n
    BY DEF Copied, FinishCopy, PushFullBuffer
  <2>2. QED
    BY <1>3, <2>1 DEF FrameType, CopiesStayInBounds
<1>5. FrameType'
  BY <1>2, <1>4 DEF FrameType
<1>6. BufferType'
  <2>1. CASE Len(content[currentAudioBuffer]) = BufferSize
    <3>1. /\ sampleQueue' = Append(sampleQueue, currentAudioBuffer)
          /\ currentAudioBuffer' = NoBuffer
          /\ UNCHANGED <<unusedSampleQueue, content, freed>>
      BY <2>1 DEF Copied, FinishCopy, PushFullBuffer
    <3>2. QED
      BY <1>2, <3>1 DEF BufferType
  <2>2. CASE Len(content[currentAudioBuffer]) # BufferSize
    <3>1. UNCHANGED bufferVars
      BY <2>2 DEF Copied, FinishCopy, PushFullBuffer, bufferVars
    <3>2. QED
      BY <3>1, UnchangedTypes
  <2>3. QED
    BY <2>1, <2>2
<1>7. BuilderType'
  <2>1. needMore' \in BOOLEAN
    BY DEF Copied, FinishCopy, PushFullBuffer
  <2>2. pc' \in BuilderSteps /\ seen' \in States /\ copying' \in [from : Nat, n : Nat]
    BY <1>2 DEF BuilderType, BuilderSteps
  <2>3. QED
    BY <2>1, <2>2 DEF BuilderType
<1>8. CopiesStayInBounds'
  <2>1. \A b \in Buffers : Len(content'[b]) <= BufferSize
    BY <1>2 DEF CopiesStayInBounds
  <2>2. currentFrameDuration' \in Nat /\ offsetIntoFrame' <= currentFrameDuration'
    BY <1>2, <1>4 DEF FrameType
  <2>3. /\ offsetIntoFrame' + copying'.n <= currentFrameDuration'
        /\ copying'.from + copying'.n <= currentFrameDuration'
    BY <1>2, <1>4, <2>2, NoCopyInBounds
  <2>4. QED
    BY <2>1, <2>2, <2>3 DEF CopiesStayInBounds
<1>9. pc' \notin CopySteps
  BY <1>2 DEF CopySteps
<1>10. QED
  BY <1>1, <1>2, <1>5, <1>6, <1>7, <1>8, <1>9

LEMMA FillThroughNullKeeps == BuilderInv /\ FillThroughNull => BuilderInv'
<1> SUFFICES ASSUME BuilderInv, FillThroughNull PROVE BuilderInv'
  OBVIOUS
<1> USE DEF BuilderInv, TypeOK, CopySteps
<1>1. TimelineType' /\ SettingsType' /\ FrameType' /\ BufferType' /\ CallbackType'
  BY UnchangedTypes DEF FillThroughNull, sharedVars
<1>2. BuilderType' /\ UserType'
  BY DEF FillThroughNull, BuilderType, BuilderSteps, UserType, UserSteps, roundVars
<1>3. CopiesStayInBounds'
  BY UnchangedBounds DEF FillThroughNull, sharedVars, frameVars, bufferVars, roundVars
<1>4. QED
  BY <1>1, <1>2, <1>3 DEF FillThroughNull, roundVars

LEMMA SetupPacketKeeps == BuilderInv /\ SetupPacket => BuilderInv'
<1> SUFFICES ASSUME BuilderInv, SetupPacket PROVE BuilderInv'
  OBVIOUS
<1> USE DEF BuilderInv, TypeOK, CopySteps
<1>1. TimelineType' /\ SettingsType' /\ BufferType' /\ CallbackType' /\ UserType'
  BY UnchangedTypes DEF SetupPacket
<1>2. currentFrameDuration' \in Nat /\ offsetIntoFrame' = 0
  BY SEServerAssumption DEF SetupPacket
<1>3. FrameType'
  BY <1>2 DEF SetupPacket, FrameType, Packets
<1>4. BuilderType'
  BY DEF SetupPacket, BuilderType, BuilderSteps, roundVars
<1>5. CopiesStayInBounds'
  BY <1>2 DEF SetupPacket, CopiesStayInBounds, roundVars, bufferVars
<1>6. QED
  BY <1>1, <1>3, <1>4, <1>5 DEF SetupPacket, roundVars

\* The block of Reset under the mutex, whoever runs it: the offset becomes 0 under
\* a copy that may be under way.
LEMMA ClearFrameKeeps ==
  BuilderInv /\ ClearFrame /\ UNCHANGED <<currentFrameDuration, content, copying>>
    => /\ FrameType' /\ CopiesStayInBounds' /\ currentFrame' \in Nat
<1> SUFFICES ASSUME BuilderInv, ClearFrame,
                    UNCHANGED <<currentFrameDuration, content, copying>>
             PROVE  /\ FrameType' /\ CopiesStayInBounds' /\ currentFrame' \in Nat
  OBVIOUS
<1> USE DEF BuilderInv, TypeOK, ClearFrame
<1>1. FrameType' /\ currentFrame' \in Nat
  BY DEF FrameType, ClearedSync, Packets
<1>2. copying.from \in Nat /\ copying.n \in Nat
  BY DEF BuilderType
<1>3. CopiesStayInBounds'
  BY <1>2 DEF CopiesStayInBounds, FrameType
<1>4. QED
  BY <1>1, <1>3

LEMMA BuilderClearsKeeps == BuilderInv /\ BuilderClears => BuilderInv'
<1> SUFFICES ASSUME BuilderInv, BuilderClears PROVE BuilderInv'
  OBVIOUS
<1> USE DEF BuilderInv, TypeOK, CopySteps
<1>1. SettingsType' /\ BufferType' /\ CallbackType' /\ UserType'
  BY UnchangedTypes DEF BuilderClears
<1>2. FrameType' /\ CopiesStayInBounds' /\ currentFrame' \in Nat
  BY ClearFrameKeeps DEF BuilderClears, bufferVars, roundVars
<1>3. TimelineType'
  BY <1>2 DEF BuilderClears, TimelineType
<1>4. BuilderType'
  BY DEF BuilderClears, BuilderType, BuilderSteps, roundVars
<1>5. QED
  BY <1>1, <1>2, <1>3, <1>4 DEF BuilderClears, roundVars

LEMMA BuilderKeeps == BuilderInv /\ Builder => BuilderInv'
<1> SUFFICES ASSUME BuilderInv, Builder PROVE BuilderInv'
  OBVIOUS
<1>1. CASE Drain \/ Slice
  BY <1>1, PopAndCopyKeeps DEF Drain, Slice, CopySteps
<1>2. CASE DrainFails \/ SliceFails
  BY <1>2, PopFailsKeeps DEF DrainFails, SliceFails
<1>3. CASE Drained \/ Filled \/ Sliced
  <2>1. needMore \in BOOLEAN /\ FALSE \in BOOLEAN
    BY DEF BuilderInv, TypeOK, BuilderType
  <2>2. QED
    BY <1>3, <2>1, CopiedKeeps DEF Drained, Filled, Sliced, CopySteps
<1>4. CASE WakeFatal \/ Fill \/ FillThroughNull \/ SetupPacket \/ BuilderClears
  BY <1>4, WakeFatalKeeps, FillKeeps, FillThroughNullKeeps, SetupPacketKeeps,
     BuilderClearsKeeps
<1>5. CASE \/ LoopHead \/ WakeWithoutData \/ Wake \/ SetFlags \/ ReadReady
           \/ StartPlaying \/ ReadStateAgain \/ CreateFrame \/ AdvanceFrame
           \/ FrameDataFails \/ NextFrame \/ BuilderSetsNoData
  BY <1>5, QuietBuilderSteps
<1>6. QED
  BY <1>1, <1>2, <1>3, <1>4, <1>5 DEF Builder

LEMMA CallbackKeeps == BuilderInv /\ audioDeviceIOCallback => BuilderInv'
<1> SUFFICES ASSUME BuilderInv, audioDeviceIOCallback PROVE BuilderInv'
  OBVIOUS
<1> USE DEF BuilderInv, TypeOK
<1>1. TimelineType' /\ SettingsType' /\ FrameType' /\ BuilderType' /\ UserType'
  BY UnchangedTypes DEF audioDeviceIOCallback, Play1Buffer, ReturnBuffer, sharedVars
<1>2. CASE Play1Buffer
  <2>1. /\ Head(sampleQueue) \in Buffers /\ Tail(sampleQueue) \in Seq(Buffers)
    BY <1>2 DEF Play1Buffer, BufferType
  <2>2. BufferType' /\ CallbackType'
    BY <1>2, <2>1 DEF Play1Buffer, BufferType, CallbackType
  <2>3. CopiesStayInBounds'
    BY <1>2, UnchangedBounds DEF Play1Buffer, sharedVars, frameVars, builderVars, roundVars
  <2>4. QED
    BY <1>1, <1>2, <2>2, <2>3 DEF Play1Buffer, builderVars, roundVars
<1>3. CASE ReturnBuffer
  <2>1. sampleBuffer \in Buffers
    BY <1>3 DEF ReturnBuffer, BufferPopped, CallbackType
  <2>2. content' = [content EXCEPT ![sampleBuffer] = <<>>]
    BY <1>3 DEF ReturnBuffer
  <2>3. BufferType' /\ CallbackType'
    BY <1>3, <2>1, <2>2 DEF ReturnBuffer, PushPlayedBuffer, BufferType, CallbackType
  <2>4. UNCHANGED <<currentFrameDuration, offsetIntoFrame, copying>>
    BY <1>3 DEF ReturnBuffer, sharedVars, frameVars, builderVars, roundVars
  <2>5. \A b \in Buffers : Len(content'[b]) <= BufferSize
    BY <2>2, SEServerAssumption DEF CopiesStayInBounds, BufferType
  <2>6. CopiesStayInBounds'
    BY <2>4, <2>5 DEF CopiesStayInBounds
  <2>7. QED
    BY <1>1, <1>3, <2>3, <2>6 DEF ReturnBuffer, builderVars, roundVars
<1>4. QED
  BY <1>2, <1>3 DEF audioDeviceIOCallback

-----------------------------------------------------------------------------
(* The user's steps.                                                       *)

\* The calls that only change what they set.
LEMMA QuietUserSteps ==
  ASSUME BuilderInv,
         \/ Pause \/ Stop \/ Play \/ SetFrame \/ SetStateStep \/ SetFrameStep
         \/ Reset \/ ResetStep
  PROVE  BuilderInv'
<1> USE DEF BuilderInv, TypeOK
<1>1. UNCHANGED <<settings, frameVars, bufferVars, builderVars, callbackVars>>
  BY DEF Pause, Stop, Play, SetFrame, Begins, SetStateStep, UserSetsState,
     SetFrameStep, Reset, ResetStep, sharedVars
<1>2. SettingsType' /\ FrameType' /\ BufferType' /\ BuilderType' /\ CallbackType'
  BY <1>1, UnchangedTypes
<1>3. CopiesStayInBounds'
  BY <1>1, UnchangedBounds DEF frameVars, bufferVars, builderVars, roundVars
<1>4. TimelineType' /\ UserType'
  <2>1. CASE Pause \/ Stop \/ Play \/ Reset
    BY <2>1 DEF Pause, Stop, Play, Reset, Begins, sharedVars, timeline,
       TimelineType, UserType, UserSteps
  <2>2. CASE SetFrame
    BY <2>2, SEServerAssumption DEF SetFrame, Begins, sharedVars, timeline,
       TimelineType, UserType, UserSteps
  <2>3. CASE SetStateStep \/ ResetStep
    BY <2>3 DEF SetStateStep, ResetStep, UserSetsState, TimelineType, States,
       UserType, UserSteps
  <2>4. CASE SetFrameStep
    BY <2>4 DEF SetFrameStep, TimelineType, UserType, UserSteps
  <2>5. QED
    BY <2>1, <2>2, <2>3, <2>4
<1>5. QED
  BY <1>1, <1>2, <1>3, <1>4 DEF bufferVars, builderVars, roundVars

\* The calls that change a setting.
LEMMA SettingSteps ==
  ASSUME BuilderInv, Destroy \/ SetProcessorIsReady \/ SetPlayoutID
  PROVE  BuilderInv'
<1> USE DEF BuilderInv, TypeOK
<1>1. UNCHANGED <<timeline, frameVars, bufferVars, builderVars, callbackVars>>
  BY DEF Destroy, SetProcessorIsReady, SetPlayoutID
<1>2. TimelineType' /\ FrameType' /\ BufferType' /\ BuilderType' /\ CallbackType'
  BY <1>1, UnchangedTypes
<1>3. CopiesStayInBounds'
  BY <1>1, UnchangedBounds DEF frameVars, bufferVars, builderVars, roundVars
<1>4. SettingsType'
  BY SEServerAssumption DEF Destroy, SetProcessorIsReady, SetPlayoutID, SettingsType
<1>5. UserType'
  BY DEF Destroy, SetProcessorIsReady, SetPlayoutID, UserType, UserSteps, userVars
<1>6. QED
  BY <1>1, <1>2, <1>3, <1>4, <1>5 DEF bufferVars, builderVars, roundVars

LEMMA InitializeKeeps == BuilderInv /\ Initialize => BuilderInv'
<1> SUFFICES ASSUME BuilderInv, Initialize PROVE BuilderInv'
  OBVIOUS
<1> USE DEF BuilderInv, TypeOK
<1>1. UNCHANGED <<bufferVars, builderVars, callbackVars, currentFrameDuration,
                  offsetIntoFrame, syncSamp, state, currentFrame>>
  BY DEF Initialize
<1>2. BufferType' /\ BuilderType' /\ CallbackType'
  BY <1>1, UnchangedTypes
<1>3. CopiesStayInBounds'
  BY <1>1, UnchangedBounds DEF bufferVars, builderVars, roundVars
<1>4. TimelineType'
  BY SEServerAssumption DEF Initialize, TimelineType
<1>5. SettingsType'
  BY SEServerAssumption DEF Initialize, SettingsType
<1>6. FrameType'
  BY DEF Initialize, FrameType
<1>7. UserType'
  BY SEServerAssumption DEF Initialize, UserType, UserSteps
<1>8. QED
  BY <1>1, <1>2, <1>3, <1>4, <1>5, <1>6, <1>7 DEF bufferVars, builderVars, roundVars

LEMMA ClearStepKeeps == BuilderInv /\ ClearStep => BuilderInv'
<1> SUFFICES ASSUME BuilderInv, ClearStep PROVE BuilderInv'
  OBVIOUS
<1> USE DEF BuilderInv, TypeOK
<1>1. SettingsType' /\ BufferType' /\ BuilderType' /\ CallbackType'
  BY UnchangedTypes DEF ClearStep
<1>2. FrameType' /\ CopiesStayInBounds' /\ currentFrame' \in Nat
  BY ClearFrameKeeps DEF ClearStep, bufferVars, builderVars, roundVars
<1>3. TimelineType' /\ UserType'
  BY <1>2 DEF ClearStep, TimelineType, UserType, UserSteps
<1>4. QED
  BY <1>1, <1>2, <1>3 DEF ClearStep, bufferVars, builderVars, roundVars

\* The destructor empties the queues once the builder is out of its loops.
LEMMA JoinedKeeps == BuilderInv /\ Joined => BuilderInv'
<1> SUFFICES ASSUME BuilderInv, Joined PROVE BuilderInv'
  OBVIOUS
<1> USE DEF BuilderInv, TypeOK
<1>1. TimelineType' /\ SettingsType' /\ FrameType' /\ BuilderType' /\ CallbackType'
  BY UnchangedTypes DEF Joined, sharedVars
<1>2. InQueue(unusedSampleQueue) \subseteq Buffers /\ InQueue(sampleQueue) \subseteq Buffers
  BY DEF InQueue, BufferType
<1>3. BufferType'
  BY <1>2 DEF Joined, BufferType
<1>4. UserType'
  BY DEF Joined, UserType, UserSteps
<1>5. CopiesStayInBounds'
  BY UnchangedBounds DEF Joined, sharedVars, frameVars, builderVars, roundVars
<1>6. QED
  BY <1>1, <1>3, <1>4, <1>5 DEF Joined, builderVars, roundVars, CopySteps

LEMMA UserKeeps == BuilderInv /\ User => BuilderInv'
BY QuietUserSteps, SettingSteps, InitializeKeeps, ClearStepKeeps, JoinedKeeps DEF User

-----------------------------------------------------------------------------
(* The theorems about the copies.                                          *)

LEMMA BuilderInvInductive == BuilderInv /\ [Next]_vars => BuilderInv'
<1> SUFFICES ASSUME BuilderInv, [Next]_vars PROVE BuilderInv'
  OBVIOUS
<1>1. CASE Next
  BY <1>1, BuilderKeeps, CallbackKeeps, UserKeeps DEF Next
<1>2. CASE UNCHANGED vars
  <2> USE DEF BuilderInv, TypeOK
  <2>1. UNCHANGED <<timeline, settings, frameVars, bufferVars, builderVars, callbackVars,
                    userVars>>
    BY <1>2 DEF vars, sharedVars
  <2>2. TypeOK'
    BY <2>1, UnchangedTypes
  <2>3. CopiesStayInBounds'
    BY <2>1, UnchangedBounds DEF frameVars, bufferVars, builderVars, roundVars
  <2>4. QED
    BY <2>1, <2>2, <2>3 DEF bufferVars, builderVars, roundVars
<1>3. QED
  BY <1>1, <1>2

LEMMA BuilderInvHolds == Spec => []BuilderInv
BY InitBuilderInv, BuilderInvInductive, PTL DEF Spec

\* Every variable keeps its type.
THEOREM TypeCorrect == Spec => []TypeOK
<1>1. BuilderInv => TypeOK
  BY DEF BuilderInv
<1>2. QED
  BY <1>1, BuilderInvHolds, PTL

\* BuildFrames never copies beyond the frame it built or the buffer it fills,
\* with frames and buffers of any size and with the user's Reset at any time.
THEOREM CopiesBounded == Spec => []CopiesStayInBounds
<1>1. BuilderInv => CopiesStayInBounds
  BY DEF BuilderInv
<1>2. QED
  BY <1>1, BuilderInvHolds, PTL

-----------------------------------------------------------------------------
(* Ownership.  Every buffer has one owner at most, and therefore no push   *)
(* onto the queues fails.  The argument follows a buffer round the server: *)
(* a thread takes it out of a queue before it works on it, and has let go  *)
(* of it before any other thread can take it.                              *)
OwnerInv == BuilderInv /\ OneOwner

\* Where the buffers are.
places == <<unusedSampleQueue, sampleQueue, currentAudioBuffer, sampleBuffer, freed>>

-----------------------------------------------------------------------------
(* Queues.                                                                 *)

\* A pop leaves the others in the queue.
LEMMA PopKeepsOthers ==
  ASSUME NEW q \in Seq(Buffers), q # <<>>
  PROVE  InQueue(q) = InQueue(Tail(q)) \cup {Head(q)}
<1>1. /\ Len(q) \in Nat \ {0} /\ DOMAIN q = 1 .. Len(q) /\ Head(q) = q[1]
      /\ DOMAIN Tail(q) = 1 .. Len(q) - 1
      /\ \A i \in DOMAIN Tail(q) : Tail(q)[i] = q[i + 1]
  OBVIOUS
<1>2. ASSUME NEW b \in InQueue(q)
      PROVE  b \in InQueue(Tail(q)) \cup {Head(q)}
  <2>1. PICK i \in 1 .. Len(q) : b = q[i]
    BY <1>1 DEF InQueue
  <2>2. CASE i = 1
    BY <1>1, <2>1, <2>2
  <2>3. CASE i # 1
    <3>1. i - 1 \in DOMAIN Tail(q) /\ (i - 1) + 1 = i
      BY <1>1, <2>3
    <3>2. Tail(q)[i - 1] = b
      BY <1>1, <2>1, <3>1
    <3>3. QED
      BY <3>1, <3>2 DEF InQueue
  <2>4. QED
    BY <2>2, <2>3
<1>3. InQueue(Tail(q)) \cup {Head(q)} \subseteq InQueue(q)
  BY <1>1 DEF InQueue
<1>4. QED
  BY <1>2, <1>3

\* A push adds a buffer to those in the queue.
LEMMA PushKeepsOthers ==
  ASSUME NEW q \in Seq(Buffers), NEW b \in Buffers
  PROVE  InQueue(Append(q, b)) = InQueue(q) \cup {b}
<1>1. /\ Len(q) \in Nat /\ DOMAIN q = 1 .. Len(q)
      /\ DOMAIN Append(q, b) = 1 .. Len(q) + 1
      /\ Append(q, b)[Len(q) + 1] = b
      /\ \A i \in DOMAIN q : Append(q, b)[i] = q[i]
  OBVIOUS
<1>2. \A i \in DOMAIN Append(q, b) : i \in DOMAIN q \/ i = Len(q) + 1
  BY <1>1
<1>3. QED
  BY <1>1, <1>2 DEF InQueue

\* A pop takes the first buffer out of a queue without duplicates.
LEMMA PopQueue ==
  ASSUME NEW q \in Seq(Buffers), q # <<>>, NoDuplicates(q)
  PROVE  /\ Head(q) \in InQueue(q) /\ Head(q) \notin InQueue(Tail(q))
         /\ InQueue(Tail(q)) \subseteq InQueue(q)
         /\ NoDuplicates(Tail(q))
<1>1. /\ Len(q) \in Nat \ {0} /\ DOMAIN q = 1 .. Len(q) /\ Head(q) = q[1]
      /\ DOMAIN Tail(q) = 1 .. Len(q) - 1
      /\ \A i \in DOMAIN Tail(q) : Tail(q)[i] = q[i + 1]
  OBVIOUS
<1>2. Head(q) \in InQueue(q)
  BY PopKeepsOthers
<1>3. InQueue(Tail(q)) \subseteq InQueue(q)
  BY PopKeepsOthers
<1>4. Head(q) \notin InQueue(Tail(q))
  BY <1>1 DEF InQueue, NoDuplicates
<1>5. NoDuplicates(Tail(q))
  BY <1>1 DEF NoDuplicates
<1>6. QED
  BY <1>2, <1>3, <1>4, <1>5

\* A push of a buffer that is not in the queue makes no duplicate.
LEMMA PushQueue ==
  ASSUME NEW q \in Seq(Buffers), NEW b \in Buffers, b \notin InQueue(q), NoDuplicates(q)
  PROVE  /\ InQueue(Append(q, b)) = InQueue(q) \cup {b}
         /\ NoDuplicates(Append(q, b))
<1>1. /\ Len(q) \in Nat /\ DOMAIN q = 1 .. Len(q)
      /\ DOMAIN Append(q, b) = 1 .. Len(q) + 1
      /\ Append(q, b)[Len(q) + 1] = b
      /\ \A i \in DOMAIN q : Append(q, b)[i] = q[i]
  OBVIOUS
<1>2. \A i \in DOMAIN Append(q, b) : i \in DOMAIN q \/ i = Len(q) + 1
  BY <1>1
<1>3. InQueue(Append(q, b)) = InQueue(q) \cup {b}
  BY PushKeepsOthers
<1>4. NoDuplicates(Append(q, b))
  BY <1>1, <1>2 DEF NoDuplicates, InQueue
<1>5. QED
  BY <1>3, <1>4

\* A queue without duplicates that lacks a buffer has room for it.
LEMMA QueueHasRoom ==
  ASSUME NEW q \in Seq(Buffers), NEW b \in Buffers, b \notin InQueue(q), NoDuplicates(q)
  PROVE  Len(q) < Cardinality(Buffers)
<1>1. Len(q) \in Nat /\ DOMAIN q = 1 .. Len(q) /\ q \in [1 .. Len(q) -> Buffers]
  OBVIOUS
<1>2. q \in [1 .. Len(q) -> Buffers \ {b}]
  BY <1>1 DEF InQueue
<1>3. q \in Injection(1 .. Len(q), Buffers \ {b})
  BY <1>1, <1>2 DEF NoDuplicates, Injection, IsInjective
<1>4. /\ IsFiniteSet(Buffers \ {b}) /\ Cardinality(Buffers) \in Nat
      /\ Cardinality(Buffers \ {b}) = Cardinality(Buffers) - 1
  BY SEServerAssumption, FS_RemoveElement, FS_CardinalityType
<1>5. Cardinality(1 .. Len(q)) <= Cardinality(Buffers \ {b})
  BY <1>3, <1>4, FS_Injection
<1>6. Cardinality(1 .. Len(q)) = Len(q)
  BY <1>1, FS_Interval
<1>7. QED
  BY <1>1, <1>4, <1>5, <1>6

-----------------------------------------------------------------------------
(* The steps that move a buffer.                                           *)

LEMMA InitOneOwner == Init => OneOwner
<1> SUFFICES ASSUME Init PROVE OneOwner
  OBVIOUS
<1>1. BufferType
  BY InitBuilderInv DEF BuilderInv, TypeOK
<1>2. /\ NoDuplicates(unusedSampleQueue) /\ NoDuplicates(sampleQueue)
      /\ sampleQueue = <<>> /\ currentAudioBuffer = NoBuffer
      /\ sampleBuffer = NoBuffer /\ freed = {}
  BY DEF Init, NoDuplicates
<1>3. InQueue(sampleQueue) = {}
  BY <1>2 DEF InQueue
<1>4. NoBuffer \notin InQueue(unusedSampleQueue)
  BY <1>1, SEServerAssumption DEF InQueue, BufferType
<1>5. QED
  BY <1>2, <1>3, <1>4 DEF OneOwner

\* Who is where does not change when no place does.
LEMMA UnchangedPlaces == OneOwner /\ UNCHANGED places => OneOwner'
BY DEF OneOwner, places, NoDuplicates, InQueue

\* NoBuffer is in no queue, and the queues hold buffers.
LEMMA QueuesHoldBuffers ==
  TypeOK => /\ InQueue(unusedSampleQueue) \subseteq Buffers
            /\ InQueue(sampleQueue) \subseteq Buffers
            /\ NoBuffer \notin InQueue(unusedSampleQueue)
            /\ NoBuffer \notin InQueue(sampleQueue)
            /\ NoBuffer \notin freed
BY SEServerAssumption DEF TypeOK, BufferType, InQueue

LEMMA PopOwner ==
  ASSUME OwnerInv, NEW here, NEW next, PopAndCopy(here, next)
  PROVE  OneOwner'
<1>1. TypeOK /\ OneOwner
  BY DEF OwnerInv, BuilderInv
<1> DEFINE b == Head(unusedSampleQueue)
<1>2. /\ unusedSampleQueue # <<>> /\ unusedSampleQueue' = Tail(unusedSampleQueue)
      /\ currentAudioBuffer' = b
      /\ UNCHANGED <<sampleQueue, freed, sampleBuffer>>
  BY DEF PopAndCopy, StartCopy, callbackVars
<1>3. unusedSampleQueue \in Seq(Buffers) /\ NoDuplicates(unusedSampleQueue)
  BY <1>1 DEF TypeOK, BufferType, OneOwner
<1>4. /\ b \in InQueue(unusedSampleQueue) /\ b \notin InQueue(unusedSampleQueue')
      /\ InQueue(unusedSampleQueue') \subseteq InQueue(unusedSampleQueue)
      /\ NoDuplicates(unusedSampleQueue')
  BY <1>2, <1>3, PopQueue
<1>5. /\ InQueue(sampleQueue') = InQueue(sampleQueue)
      /\ NoDuplicates(sampleQueue') <=> NoDuplicates(sampleQueue)
  BY <1>2
<1> HIDE DEF b
<1>6. QED
  BY <1>1, <1>2, <1>4, <1>5 DEF OneOwner

LEMMA CopiedOwner ==
  ASSUME OwnerInv, NEW here \in CopySteps, NEW next, NEW more \in BOOLEAN,
         Copied(here, next, more)
  PROVE  OneOwner'
<1>1. TypeOK /\ OneOwner /\ currentAudioBuffer \in Buffers
  BY DEF OwnerInv, BuilderInv, Copied
<1>2. CASE Len(content[currentAudioBuffer]) = BufferSize
  <2>1. /\ sampleQueue' = Append(sampleQueue, currentAudioBuffer)
        /\ currentAudioBuffer' = NoBuffer
        /\ UNCHANGED <<unusedSampleQueue, freed, sampleBuffer>>
    BY <1>2 DEF Copied, FinishCopy, PushFullBuffer, callbackVars
  <2>2. /\ sampleQueue \in Seq(Buffers) /\ NoDuplicates(sampleQueue)
        /\ currentAudioBuffer \notin InQueue(sampleQueue)
    BY <1>1 DEF TypeOK, BufferType, OneOwner
  <2>3. /\ InQueue(sampleQueue') = InQueue(sampleQueue) \cup {currentAudioBuffer}
        /\ NoDuplicates(sampleQueue')
    BY <1>1, <2>1, <2>2, PushQueue
  <2>4. /\ InQueue(unusedSampleQueue') = InQueue(unusedSampleQueue)
        /\ NoDuplicates(unusedSampleQueue') <=> NoDuplicates(unusedSampleQueue)
    BY <2>1
  <2>5. /\ currentAudioBuffer # NoBuffer
        /\ sampleBuffer # NoBuffer => sampleBuffer # currentAudioBuffer
    BY <1>1, SEServerAssumption DEF OneOwner
  <2>6. QED
    BY <1>1, <2>1, <2>3, <2>4, <2>5, QueuesHoldBuffers DEF OneOwner
<1>3. CASE Len(content[currentAudioBuffer]) # BufferSize
  BY <1>1, <1>3, UnchangedPlaces DEF Copied, FinishCopy, PushFullBuffer, places, callbackVars
<1>4. QED
  BY <1>2, <1>3

\* The builder lets go of its buffer, to the heap or to no one.
LEMMA LetGoOwner ==
  ASSUME OwnerInv, WakeFatal \/ DrainFails \/ SliceFails
  PROVE  OneOwner'
<1>1. TypeOK /\ OneOwner
  BY DEF OwnerInv, BuilderInv
<1>2. /\ currentAudioBuffer' = NoBuffer
      /\ UNCHANGED <<unusedSampleQueue, sampleQueue, sampleBuffer>>
      /\ freed' \subseteq freed \cup {currentAudioBuffer}
      /\ freed' # freed => currentAudioBuffer # NoBuffer
  BY DEF WakeFatal, DrainFails, SliceFails, PopFails, callbackVars
<1>3. /\ InQueue(unusedSampleQueue') = InQueue(unusedSampleQueue)
      /\ InQueue(sampleQueue') = InQueue(sampleQueue)
      /\ NoDuplicates(unusedSampleQueue') <=> NoDuplicates(unusedSampleQueue)
      /\ NoDuplicates(sampleQueue') <=> NoDuplicates(sampleQueue)
  BY <1>2
<1>4. NoBuffer \notin freed'
  BY <1>1, <1>2, QueuesHoldBuffers
<1>5. QED
  BY <1>1, <1>2, <1>3, <1>4, QueuesHoldBuffers DEF OneOwner

LEMMA FillOwner == OwnerInv /\ Fill => OneOwner'
BY UnchangedPlaces DEF OwnerInv, Fill, StartCopy, places, callbackVars

\* The builder's other steps move no buffer.
LEMMA QuietBuilderOwner ==
  ASSUME OwnerInv,
         \/ LoopHead \/ WakeWithoutData \/ Wake \/ SetFlags \/ ReadReady
         \/ StartPlaying \/ ReadStateAgain \/ CreateFrame \/ AdvanceFrame
         \/ SetupPacket \/ FrameDataFails \/ FillThroughNull \/ NextFrame
         \/ BuilderSetsNoData \/ BuilderClears
  PROVE  OneOwner'
BY UnchangedPlaces DEF OwnerInv, LoopHead, WakeWithoutData, Wake, SetFlags,
   ReadReady, StartPlaying, ReadStateAgain, CreateFrame, AdvanceFrame, SetupPacket,
   FrameDataFails, FillThroughNull, NextFrame, BuilderSetsNoData, BuilderClears,
   places, bufferVars, callbackVars

LEMMA PlayOwner == OwnerInv /\ Play1Buffer => OneOwner'
<1> SUFFICES ASSUME OwnerInv, Play1Buffer PROVE OneOwner'
  OBVIOUS
<1>1. TypeOK /\ OneOwner
  BY DEF OwnerInv, BuilderInv
<1> DEFINE b == Head(sampleQueue)
<1>2. /\ sampleQueue # <<>> /\ sampleQueue' = Tail(sampleQueue)
      /\ sampleBuffer' = b
      /\ UNCHANGED <<unusedSampleQueue, freed, currentAudioBuffer>>
  BY DEF Play1Buffer
<1>3. sampleQueue \in Seq(Buffers) /\ NoDuplicates(sampleQueue)
  BY <1>1 DEF TypeOK, BufferType, OneOwner
<1>4. /\ b \in InQueue(sampleQueue) /\ b \notin InQueue(sampleQueue')
      /\ InQueue(sampleQueue') \subseteq InQueue(sampleQueue)
      /\ NoDuplicates(sampleQueue')
  BY <1>2, <1>3, PopQueue
<1>5. /\ InQueue(unusedSampleQueue') = InQueue(unusedSampleQueue)
      /\ NoDuplicates(unusedSampleQueue') <=> NoDuplicates(unusedSampleQueue)
  BY <1>2
<1> HIDE DEF b
<1>6. QED
  BY <1>1, <1>2, <1>4, <1>5 DEF OneOwner

LEMMA ReturnOwner == OwnerInv /\ ReturnBuffer => OneOwner'
<1> SUFFICES ASSUME OwnerInv, ReturnBuffer PROVE OneOwner'
  OBVIOUS
<1>1. TypeOK /\ OneOwner /\ sampleBuffer \in Buffers /\ sampleBuffer # NoBuffer
  BY DEF OwnerInv, BuilderInv, ReturnBuffer, BufferPopped, TypeOK, CallbackType
<1>2. /\ unusedSampleQueue' = Append(unusedSampleQueue, sampleBuffer)
      /\ sampleBuffer' = NoBuffer
      /\ UNCHANGED <<sampleQueue, freed, currentAudioBuffer>>
  BY DEF ReturnBuffer, PushPlayedBuffer
<1>3. /\ unusedSampleQueue \in Seq(Buffers) /\ NoDuplicates(unusedSampleQueue)
      /\ sampleBuffer \notin InQueue(unusedSampleQueue)
  BY <1>1 DEF TypeOK, BufferType, OneOwner
<1>4. /\ InQueue(unusedSampleQueue') = InQueue(unusedSampleQueue) \cup {sampleBuffer}
      /\ NoDuplicates(unusedSampleQueue')
  BY <1>1, <1>2, <1>3, PushQueue
<1>5. /\ InQueue(sampleQueue') = InQueue(sampleQueue)
      /\ NoDuplicates(sampleQueue') <=> NoDuplicates(sampleQueue)
  BY <1>2
<1>6. QED
  BY <1>1, <1>2, <1>4, <1>5, QueuesHoldBuffers DEF OneOwner

LEMMA UserOwner == OwnerInv /\ User => OneOwner'
<1> SUFFICES ASSUME OwnerInv, User PROVE OneOwner'
  OBVIOUS
<1>1. TypeOK /\ OneOwner
  BY DEF OwnerInv, BuilderInv
<1>2. CASE Joined
  <2>1. /\ unusedSampleQueue' = <<>> /\ sampleQueue' = <<>>
        /\ currentAudioBuffer' = NoBuffer /\ sampleBuffer' = sampleBuffer
        /\ freed' = freed \cup InQueue(unusedSampleQueue) \cup InQueue(sampleQueue)
                      \cup ({currentAudioBuffer} \ {NoBuffer})
    BY <1>2 DEF Joined, callbackVars
  <2>2. /\ InQueue(unusedSampleQueue') = {} /\ InQueue(sampleQueue') = {}
        /\ NoDuplicates(unusedSampleQueue') /\ NoDuplicates(sampleQueue')
    BY <2>1 DEF InQueue, NoDuplicates
  <2>3. NoBuffer \notin freed'
    BY <1>1, <2>1, QueuesHoldBuffers
  <2>4. sampleBuffer \notin freed'
    BY <1>1, <2>1, <2>3 DEF OneOwner
  <2>5. QED
    BY <2>1, <2>2, <2>3, <2>4 DEF OneOwner
<1>3. CASE \/ Pause \/ Stop \/ Play \/ SetFrame \/ SetStateStep \/ SetFrameStep
           \/ Initialize \/ Reset \/ ResetStep \/ ClearStep
           \/ Destroy \/ SetProcessorIsReady \/ SetPlayoutID
  <2>1. UNCHANGED places
    BY <1>3 DEF Pause, Stop, Play, SetFrame, SetStateStep, SetFrameStep, Initialize,
       Reset, ResetStep, ClearStep, Destroy, SetProcessorIsReady, SetPlayoutID,
       Begins, UserSetsState, places, bufferVars, callbackVars
  <2>2. QED
    BY <1>1, <2>1, UnchangedPlaces
<1>4. QED
  BY <1>2, <1>3 DEF User

LEMMA BuilderOwner == OwnerInv /\ Builder => OneOwner'
<1> SUFFICES ASSUME OwnerInv, Builder PROVE OneOwner'
  OBVIOUS
<1>1. CASE Drain \/ Slice
  BY <1>1, PopOwner DEF Drain, Slice
<1>2. CASE Drained \/ Filled \/ Sliced
  <2>1. needMore \in BOOLEAN /\ FALSE \in BOOLEAN
    BY DEF OwnerInv, BuilderInv, TypeOK, BuilderType
  <2>2. QED
    BY <1>2, <2>1, CopiedOwner DEF Drained, Filled, Sliced, CopySteps
<1>3. CASE WakeFatal \/ DrainFails \/ SliceFails \/ Fill
  BY <1>3, LetGoOwner, FillOwner
<1>4. CASE ~(\/ Drain \/ Slice \/ Drained \/ Filled \/ Sliced
             \/ WakeFatal \/ DrainFails \/ SliceFails \/ Fill)
  BY <1>4, QuietBuilderOwner DEF Builder
<1>5. QED
  BY <1>1, <1>2, <1>3, <1>4

-----------------------------------------------------------------------------
(* The theorems about the buffers.                                         *)

LEMMA OwnerInvInductive == OwnerInv /\ [Next]_vars => OwnerInv'
<1> SUFFICES ASSUME OwnerInv, [Next]_vars PROVE OwnerInv'
  OBVIOUS
<1>1. BuilderInv'
  BY BuilderInvInductive DEF OwnerInv
<1>2. Next => OneOwner'
  BY BuilderOwner, PlayOwner, ReturnOwner, UserOwner DEF Next, audioDeviceIOCallback
<1>3. UNCHANGED vars => OneOwner'
  BY UnchangedPlaces DEF OwnerInv, vars, places, bufferVars, callbackVars
<1>4. QED
  BY <1>1, <1>2, <1>3 DEF OwnerInv

LEMMA OwnerInvHolds == Spec => []OwnerInv
<1>1. Init => OwnerInv
  BY InitBuilderInv, InitOneOwner DEF OwnerInv
<1>2. QED
  BY <1>1, OwnerInvInductive, PTL DEF Spec

\* No buffer is ever owned by two: the lock-free exchange between the builder,
\* the callback and the destructor is sound for any number of buffers.
THEOREM BuffersHaveOneOwner == Spec => []OneOwner
<1>1. OwnerInv => OneOwner
  BY DEF OwnerInv
<1>2. QED
  BY <1>1, OwnerInvHolds, PTL

\* The queues, as large as there are buffers, have room for every push: the
\* buffer that is pushed is in neither, and no queue holds a buffer twice.
THEOREM PushesSucceed == Spec => []PushNeverFails
<1>1. OwnerInv => PushNeverFails
  <2> SUFFICES ASSUME OwnerInv PROVE PushNeverFails
    OBVIOUS
  <2>1. TypeOK /\ OneOwner /\ (pc \in CopySteps => currentAudioBuffer \in Buffers)
    BY DEF OwnerInv, BuilderInv
  <2>2. /\ unusedSampleQueue \in Seq(Buffers) /\ sampleQueue \in Seq(Buffers)
        /\ NoDuplicates(unusedSampleQueue) /\ NoDuplicates(sampleQueue)
        /\ currentAudioBuffer \notin InQueue(sampleQueue)
        /\ sampleBuffer \notin InQueue(unusedSampleQueue)
        /\ sampleBuffer # NoBuffer => sampleBuffer \in Buffers
    BY <2>1 DEF TypeOK, BufferType, CallbackType, OneOwner
  <2>3. pc \in CopySteps => Len(sampleQueue) < Cardinality(Buffers)
    BY <2>1, <2>2, QueueHasRoom
  <2>4. sampleBuffer # NoBuffer => Len(unusedSampleQueue) < Cardinality(Buffers)
    BY <2>2, QueueHasRoom
  <2>5. QED
    BY <2>3, <2>4 DEF PushNeverFails, CopySteps
<1>2. QED
  BY <1>1, OwnerInvHolds, PTL

-----------------------------------------------------------------------------
(* What the packets say of the show.                                       *)

\* A packet that says the show is playing is of a frame before the length.
Within(packet, length) == packet.flags = PlayingFlag => packet.index < length

AllWithin(s, length) == \A i \in DOMAIN s : Within(s[i].packet, length)

\* The packet being put together is only looked at once its frame is decided; until
\* then, and for a builder that did not see Playing, it does not say so.
SyncWithin ==
  /\ pc \in {"advance", "setup"} => Within(syncSamp, showLength)
  /\ pc \in {"waiting", "start", "startUnready", "reread"} => syncSamp.flags = PausedFlag
  /\ pc \in {"create", "advance", "setup", "fill", "filled", "slice", "sliced"}
     /\ seen # "Playing" => syncSamp.flags # PlayingFlag
  /\ pc \in {"drain", "drained"} => seen # "NoData"

SamplesWithin == /\ Within(frameBuffer, showLength)
                 /\ \A b \in Buffers : AllWithin(content[b], showLength)

LengthHolds ==
  /\ sessions = 0 => showLength = 0
  /\ sessions # 0 => showLength \in ShowLengths

\* The server is set up for one show, however often.
OneShow == MaxSessions <= 1 \/ \A m, n \in ShowLengths : m = n

LEMMA LengthGrows ==
  ASSUME BuilderInv, LengthHolds, OneShow, [Next]_vars
  PROVE  LengthHolds' /\ showLength <= showLength'
<1>1. showLength \in Nat /\ sessions \in 0 .. MaxSessions /\ MaxSessions \in Nat
  BY SEServerAssumption DEF BuilderInv, TypeOK, TimelineType, UserType
<1>2. CASE UNCHANGED <<showLength, sessions>>
  BY <1>1, <1>2 DEF LengthHolds
<1>3. CASE Initialize
  <2>1. /\ sessions < MaxSessions /\ sessions' = sessions + 1 /\ showLength' \in ShowLengths
    BY <1>3 DEF Initialize
  <2>2. showLength' \in Nat
    BY <2>1, SEServerAssumption
  <2>3. sessions = 0 => showLength <= showLength'
    BY <1>1, <2>2 DEF LengthHolds
  <2>4. sessions # 0 => showLength = showLength'
    <3>1. sessions # 0 => ~(MaxSessions <= 1)
      BY <1>1, <2>1
    <3>2. QED
      BY <2>1, <3>1 DEF LengthHolds, OneShow
  <2>5. LengthHolds'
    BY <1>1, <2>1 DEF LengthHolds
  <2>6. QED
    BY <1>1, <2>3, <2>4, <2>5
<1>4. CASE Builder
  BY <1>2, <1>4 DEF Builder, LoopHead, WakeWithoutData, Wake, WakeFatal, Drain, DrainFails,
     Drained, SetFlags, ReadReady, StartPlaying, ReadStateAgain, CreateFrame, AdvanceFrame,
     SetupPacket, FrameDataFails, Fill, FillThroughNull, Filled, Slice, SliceFails, Sliced,
     NextFrame, BuilderSetsNoData, BuilderClears, PopAndCopy, PopFails, Copied, sharedVars,
     timeline, userVars
<1>5. CASE audioDeviceIOCallback
  BY <1>2, <1>5 DEF audioDeviceIOCallback, Play1Buffer, ReturnBuffer, sharedVars, timeline,
     userVars
<1>6. CASE User /\ ~Initialize
  BY <1>2, <1>6 DEF User, Pause, Stop, Play, SetFrame, SetStateStep, SetFrameStep, Reset,
     ResetStep, ClearStep, Destroy, Joined, SetProcessorIsReady, SetPlayoutID, Begins,
     UserSetsState, sharedVars, timeline, userVars
<1>7. CASE UNCHANGED vars
  BY <1>2, <1>7 DEF vars, sharedVars, timeline, userVars
<1>8. QED
  BY <1>3, <1>4, <1>5, <1>6, <1>7 DEF Next

LEMMA StillWithin ==
  ASSUME NEW packet \in Packets \cup {Silence}, NEW m \in Nat, NEW n \in Nat, m <= n,
         Within(packet, m)
  PROVE  Within(packet, n)
BY DEF Within, Packets, Silence, StoppedFlag, PlayingFlag

LEMMA SyncWithinKept ==
  ASSUME BuilderInv, BuilderInv', SyncWithin, showLength <= showLength', [Next]_vars
  PROVE  SyncWithin'
<1>1. /\ syncSamp \in Packets /\ showLength \in Nat /\ showLength' \in Nat
      /\ currentFrame \in Nat /\ state \in States
  BY DEF BuilderInv, TypeOK, FrameType, TimelineType
<1>2. Within(syncSamp, showLength) => Within(syncSamp, showLength')
  BY <1>1, StillWithin
<1>3. CASE UNCHANGED <<pc, seen, syncSamp>>
  BY <1>2, <1>3 DEF SyncWithin
<1>4. CASE SetFlags
  <2>1. pc = "drain" /\ seen # "NoData" /\ seen \in States
    BY <1>4 DEF SetFlags, SyncWithin, BuilderInv, TypeOK, BuilderType
  <2>2. UNCHANGED seen
    BY <1>4 DEF SetFlags, roundVars
  <2>3. CASE seen \in {"Paused", "WaitingToPlay"}
    BY <1>4, <2>2, <2>3 DEF SetFlags, SyncWithin, PausedFlag, PlayingFlag
  <2>4. CASE seen = "Stopped"
    BY <1>4, <2>2, <2>4 DEF SetFlags, SyncWithin, StoppedFlag, PlayingFlag
  <2>5. CASE seen = "Playing"
    BY <1>4, <2>2, <2>5 DEF SetFlags, SyncWithin
  <2>6. QED
    BY <2>1, <2>3, <2>4, <2>5 DEF States
<1>5. CASE CreateFrame
  <2>1. CASE seen = "Playing" /\ ~EndOfShow
    <3>1. /\ syncSamp' = [index |-> currentFrame, flags |-> PlayingFlag]
          /\ pc' = "advance" /\ UNCHANGED <<seen, showLength>>
      BY <1>5, <2>1 DEF CreateFrame, timeline, roundVars
    <3>2. currentFrame < showLength
      BY <1>1, <2>1 DEF EndOfShow
    <3>3. Within(syncSamp', showLength') /\ seen' = "Playing"
      BY <2>1, <3>1, <3>2 DEF Within
    <3>4. QED
      BY <3>1, <3>3 DEF SyncWithin
  <2>2. CASE seen = "Playing" /\ EndOfShow
    BY <1>5, <2>2 DEF CreateFrame, SyncWithin
  <2>3. CASE seen # "Playing"
    BY <1>5, <2>3 DEF CreateFrame, SyncWithin, roundVars, Within
  <2>4. QED
    BY <2>1, <2>2, <2>3
<1>6. CASE BuilderClears
  BY <1>6 DEF BuilderClears, SyncWithin
<1>7. CASE ClearStep
  <2>1. syncSamp' = ClearedSync /\ UNCHANGED <<pc, seen>>
    BY <1>7 DEF ClearStep, ClearFrame, builderVars, roundVars
  <2>2. syncSamp'.index = 0 /\ syncSamp'.flags = syncSamp.flags /\ syncSamp.index \in Nat
    BY <1>1, <2>1 DEF ClearedSync, Packets
  <2>3. Within(syncSamp, showLength) => Within(syncSamp', showLength')
    BY <1>1, <2>2 DEF Within
  <2>4. QED
    BY <2>1, <2>2, <2>3 DEF SyncWithin
<1>8. CASE \/ Wake \/ ReadReady \/ StartPlaying \/ ReadStateAgain \/ AdvanceFrame
           \/ SetupPacket \/ FrameDataFails \/ NextFrame
  <2>1. UNCHANGED <<syncSamp, showLength>>
    BY <1>8 DEF Wake, ReadReady, StartPlaying, ReadStateAgain, AdvanceFrame, SetupPacket,
       FrameDataFails, NextFrame, sharedVars, frameVars, timeline
  <2>2. CASE Wake \/ ReadReady \/ StartPlaying \/ ReadStateAgain
    BY <2>1, <2>2 DEF Wake, ReadReady, StartPlaying, ReadStateAgain, SyncWithin, roundVars,
       PausedFlag, PlayingFlag
  <2>3. CASE AdvanceFrame
    BY <2>1, <2>3 DEF AdvanceFrame, SyncWithin, roundVars
  <2>4. CASE SetupPacket \/ FrameDataFails \/ NextFrame
    BY <2>1, <2>4 DEF SetupPacket, FrameDataFails, NextFrame, SyncWithin, roundVars
  <2>5. QED
    BY <1>8, <2>2, <2>3, <2>4
<1>9. CASE Drain \/ DrainFails \/ Drained \/ Slice \/ SliceFails \/ Sliced \/ Fill \/ Filled
  <2>1. UNCHANGED <<syncSamp, showLength, seen>>
    BY <1>9 DEF Drain, DrainFails, Drained, Slice, SliceFails, Sliced, Fill, Filled, PopAndCopy,
       PopFails, Copied, sharedVars, frameVars, timeline, roundVars
  <2>2. \/ pc' = "head"
        \/ pc \in {"drain", "drained"} /\ pc' \in {"drain", "drained"}
        \/ pc \in {"fill", "filled", "slice", "sliced"}
           /\ pc' \in {"filled", "slice", "sliced"}
    BY <1>9 DEF Drain, DrainFails, Drained, Slice, SliceFails, Sliced, Fill, Filled, PopAndCopy,
       PopFails, Copied
  <2>3. QED
    BY <2>1, <2>2 DEF SyncWithin
<1>10. CASE LoopHead \/ WakeWithoutData \/ WakeFatal \/ FillThroughNull \/ BuilderSetsNoData
  BY <1>10 DEF LoopHead, WakeWithoutData, WakeFatal, FillThroughNull, BuilderSetsNoData,
     SyncWithin
<1>11. CASE audioDeviceIOCallback
  BY <1>3, <1>11 DEF audioDeviceIOCallback, Play1Buffer, ReturnBuffer, sharedVars, frameVars,
     builderVars, roundVars
<1>12. CASE User /\ ~ClearStep
  BY <1>3, <1>12 DEF User, Pause, Stop, Play, SetFrame, SetStateStep, SetFrameStep, Initialize,
     Reset, ResetStep, Destroy, Joined, SetProcessorIsReady, SetPlayoutID, Begins, UserSetsState,
     sharedVars, frameVars, builderVars, roundVars
<1>13. CASE UNCHANGED vars
  BY <1>3, <1>13 DEF vars, sharedVars, frameVars, builderVars, roundVars
<1>14. QED
  BY <1>4, <1>5, <1>6, <1>7, <1>8, <1>9, <1>10, <1>11, <1>12, <1>13 DEF Next, Builder
\* What goes into a buffer is of the packet in the frame buffer.
LEMMA CopyWithin ==
  ASSUME BuilderInv, SamplesWithin, NEW b \in Buffers, NEW done \in Seq(Samples), NEW n \in Nat,
         AllWithin(done, showLength), StartCopy(b, done, n), UNCHANGED <<frameBuffer, showLength>>
  PROVE  SamplesWithin'
<1> DEFINE chunk == Chunk(frameBuffer, offsetIntoFrame, currentFrameDuration, n)
<1>1. /\ frameBuffer \in Packets \cup {Silence} /\ offsetIntoFrame \in Nat
      /\ currentFrameDuration \in Nat /\ content \in [Buffers -> Seq(Samples)]
      /\ content' = [content EXCEPT ![b] = done \o chunk]
  BY DEF BuilderInv, TypeOK, FrameType, BufferType, StartCopy
<1>2. chunk \in Seq(Samples) /\ Len(chunk) = n
  BY <1>1, ChunkType
<1>3. AllWithin(chunk, showLength)
  <2>1. \A i \in 1 .. n : chunk[i].packet = frameBuffer
    BY DEF Chunk
  <2>2. DOMAIN chunk = 1 .. n
    BY <1>2
  <2>3. QED
    BY <2>1, <2>2 DEF AllWithin, SamplesWithin
<1> HIDE DEF chunk
<1>4. AllWithin(done \o chunk, showLength)
  <2>1. \A i \in DOMAIN (done \o chunk) :
          \/ i \in DOMAIN done /\ (done \o chunk)[i] = done[i]
          \/ i - Len(done) \in DOMAIN chunk /\ (done \o chunk)[i] = chunk[i - Len(done)]
    BY <1>2
  <2>2. QED
    BY <1>3, <2>1 DEF AllWithin
<1>5. content'[b] = done \o chunk /\ \A c \in Buffers \ {b} : content'[c] = content[c]
  BY <1>1
<1>6. \A c \in Buffers : AllWithin(content'[c], showLength)
  BY <1>4, <1>5 DEF SamplesWithin
<1>7. QED
  BY <1>6 DEF SamplesWithin

LEMMA SamplesWithinKept ==
  ASSUME BuilderInv, SyncWithin, SamplesWithin, showLength <= showLength',
         showLength' \in Nat, [Next]_vars
  PROVE  SamplesWithin'
<1>1. /\ syncSamp \in Packets /\ showLength \in Nat
      /\ frameBuffer \in Packets \cup {Silence} /\ content \in [Buffers -> Seq(Samples)]
  BY DEF BuilderInv, TypeOK, FrameType, TimelineType, BufferType
<1>2. \A b \in Buffers : AllWithin(content[b], showLength')
  <2>1. SUFFICES ASSUME NEW b \in Buffers, NEW i \in DOMAIN content[b]
                 PROVE  Within(content[b][i].packet, showLength')
    BY DEF AllWithin
  <2>2. content[b][i].packet \in Packets \cup {Silence}
    <3>1. content[b][i] \in Samples
      BY <1>1
    <3>2. QED
      BY <3>1 DEF Samples
  <2>3. Within(content[b][i].packet, showLength)
    BY DEF SamplesWithin, AllWithin
  <2>4. QED
    BY <1>1, <2>2, <2>3, StillWithin
<1>3. Within(frameBuffer, showLength')
  BY <1>1, StillWithin DEF SamplesWithin
<1>4. Within(Silence, showLength')
  BY DEF Within, Silence, StoppedFlag, PlayingFlag
<1>5. CASE UNCHANGED content /\ frameBuffer' \in {frameBuffer, Silence}
  BY <1>2, <1>3, <1>4, <1>5 DEF SamplesWithin
<1>6. CASE SetupPacket
  <2>1. /\ frameBuffer' = [index |-> syncSamp.index, flags |-> syncSamp.flags]
        /\ UNCHANGED <<content, showLength>> /\ Within(syncSamp, showLength)
    BY <1>6 DEF SetupPacket, bufferVars, timeline, SyncWithin
  <2>2. Within(frameBuffer', showLength')
    BY <2>1 DEF Within
  <2>3. QED
    BY <1>2, <2>1, <2>2 DEF SamplesWithin
<1>7. CASE Drain \/ Slice
  <2> DEFINE n == Lesser(BufferSize, currentFrameDuration - offsetIntoFrame)
  <2>1. /\ Head(unusedSampleQueue) \in Buffers
        /\ offsetIntoFrame < currentFrameDuration /\ offsetIntoFrame \in Nat
        /\ currentFrameDuration \in Nat
    BY <1>7 DEF Drain, Slice, PopAndCopy, BuilderInv, TypeOK, BufferType, FrameType
  <2>2. n \in Nat
    BY <2>1, SEServerAssumption DEF Lesser
  <2>3. StartCopy(Head(unusedSampleQueue), <<>>, n) /\ UNCHANGED <<frameBuffer, showLength>>
    BY <1>7 DEF Drain, Slice, PopAndCopy, sharedVars, frameVars, timeline
  <2> HIDE DEF n
  <2>4. <<>> \in Seq(Samples) /\ AllWithin(<<>>, showLength)
    BY DEF AllWithin
  <2>5. QED
    BY <2>1, <2>2, <2>3, <2>4, CopyWithin
<1>8. CASE Fill
  <2> DEFINE b == currentAudioBuffer
             n == Lesser(BufferSize - Len(content[b]), currentFrameDuration - offsetIntoFrame)
  <2>1. b \in Buffers /\ content[b] \in Seq(Samples)
    BY <1>1, <1>8 DEF Fill, BuilderInv, TypeOK, BufferType
  <2>2. /\ offsetIntoFrame \in Nat /\ currentFrameDuration \in Nat
        /\ offsetIntoFrame <= currentFrameDuration
        /\ Len(content[b]) \in Nat /\ Len(content[b]) <= BufferSize
    BY <2>1 DEF BuilderInv, TypeOK, FrameType, CopiesStayInBounds
  <2>3. n \in Nat
    BY <2>2, SEServerAssumption DEF Lesser
  <2>4. StartCopy(b, content[b], n) /\ UNCHANGED <<frameBuffer, showLength>>
    BY <1>8 DEF Fill, sharedVars, frameVars, timeline
  <2>5. AllWithin(content[b], showLength)
    BY <2>1 DEF SamplesWithin
  <2> HIDE DEF n, b
  <2>6. QED
    BY <2>1, <2>3, <2>4, <2>5, CopyWithin
<1>9. CASE ReturnBuffer
  <2>1. /\ content' = [content EXCEPT ![sampleBuffer] = <<>>]
        /\ UNCHANGED frameBuffer
    BY <1>9 DEF ReturnBuffer, sharedVars, frameVars
  <2>2. \A b \in Buffers : content'[b] = content[b] \/ content'[b] = <<>>
    BY <1>1, <2>1
  <2>3. AllWithin(<<>>, showLength')
    BY DEF AllWithin
  <2>4. \A b \in Buffers : AllWithin(content'[b], showLength')
    BY <1>2, <2>2, <2>3
  <2>5. QED
    BY <1>3, <2>1, <2>4 DEF SamplesWithin
<1>10. CASE Builder /\ ~SetupPacket /\ ~Drain /\ ~Slice /\ ~Fill
  <2>1. UNCHANGED content /\ frameBuffer' \in {frameBuffer, Silence}
    BY <1>10 DEF Builder, LoopHead, WakeWithoutData, Wake, WakeFatal, DrainFails, Drained,
       SetFlags, ReadReady, StartPlaying, ReadStateAgain, CreateFrame, AdvanceFrame,
       FrameDataFails, FillThroughNull, Filled, SliceFails, Sliced, NextFrame,
       BuilderSetsNoData, BuilderClears, ClearFrame, PopFails, Copied, sharedVars, frameVars,
       bufferVars
  <2>2. QED
    BY <1>5, <2>1
<1>11. CASE Play1Buffer
  BY <1>5, <1>11 DEF Play1Buffer, sharedVars, frameVars
<1>12. CASE User
  <2>1. UNCHANGED content /\ frameBuffer' \in {frameBuffer, Silence}
    BY <1>12 DEF User, Pause, Stop, Play, SetFrame, SetStateStep, SetFrameStep, Initialize,
       Reset, ResetStep, ClearStep, ClearFrame, Destroy, Joined, SetProcessorIsReady,
       SetPlayoutID, Begins, UserSetsState, sharedVars, frameVars, bufferVars
  <2>2. QED
    BY <1>5, <2>1
<1>13. CASE UNCHANGED vars
  BY <1>5, <1>13 DEF vars, sharedVars, frameVars, bufferVars
<1>14. QED
  BY <1>6, <1>7, <1>8, <1>9, <1>10, <1>11, <1>12, <1>13 DEF Next, audioDeviceIOCallback

WithinInv == BuilderInv /\ LengthHolds /\ SyncWithin /\ SamplesWithin

\* In a server that is set up for one show, no frame that is queued and says the show
\* is playing is beyond its end, whatever is reset and sought in the middle of a round.
THEOREM PlaysWithin == Spec /\ OneShow => []PlaysWithinShow
<1>1. CASE OneShow
  <2>1. Init => WithinInv
    <3> SUFFICES ASSUME Init PROVE WithinInv
      OBVIOUS
    <3>1. BuilderInv
      BY InitBuilderInv
    <3>2. LengthHolds /\ SyncWithin
      BY DEF Init, LengthHolds, SyncWithin
    <3>3. SamplesWithin
      BY DEF Init, SamplesWithin, AllWithin, Within, Silence, StoppedFlag, PlayingFlag
    <3>4. QED
      BY <3>1, <3>2, <3>3 DEF WithinInv
  <2>2. WithinInv /\ [Next]_vars => WithinInv'
    <3> SUFFICES ASSUME WithinInv, [Next]_vars PROVE WithinInv'
      OBVIOUS
    <3>1. BuilderInv /\ BuilderInv'
      BY BuilderInvInductive DEF WithinInv
    <3>2. LengthHolds' /\ showLength <= showLength'
      BY <1>1, <3>1, LengthGrows DEF WithinInv
    <3>3. showLength' \in Nat
      BY <3>1 DEF BuilderInv, TypeOK, TimelineType
    <3>4. SyncWithin'
      BY <3>1, <3>2, SyncWithinKept DEF WithinInv
    <3>5. SamplesWithin'
      BY <3>1, <3>2, <3>3, SamplesWithinKept DEF WithinInv
    <3>6. QED
      BY <3>1, <3>2, <3>4, <3>5 DEF WithinInv
  <2>3. WithinInv => PlaysWithinShow
    <3>1. WithinInv => InQueue(sampleQueue) \subseteq Buffers
      BY DEF WithinInv, BuilderInv, TypeOK, BufferType, InQueue
    <3>2. QED
      BY <3>1 DEF WithinInv, SamplesWithin, AllWithin, Within, PlaysWithinShow
  <2>4. QED
    BY <2>1, <2>2, <2>3, PTL DEF Spec
<1>2. CASE ~OneShow
  BY <1>2
<1>3. QED
  BY <1>1, <1>2
=============================================================================
