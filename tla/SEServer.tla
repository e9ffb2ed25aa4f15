------------------------------ MODULE SEServer ------------------------------
(***************************************************************************)
(* The sync emitter of the server: class SE_Server.  Three threads share   *)
(* it.  The user's thread calls Play, Pause, Stop, SetFrame, Initialize,   *)
(* Reset and the destructor; the frame builder thread runs BuildFrames,    *)
(* which cuts sync frames into audio buffers; the audio device's thread    *)
(* runs audioDeviceIOCallback, which plays one buffer per call.  The       *)
(* buffers travel between two lock-free queues of fixed size:              *)
(*                                                                         *)
(*   unusedSampleQueue_ --> builder --> sampleQueue_ --> callback --+      *)
(*          ^                                                       |      *)
(*          +-------------------------------------------------------+      *)
(*                                                                         *)
(* One action is what a thread does between two accesses to what it shares *)
(* with another thread.  A sample is the packet it carries, its place in   *)
(* the packet's frame and the frame's duration; a packet is its timeline   *)
(* index and its status flag.                                              *)
(***************************************************************************)
EXTENDS Integers, Sequences, FiniteSets

CONSTANTS
  Buffers,           \* the audio buffers the constructor allocates
  NoBuffer,          \* the null pointer
  BufferSize,        \* callbackBufferSize_, in samples
  MaxFrameDuration,  \* iMaxFrameDurationInSamples of the constructor
  FrameDurations,    \* the frame durations the show's assets have
  FramesWithData,    \* the frames frameDataCallback_ succeeds for
  MaxDurations,      \* the values Initialize is given for the same parameter
  ShowLengths,       \* the values Initialize is given for iShowLengthInFrames
  Positions,         \* the values SetFrame is given
  PlayoutIDs,        \* the values SetPlayoutID is given
  MaxSessions,       \* bound on the calls of Initialize
  Commands           \* the calls the user makes

CommandNames == {"Play", "Pause", "Stop", "SetFrame", "Initialize", "Reset",
                 "SetProcessorIsReady", "SetPlayoutID", "Destroy"}

ASSUME SEServerAssumption ==
  /\ NoBuffer \notin Buffers
  /\ IsFiniteSet(Buffers)
  /\ BufferSize \in Nat \ {0}
  /\ MaxFrameDuration \in Nat \ {0}
  /\ FrameDurations \subseteq Nat \ {0}
  /\ FramesWithData \subseteq Nat
  /\ MaxDurations \subseteq Nat \ {0}
  /\ ShowLengths \subseteq Nat
  /\ Positions \subseteq Nat
  /\ PlayoutIDs \subseteq Nat
  /\ MaxSessions \in Nat
  /\ Commands \subseteq CommandNames

States == {"NoData", "Stopped", "Paused", "WaitingToPlay", "Playing"}

\* The status flags of a packet.
StoppedFlag == 0
PausedFlag  == 1
PlayingFlag == 2

\* What a zeroed frame buffer carries: no packet.
Silence == [index |-> -1, flags |-> StoppedFlag]
Packets == [index : Nat, flags : {StoppedFlag, PausedFlag, PlayingFlag}]
Samples == [packet : Packets \cup {Silence}, at : Nat, of : Nat]

VARIABLES
  \* shared by the user and the builder
  state,                \* state_
  currentFrame,         \* currentFrame_
  showLength,           \* showLengthInFrames_
  isProcessorReady,     \* isProcessorReady_
  playoutID,            \* playoutID_
  keepBuildingFrames,   \* keepBuildingFrames_
  maxFrameDuration,     \* maxFrameDuration_
  frameBuffer,          \* the packet in currentFrameBuffer_
  syncSamp,             \* the index and the flags of syncSamp_
  currentFrameDuration, \* currentFrameDuration_
  offsetIntoFrame,      \* offsetIntoFrame_
  \* the buffers
  unusedSampleQueue, sampleQueue,
  content,              \* what has been copied into each buffer
  currentAudioBuffer,   \* the buffer the builder fills
  freed,                \* the buffers that were deleted
  \* the builder's own
  pc, seen, needMore,
  copying,              \* a copy under way: from which offset, how many samples
  \* the callback's own
  sampleBuffer,         \* the buffer it has popped
  played,               \* the last samples it gave the device
  \* the user's own
  user, position, sessions

timeline  == <<state, currentFrame, showLength>>
settings  == <<isProcessorReady, playoutID, keepBuildingFrames, maxFrameDuration>>
frameVars == <<frameBuffer, syncSamp, currentFrameDuration, offsetIntoFrame>>
sharedVars   == <<timeline, settings, frameVars>>
bufferVars   == <<unusedSampleQueue, sampleQueue, content, currentAudioBuffer, freed>>
roundVars    == <<seen, needMore, copying>>
builderVars  == <<pc, roundVars>>
callbackVars == <<sampleBuffer, played>>
userVars     == <<user, position, sessions>>
vars == <<sharedVars, bufferVars, builderVars, callbackVars, userVars>>

-----------------------------------------------------------------------------
(* What the definitions below share.                                       *)

\* Mutant: the larger of the two sizes is copied.
Greater(a, b) == IF a <= b THEN b ELSE a

Lesser(a, b) == IF a <= b THEN a ELSE b

ClearedSync == [syncSamp EXCEPT !.index = 0]

\* The second half of Reset, the block under needsResetMutex_.
ClearFrame ==
  /\ currentFrame' = 0
  /\ offsetIntoFrame' = 0
  /\ syncSamp' = ClearedSync
  /\ frameBuffer' = Silence

Init ==
  /\ state = "NoData"
  /\ currentFrame = 0 /\ showLength = 0
  /\ isProcessorReady = FALSE
  /\ playoutID = 0
  /\ keepBuildingFrames = TRUE
  /\ maxFrameDuration = MaxFrameDuration
  /\ frameBuffer = Silence
  /\ syncSamp = [index |-> 0, flags |-> StoppedFlag]
  /\ currentFrameDuration = MaxFrameDuration
  /\ offsetIntoFrame = 0
  /\ unusedSampleQueue \in {q \in [1 .. Cardinality(Buffers) -> Buffers] :
                              \A i, j \in DOMAIN q : q[i] = q[j] => i = j}
  /\ sampleQueue = <<>>
  /\ content = [b \in Buffers |-> <<>>]
  /\ currentAudioBuffer = NoBuffer
  /\ freed = {}
  /\ pc = "head" /\ seen = "NoData" /\ needMore = FALSE
  /\ copying = [from |-> 0, n |-> 0]
  /\ sampleBuffer = NoBuffer /\ played = <<>>
  /\ user = "idle" /\ position = 0 /\ sessions = 0

-----------------------------------------------------------------------------
(* The frame builder thread: BuildFrames.                                  *)

\* n samples of a frame of a packet, from an offset on.
Chunk(packet, offset, duration, n) ==
  [i \in 1 .. n |-> [packet |-> packet, at |-> offset + i - 1, of |-> duration]]

\* Mutant: the rest of a frame is copied from the frame's start.
CopyFromStart(b, done, n) ==
  /\ currentAudioBuffer' = b
  /\ content' = [content EXCEPT
       ![b] = done \o Chunk(frameBuffer, 0, currentFrameDuration, n)]
  /\ copying' = [from |-> offsetIntoFrame, n |-> n]

\* The builder copies n samples of the frame behind what `done` holds of buffer b.
StartCopy(b, done, n) ==
  /\ currentAudioBuffer' = b
  /\ content' = [content EXCEPT
       ![b] = done \o Chunk(frameBuffer, offsetIntoFrame, currentFrameDuration, n)]
  /\ copying' = [from |-> offsetIntoFrame, n |-> n]

\* Mutant: the pointer to the pushed buffer is not cleared.
PushAndKeep ==
  /\ sampleQueue' = Append(sampleQueue, currentAudioBuffer)
  /\ UNCHANGED currentAudioBuffer

\* Mutant: the buffer that is pushed last is played first.
PushInFront ==
  /\ sampleQueue' = <<currentAudioBuffer>> \o sampleQueue
  /\ currentAudioBuffer' = NoBuffer

PushFullBuffer ==
  /\ sampleQueue' = Append(sampleQueue, currentAudioBuffer)
  /\ currentAudioBuffer' = NoBuffer

\* offsetIntoFrame_ += n.  The user's Reset writes the same plain integer: the
\* sum is of the offset the copy began at or of the one memory holds now.  A
\* buffer that is full is pushed, one that is not waits for the next frame.
FinishCopy(stillNeedsMore) ==
  /\ \E offset \in {copying.from, offsetIntoFrame} : offsetIntoFrame' = offset + copying.n
  /\ copying' = [from |-> 0, n |-> 0]
  /\ IF Len(content[currentAudioBuffer]) = BufferSize
     THEN /\ PushFullBuffer
          /\ needMore' = stillNeedsMore
     ELSE /\ needMore' = TRUE
          /\ UNCHANGED <<sampleQueue, currentAudioBuffer>>

\* Mutant: the loop does not look at keepBuildingFrames_.
LoopForever ==
  /\ pc = "head"
  /\ pc' = "asleep"
  /\ UNCHANGED <<sharedVars, bufferVars, roundVars, callbackVars, userVars>>

\* while (keepBuildingFrames_) { sleep
LoopHead ==
  /\ pc = "head"
  /\ pc' = IF keepBuildingFrames THEN "asleep" ELSE "exited"
  /\ UNCHANGED <<sharedVars, bufferVars, roundVars, callbackVars, userVars>>

\* GetState says NoData: continue.
WakeWithoutData ==
  /\ pc = "asleep" /\ state = "NoData"
  /\ pc' = "head" /\ seen' = state
  /\ UNCHANGED <<needMore, copying, sharedVars, bufferVars, callbackVars,
                 userVars>>

\* GetState, with no buffer left over from the round before.
Wake ==
  /\ pc = "asleep" /\ state # "NoData" /\ currentAudioBuffer = NoBuffer
  /\ pc' = "drain" /\ seen' = state /\ needMore' = FALSE
  /\ UNCHANGED <<copying, sharedVars, bufferVars, callbackVars, userVars>>

\* "currentAudioBuffer_ should always be null at this point": the thread ends.
WakeFatal ==
  /\ pc = "asleep" /\ state # "NoData" /\ currentAudioBuffer # NoBuffer
  /\ pc' = "dead" /\ seen' = state
  /\ keepBuildingFrames' = FALSE
  /\ freed' = freed \cup {currentAudioBuffer}
  /\ currentAudioBuffer' = NoBuffer
  /\ UNCHANGED <<isProcessorReady, playoutID, maxFrameDuration,
                 unusedSampleQueue, sampleQueue, content,
                 needMore, copying, timeline, frameVars, callbackVars, userVars>>

\* A buffer is popped and filled from what is left of the frame.
PopAndCopy(here, next) ==
  /\ pc = here
  /\ offsetIntoFrame < currentFrameDuration
  /\ unusedSampleQueue # <<>>
  /\ unusedSampleQueue' = Tail(unusedSampleQueue)
  /\ StartCopy(Head(unusedSampleQueue), <<>>,
               Lesser(BufferSize, currentFrameDuration - offsetIntoFrame))
  /\ pc' = next
  /\ UNCHANGED <<sampleQueue, freed, seen, needMore, sharedVars, callbackVars,
                 userVars>>

\* No unused buffer: currentAudioBuffer_ = nullptr, back to the loop's head.
PopFails(here) ==
  /\ pc = here
  /\ offsetIntoFrame < currentFrameDuration
  /\ unusedSampleQueue = <<>>
  /\ currentAudioBuffer' = NoBuffer
  /\ pc' = "head"
  /\ UNCHANGED <<unusedSampleQueue, sampleQueue, content, freed, sharedVars,
                 roundVars, callbackVars, userVars>>

Copied(here, next, stillNeedsMore) ==
  /\ pc = here
  /\ FinishCopy(stillNeedsMore)
  /\ pc' = next
  /\ UNCHANGED <<frameBuffer, syncSamp, currentFrameDuration, unusedSampleQueue,
                 content, freed, seen, timeline, settings, callbackVars,
                 userVars>>

\* What is left of the frame of the round before.
Drain       == PopAndCopy("drain", "drained")
DrainFails  == PopFails("drain")
Drained     == Copied("drained", "drain", needMore)

\* Nothing is left: the index and the flags of the frames to come.
SetFlags ==
  /\ pc = "drain" /\ offsetIntoFrame >= currentFrameDuration
  /\ syncSamp' = [index |-> currentFrame,
                  flags |-> CASE seen \in {"Paused", "WaitingToPlay"} -> PausedFlag
                              [] seen = "Stopped" -> StoppedFlag
                              [] OTHER -> syncSamp.flags]
  /\ pc' = IF seen = "WaitingToPlay" THEN "waiting" ELSE "create"
  /\ UNCHANGED <<frameBuffer, currentFrameDuration, offsetIntoFrame, bufferVars,
                 timeline, settings, roundVars, callbackVars, userVars>>

\* The processor's readiness is read, and playback starts either way; only when
\* it was not ready is the state read again.
ReadReady ==
  /\ pc = "waiting"
  /\ pc' = IF isProcessorReady THEN "start" ELSE "startUnready"
  /\ UNCHANGED <<sharedVars, bufferVars, roundVars, callbackVars, userVars>>

StartPlaying ==
  /\ pc \in {"start", "startUnready"}
  /\ state' = "Playing"
  /\ pc' = IF pc = "start" THEN "create" ELSE "reread"
  /\ UNCHANGED <<currentFrame, showLength, bufferVars, settings, frameVars,
                 roundVars, callbackVars, userVars>>

ReadStateAgain ==
  /\ pc = "reread"
  /\ seen' = state /\ pc' = "create"
  /\ UNCHANGED <<needMore, copying, sharedVars, bufferVars, callbackVars,
                 userVars>>

\* Mutants: one frame too many, and one too few.
EndOfShowLate  == currentFrame > showLength
EndOfShowEarly == currentFrame + 1 >= showLength

EndOfShow == currentFrame >= showLength

\* The head of the createFrames loop: while playing the index is the current
\* frame, and the end of the show resets the server.
CreateFrame ==
  /\ pc = "create"
  /\ IF seen = "Playing"
     THEN /\ syncSamp' = [index |-> currentFrame,
                          flags |-> IF EndOfShow THEN syncSamp.flags ELSE PlayingFlag]
          /\ pc' = IF EndOfShow THEN "reset" ELSE "advance"
     ELSE /\ pc' = "setup"
          /\ UNCHANGED syncSamp
  /\ UNCHANGED <<frameBuffer, currentFrameDuration, offsetIntoFrame, bufferVars,
                 timeline, settings, roundVars, callbackVars, userVars>>

\* Mutant: the frame that was built is not counted.
StayOnFrame ==
  /\ pc = "advance"
  /\ pc' = "setup"
  /\ UNCHANGED <<sharedVars, bufferVars, roundVars, callbackVars, userVars>>

\* currentFrame_++
AdvanceFrame ==
  /\ pc = "advance"
  /\ currentFrame' = currentFrame + 1
  /\ pc' = "setup"
  /\ UNCHANGED <<state, showLength, bufferVars, settings, frameVars, roundVars,
                 callbackVars, userVars>>

\* frameDataCallback_ gives the frame's duration, and SetupPacket writes its
\* packet; its setters and writers return true for every value they are given here.
SetupPacket ==
  /\ pc = "setup" /\ syncSamp.index \in FramesWithData
  /\ \E duration \in FrameDurations : currentFrameDuration' = duration
  /\ frameBuffer' = [index |-> syncSamp.index, flags |-> syncSamp.flags]
  /\ offsetIntoFrame' = 0
  /\ pc' = IF needMore THEN "fill" ELSE "slice"
  /\ UNCHANGED <<syncSamp, bufferVars, timeline, settings, roundVars,
                 callbackVars, userVars>>

\* frameDataCallback_ fails: SetState(NoData), and then Reset.
FrameDataFails ==
  /\ pc = "setup" /\ syncSamp.index \notin FramesWithData
  /\ state' = "NoData"
  /\ pc' = "reset"
  /\ UNCHANGED <<currentFrame, showLength, bufferVars, settings, frameVars,
                 roundVars, callbackVars, userVars>>

\* The frame's first samples fill the buffer the frame before left unfinished.
Fill ==
  /\ pc = "fill" /\ currentAudioBuffer # NoBuffer
  /\ StartCopy(currentAudioBuffer, content[currentAudioBuffer],
               Lesser(BufferSize - Len(content[currentAudioBuffer]),
                      currentFrameDuration - offsetIntoFrame))
  /\ pc' = "filled"
  /\ UNCHANGED <<unusedSampleQueue, sampleQueue, freed, seen, needMore,
                 sharedVars, callbackVars, userVars>>

\* The copy writes through a null pointer: the process ends, with all its threads.
FillThroughNull ==
  /\ pc = "fill" /\ currentAudioBuffer = NoBuffer
  /\ pc' = "crashed" /\ user' = "gone"
  /\ UNCHANGED <<sharedVars, bufferVars, roundVars, callbackVars, position, sessions>>

Filled     == Copied("filled", "slice", FALSE)
Slice      == PopAndCopy("slice", "sliced")
SliceFails == PopFails("slice")
Sliced     == Copied("sliced", "slice", needMore)

\* The frame is used up.
NextFrame ==
  /\ pc = "slice" /\ offsetIntoFrame >= currentFrameDuration
  /\ pc' = "create"
  /\ UNCHANGED <<sharedVars, bufferVars, roundVars, callbackVars, userVars>>

\* Reset, called by the builder.
BuilderSetsNoData ==
  /\ pc = "reset"
  /\ state' = "NoData" /\ pc' = "clear"
  /\ UNCHANGED <<currentFrame, showLength, bufferVars, settings, frameVars,
                 roundVars, callbackVars, userVars>>

BuilderClears ==
  /\ pc = "clear"
  /\ ClearFrame
  /\ pc' = "head"
  /\ UNCHANGED <<state, showLength, currentFrameDuration, bufferVars, settings,
                 roundVars, callbackVars, userVars>>

Builder ==
  \/ LoopHead \/ WakeWithoutData \/ Wake \/ WakeFatal
  \/ Drain \/ DrainFails \/ Drained \/ SetFlags
  \/ ReadReady \/ StartPlaying \/ ReadStateAgain
  \/ CreateFrame \/ AdvanceFrame \/ SetupPacket \/ FrameDataFails
  \/ Fill \/ FillThroughNull \/ Filled
  \/ Slice \/ SliceFails \/ Sliced \/ NextFrame
  \/ BuilderSetsNoData \/ BuilderClears

-----------------------------------------------------------------------------
(* The audio device's thread: audioDeviceIOCallback.  When sampleQueue_ is  *)
(* empty it gives the device silence and changes nothing.                   *)

\* The callback is removed before the destructor runs.
CallbackRegistered == user \notin {"join", "gone"}

Play1Buffer ==
  /\ CallbackRegistered
  /\ sampleBuffer = NoBuffer /\ sampleQueue # <<>>
  /\ sampleBuffer' = Head(sampleQueue)
  /\ sampleQueue' = Tail(sampleQueue)
  /\ played' = content[Head(sampleQueue)]
  /\ UNCHANGED <<unusedSampleQueue, content, currentAudioBuffer, freed,
                 sharedVars, builderVars, userVars>>

\* Mutant: the pointer is pushed whether or not a buffer was popped.
PopAssumed == TRUE

BufferPopped == sampleBuffer # NoBuffer

\* Mutants: the buffer is pushed again, and it is not pushed at all.
PushAgain ==
  /\ unusedSampleQueue' = Append(unusedSampleQueue, sampleBuffer)
  /\ UNCHANGED sampleBuffer
ForgetBuffer == sampleBuffer' = NoBuffer /\ UNCHANGED unusedSampleQueue

PushPlayedBuffer ==
  /\ unusedSampleQueue' = Append(unusedSampleQueue, sampleBuffer)
  /\ sampleBuffer' = NoBuffer

ReturnBuffer ==
  /\ CallbackRegistered
  /\ BufferPopped
  /\ PushPlayedBuffer
  /\ content' = [content EXCEPT ![sampleBuffer] = <<>>]
  /\ UNCHANGED <<sampleQueue, currentAudioBuffer, freed, played, sharedVars,
                 builderVars, userVars>>

audioDeviceIOCallback == Play1Buffer \/ ReturnBuffer

-----------------------------------------------------------------------------
(* The user's thread.  A call begins when the user is idle and ends when it *)
(* is idle again.                                                           *)

\* A call whose first step changes nothing that is shared.
Begins(command, next) ==
  /\ command \in Commands
  /\ user = "idle" /\ user' = next
  /\ UNCHANGED <<sessions, sharedVars, bufferVars, builderVars, callbackVars>>

\* SetState, as a step of the user.
UserSetsState(here, s, next) ==
  /\ user = here /\ user' = next
  /\ state' = s
  /\ UNCHANGED <<currentFrame, showLength, position, sessions, bufferVars,
                 builderVars, settings, frameVars, callbackVars>>

Pause == Begins("Pause", "pause") /\ UNCHANGED position
Stop  == Begins("Stop", "stop") /\ UNCHANGED position

\* Play reads isProcessorReady_ under its mutex, and sets the state after it.
Play == Begins("Play", IF isProcessorReady THEN "playNow" ELSE "playLater")
        /\ UNCHANGED position

\* SetFrame pauses, then sets the position; ReturnToStart is SetFrame(0).
SetFrame == \E p \in Positions : Begins("SetFrame", "seek") /\ position' = p

SetStateStep ==
  \/ UserSetsState("pause", "Paused", "idle")
  \/ UserSetsState("stop", "Stopped", "idle")
  \/ UserSetsState("playNow", "Playing", "idle")
  \/ UserSetsState("playLater", "WaitingToPlay", "idle")
  \/ UserSetsState("seek", "Paused", "setFrame")

SetFrameStep ==
  /\ user = "setFrame" /\ user' = "idle"
  /\ currentFrame' = position /\ position' = 0
  /\ UNCHANGED <<state, showLength, sessions, bufferVars, builderVars, settings,
                 frameVars, callbackVars>>

\* Initialize returns false unless the state is NoData; another maximum gets a new
\* frame buffer.
Initialize ==
  /\ "Initialize" \in Commands /\ sessions < MaxSessions
  /\ user = "idle" /\ state = "NoData"
  /\ user' = "initReset" /\ sessions' = sessions + 1
  /\ \E length \in ShowLengths : showLength' = length
  /\ \E duration \in MaxDurations :
       IF duration = maxFrameDuration
       THEN UNCHANGED <<maxFrameDuration, frameBuffer>>
       ELSE /\ maxFrameDuration' = duration
            /\ frameBuffer' = Silence
  /\ UNCHANGED <<state, currentFrame, isProcessorReady, playoutID,
                 keepBuildingFrames, syncSamp, currentFrameDuration,
                 offsetIntoFrame, position, bufferVars, builderVars,
                 callbackVars>>

\* Initialize goes on with Reset and Stop; Reset may be called by itself.
Reset == Begins("Reset", "reset") /\ UNCHANGED position

ResetStep ==
  \/ UserSetsState("reset", "NoData", "clear")
  \/ UserSetsState("initReset", "NoData", "initClear")
  \/ UserSetsState("initStop", "Stopped", "idle")

ClearStep ==
  /\ user \in {"clear", "initClear"}
  /\ user' = IF user = "clear" THEN "idle" ELSE "initStop"
  /\ ClearFrame
  /\ UNCHANGED <<state, showLength, currentFrameDuration, position, sessions,
                 bufferVars, builderVars, settings, callbackVars>>

\* The destructor: stop the builder, wait for it, delete every buffer.
Destroy ==
  /\ "Destroy" \in Commands
  /\ user = "idle" /\ sampleBuffer = NoBuffer
  /\ user' = "join"
  /\ keepBuildingFrames' = FALSE
  /\ UNCHANGED <<isProcessorReady, playoutID, maxFrameDuration,
                 position, sessions, bufferVars, builderVars,
                 timeline, frameVars, callbackVars>>

InQueue(q) == {q[i] : i \in DOMAIN q}

Joined ==
  /\ user = "join" /\ pc \in {"exited", "dead"}
  /\ user' = "gone"
  /\ freed' = freed \cup InQueue(unusedSampleQueue) \cup InQueue(sampleQueue)
                    \cup ({currentAudioBuffer} \ {NoBuffer})
  /\ unusedSampleQueue' = <<>> /\ sampleQueue' = <<>>
  /\ currentAudioBuffer' = NoBuffer
  /\ UNCHANGED <<content, position, sessions, sharedVars, builderVars,
                 callbackVars>>

\* The DCS server's callbacks may call these two at any time.
SetProcessorIsReady ==
  /\ "SetProcessorIsReady" \in Commands
  /\ user \notin {"join", "gone"}
  /\ isProcessorReady' = ~isProcessorReady
  /\ UNCHANGED <<playoutID, keepBuildingFrames, maxFrameDuration,
                 bufferVars, builderVars, timeline, frameVars,
                 callbackVars, userVars>>

SetPlayoutID ==
  /\ "SetPlayoutID" \in Commands
  /\ user \notin {"join", "gone"}
  /\ \E id \in PlayoutIDs : playoutID' = id
  /\ UNCHANGED <<isProcessorReady, keepBuildingFrames, maxFrameDuration,
                 bufferVars, builderVars, timeline, frameVars,
                 callbackVars, userVars>>

User ==
  \/ Pause \/ Stop \/ Play \/ SetFrame \/ SetStateStep \/ SetFrameStep
  \/ Initialize \/ Reset \/ ResetStep \/ ClearStep
  \/ Destroy \/ Joined \/ SetProcessorIsReady \/ SetPlayoutID

-----------------------------------------------------------------------------
Next == Builder \/ audioDeviceIOCallback \/ User

\* The builder's thread is scheduled and its sleep ends; the device calls back
\* for as long as the callback is registered; a call that began returns.
UserReturns == SetStateStep \/ SetFrameStep \/ ResetStep \/ ClearStep \/ Joined
Fairness == /\ WF_vars(Builder)
            /\ WF_vars(audioDeviceIOCallback)
            /\ WF_vars(UserReturns)

Spec == Init /\ [][Next]_vars
FairSpec == Spec /\ Fairness

-----------------------------------------------------------------------------
(* Safety.                                                                 *)

BuilderSteps == {"head", "asleep", "drain", "drained", "waiting", "start",
                 "startUnready", "reread", "create", "advance", "setup", "fill",
                 "filled", "slice", "sliced", "reset", "clear",
                 "dead", "exited", "crashed"}
UserSteps == {"idle", "pause", "stop", "seek", "setFrame", "playNow", "playLater",
              "reset", "clear", "initReset", "initClear", "initStop", "join", "gone"}

TimelineType == state \in States /\ currentFrame \in Nat /\ showLength \in Nat
SettingsType ==
  /\ isProcessorReady \in BOOLEAN /\ keepBuildingFrames \in BOOLEAN
  /\ playoutID \in Nat /\ maxFrameDuration \in Nat
FrameType ==
  /\ frameBuffer \in Packets \cup {Silence} /\ syncSamp \in Packets
  /\ currentFrameDuration \in Nat /\ offsetIntoFrame \in Nat
BufferType ==
  /\ unusedSampleQueue \in Seq(Buffers) /\ sampleQueue \in Seq(Buffers)
  /\ content \in [Buffers -> Seq(Samples)]
  /\ currentAudioBuffer \in Buffers \cup {NoBuffer}
  /\ freed \in SUBSET Buffers
BuilderType ==
  /\ pc \in BuilderSteps /\ seen \in States /\ needMore \in BOOLEAN
  /\ copying \in [from : Nat, n : Nat]
CallbackType == sampleBuffer \in Buffers \cup {NoBuffer} /\ played \in Seq(Samples)
UserType == user \in UserSteps /\ position \in Nat /\ sessions \in 0 .. MaxSessions

\* Every variable has its type.
TypeOK == /\ TimelineType /\ SettingsType /\ FrameType /\ BufferType
          /\ BuilderType /\ CallbackType /\ UserType

\* No buffer is twice in a queue.
NoDuplicates(q) == \A i, j \in DOMAIN q : q[i] = q[j] => i = j

\* A buffer is in one place at most: a queue, the builder's hand, the
\* callback's hand or the heap.  The builder and the callback then never work
\* on the same samples, whatever the user does.
OneOwner ==
  /\ NoDuplicates(unusedSampleQueue) /\ NoDuplicates(sampleQueue)
  /\ InQueue(unusedSampleQueue) \cap InQueue(sampleQueue) = {}
  /\ InQueue(unusedSampleQueue) \cap {currentAudioBuffer, sampleBuffer} = {}
  /\ InQueue(sampleQueue) \cap {currentAudioBuffer, sampleBuffer} = {}
  /\ sampleBuffer # NoBuffer => sampleBuffer # currentAudioBuffer
  /\ freed \cap ({currentAudioBuffer, sampleBuffer} \cup InQueue(unusedSampleQueue)
                 \cup InQueue(sampleQueue)) = {}

\* The queues' capacity is the number of buffers, and whoever is about to push
\* finds room: "Pushing onto these queues should never fail" (SE_Server.h), the
\* assert(success) after every push.
PushNeverFails ==
  /\ pc \in {"drained", "filled", "sliced"} => Len(sampleQueue) < Cardinality(Buffers)
  /\ sampleBuffer # NoBuffer => Len(unusedSampleQueue) < Cardinality(Buffers)

\* No buffer is lost: each is in a queue, in a thread's hand or deleted.  A
\* buffer lost is one fewer between the server and an underrun.
NoBufferLost ==
  Buffers \subseteq InQueue(unusedSampleQueue) \cup InQueue(sampleQueue)
                    \cup {currentAudioBuffer, sampleBuffer} \cup freed

\* No copy runs beyond the frame that was built or the buffer it fills, even
\* when the user's Reset moves the offset under it: the assert(false) of
\* BuildFrames, "Something wrong happened".
CopiesStayInBounds ==
  /\ offsetIntoFrame <= currentFrameDuration
  /\ offsetIntoFrame + copying.n <= currentFrameDuration
  /\ copying.from + copying.n <= currentFrameDuration
  /\ \A b \in Buffers : Len(content[b]) <= BufferSize

\* While the user does not seek, the frames the device is given go through the
\* show one by one: a frame is repeated while paused, and none is skipped.
FramesInOrder ==
  [][played' # played =>
       LET heard == (IF played = <<>> THEN <<>> ELSE <<played[BufferSize]>>) \o played'
       IN  \A i \in 1 .. Len(heard) - 1 :
             heard[i].packet # Silence /\ heard[i + 1].packet # Silence =>
               heard[i + 1].packet.index - heard[i].packet.index \in {0, 1}]_vars

\* No frame that says the show is playing is beyond the show's end.
PlaysWithinShow ==
  \A b \in InQueue(sampleQueue) : \A i \in DOMAIN content[b] :
    content[b][i].packet.flags = PlayingFlag => content[b][i].packet.index < showLength

\* The builder never meets a half-filled buffer when it wakes: the assertion
\* "currentAudioBuffer_ should always be null at this point".
NoFatalError == pc # "dead"

\* Playing only begins by the user's Play, or by the builder for a server that
\* is still waiting to play: a Stop or a Pause that came in between is kept.
StopIsKept ==
  [][state' = "Playing" /\ state # "Playing" =>
       user = "playNow" \/ state = "WaitingToPlay"]_vars

-----------------------------------------------------------------------------
(* Liveness.                                                               *)

\* The builder, woken twice in the time the queue takes to play, fills the
\* queue again and again.
BuilderCatchesUp == []<>(pc = "asleep")

\* A server left playing gets to the end of its show and resets itself, unless
\* the user makes another call.
PlaybackEnds ==
  BuilderCatchesUp =>
    (state = "Playing" /\ user = "idle" ~> state = "NoData" \/ user # "idle")

\* And the last frame of the show is heard: the device is given its samples but for
\* fewer than a buffer holds, what fills no buffer and stays with the builder, unless
\* the user makes another call.  The queue is played out behind the reset too, so the
\* frame may be heard after it.  DeliversFrames says that all before it was heard first.
LastFrameHeard ==
  BuilderCatchesUp =>
    (state = "Playing" /\ user = "idle" /\ currentFrame < showLength
       ~> \/ user # "idle"
          \/ \E i \in DOMAIN played :
               /\ played[i].packet = [index |-> showLength - 1, flags |-> PlayingFlag]
               /\ played[i].of - played[i].at <= BufferSize)

\* The destructor's join returns: the builder leaves its loops once it is told to.
DestructorReturns == user = "join" ~> user = "gone"
=============================================================================
