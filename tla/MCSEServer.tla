----------------------------- MODULE MCSEServer -----------------------------
(***************************************************************************)
(* Instances of SEServer, and of it as a FrameStream, for TLC.             *)
(***************************************************************************)
EXTENDS SEServerStream, TLC

\* The buffers are interchangeable.
BufferSymmetry == Permutations(Buffers)

\* What the ownership of the buffers depends on: how much each holds, not what.
OwnershipView ==
  <<timeline, settings, syncSamp.index, currentFrameDuration, offsetIntoFrame,
    unusedSampleQueue, sampleQueue, [b \in Buffers |-> Len(content[b])],
    currentAudioBuffer, freed, builderVars, sampleBuffer, userVars>>

\* A user who plays a show only once Initialize has set it up, and has not begun it.
PlaysWhatIsSetUp == user = "idle" /\ user' \in {"playNow", "playLater"} => state = "Stopped"
OrdinarySpec == Init /\ [][Next /\ PlaysWhatIsSetUp]_vars
=============================================================================
