# A verification of the SMPTE ST 430-14 simulator

The repository simulates the two ends of the digital cinema synchronisation of SMPTE ST 430-14:
a screen server (the *server* side) that emits a sync signal, controls an auxiliary device and
serves auxiliary data, and the auxiliary device (the *client* side) that follows the signal and
fetches the data. This directory models the parts whose correctness depends on an order of
events: threads, callbacks, asio handlers, broken connections, buffers that cut frames in two.
Paths below are relative to `src/src`.

## The system

| Part | State | Operations | Talks to |
|---|---|---|---|
| `SE_Server` (`server/SE`) | playback state, frame counter, frame buffer, two lock-free queues of audio buffers | Play, Pause, Stop, SetFrame, Initialize, Reset, destructor; `BuildFrames` (its own thread); `audioDeviceIOCallback` (the audio device's thread) | asks its show for frames by a callback; is told by `DCS_Session` whether the processor is ready |
| `SE_Client` (`client/SE`), `FrameValidator` (`utils`) | queues of audio buffers, a frame under construction, the offset into it | audio callback (pushes samples), parser thread (`AddSamples`) | calls back the validator and the fetching client with each packet |
| `SS_Client` (`client/SS`), `AuxDataMgr`, `Client_Validator` | start of the next request, a flag for a request under way, request and response streambufs, the queue of items | `RequestAuxDataItem` (its own thread), the handlers of a GET (io service's thread), `Validate` (parser thread) | HTTP to `SS_Server` |
| `SS_Server` (`server/SS`) | acceptor, connections, a parser and a reply for each | accept, read, write, stop by a signal | asks the `ShowManager` for data items |
| `ShowManager`, `AuxDataParser`, `Show`, `CPLParser` (`AuxData`) | list of CPL files, the timeline, the data file kept open | AddCPL, AddCPLList, Load, Reset, GetDataItems, the lookups by frame | files; AS_DCP reads the data items |
| `DCS_Server`, `DCS_Session`, `DCS_Client` (`server/DCS`, `client/DCS`) | sockets, queues of messages, the connection's state | handshake (announce, lease, RPL location), notifications, status, Close | tell the `SE_Server` the playout ID and the readiness, the `SS_Client` the URL |
| `ObservableState`, `*_State` (`state`) | a state and its observers | SetState, AddObserver, RemoveObserver | the components above inherit from them |
| codecs (`dcisg/sync`, `commands`, `AuxData/AuxData`), UUID, Utils, Logger | none that lasts | encode, decode | |

What is hard in it, and what makes each part correct:

* **Emitter.** Three threads share it almost without locks. Its buffers must keep one owner each,
  the device must hear whole frames in order though a frame straddles buffers, the show must end,
  and the user's calls, made at any moment, must not break a copy or be lost.
* **Receiver.** The signal arrives in buffers that cut frames anywhere, with samples lost or silent. Every
  frame that arrives whole behind a whole frame must be reported with its own packet, silence must be
  noticed, and the parser must come out of its loop (which it does not, of a frame that is all payload).
* **Fetching client.** A thread and handlers share unlocked fields. One request at a time, each
  unit queued once and in order, no unit thrown away before its frame, and an error at any step
  must not end the fetching.
* **Data server.** A parser is kept open between requests, connections are stopped between a
  completion and its handler, requests arrive in pieces, and not every file opens.
* **Control channel.** Either end may close, or the connection break, between any two handlers. What is
  sent must be what the other end makes of the bytes, though each class of message writes, sizes and
  reads itself on its own.
* **States.** An observer may be removed, and deleted, while another thread notifies the list.

`PROJECT.json` lists every component with what is and is not modelled of it, and under "hazards"
each place in the code where this goes wrong or could, with the properties about it.

## The modules

**`SEServer`** models `SE_Server`. One action is what a thread does between two accesses to what
it shares: `Wake`, `CreateFrame`, `AdvanceFrame`, `SetupPacket`, `Fill`, ... are the steps of
`BuildFrames` (its place is `pc`), `Play1Buffer` and `ReturnBuffer` those of the callback, the
user's calls run in steps of their own (`user`). A sample is the packet it carries, its place in
the frame and the frame's duration, so a stale, lost or repeated sample shows. `FillThroughNull` follows the
code where a `Reset` in the middle of a round leaves it a null pointer. Assertions do not stop the model: a build may disable them, and the code goes on behind
each of them as modelled.

**`FrameStream`** is what the emitter promises: a bounded FIFO of samples that are whole frames
of the show one behind the other. **`SEServerStream`** maps the emitter's queues to the pipe; that `SEServer`
implements it (`DeliversFrames`) is checked by TLC and proved.

**`SyncPacket`** is the packet as samples: each member as `sync.cpp` writes it, a word and its
complement at a time, and as `FrameValidator::HandlePayload` reads it. **`FrameValidator`** is the parser
on such samples, and **`SEClient`** the two threads and their queues. `AddSamples` is a loop whose passes are
steps, so that a loop that does not end is a lasso. A line with silences, dropped-out samples and
lost buffers feeds it, whose frames are as long as their packets say. It has one restriction that the code has not:
a frame is longer than the buffers of its line (`OnLine`), so that at most one ends in a buffer. And
the device fills the buffers: behind a callback with fewer samples `SE_Client` would parse the rest of what the
buffer held before (`client/SE/SE_Client.cpp:165`). Durations are not restricted otherwise: of a frame
with no room for its payload the copy overruns its memory (`Overrun`), where the model stops. The variable
`validated` is what the validator was last called with, so that a packet is compared member by member with the one that was written. One glitch may not end inside a
payload (`Splices = FALSE`): a payload patched together from two frames may be a valid one by
chance, as its words carry no checksum.

**`SSClient`** models the fetching thread, the handlers of a GET (an error possible at each, and an end of the
content between two blocks, which passes for the reply's), the queue and `Client_Validator`, against a
server that answers as `request_handler` and `ShowManager` do. A timed wait ends at any time.

**`DCSHandshake`** models both ends of the control channel: operations of asio complete, and their
handlers run later, with what the completion found even if the socket was closed in between. A
message cut off by the break of the connection is "torn".

**`DCSChannel`** is the other half of that channel: what a `DCS_Client` sends, byte for byte, to the
session that reads it. It takes the numbers and texts from **`SerializationUtils`**, the messages from
**`DCSMessage`** (a class is the sequence of its members, each with its kind; writing, computing the
size and reading follow the members, each as that class does it; the counts and the lengths of texts that are
members of their own may be wrong) and the state with its observers
from **`ObservableState`**, whose `SetState` the client's handlers call. The user's thread sends, closes,
adds and removes observers at any time, before there is a connection included. A connection that
breaks may have carried a part of a message. Where wrong counts have a process read what is not there, its end
is one of the outcomes (`WriteFaults`, `ReadFaults`).

**`Show`**, **`ShowManager`**, **`AuxData`**, **`RequestParser`** and **`SSServer`** model the server of the data,
bottom up: the timeline and its lookups; the files, Load, Reset and the parser kept open; the bytes
of a reply, as the server writes them and the client reads them; the state
machine that reads the text of a request; accept, read and write with their handlers, and the
stop. `Consume` is a table of parsers and characters, which are classed by what the code tells apart, and
`ParsePiece` a recursive function along a piece. The texts that are requests (`WellFormed`) are a constant;
TLC evaluates that the parser knows them in one piece (`TextsAssumption` of `MCSSServer`).
The program loads and resets the show while no server runs, as `ShowManager.h` demands.

### Runs

| Run | Question | Bounds |
|---|---|---|
| `se_stream` | does the device hear whole frames in order, through pauses? is the last one heard (but for the rest that fills no buffer), does the show end, and does the destructor return? | 2 buffers of 2 samples, a show of 2 frames of 3 samples, which straddle the buffers; every call but Stop, SetFrame and Reset |
| `se_anyuser` | what survives any call at the worst moment, `Reset` and the destructor included? | 3 buffers of 2 samples, frames of 2 or 3, of at most 3 or 4, every call |
| `se_fatal` (violation) | is a half-filled buffer left for the next session? | two sessions of a user who plays only what `Initialize` set up (`OrdinarySpec`), frames of 3 samples |
| `se_stopkept` (violation) | is a Stop kept that the builder did not see? | one session |
| `sc_follow` | does the receiver hand over what was sent, through up to two glitches? | packets with every member, whose UUIDs have one word in place of eight and whose bytes 8 values: 46 samples in place of 88; frames of 57 and 59 samples, and in buffers of 11 those of 47, 46 (all payload) and 40 (less than one); buffers of 11 and 47: one fits into the fill, the other holds a packet, and any sample of a packet may be the last of a buffer |
| `sc_stale` (violation) | is the packet handed over the one that was validated? | frames that hold two payloads, one lost buffer |
| `ss_fetch` | requests in order, nothing skipped or thrown away, no thread left behind | a show of 8 frames with a gap in its data behind the end of a full reply, three units per request, one error or cut reply |
| `ss_stuck` (violation) | does fetching go on after an error reply? | a show of 7 frames with a gap, two units per request, one error |
| `dcs_handshake` | is the handshake in order and complete, do both ends close? | one client, one break of the connection, one notification, one status request or Close |
| `dcs_channel` | does what is sent arrive as it was sent, do the buffers hold it, are the observers told? | a message of every class, two in a row, log answers with unset counts and lengths (right, too small or too large) among them; up to three calls (send, close, add or remove an observer) and breaks of the connection; bytes of 128 values |
| `ss_serve` | are requests read, answered with the show's data as the client reads it and in full; are connections let go? | two connections; every list of up to two files (a feature of three reels whose data runs over its reel or is too short, a CPL without durations, a file that is no CPL), a text cut in two at every read |
| `ss_reset` (violation) | is the loaded show the one that is served, after a reset? | one connection, two CPLs |

The bounds are small because what can go wrong is local: two buffers are enough for one to be
filled while another is played, three samples per frame against two per buffer give every offset
of a frame in a buffer, and a break or a lost buffer is looked at in every position. `played` of
`SEServer` is only the last buffer heard; the history that `FrameStream` needs is its refinement's.
Queue capacities of the code (the number of buffers) are kept. `MaxSessions`, `MaxFailures`,
`MaxNotifications`, `MaxStatus`, `MaxGlitches`, `MaxCalls`, `MaxCPLs` and `MaxGenerations` bound what
repeats; `Scripts` are the sequences of messages a user sends. `Byte` is the number of values of a byte
and `UUIDWords` the length of a UUID: the code only shifts and masks, so that the position of a byte shows
with any base as long as the values differ in every digit, which those of the instances do.
Deadlock is not checked where a run ends for good: a destroyed server or client, a closed connection
or a stopped server leaves nothing to do; the liveness properties say what must happen before.
`se_anyuser`, `se_fatal` and `se_stopkept` use the symmetry of the buffers, and state
no liveness property. `se_anyuser` looks at its states through `OwnershipView`, which leaves out what
the samples are worth and what was heard: no guard and none of the properties reads them but
`TypeOK`, which is proved of every state.

### What the violations show

* After a show whose frames do not fill whole buffers, the next session meets the assertion
  "currentAudioBuffer_ should always be null" and the builder ends (`se_fatal`).
* The builder sets Playing on a state it read earlier: a Stop made in between is lost (`se_stopkept`).
* After the shuffle of overlapping frames, `FrameValidator` may report the packet of the torn frame
  for the one behind it (`sc_stale`).
* An HTTP reply other than 200, or an unreadable one, leaves `getInProgress_` set: the client never
  sends another request (`ss_stuck`).
* `ShowManager::Reset` leaves the data file of the old show open, and the new show's first frames are
  answered from it (`ss_reset`).

### Fairness

* `SEServer`: the builder's thread is scheduled and its sleep ends, the device calls back while the
  callback is registered, and a call that began returns. `PlaybackEnds` and `LastFrameHeard` assume
  besides (`BuilderCatchesUp`) that the builder reaches its sleep again and again: it is woken twice
  in the time that the queue takes to play, but a loop that finds buffers as fast as the callback
  returns them would not look at the state. The user is never fair.
* `SEClient`: the parser thread is scheduled. The device and the line are not fair.
* `SSClient`: handlers and the fetching thread run, and timed waits end. The sync signal is not fair.
* `DCSHandshake`: the operations of asio complete (the other end reads and writes), handlers run.
  Nobody is bound to close, notify or ask.
* `DCSChannel`: the io services run their handlers, and the operations of asio complete; of a write that
  no end reads only a broken connection is the end. The user is not fair, and the posted calls are run.
* `SSServer`: only the handlers run. A client may owe the rest of its request, or not read its reply,
  for ever; what a stopped server waits for are handlers of operations that were aborted.

## What is proved

For any number and size of buffers, any show, and any calls of the user at any time (the constants
are only assumed to have their types, `SEServerAssumption`):

* `TypeCorrect` and `CopiesBounded` (`SEServerProofs`). Neither is inductive alone: what the
  builder copies is a natural number of samples only because no offset is beyond its frame and no
  buffer is overfilled, and its buffer is one of the buffers only between the two halves of a copy.
  `BuilderInv` is both with two more facts: between the halves of a copy the builder holds a buffer, and
  at any other step nothing is being copied; it holds initially (`InitBuilderInv`), and every action keeps it, by one lemma per
  action that disturbs it (`PopAndCopyKeeps`, `CopiedKeeps`, `FillKeeps`, `ClearFrameKeeps`, ...) and one for
  those that do not (`QuietBuilderSteps`, `QuietUserSteps`). The user's `Reset` clears the frame's offset in the middle of
  a copy whose samples were counted from the old one; hence `CopiesStayInBounds` bounds the copy from
  either offset.
* `BuffersHaveOneOwner` and `PushesSucceed` (`SEServerProofs`). `OneOwner` is inductive together
  with `BuilderInv`, which says when the builder holds a buffer. Lemmas on queues (`PopQueue`,
  `PushQueue`) say what a pop and a push do to the set of buffers in a queue. That a push finds room follows
  by counting (`QueueHasRoom`): a queue without duplicates that lacks one of the buffers is shorter
  than their number.

* `PlaysWithin`, in a server that is set up for one show (`OneShow`): a frame that says Playing was below the
  show's length when it was made, and stays in the buffers with that index.

These proofs cover the whole of `Next`, `Reset` and the destructor included. The next ones, in
`SEServerStreamProofs`, are about users who do not call `Reset`, which does lose buffers and cut frames:

* `NoneIsLost`. `HoldInv` says what the builder holds at each of its places: a buffer in its hand is used up
  or not full, a frame is only replaced when it is used up, a copy ends at the end of the buffer or of the
  frame. A buffer has then one whereabouts, and each step moves it to the next.
* `EmitterIsAStream`, the refinement: every step of `SEServer` maps to a step of `FrameStream` or to a stutter
  (`Written`, `Delivered`, `Ended`, `Closed`). `StreamInv` adds to `HoldInv` what the last sample written is
  (`LastInv`), which `FrameStream` needs to know which sample may follow. The flattening of a queue of buffers
  behaves as a pipe by the lemmas of `FlattenTheorems`.
* `FramesGoInOrder`, for users who do not seek either: of frames, where `EmitterIsAStream` speaks of the samples
  in them. `OrderInv` says that the frames of the samples in the pipe are in the
  order of the show, that the last of them and the frame at hand are, and how far `currentFrame_` is from
  the frame being made at each of the builder's places, in every playback state.

For any packets, sizes of buffers and limits, and any losses and silences that do not end within a payload
(`~Splices`), with dropouts inside a buffer (`0 \notin DropoutsAt`), as in the run `sc_follow`; and for frames that
have samples behind their payload (`FramesHaveFill`), which the code does not demand: the run has others besides, and
shows what of the properties they break. These are hypotheses of each theorem, not assumptions of the module:

* `DurationsStaySent`, `NothingIsCopiedOutOfBounds` and `NoSignalIsNoticed` (`SEClientProofs`). The second proves
  `OffsetsInBounds` without its exception (`~Overrun`). Bounds and silence
  rest on the duration of an accepted packet: with one that was never sent the frame would be allocated and
  looked at in another size. So the first part of the proof assumes sent durations: `BoundsInv` holds the
  offsets in the frame and in the buffer, and `SilenceInv` says that the frame ends with the zeros that were
  parsed last, behind the marker it begins with, so that a quiet line ends every frame within the longest.
  The second part proves them. By `PlacesInv` every sample in the queue, in the buffer and in the frame has
  a place: a packet and a position in it, behind the one before (`Behind`) but where a glitch ended. A payload
  with one marker and one tail, the first behind a whole run, is a run of one packet's places or holds zeros where they
  dropped out; `ValidatePayload` only accepts zeros for the zeros that were sent, and the duration is then the
  packet's (`RunHasDuration`). The marker's word being larger than any other (`PayloadWords < Word` keeps the length
  one, too) tells it from the other samples.
* `ReadAsWritten` (`SEClientProofs`), of the codec alone: what `ReadSyncPacket` reads of a frame that begins with the samples
  of a packet is that packet, member by member, with the bytes of its UUIDs swapped (`AsRead`).
* `TheSignalIsFollowed` and `WholeFramesAreHandedOver` (`SEClientProofs`), the first for accepted packets of sent durations and
  the second on such a line, where frames are longer than the buffers (`BuffersAreShort`),
  and where the frames of a show have the lengths of `FewLengths`: none that has room for a second payload is
  longer than another. It holds of frames of one length, and of those of `sc_follow` (57 and 59 samples, a payload has 46). In a longer
  frame with such room the payload of the one behind could be taken as the rest of it, at once and without its check, and
  the whole frame be lost with the torn one. `FollowInv` gives each buffer not yet parsed its passage
  (`Carries`): from where in a frame the line came to where it went, or through a gap, or in the dark. The parser is
  in step with the place in its own passage that it has read to (`InStep`): of a first whole frame it holds what it was
  given at the end of its own frame, or nothing; so its frame ends with that one's last sample at the latest (`EndsTogether`), a full
  frame has no later marker to be shuffled to, and the next whole frame starts an empty one (`Aligned`). There its checks pass by
  `ReadAsWritten` and `PayloadIsValid`, and it is handed over. `FrameValid` says that a checked frame has a sent duration.

For any threads, observers and states (`ObservableAssumption`: `Nobody` is no thread):

* `RemovedAreSilent` and `AllChangesAreSeen` (`DCSChannelProofs`). The inductive invariant `ObsInv` says
  that whoever goes through the list holds the mutex, which keeps the list as it is, and that an
  observer that has not seen the last state is still ahead of a thread that is in the list or waits for
  it (`ToldOrToBeTold`): the thread that assigned last waits for the whole of it.
* `ChannelIsObservable` and `ChannelTellsObservers`: every step of `DCSChannel` is a step of
  `ObsSpec` or leaves the observed state alone, so that both hold of the client, whatever it sends.

For any scripts of messages whose texts are C strings, whose numbers fit their members and whose payloads have a
length of three bytes (`MessagesAssumption`, evaluated by TLC on those of `MCDCSChannel`). The count of a message without
items and the length of a text may be anything, as the client answers the log's requests without setting them
(`client/DCS/DCS_Client.cpp:438-465`); with items the count is right, since `AddEventID` sets it. What the properties say of the members
of a message they say of those whose counts are right (`CountsAreRight`); of the others, that they are of the size
computed and come in their turn. None has a timeline extension: nothing in the program sends one, only a unit test adds any
(`src/tests/Unit_Tests/src/DCS_Message_Test.cpp:357`), and `GetPayloadSize` would be wrong for it (see below).

* `BuffersAreLargeEnough` and `MessagesArriveAsSent` (`DCSChannelProofs`). The proof goes from the inside out. A number is put
  together from the digits it was cut into (`DigitsAre`); a member is read where it was written, and the next is behind it; by an
  induction along the members of its class a payload is the pieces of its members (`LaidOut`), as long as
  `GetPayloadSize` says, and is read as it was, but for what `ReadAs` leaves out (`PayloadIsRead`). The header gives the length of
  what follows (`HeaderIs`), so that a message is a frame which can be taken off a `Stream` of frames
  (`FrameIs`, `StreamIs`, `TakenOff`). `ChannelInv` then says where each byte is: the header the session has
  read, what it has of the payload, the wire and `missing`, one behind the other, are the stream of the messages
  under way, and what it created is made of those before them (`Flows`). A message that counts items it does not have is
  never written, as the process ends before; in the stream, zeros stand for its payload (`Payload`), of which
  no byte was carried. Bytes are only missing behind a write that failed, after which no
  message is written (`WriterOK`); the session's next read asks for the rest of the frame at hand, and its
  buffer has room for it (`ReaderOK`). Messages of `LostKinds` go the same way, but nothing is made of them.

For any number of clients, broken connections, notifications and requests (`DCSHandshakeAssumption`):

* `HandshakeTypes`, `QueuesAreWritten` and `ClosedEndsSaySo` (`DCSHandshakeProofs`). The types depend on the
  queues, as the front of a queue is taken when its write has completed; and on `BodyIsThere`: a body that was
  read is still the first message of its wire when its handler runs. `ClosedIsDisconnected` alone is
  not inductive: a session may connect again on a header it had read before it closed. Behind that, the body
  cannot be read any more, and its failure closes the session again (`ClosedUntilBodyFails`).
* `TheHandshakeIsInOrder` (`DCSHandshakeProofs`). A message of the handshake may be in a queue, on a wire
  or posted, so the invariant `OrderInv` is about whole paths: `ToClient` is a wire and the queue behind
  it, `ToSession` also ends in the posted calls. What was executed is a beginning of the script, and of the
  script's messages at most the next is on a path (`Follows`). Moving a message from one part of its path
  to the next changes nothing (`MovesOn`), most steps bring no message of the script (`Quiet`), and an end
  that executes the next one is the only one to send its successor (`Executing`).

For any show, any sizes of requests and any number of errors (`SSClientAssumption`):

* `OneRequestAtATime` (`SSClientProofs`): `FlagIsClear` says where each thread relies on
  `getInProgress_`, past its look at the flag included.
* `FetchTypes`: the reply is one of the server's, and exists: a least missing unit is found with the
  well-foundedness of the naturals (`LeastNatural`, `RunExists`).
* `NothingAheadIsDropped`: a packet changes what waits for the validator only by dropping its first
  unit, once its frame is there (`PacketsDrop`).
* `QueueIsInOrder`, `NothingIsSkipped` and `PacketsAreValid`. The inductive invariant `OrderInv` ties the
  queue to the request: while an operation is under way, the request and its reply are for
  `startEditUnit_` (`AsksForStart`), because the flag keeps the fetching thread from moving it, and the queue ends
  before `Reached`, the unit that is queued next.

For any number of clients, any texts they send in any pieces, any files, any requests and a stop at any time:

* `NoneIsLeaked` (`SSServerProofs`). The invariant `ConnectionsInv` says that a connection lives by its
  operation, that an operation is only aborted by the stop that closed its socket, and that the socket an
  accept has found is still queued when its handler runs.

* `TextsAreRead`, for texts that the parser knows in one piece (`KnownInOnePiece`) and of which `Null` is none.
  By `ReadInv` a connection's parser is what a new one makes of the part of the text it was given, whatever
  the pieces were; two pieces make of a parser what both make at once (`PiecesJoin`), an induction along the
  second by `FromZero`, which says that a set with 0 and every successor below n holds all up to n.

* `FramesAreShown` (`SSServerProofs`, like the next three), for CPLs whose reels have one picture each (`PicturesAreRegular`), whatever else they
  list and whatever has no duration: a frame is told the identity, rate and duration of the one picture with a duration that covers
it, but for frame 0, which may be told a picture without one. `ShowInv` says that the show is a `Timeline`: its reels end where the next
  begin (`Follow`), and the last where the show does. Then exactly one reel's picture covers a frame (`OneReel`), and the
  lookup, which stops at the first reel with a picture there and may meet assets that cover frame 0 for
  want of a duration, finds what one of them says (`FrameInfoIs`).

* `SentIsRead`, of the codec alone: the client reads the blocks of a reply as they were made, for any items,
  bytes and number of values of a byte. A number is put together from the digits it was cut into (`HasNumber`), each member is found
  where it lies (`HasAt`, `BlockIsRead`), and the blocks are told apart by their sizes (`SentParts`), which never let the
  reader stop early or need more passes than it has (`BlocksFill`).

* `ShowIsAnswered` and `AnswersAreFull`, where the reels besides have at most one file of data, behind the
  picture and not longer (`DataAreRegular`), and what is asked and sent has room in 32 bits (`NumbersFit`). The
  parser kept between requests is the reason for an invariant: `Kept` says that it was opened for some data
  of the show that is loaded, or else before a reset, and `AnswerInv` that a server runs on a loaded show
  and a reply that was made with a parser of that show (`fresh`, which the properties ask for) has the blocks
  `IsAnswer` describes. One more frame keeps that (`OneMoreRead`), by cases of what the parser gives (`ItemIs`): an item of the
  frame, or none because the show has none or its file did not open. That the client reads them is `SentIsRead`.

The hypotheses are of the constants, and hold of the instances (`TextsAssumption`, `CPLsAssumption` and `NumbersAssumption` of
`MCSSServer`, evaluated by TLC). CPLs that break `DataAreRegular` are legal as far as the parser goes; with two files of data in
a reel the lookup of the rate takes the last and that of the path the first, so that the coding may not be that of the item.
The functions that read along a sequence (`PictureFrames`, `ShowOf`, `GetDataItems`, `ReadContent`) are recursive functions, for
which a pair of lemmas each says that they exist and what their steps are.

Only model-checked: every liveness property, as liveness under fairness and `ENABLED` are out of the prover's reach.

No module declares a recursive operator, so that each can be proved about.

## What the models show of the code besides

The models follow these lines of the code, and the properties name what is left of a promise; none
of them contradicts a documented one so plainly that a run is spent on it.

* A UUID is written with the upper byte of each word first and copied from memory as it is
  (`dcisg/sync.cpp:424`): on the machines the program runs on, the bytes of each word change places. The tests
  only use UUIDs of zeros. `AsRead` of `SEClient` says so.
* `FrameValidator::ValidatePayload` stops at twice the length and not behind the last pair, and never checks
  the pair of the length (`utils/FrameValidator.cpp:276`): a sample lost there is handed over.
* A 64-bit number loses its upper half when it is read, and a bool is never set to false
  (`utils/SerializationUtils.cpp:198`, `:346`): `ReadAs` of `DCSChannel`. The tests use 32-bit values.
* The factory makes no message for the key of a terminated lease (`commands/MessageFactory.cpp:40`): `Delivered`.
* `GetPayloadSize` of an update of the timeline counts its extensions, not their bytes
  (`commands/DCS_Message.cpp:751`); the instance has none, and nothing in the repository sends one.
* The log's answers go out with a count, or a length of a text, that was never set (`client/DCS/DCS_Client.cpp:438-465`,
  `commands/DCS_Message.h:766`, `:830`). A count other than 0 has `WritePayload` read an empty vector at the null
  pointer and ends the client; a length other than the text's has the session take what follows for text, and
  read beyond the payload. No server of the repository asks for them.
* `HandlePayload` rejects a duration of 0 and no other (`utils/FrameValidator.cpp:465`): one less than the payload's 88 samples has
  the payload copied beyond the new frame (`:485`), and with 88 `ParseFrames` handles the same frame for ever, as
  the offset it is to change is where it was. `Overrun`, and the exceptions of `OffsetsInBounds` and `AddSamplesReturns`, say so.
  At 48000 samples a second an emitter only sends such frames of a show with 545 or more frames a second.
* A reply that the end of the connection cuts short passes for a whole one (`client/SS/SS_Client.cpp:307`): its blocks are queued,
  and the next request begins behind the range its header gives (`CutShort`). The length that the server sent is not looked at.
* An asset without a duration covers frame 0 (`AuxData/Show.cpp:80`): a picture listed before the one that has a
  duration is what frame 0 is told, the only exception of `EveryFrameIsShown`.
* `SE_Server::Initialize` allocates `maxFrameDuration_` bytes for as many samples of `bytesPerSample_` bytes,
  which a model on samples cannot tell.

## What is not modelled

* The conversion between float and 24-bit samples, taken to be exact as it is for the 16-bit words
  of the signal; the clock and the time to the next flip.
* Frames that are shorter than a buffer, on the receiver's side: `SyncSignal_Test` takes buffers of up to 16384
  samples, so that several frames may end in one.
* A callback with fewer samples than the buffer, and a reply cut within its header or a block, behind which `SS_Client`
  reads beyond what came.
* The extension of a sync packet and the content of a timeline extension, which nothing in the
  repository sends.
* Several clients of one `DCS_Server`, and threads that call its methods while its io service runs.
* `AuxDataQueue`, which nothing uses; the XML of CPLs and asset maps, the parsing of URLs and addresses,
  the text of replies, logging: conversions without a state that a property is about.
* Data races on plain fields are modelled as interleavings of whole reads and writes. An observer that
  calls back into the state it is told of would wait for itself; no observer of the repository does.

## The plan

Done, in this order: the emitter with its abstract stream and its proofs; the receiver; the
fetching client; the control channel; the data server; the states and their observers; the three
codecs; theorems of every invariant the passing runs check. To do, in the order of their weight:

1. A composition of `SSClient` with `SSServer` in place of its abstract server, and of emitter, line
   and receiver: every frame the device is given is reported, with its own index.
2. The promises of a seek, and of a call made while the show resets itself, in `SEServer`; several
   sessions in `DCSHandshake`.
