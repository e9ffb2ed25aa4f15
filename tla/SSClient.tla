------------------------------ MODULE SSClient ------------------------------
(***************************************************************************)
(* The fetching of auxiliary data: class SS_Client asks SS_Server for the  *)
(* edit units ahead of the frame the sync signal is at, and queues what it *)
(* gets in AuxDataMgr; Client_Validator matches the queue with each sync   *)
(* packet.  Three threads: fetchAuxDataItemThread_ runs RequestAuxDataItem *)
(* and decides when to send a GET; the io service's thread runs the        *)
(* handlers of the GET, any of which may meet an error; the parser thread  *)
(* of SE_Client delivers the packets.                                      *)
(*                                                                         *)
(* A request is its start, a reply the units the server found from there   *)
(* on, an AuxDataBlock its editUnitIndex_.  A timed wait ends at any time. *)
(***************************************************************************)
EXTENDS Integers, Sequences, FiniteSets

CONSTANTS
  Units,                \* the frames the show has auxiliary data for
  LastFrame,            \* the show's last frame
  EditUnitsPerRequest,  \* editUnitsPerRequest_
  AheadToRequest,       \* editUnitsAheadOfCurrentEditUnitToRequest_
  AheadToInitiate,      \* editUnitsAheadOfCurrentEditUnitToInitiateRequest_
  ServersMaximum,       \* the server's maxEditUnitsPerRequest_
  MaxFailures           \* bound on the errors

ASSUME SSClientAssumption ==
  /\ LastFrame \in Nat /\ Units \subseteq 0 .. LastFrame
  /\ {EditUnitsPerRequest, ServersMaximum} \subseteq Nat \ {0}
  /\ {AheadToRequest, AheadToInitiate, MaxFailures} \subseteq Nat

VARIABLES
  \* shared by the fetching thread and the handlers
  startEditUnit, getInProgress, state,
  keepRequestingAuxDataItem,
  request,              \* the starts of the requests in request_
  \* the fetching thread's own
  fetch, pauseRequestAuxDataItem,
  frameSeen,            \* its local currentFrame
  frameToStartNextFetchOn,
  \* the handlers' own
  op,                   \* the operation under way
  reply,                \* the reply being read
  added,                \* how many of its blocks have been queued
  leftover,             \* response_ holds the beginning of a reply that broke off
  \* the queue and the validator
  auxDataQueue,
  auxData,              \* the item the validator holds, in a sequence
  isValid, validating,
  currentFrame,         \* the index of the last sync packet
  \* history
  failures,
  delivered,            \* the units ever queued
  underflowed           \* startEditUnit_ was moved past the frames it had missed

sharedVars == <<startEditUnit, getInProgress, state, request>>
fetchVars  == <<fetch, pauseRequestAuxDataItem, frameSeen, frameToStartNextFetchOn>>
opVars     == <<op, reply, added, leftover>>
validVars  == <<auxData, isValid, validating, currentFrame>>
history    == <<failures, delivered, underflowed>>
vars == <<sharedVars, keepRequestingAuxDataItem, fetchVars, opVars, auxDataQueue,
          validVars, history>>

NoReply == [start |-> 0, units |-> <<>>]

Init ==
  /\ startEditUnit = 0 /\ getInProgress = FALSE /\ state = "Unknown" /\ request = <<>>
  /\ keepRequestingAuxDataItem = TRUE
  /\ fetch = "unborn" /\ pauseRequestAuxDataItem = TRUE
  /\ frameSeen = 0 /\ frameToStartNextFetchOn = 0
  /\ op = "idle" /\ reply = NoReply /\ added = 0 /\ leftover = FALSE
  /\ auxDataQueue = <<>> /\ auxData = <<>>
  /\ isValid = FALSE /\ validating = "idle" /\ currentFrame = 0
  /\ failures = 0 /\ delivered = {} /\ underflowed = FALSE

-----------------------------------------------------------------------------
(* The server's end.                                                       *)

\* request_handler::handle_request and ShowManager::GetDataItems: the units from
\* start on, up to the first one that is missing.
Answer(start) ==
  LET count == IF EditUnitsPerRequest > ServersMaximum THEN ServersMaximum
                                                       ELSE EditUnitsPerRequest
      read == CHOOSE n \in 0 .. count :
                /\ start .. start + n - 1 \subseteq Units
                /\ n = count \/ start + n \notin Units
  IN  [start |-> start, units |-> [i \in 1 .. read |-> start + i - 1]]

-----------------------------------------------------------------------------
(* GET, and the handlers of its operations.                                *)

\* Mutated: the flag is not set.
GETUnmarked ==
  /\ UNCHANGED getInProgress
  /\ state' = "Buffering"
  /\ request' = Append(request, startEditUnit)
  /\ op' = "resolve"
  /\ UNCHANGED <<startEditUnit, reply, added, leftover>>

\* The request for startEditUnit_ is written behind what request_ holds.
GET ==
  /\ getInProgress' = TRUE
  /\ state' = "Buffering"
  /\ request' = Append(request, startEditUnit)
  /\ op' = "resolve"
  /\ UNCHANGED <<startEditUnit, reply, added, leftover>>

OpDone(done, next) == op = done /\ op' = next

handle_resolve ==
  /\ OpDone("resolve", "connect")
  /\ UNCHANGED <<sharedVars, reply, added, leftover>>

handle_connect ==
  /\ OpDone("connect", "write")
  /\ state' = "Connected"
  /\ UNCHANGED <<startEditUnit, getInProgress, request, reply, added, leftover>>

\* All of request_ is sent; the server answers the first request in it, and closes.
handle_write_request ==
  /\ OpDone("write", "statusLine")
  /\ request' = <<>>
  /\ reply' = Answer(Head(request))
  /\ UNCHANGED <<startEditUnit, getInProgress, state, added, leftover>>

handle_read_status_line ==
  /\ OpDone("statusLine", "headers")
  /\ leftover' = FALSE
  /\ UNCHANGED <<sharedVars, reply, added>>

\* The reply is not a status line, or not 200: the handler just returns.
Refuse ==
  /\ OpDone("statusLine", "refused")
  /\ leftover \/ failures < MaxFailures
  /\ failures' = IF leftover THEN failures ELSE failures + 1
  /\ UNCHANGED <<sharedVars, reply, added, leftover, auxDataQueue, delivered, underflowed>>

handle_read_headers ==
  /\ OpDone("headers", "content")
  /\ UNCHANGED <<sharedVars, reply, added, leftover>>

\* The end of the content: its blocks are queued one by one.
AddDataItem ==
  /\ op = "content" /\ added < Len(reply.units)
  /\ added' = added + 1
  /\ auxDataQueue' = Append(auxDataQueue, reply.units[added'])
  /\ delivered' = delivered \cup {reply.units[added']}
  /\ UNCHANGED <<sharedVars, op, reply, leftover, failures, underflowed>>

\* Mutated: a unit is left out.
EndOfReplyOneMore == reply.start + Len(reply.units) + 1
\* Mutated: the count is forgotten.
StartOfReply == reply.start

\* Where the next request starts.
EndOfReply == reply.start + Len(reply.units)

\* What the handler makes of the end of the content, whether or not all of it came.
ContentEnds ==
  /\ OpDone("content", "idle") /\ added' = 0
  /\ startEditUnit' = EndOfReply
  /\ getInProgress' = FALSE
  /\ reply' = NoReply
  /\ UNCHANGED <<state, request, leftover>>

handle_read_content == added = Len(reply.units) /\ ContentEnds

\* The connection is closed within the content: for the handler, that is its end.
\* The blocks that came are queued, and the header's range passes for fetched.
CutShort ==
  /\ added < Len(reply.units) /\ ContentEnds
  /\ failures < MaxFailures /\ failures' = failures + 1
  /\ UNCHANGED <<auxDataQueue, delivered, underflowed>>

\* Mutated: the flag stays set.
HandleErrorInProgress ==
  /\ state' = "Disconnected"
  /\ startEditUnit' = startEditUnit - EditUnitsPerRequest
  /\ UNCHANGED getInProgress

HandleError ==
  /\ state' = "Disconnected"
  /\ startEditUnit' = startEditUnit - EditUnitsPerRequest
  /\ getInProgress' = FALSE

\* An operation ends with an error.  What was not written stays in request_; what
\* was read of a status line or of headers stays in response_.
Fail ==
  /\ op \in {"resolve", "connect", "write", "statusLine", "headers", "content"}
  /\ added = 0
  /\ failures < MaxFailures /\ failures' = failures + 1
  /\ HandleError
  /\ op' = "idle" /\ reply' = NoReply /\ UNCHANGED added
  /\ request' \in IF op = "write" THEN {request, <<>>} ELSE {request}
  /\ leftover' \in IF op \in {"statusLine", "headers"} THEN BOOLEAN ELSE {leftover}
  /\ UNCHANGED <<auxDataQueue, delivered, underflowed>>

Handler ==
  /\ \/ /\ \/ handle_resolve \/ handle_connect \/ handle_write_request
           \/ handle_read_status_line \/ handle_read_headers \/ handle_read_content
        /\ UNCHANGED <<auxDataQueue, history>>
     \/ AddDataItem \/ Refuse \/ CutShort \/ Fail
  /\ UNCHANGED <<keepRequestingAuxDataItem, fetchVars, validVars>>

-----------------------------------------------------------------------------
(* The fetching thread.                                                    *)

\* The frame that is played, from the sync signal.
CurrentFrameCallback == currentFrame

\* The first GET, and the thread.
SetServerAndPort ==
  /\ fetch = "unborn" /\ fetch' = "loop"
  /\ GET
  /\ UNCHANGED <<keepRequestingAuxDataItem, pauseRequestAuxDataItem, frameSeen,
                 frameToStartNextFetchOn, auxDataQueue, validVars, failures, delivered,
                 underflowed>>

\* Mutated: the destructor's flag is not looked at.
FetchesForEver == pauseRequestAuxDataItem

\* The inner loop goes on.
FetchesOn == pauseRequestAuxDataItem /\ keepRequestingAuxDataItem

\* The frame that is played is read first, and the flag a while after it: a reply may
\* end in between.
ReadCurrentFrame ==
  /\ fetch = "loop" /\ FetchesOn
  /\ frameSeen' = CurrentFrameCallback
  /\ fetch' = "look"
  /\ UNCHANGED <<sharedVars, opVars, pauseRequestAuxDataItem, frameToStartNextFetchOn, history>>

Look ==
  /\ fetch = "look"
  /\ fetch' = IF getInProgress THEN "pending" ELSE "compute"
  /\ UNCHANGED <<sharedVars, opVars, pauseRequestAuxDataItem, frameSeen,
                 frameToStartNextFetchOn, history>>

\* A reply was still missing: sleep, or look again where the deadline is missed.
LookWhileInProgress ==
  /\ fetch = "pending"
  /\ fetch' = IF frameSeen > startEditUnit THEN "loop" ELSE "sleep"
  /\ UNCHANGED <<sharedVars, opVars, pauseRequestAuxDataItem, frameSeen,
                 frameToStartNextFetchOn, history>>

\* Mutated: early in the show the difference is not clamped.
Unclamped(start) == start - AheadToInitiate

\* The frame to fetch the units from start on at.
NextFetchOn(start) == IF start < AheadToInitiate THEN 0 ELSE start - AheadToInitiate

\* Where to fetch from, and when; then a sleep till then.
ComputeNextFetch ==
  /\ fetch = "compute"
  /\ startEditUnit' = IF frameSeen > startEditUnit THEN frameSeen + AheadToRequest ELSE startEditUnit
  /\ underflowed' = (underflowed \/ frameSeen > startEditUnit)
  /\ frameToStartNextFetchOn' = NextFetchOn(startEditUnit')
  /\ IF frameSeen < frameToStartNextFetchOn'
     THEN state' = "Buffered" /\ fetch' = "wait"
     ELSE UNCHANGED state /\ fetch' = "decide"
  /\ UNCHANGED <<getInProgress, request, opVars, pauseRequestAuxDataItem, frameSeen,
                 failures, delivered>>

\* A sleep ends, by its timeout or by the destructor.
WakeUp ==
  /\ \/ fetch = "sleep" /\ fetch' = "loop" /\ UNCHANGED frameSeen
     \/ fetch = "wait" /\ fetch' = "decide" /\ frameSeen' = CurrentFrameCallback
  /\ UNCHANGED <<sharedVars, opVars, pauseRequestAuxDataItem, frameToStartNextFetchOn, history>>

DecideToFetch ==
  /\ fetch = "decide" /\ fetch' = "loop"
  /\ pauseRequestAuxDataItem' = (pauseRequestAuxDataItem /\ frameSeen < frameToStartNextFetchOn)
  /\ UNCHANGED <<sharedVars, opVars, frameSeen, frameToStartNextFetchOn, history>>

LeavePause ==
  /\ fetch = "loop" /\ ~FetchesOn
  /\ pauseRequestAuxDataItem' = TRUE
  /\ fetch' = IF keepRequestingAuxDataItem THEN "get" ELSE "done"
  /\ UNCHANGED <<sharedVars, opVars, frameSeen, frameToStartNextFetchOn, history>>

StartGET ==
  /\ fetch = "get" /\ fetch' = IF keepRequestingAuxDataItem THEN "loop" ELSE "done"
  /\ IF getInProgress THEN UNCHANGED <<sharedVars, opVars>> ELSE GET
  /\ UNCHANGED <<pauseRequestAuxDataItem, frameSeen, frameToStartNextFetchOn,
                 failures, delivered, underflowed>>

RequestAuxDataItem ==
  /\ \/ ReadCurrentFrame \/ Look \/ LookWhileInProgress \/ ComputeNextFetch \/ WakeUp
     \/ DecideToFetch \/ LeavePause \/ StartGET
  /\ UNCHANGED <<keepRequestingAuxDataItem, auxDataQueue, validVars>>

\* The destructor clears the flag, notifies the thread and joins it.
Destroy ==
  /\ fetch # "unborn" /\ keepRequestingAuxDataItem
  /\ keepRequestingAuxDataItem' = FALSE
  /\ UNCHANGED <<sharedVars, fetchVars, opVars, auxDataQueue, validVars, history>>

-----------------------------------------------------------------------------
(* The sync packets, and their validation.                                 *)

\* The next packet: of the frame after, or of the same one while paused.
HandleFrame ==
  /\ validating = "idle" /\ validating' = "take"
  /\ currentFrame' \in {currentFrame, currentFrame + 1} \cap 0 .. LastFrame
  /\ UNCHANGED <<auxData, isValid, auxDataQueue>>

\* GetNextDataItem, where the validator holds no item: it gives up on an empty queue.
TakeItem ==
  /\ validating = "take"
  /\ \/ /\ auxData # <<>> /\ validating' = "test"
        /\ UNCHANGED <<auxData, auxDataQueue, isValid>>
     \/ /\ auxData = <<>> /\ auxDataQueue # <<>> /\ validating' = "test"
        /\ auxData' = <<Head(auxDataQueue)>> /\ auxDataQueue' = Tail(auxDataQueue)
        /\ UNCHANGED isValid
     \/ /\ auxData = <<>> /\ auxDataQueue = <<>> /\ validating' = "idle"
        /\ isValid' = FALSE
        /\ UNCHANGED <<auxData, auxDataQueue>>
  /\ UNCHANGED currentFrame

\* Mutated: an item that comes later is dropped too.
DropsLaterItems ==
  /\ validating = "test"
  /\ isValid' = (auxData[1] = currentFrame)
  /\ auxData' = <<>>
  /\ validating' = IF auxData[1] < currentFrame THEN "takeNext" ELSE "idle"
  /\ UNCHANGED <<auxDataQueue, currentFrame>>
\* Mutated: the search ends behind an earlier item.
GivesUpEarly ==
  /\ validating = "test"
  /\ isValid' = (auxData[1] = currentFrame)
  /\ auxData' = IF auxData[1] <= currentFrame THEN <<>> ELSE auxData
  /\ validating' = "idle"
  /\ UNCHANGED <<auxDataQueue, currentFrame>>

\* The held item is the packet's, comes earlier, or comes later and stays held.
TestItem ==
  /\ validating = "test"
  /\ isValid' = (auxData[1] = currentFrame)
  /\ \/ auxData[1] = currentFrame /\ auxData' = <<>> /\ validating' = "idle"
     \/ auxData[1] < currentFrame /\ auxData' = <<>> /\ validating' = "takeNext"
     \/ auxData[1] > currentFrame /\ validating' = "idle" /\ UNCHANGED auxData
  /\ UNCHANGED <<auxDataQueue, currentFrame>>

\* Behind an earlier item: the loop ends with the queue.
TakeNextItem ==
  /\ validating = "takeNext"
  /\ IF auxDataQueue = <<>>
     THEN validating' = "idle" /\ UNCHANGED <<auxData, auxDataQueue>>
     ELSE /\ auxData' = <<Head(auxDataQueue)>> /\ auxDataQueue' = Tail(auxDataQueue)
          /\ validating' = "test"
  /\ UNCHANGED <<isValid, currentFrame>>

Validate == TakeItem \/ TestItem \/ TakeNextItem

Packets ==
  /\ HandleFrame \/ Validate
  /\ UNCHANGED <<sharedVars, keepRequestingAuxDataItem, fetchVars, opVars, history>>

Next == SetServerAndPort \/ Handler \/ RequestAuxDataItem \/ Destroy \/ Packets

Spec == Init /\ [][Next]_vars

\* An operation of the io service ends, well or not; the fetching thread is
\* scheduled and its timed waits end.
FairSpec == Spec /\ WF_vars(Handler) /\ WF_vars(RequestAuxDataItem)

-----------------------------------------------------------------------------
(* Properties.                                                             *)

Ops == {"idle", "resolve", "connect", "write", "statusLine", "refused", "headers", "content"}
Replies == [start : Int, units : Seq(Units)]

FlagType ==
  /\ getInProgress \in BOOLEAN /\ keepRequestingAuxDataItem \in BOOLEAN
  /\ pauseRequestAuxDataItem \in BOOLEAN /\ leftover \in BOOLEAN
  /\ isValid \in BOOLEAN /\ underflowed \in BOOLEAN
SharedType ==
  /\ startEditUnit \in Int /\ request \in Seq(Int)
  /\ state \in {"Unknown", "Buffering", "Connected", "Buffered", "Disconnected"}
FetchType ==
  /\ fetch \in {"unborn", "loop", "look", "pending", "sleep", "compute", "wait", "decide",
                "get", "done"}
  /\ frameSeen \in 0 .. LastFrame /\ frameToStartNextFetchOn \in Nat
OpType ==
  op \in Ops /\ reply \in Replies /\ added \in 0 .. Len(reply.units)
ValidType ==
  /\ auxDataQueue \in Seq(Units) /\ auxData \in Seq(Units) /\ Len(auxData) <= 1
  /\ validating \in {"idle", "take", "test", "takeNext"} /\ currentFrame \in 0 .. LastFrame
HistoryType == failures \in 0 .. MaxFailures /\ delivered \subseteq Units
TypeOK == FlagType /\ SharedType /\ FetchType /\ OpType /\ ValidType /\ HistoryType

\* The flag and the two threads agree: no GET is started while the operations of
\* another are under way, whatever errors they meet, and the flag is only clear
\* when there are none.  They share request_, response_ and socket_.
OneRequestInFlight ==
  /\ op # "idle" => getInProgress
  /\ fetch \in {"compute", "wait", "decide"} => op = "idle"
  /\ fetch = "get" => ~getInProgress

\* What the validator has before it, the item it holds first.
Waiting == auxData \o auxDataQueue

\* Without errors, the units queue up in the order of the timeline, each once,
\* before the start of the next request.
UnitsInOrder ==
  failures = 0 =>
    /\ \A i, j \in DOMAIN Waiting : i < j => Waiting[i] < Waiting[j]
    /\ op # "content" => \A i \in DOMAIN Waiting : Waiting[i] < startEditUnit

\* Without errors, and while the requests keep ahead of the signal, no unit is
\* left out: all the show has before the next request's start were queued.
NoUnitSkipped ==
  failures = 0 /\ ~underflowed /\ op # "content" =>
    \A unit \in Units : unit < startEditUnit => unit \in delivered

\* Whatever fails, a unit that was queued waits for its frame: the validator drops
\* none that is still ahead of the sync signal.
KeepsWhatIsAhead ==
  \A unit \in delivered : unit > currentFrame => \E i \in DOMAIN Waiting : Waiting[i] = unit

\* Without errors, a packet is found valid if its unit is there when its
\* validation ends, whatever earlier units stand before it.
ValidWhenThere ==
  [][failures = 0 /\ validating # "idle" /\ validating' = "idle"
       /\ (\E i \in DOMAIN Waiting : Waiting[i] = currentFrame)
     => isValid']_vars

\* A request ends, well or with an error, unless its reply was refused.
RequestsEnd == getInProgress ~> ~getInProgress \/ op = "refused"

\* Whatever the network does, the destructor's join returns.
DestructorReturns == ~keepRequestingAuxDataItem ~> fetch = "done"

\* "The request will do the right thing and return an error code": a request ends
\* whatever the reply.
RequestsGoOn == getInProgress ~> ~getInProgress
=============================================================================
