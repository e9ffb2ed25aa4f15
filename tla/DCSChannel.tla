----------------------------- MODULE DCSChannel -----------------------------
(***************************************************************************)
(* What a DCS_Client sends, byte for byte, to the DCS_Session that reads   *)
(* it, and what the client's observers are told on the way.  The user's    *)
(* thread sends messages, closes the client, adds and removes observers at *)
(* any time, before the client is connected included; the io service's     *)
(* thread runs the handlers, and sets the state in some of them.           *)
(*                                                                         *)
(* What the session sends, and what either end makes of a message, is      *)
(* DCSHandshake's: here the client reads nothing but the connection's end. *)
(***************************************************************************)
EXTENDS DCSMessage, ObservableState

CONSTANTS
  Scripts,   \* the sequences of messages the user may send
  MaxCalls   \* bound on the user's calls, and on the broken connections

ASSUME DCSChannelAssumption ==
  /\ MaxCalls \in Nat
  /\ {"io", "user"} = Threads
  /\ {"Disconnected", "Connected"} = States /\ FirstState = "Disconnected"

\* What is sent are messages as their classes have them, right or wrong their counts.
ASSUME MessagesAssumption ==
  \A script \in Scripts :
    script \in Seq(ToSet(script)) /\ \A msg \in ToSet(script) : IsMessage(msg)

VARIABLES
  \* the client
  socket,          \* unconnected, open or closed
  connect,         \* async_connect: pending, ok or error until its handler has run
  posted,          \* the calls posted: <<msg>> for DoWrite, <<>> for DoClose
  handler,         \* what the io thread does behind the SetState under way; ended
                   \* when the client's process is
  clientRead,      \* its read of a header
  writeMsgs,       \* write_msgs_
  writeBuffer, writeBufferSize,
  writeResult,
  \* the connection
  wire,            \* the bytes on their way
  lost,            \* it broke
  \* the session
  peer,            \* its socket
  reading, readResult,
  readHeader, readPayload,      \* the two buffers
  readPayloadBufferSize,
  received,        \* the kinds and payloads of the messages it created
  \* history
  sent, calls

clientVars == <<socket, connect, posted, handler, clientRead>>
writeVars == <<writeMsgs, writeBuffer, writeBufferSize, writeResult>>
readVars == <<reading, readResult, readHeader, readPayload, readPayloadBufferSize>>
sessionVars == <<peer, readVars, received>>
history == <<sent, calls>>
vars == <<obsVars, clientVars, writeVars, wire, lost, sessionVars, history>>

Init ==
  /\ ObsInit
  /\ socket = "unconnected" /\ connect = "pending"
  /\ posted = <<>> /\ handler = "none" /\ clientRead = "none"
  /\ writeMsgs = <<>> /\ writeBuffer = <<>> /\ writeBufferSize = 2 * headerSize
  /\ writeResult = "none"
  /\ wire = <<>> /\ lost = FALSE
  /\ peer = "unopened" /\ reading = "nothing" /\ readResult = "none"
  /\ readHeader = <<>> /\ readPayload = <<>> /\ readPayloadBufferSize = headerSize
  /\ received = <<>>
  /\ sent = <<>> /\ calls = 0

Broken == lost \/ socket = "closed" \/ peer = "closed"

-----------------------------------------------------------------------------
(* The io thread of the client: DCS_Client.                                *)

\* A handler runs when the one before has returned.
Free == handler = "none" /\ call["io"].op = "idle"

\* SetState, and what is to be done behind it.
SetsState(to, next) == SetState("io", to) /\ handler' = next

\* DoClose: the state first, then the socket.
DoClose == SetsState("Disconnected", "close")

\* Mutant: the buffer keeps its size.
NeverGrown(msg) == writeBufferSize' = writeBufferSize

GrowBuffer(msg) ==
  writeBufferSize' = IF GetMessageSize(msg) > writeBufferSize
                     THEN GetMessageSize(msg) ELSE writeBufferSize

\* The message is written to the buffer, and the buffer to the socket.
StartWrite(msg) ==
  /\ ItemsAreCounted(msg)
  /\ GrowBuffer(msg)
  /\ writeBuffer' = WriteHeader(msg) \o WritePayload(msg)
  /\ writeResult' = "pending"

\* async_connect: the connection is made some time before the handler runs.
ConnectCompletes ==
  /\ connect = "pending"
  /\ IF lost \/ socket = "closed" THEN connect' = "error" /\ UNCHANGED socket
     ELSE connect' = "ok" /\ socket' = "open"
  /\ UNCHANGED <<obsVars, posted, handler, clientRead, writeVars, wire, lost, sessionVars,
                 history>>

\* The state is set, and a header is asked for, of a socket that may be closed again.
HandleConnect ==
  /\ Free
  /\ \/ connect = "ok" /\ SetsState("Connected", "read")
     \/ connect = "error" /\ DoClose
  /\ connect' = "done"
  /\ UNCHANGED <<socket, posted, clientRead, writeVars, wire, lost, sessionVars, history>>

\* The rest of HandleConnect and of DoClose, once SetState has returned.
Returns ==
  /\ handler \in {"read", "close"} /\ call["io"].op = "idle"
  /\ handler' = "none"
  /\ CASE handler = "read"  -> clientRead' = "pending" /\ UNCHANGED socket
       [] handler = "close" -> socket' = "closed" /\ UNCHANGED clientRead
  /\ UNCHANGED <<obsVars, connect, posted, writeVars, wire, lost, sessionVars, history>>

\* HandleReadHeader of the client, with an error.
HandleReadError ==
  /\ Free /\ clientRead = "pending" /\ Broken
  /\ DoClose
  /\ clientRead' = "none"
  /\ UNCHANGED <<socket, connect, posted, writeVars, wire, lost, sessionVars, history>>

\* A message is written at once if none is being written.
DoWrite(msg) ==
  /\ writeMsgs' = Append(writeMsgs, msg)
  /\ IF writeMsgs = <<>> THEN StartWrite(msg)
     ELSE UNCHANGED <<writeBuffer, writeBufferSize, writeResult>>

\* A call that was posted.
RunPosted ==
  /\ Free /\ posted # <<>>
  /\ posted' = Tail(posted)
  /\ \/ Head(posted) = <<>> /\ DoClose /\ UNCHANGED writeVars
     \/ \E msg \in ToSet(Head(posted)) : DoWrite(msg) /\ UNCHANGED <<obsVars, handler>>
  /\ UNCHANGED <<socket, connect, clientRead, wire, lost, sessionVars, history>>

\* async_write of as many bytes as the message is long.  Before there is a connection
\* it waits for one or fails; of a write that fails the other end may get a part.
WriteCompletes ==
  /\ writeResult = "pending"
  /\ LET msgSize == GetMessageSize(Head(writeMsgs))
     IN  \/ /\ socket = "open"
            /\ writeResult' = "ok"
            /\ wire' = wire \o SubSeq(writeBuffer, 1, msgSize)
         \/ /\ Broken \/ socket = "unconnected"
            /\ writeResult' = "error"
            /\ \E n \in IF connect = "pending" THEN {0} ELSE {0, headerSize, msgSize - 1} :
                 wire' = wire \o SubSeq(writeBuffer, 1, n)
  /\ UNCHANGED <<obsVars, clientVars, writeMsgs, writeBuffer, writeBufferSize, lost,
                 sessionVars, history>>

\* Mutated: what is still in the queue waits for the next DoWrite.
NextWriteForgotten ==
  /\ writeResult' = "none"
  /\ UNCHANGED <<writeBuffer, writeBufferSize>>

NextWrite ==
  IF Len(writeMsgs) > 1 THEN StartWrite(writeMsgs[2])
  ELSE writeResult' = "none" /\ UNCHANGED <<writeBuffer, writeBufferSize>>

HandleWrite ==
  /\ Free
  /\ \/ /\ writeResult = "ok"
        /\ writeMsgs' = Tail(writeMsgs)
        /\ NextWrite
        /\ UNCHANGED <<obsVars, handler>>
     \/ /\ writeResult = "error"
        /\ writeResult' = "none"
        /\ DoClose
        /\ UNCHANGED <<writeMsgs, writeBuffer, writeBufferSize>>
  /\ UNCHANGED <<socket, connect, posted, clientRead, wire, lost, sessionVars, history>>

\* DoWrite and HandleWrite, when the message to be written counts items it does not have:
\* eventIDs_[i] is read of an empty vector, at the null pointer, and the process ends.
WriteFaults ==
  /\ Free
  /\ \/ /\ posted # <<>> /\ writeMsgs = <<>>
        /\ \E msg \in ToSet(Head(posted)) : ~ItemsAreCounted(msg)
     \/ writeResult = "ok" /\ Len(writeMsgs) > 1 /\ ~ItemsAreCounted(writeMsgs[2])
  /\ handler' = "ended" /\ socket' = "closed"
  /\ UNCHANGED <<obsVars, connect, posted, clientRead, writeVars, wire, lost, sessionVars,
                 history>>

-----------------------------------------------------------------------------
(* The session.                                                            *)

\* Start: a header is read.
Start ==
  /\ peer = "unopened" /\ socket = "open"
  /\ peer' = "open" /\ reading' = "header" /\ readResult' = "pending"
  /\ UNCHANGED <<obsVars, clientVars, writeVars, wire, lost, readHeader, readPayload,
                 readPayloadBufferSize, received, history>>

\* async_read of a whole header or payload, or an error.
Wanted == IF reading = "header" THEN headerSize ELSE HeaderLength(readHeader)

ReadCompletes ==
  /\ readResult = "pending"
  /\ \/ /\ peer = "open" /\ Len(wire) >= Wanted
        /\ readResult' = "ok"
        /\ wire' = SubSeq(wire, Wanted + 1, Len(wire))
        /\ IF reading = "header"
           THEN readHeader' = SubSeq(wire, 1, Wanted) /\ UNCHANGED readPayload
           ELSE readPayload' = SubSeq(wire, 1, Wanted) /\ UNCHANGED readHeader
     \/ /\ Broken
        /\ readResult' = "error"
        /\ UNCHANGED <<wire, readHeader, readPayload>>
  /\ UNCHANGED <<obsVars, clientVars, writeVars, lost, peer, reading, readPayloadBufferSize,
                 received, history>>

CloseSession ==
  /\ peer' = "closed" /\ reading' = "nothing" /\ readResult' = "none"
  /\ UNCHANGED <<readHeader, readPayload, readPayloadBufferSize, received>>

HandleReadHeader ==
  /\ reading = "header"
  /\ \/ /\ readResult = "ok"
        /\ readPayloadBufferSize' = IF readPayloadBufferSize < HeaderLength(readHeader)
                                    THEN HeaderLength(readHeader) ELSE readPayloadBufferSize
        /\ reading' = "body" /\ readResult' = "pending"
        /\ UNCHANGED <<peer, readHeader, readPayload, received>>
     \/ readResult = "error" /\ CloseSession
  /\ UNCHANGED <<obsVars, clientVars, writeVars, wire, lost, history>>

\* A message of a kind the factory does not know is skipped; the others are read
\* from their payload, as ReadPayload says, and executed.
CreateMessage ==
  IF CreatedKinds(readHeader) = {} THEN UNCHANGED received
  ELSE \E kind \in CreatedKinds(readHeader) :
         received' = Append(received, [kind |-> kind, payload |-> readPayload])

\* What is read beyond the payload may be anything, or end the session's process.
ReadFaults == \E kind \in CreatedKinds(readHeader) : ReadsBeyond(kind, readPayload)

HandleReadBody ==
  /\ reading = "body"
  /\ \/ /\ readResult = "ok"
        /\ CreateMessage
        /\ reading' = "header" /\ readResult' = "pending"
        /\ readHeader' = <<>> /\ readPayload' = <<>>
        /\ UNCHANGED <<peer, readPayloadBufferSize>>
     \/ readResult = "error" /\ CloseSession
     \/ readResult = "ok" /\ ReadFaults /\ CloseSession
  /\ UNCHANGED <<obsVars, clientVars, writeVars, wire, lost, history>>

-----------------------------------------------------------------------------
(* The user's thread, and the connection.                                  *)

Running == handler # "ended"

Counted == calls < MaxCalls /\ calls' = calls + 1

Send ==
  /\ Running /\ Counted
  /\ \E script \in Scripts :
       /\ IsStrictPrefix(sent, script)
       /\ sent' = SubSeq(script, 1, Len(sent) + 1)
       /\ posted' = Append(posted, <<script[Len(sent) + 1]>>)
  /\ UNCHANGED <<obsVars, socket, connect, handler, clientRead, writeVars, wire, lost,
                 sessionVars>>

Close ==
  /\ Running /\ Counted
  /\ posted' = Append(posted, <<>>)
  /\ UNCHANGED <<obsVars, socket, connect, handler, clientRead, writeVars, wire, lost,
                 sessionVars, sent>>

ObserverCall ==
  /\ Running /\ Counted
  /\ \E o \in Observers : AddObserver("user", o) \/ RemoveObserver("user", o)
  /\ UNCHANGED <<clientVars, writeVars, wire, lost, sessionVars, sent>>

Lose ==
  /\ Counted /\ ~lost
  /\ lost' = TRUE
  /\ UNCHANGED <<obsVars, clientVars, writeVars, wire, sessionVars, sent>>

-----------------------------------------------------------------------------
Notify == Notifies("io") /\ UNCHANGED <<clientVars, writeVars, wire, lost, sessionVars, history>>

ClientIo ==
  \/ HandleConnect \/ Notify \/ Returns \/ HandleReadError
  \/ RunPosted \/ HandleWrite \/ WriteFaults

Session == ReadCompletes \/ HandleReadHeader \/ HandleReadBody

Next ==
  \/ ConnectCompletes \/ ClientIo \/ WriteCompletes
  \/ Start \/ Session
  \/ Send \/ Close \/ ObserverCall \/ Lose

Spec == Init /\ [][Next]_vars

\* The io services run, and their operations complete.
FairSpec ==
  /\ Spec
  /\ WF_vars(ConnectCompletes) /\ WF_vars(ClientIo) /\ WF_vars(WriteCompletes)
  /\ WF_vars(Start) /\ WF_vars(Session)

-----------------------------------------------------------------------------
(* Properties.                                                             *)

\* What a message is worth at the other end: the upper half of a 64-bit member
\* reads as 0, and an output mode that was switched off may read as either.
LongMembers == {"currentTime", "timelinePosition", "editRateNumerator",
                "editRateDenominator", "timeStart", "timeStop"}

ReadAs(got, msg) ==
  /\ got.kind = msg.kind /\ DOMAIN got.body = DOMAIN msg.body
  /\ \A name \in DOMAIN msg.body :
       \/ got.body[name] = msg.body[name]
       \/ name \in LongMembers /\ got.body[name] = [msg.body[name] EXCEPT !.hi = 0]
       \/ name = "outputMode" /\ ~msg.body[name]

\* The messages that arrive: all but those that terminate a lease, which are lost.
LostKinds == {"TerminateLeaseRequest", "TerminateLeaseResponse"}

Arrives(msg) == IF msg.kind \in LostKinds THEN <<>> ELSE <<msg>>

Arriving(messages) == FlattenSeq([i \in DOMAIN messages |-> Arrives(messages[i])])

Delivered == Arriving(sent)

\* What the session reads is what was sent, in its order, message by message, and member
\* by member but for a log event that went without the length of its text.
ArrivesAsSent ==
  /\ Len(received) <= Len(Delivered)
  /\ \A i \in DOMAIN received : received[i].kind = Delivered[i].kind
  /\ \A i \in DOMAIN received, held \in BOOLEAN : CountsAreRight(Delivered[i]) =>
       ReadAs(ReadPayload(received[i].kind, received[i].payload, held).msg, Delivered[i])

\* What is written is as long as was computed before, whatever the counts, and stays in
\* the buffers, which grow and never shrink; what is read ends where the payload does, but
\* for a log event that went without the length of its text.
BuffersHold ==
  /\ writeResult = "pending" =>
       /\ Len(writeBuffer) = GetMessageSize(Head(writeMsgs))
       /\ Len(writeBuffer) <= writeBufferSize
  /\ reading = "body" => Wanted <= readPayloadBufferSize
  /\ \A i \in DOMAIN received \cap DOMAIN Delivered : CountsAreRight(Delivered[i]) =>
       ReadPayload(received[i].kind, received[i].payload, TRUE).at = Len(received[i].payload) + 1

\* Whatever is sent arrives, unless the connection breaks or an end closes, or is closed
\* with its process.
MessagesArrive ==
  Len(received) < Len(Delivered) ~> Broken \/ Len(received) = Len(Delivered)
=============================================================================
