------------------------- MODULE DCSHandshakeProofs -------------------------
(***************************************************************************)
(* The control channel for any number of clients, broken connections,      *)
(* notifications and requests: nothing waits in a queue that nobody        *)
(* writes, an end that is closed says so, and the handshake is in order.   *)
(* Two facts carry the first two: a body that has been read is still the   *)
(* first message of its wire, and what was read of an end before it closed *)
(* does not connect it again.                                              *)
(***************************************************************************)
EXTENDS DCSHandshake, SequenceTheorems, TLAPS

\* The body an end has read is whole, and still the first message on its wire.
BodyIsThere ==
  \A e \in Ends : reading[e] = "body" /\ readResult[e] = "ok" =>
    wire[e] # <<>> /\ Head(wire[e]) # "torn"

\* A closed end is connected at most until the body it can no longer read fails.
ClosedUntilBodyFails ==
  \A e \in Ends : socket[e] = "closed" /\ (reading[e] # "body" \/ readResult[e] = "ok") =>
    state[e] = "Disconnected"

HandshakeInv == TypeOK /\ QueueIsBeingWritten /\ BodyIsThere /\ ClosedUntilBodyFails

USE DEF endVars, readVars, writeVars, history

-----------------------------------------------------------------------------
(* Types.                                                                  *)

LEMMA QueueFacts ==
  ASSUME NEW S, NEW q \in Seq(S)
  PROVE  /\ \A msg \in S : /\ Append(q, msg) \in Seq(S) /\ Append(q, msg) # <<>>
                           /\ q # <<>> => Head(Append(q, msg)) = Head(q)
         /\ q # <<>> => Head(q) \in S /\ Tail(q) \in Seq(S) /\ (Tail(q) # <<>> <=> Len(q) > 1)
<1>1. ASSUME NEW msg \in S
      PROVE  /\ Append(q, msg) \in Seq(S) /\ Append(q, msg) # <<>>
             /\ q # <<>> => Head(Append(q, msg)) = Head(q)
  <2>1. /\ Append(q, msg) \in Seq(S) /\ Len(Append(q, msg)) = Len(q) + 1 /\ Len(q) \in Nat
        /\ \A i \in 1 .. Len(q) : Append(q, msg)[i] = q[i]
    OBVIOUS
  <2>2. QED
    BY <2>1
<1>2. ASSUME q # <<>>
      PROVE  Head(q) \in S /\ Tail(q) \in Seq(S) /\ (Tail(q) # <<>> <=> Len(q) > 1)
  <2>1. Tail(q) \in Seq(S) /\ Len(Tail(q)) = Len(q) - 1 /\ Len(q) \in Nat \ {0} /\ Head(q) \in S
    BY <1>2
  <2>2. QED
    BY <2>1, SMTT(30)
<1>3. QED
  BY <1>1, <1>2

LEMMA EndsOfClients ==
  /\ \A c \in Clients : Session(c) \in Ends /\ Client(c) \in Ends
  /\ \A e \in Ends : Peer(e) \in Ends /\ e[2] \in Clients
  BY DEF Ends, Session, Client, Peer

LEMMA MessageKinds ==
  /\ \A msg \in ToSet(Script) : msg \in Messages
  /\ {"AnnounceRequest", "AnnounceResponse", "GetNewLeaseRequest", "GetNewLeaseResponse",
      "SetRPLLocationRequest", "SetRPLLocationResponse", "GetStatusRequest",
      "StatusPlaying", "StatusProcessing"} \subseteq Messages
  /\ "torn" \notin Messages /\ "DoClose" \notin Messages
<1>1. ToSet(Script) = {"AnnounceRequest", "AnnounceResponse", "GetNewLeaseRequest",
        "GetNewLeaseResponse", "SetRPLLocationRequest", "SetRPLLocationResponse"}
  <2>1. DOMAIN Script = 1 .. 6
    BY DEF Script
  <2>2. QED
    BY <2>1 DEF Script, ToSet
<1>2. QED
  BY <1>1 DEF Messages

LEMMA RepliesAreMessages == \A msg : Replies(msg) \subseteq Messages
  BY MessageKinds DEF Replies

-----------------------------------------------------------------------------
(* What the operations both ends share do.                                 *)

LEMMA ReadDoes ==
  ASSUME ReadType, NEW e \in Ends, NEW what \in {"nothing", "header", "body"}, Read(e, what)
  PROVE  /\ ReadType'
         /\ reading'[e] = what /\ readResult'[e] # "ok"
         /\ \A o \in Ends \ {e} : reading'[o] = reading[o] /\ readResult'[o] = readResult[o]
  BY DEF ReadType, Results, Read

LEMMA CloseDoes ==
  ASSUME EndType, NEW e \in Ends, DoClose(e)
  PROVE  /\ EndType'
         /\ socket'[e] = "closed" /\ state'[e] = "Disconnected"
         /\ \A o \in Ends \ {e} : socket'[o] = socket[o] /\ state'[o] = state[o]
  BY DEF EndType, DoClose

\* Closed ends stay closed.
StayClosed == \A e \in Ends : socket[e] = "closed" => socket'[e] = "closed"

LEMMA SendKeepsQueues ==
  ASSUME WriteType, QueueIsBeingWritten, NEW ends, NEW msg \in Messages,
         Send(ends, msg), StayClosed
  PROVE  WriteType' /\ QueueIsBeingWritten'
<1>1. \A e \in Ends :
        /\ writeMsgs'[e] = IF e \in ends THEN Append(writeMsgs[e], msg) ELSE writeMsgs[e]
        /\ writeResult'[e] = IF e \in ends /\ writeMsgs[e] = <<>> THEN "pending"
                             ELSE writeResult[e]
  BY DEF Send, Queued, StartIfIdle
<1>2. \A e \in Ends : writeMsgs[e] \in Seq(Messages) /\ Append(writeMsgs[e], msg) \in Seq(Messages)
                      /\ Append(writeMsgs[e], msg) # <<>>
  BY QueueFacts DEF WriteType
<1>3. WriteType'
  BY <1>2 DEF WriteType, Results, Send, Queued, StartIfIdle
<1>4. QED
  BY <1>1, <1>2, <1>3 DEF QueueIsBeingWritten, StayClosed

LEMMA QueuesLeftAlone ==
  ASSUME WriteType, QueueIsBeingWritten, UNCHANGED writeVars, StayClosed
  PROVE  WriteType' /\ QueueIsBeingWritten'
  BY DEF WriteType, QueueIsBeingWritten, StayClosed

\* The state of an end only matters to the second fact where it changes.
LEMMA EndsLeftAlone ==
  ASSUME ClosedUntilBodyFails, UNCHANGED endVars,
         \A e \in Ends : \/ reading'[e] = reading[e] /\ readResult'[e] = readResult[e]
                         \/ socket[e] # "closed"
                         \/ reading[e] = "body" /\ readResult[e] = "ok"
                         \/ reading'[e] = "body" /\ readResult'[e] # "ok"
  PROVE  ClosedUntilBodyFails'
  BY DEF ClosedUntilBodyFails

-----------------------------------------------------------------------------
(* The steps.                                                              *)

LEMMA InitHandshakeInv == Init => HandshakeInv
<1>1. ASSUME Init PROVE TypeOK
  <2>1. ReadType /\ WriteType
    BY <1>1 DEF Init, ReadType, WriteType, Results
  <2>2. EndType
    BY <1>1 DEF Init, EndType
  <2>3. PostType /\ WireType
    BY <1>1 DEF Init, PostType, WireType
  <2>4. ServerType
    BY <1>1 DEF Init, ServerType
  <2>5. HistoryType
    BY <1>1, DCSHandshakeAssumption DEF Init, HistoryType
  <2>6. QED
    BY <2>1, <2>2, <2>3, <2>4, <2>5 DEF TypeOK
<1>2. ASSUME Init PROVE QueueIsBeingWritten /\ BodyIsThere /\ ClosedUntilBodyFails
  BY <1>2 DEF Init, QueueIsBeingWritten, BodyIsThere, ClosedUntilBodyFails
<1>3. QED
  BY <1>1, <1>2 DEF HandshakeInv

\* A read that completes finds its body on the wire, and only on an open socket.
LEMMA ReadCompletesKeeps ==
  ASSUME HandshakeInv, NEW e \in Ends, ReadCompletes(e)
  PROVE  HandshakeInv'
<1>1. /\ ReadType /\ \A o \in Ends \ {e} : readResult'[o] = readResult[o]
      /\ readResult[e] = "pending" /\ readResult'[e] \in {"ok", "error"} /\ reading' = reading
      /\ readResult'[e] = "ok" => socket[e] = "open" /\ wire[e] # <<>>
                                  /\ (reading[e] = "body" => Head(wire[e]) # "torn")
  BY DEF HandshakeInv, TypeOK, ReadCompletes, ReadType
<1>2. ReadType'
  BY <1>1 DEF ReadType, Results, ReadCompletes
<1>3. TypeOK'
  BY <1>2
  DEF HandshakeInv, TypeOK, ReadCompletes, WriteType, EndType, PostType, WireType, ServerType, HistoryType
<1>4. BodyIsThere'
  BY <1>1 DEF HandshakeInv, BodyIsThere, ReadCompletes
<1>5. ClosedUntilBodyFails'
  BY <1>1 DEF HandshakeInv, ClosedUntilBodyFails, ReadCompletes
<1>6. QED
  BY <1>3, <1>4, <1>5 DEF HandshakeInv, QueueIsBeingWritten, ReadCompletes

\* What arrives on a wire leaves its first message where it is.
LEMMA WireGrows ==
  ASSUME WireType, BodyIsThere, NEW e \in Ends, NEW msg \in Messages \cup {"torn"},
         wire' = [wire EXCEPT ![e] = Append(@, msg)], UNCHANGED readVars
  PROVE  WireType' /\ BodyIsThere'
<1>1. \A o \in Ends : wire[o] \in Seq(Messages \cup {"torn"})
  BY DEF WireType
<1>2. \A o \in Ends : wire'[o] = IF o = e THEN Append(wire[o], msg) ELSE wire[o]
  BY DEF WireType
<1>3. WireType'
  BY <1>1 DEF WireType
<1>4. \A o \in Ends : wire[o] # <<>> => wire'[o] # <<>> /\ Head(wire'[o]) = Head(wire[o])
  BY <1>1, <1>2, QueueFacts
<1>5. QED
  BY <1>3, <1>4 DEF BodyIsThere

LEMMA WriteCompletesKeeps ==
  ASSUME HandshakeInv, NEW e \in Ends, WriteCompletes(e)
  PROVE  HandshakeInv'
<1>1. WriteType /\ WireType /\ writeMsgs[e] # <<>> /\ Peer(e) \in Ends
  BY EndsOfClients DEF HandshakeInv, TypeOK, QueueIsBeingWritten, WriteCompletes
<1>2. Head(writeMsgs[e]) \in Messages
  BY <1>1 DEF WriteType
<1>3. WireType' /\ BodyIsThere'
  BY <1>1, <1>2, WireGrows DEF HandshakeInv, WriteCompletes, WireType, BodyIsThere
<1>4. WriteType' /\ QueueIsBeingWritten'
  BY <1>1 DEF HandshakeInv, WriteCompletes, WriteType, Results, QueueIsBeingWritten
<1>5. TypeOK'
  BY <1>3, <1>4
  DEF HandshakeInv, TypeOK, WriteCompletes, ReadType, EndType, PostType, ServerType, HistoryType
<1>6. QED
  BY <1>3, <1>4, <1>5 DEF HandshakeInv, ClosedUntilBodyFails, WriteCompletes

\* Behind a message that was sent the next one is written; behind an error, none.
LEMMA HandleWriteKeeps ==
  ASSUME HandshakeInv, NEW e \in Ends, HandleWrite(e)
  PROVE  HandshakeInv'
<1> USE DEF HandshakeInv, TypeOK
<1>1. CASE writeResult[e] = "ok" /\ UNCHANGED endVars
           /\ writeMsgs' = [writeMsgs EXCEPT ![e] = Tail(@)] /\ NextWrite(e)
  <2>1. /\ writeMsgs[e] \in Seq(Messages) /\ writeMsgs[e] # <<>>
        /\ Tail(writeMsgs[e]) \in Seq(Messages)
        /\ Tail(writeMsgs[e]) # <<>> <=> Len(writeMsgs[e]) > 1
    BY <1>1, QueueFacts DEF QueueIsBeingWritten, WriteType
  <2>2. WriteType'
    BY <1>1, <2>1 DEF WriteType, NextWrite, Results
  <2>3. QueueIsBeingWritten'
    BY <1>1, <2>1 DEF WriteType, NextWrite, QueueIsBeingWritten
  <2>4. TypeOK'
    BY <1>1, <2>2 DEF HandleWrite, ReadType, EndType, PostType, WireType, ServerType, HistoryType
  <2>5. QED
    BY <1>1, <2>3, <2>4 DEF HandleWrite, BodyIsThere, ClosedUntilBodyFails
<1>2. CASE DoClose(e) /\ writeResult' = [writeResult EXCEPT ![e] = "none"]
           /\ UNCHANGED writeMsgs
  <2>1. WriteType' /\ QueueIsBeingWritten'
    BY <1>2, CloseDoes DEF WriteType, Results, QueueIsBeingWritten
  <2>2. ClosedUntilBodyFails'
    BY <1>2, CloseDoes DEF HandleWrite, ClosedUntilBodyFails
  <2>3. TypeOK'
    BY <1>2, <2>1, CloseDoes DEF HandleWrite, ReadType, PostType, WireType, ServerType, HistoryType
  <2>4. QED
    BY <2>1, <2>2, <2>3 DEF HandleWrite, BodyIsThere
<1>3. QED
  BY <1>1, <1>2 DEF HandleWrite

\* Reading fails: the end closes, and reads nothing.
LEMMA ReadErrorKeeps ==
  ASSUME HandshakeInv, NEW e \in Ends, HandleReadError(e), UNCHANGED <<writeVars, wire>>
  PROVE  ReadType' /\ EndType' /\ QueueIsBeingWritten' /\ BodyIsThere' /\ ClosedUntilBodyFails'
<1>1. ReadType /\ EndType
  BY DEF HandshakeInv, TypeOK
<1>2. /\ ReadType' /\ reading'[e] = "nothing" /\ readResult'[e] # "ok"
      /\ \A o \in Ends \ {e} : reading'[o] = reading[o] /\ readResult'[o] = readResult[o]
  BY <1>1, ReadDoes DEF HandleReadError
<1>3. /\ EndType' /\ socket'[e] = "closed" /\ state'[e] = "Disconnected"
      /\ \A o \in Ends \ {e} : socket'[o] = socket[o] /\ state'[o] = state[o]
  BY <1>1, CloseDoes DEF HandleReadError
<1>4. QueueIsBeingWritten'
  BY <1>3 DEF HandshakeInv, QueueIsBeingWritten
<1>5. BodyIsThere'
  BY <1>2 DEF HandshakeInv, BodyIsThere
<1>6. ClosedUntilBodyFails'
  BY <1>2, <1>3 DEF HandshakeInv, ClosedUntilBodyFails
<1>7. QED
  BY <1>2, <1>3, <1>4, <1>5, <1>6

\* A session that closed may connect again here, and goes on to a body it cannot read.
LEMMA HandleReadHeaderKeeps ==
  ASSUME HandshakeInv, NEW e \in Ends, HandleReadHeader(e)
  PROVE  HandshakeInv'
<1> USE DEF HandshakeInv, TypeOK
<1>1. CASE /\ readResult[e] = "ok" /\ Read(e, "body") /\ UNCHANGED socket
           /\ state' = [state EXCEPT ![e] = IF e[1] = "session" THEN "Connected" ELSE @]
  <2>1. /\ ReadType' /\ reading'[e] = "body" /\ readResult'[e] # "ok"
        /\ \A o \in Ends \ {e} : reading'[o] = reading[o] /\ readResult'[o] = readResult[o]
    BY <1>1, ReadDoes
  <2>2. EndType' /\ \A o \in Ends \ {e} : state'[o] = state[o]
    BY <1>1 DEF EndType
  <2>3. TypeOK'
    BY <2>1, <2>2 DEF HandleReadHeader, WriteType, PostType, WireType, ServerType, HistoryType
  <2>4. QueueIsBeingWritten'
    BY <1>1 DEF HandleReadHeader, QueueIsBeingWritten
  <2>5. BodyIsThere'
    BY <2>1 DEF HandleReadHeader, BodyIsThere
  <2>6. ClosedUntilBodyFails'
    BY <1>1, <2>1, <2>2 DEF ClosedUntilBodyFails
  <2>7. QED
    BY <2>3, <2>4, <2>5, <2>6
<1>2. CASE HandleReadError(e)
  <2>1. ReadType' /\ EndType' /\ QueueIsBeingWritten' /\ BodyIsThere' /\ ClosedUntilBodyFails'
    BY <1>2, ReadErrorKeeps DEF HandleReadHeader
  <2>2. QED
    BY <2>1 DEF HandleReadHeader, WriteType, PostType, WireType, ServerType, HistoryType
<1>3. QED
  BY <1>1, <1>2 DEF HandleReadHeader

\* What a session makes of a message: at most it notes it and sends the next request.
LEMMA SessionExecutesKeeps ==
  ASSUME WriteType, QueueIsBeingWritten, PostType, ServerType, executed \in [Clients -> Seq(Messages)],
         NEW c \in Clients, NEW msg \in Messages, SessionExecutes(c, msg), StayClosed,
         UNCHANGED clients
  PROVE  /\ WriteType' /\ QueueIsBeingWritten' /\ PostType' /\ ServerType'
         /\ executed' \in [Clients -> Seq(Messages)]
<1>1. ASSUME Note(c, msg) PROVE executed' \in [Clients -> Seq(Messages)]
  BY <1>1, QueueFacts DEF Note
<1>2. PostType' /\ ServerType'
  BY DEF SessionExecutes, PostType, ServerType
<1>3. CASE \E reply \in Messages : SessionReplies(c, msg, reply)
  BY <1>1, <1>2, <1>3, SendKeepsQueues DEF SessionReplies
<1>4. CASE msg = "SetRPLLocationResponse" /\ Note(c, msg) /\ UNCHANGED writeVars
  BY <1>1, <1>2, <1>4, QueuesLeftAlone
<1>5. CASE UNCHANGED <<executed, writeVars>>
  BY <1>2, <1>5, QueuesLeftAlone
<1>6. QED
  BY <1>3, <1>4, <1>5, MessageKinds DEF SessionExecutes

\* What a client makes of it: at most it notes it and posts an answer.
LEMMA ClientExecutesKeeps ==
  ASSUME PostType, executed \in [Clients -> Seq(Messages)],
         NEW c \in Clients, NEW msg \in Messages, ClientExecutes(c, msg)
  PROVE  PostType' /\ executed' \in [Clients -> Seq(Messages)]
<1>1. ASSUME NEW reply \in Messages, posted' = [posted EXCEPT ![c] = Append(@, reply)]
      PROVE  PostType'
  BY <1>1, QueueFacts DEF PostType
<1>2. PostType'
  BY <1>1, RepliesAreMessages DEF ClientExecutes, PostType
<1>3. Append(executed[c], msg) \in Seq(Messages)
  BY QueueFacts
<1>4. executed' \in [Clients -> Seq(Messages)]
  BY <1>3 DEF ClientExecutes, Note
<1>5. QED
  BY <1>2, <1>4

\* A message leaves its wire when its reader goes on to the next header.
LEMMA HandleReadBodyKeeps ==
  ASSUME HandshakeInv, NEW e \in Ends, HandleReadBody(e)
  PROVE  HandshakeInv'
<1> USE DEF HandshakeInv, TypeOK
<1>1. CASE /\ readResult[e] = "ok" /\ Read(e, "header") /\ UNCHANGED endVars
           /\ wire' = [wire EXCEPT ![e] = Tail(@)]
           /\ IF e[1] = "session" THEN SessionExecutes(e[2], Head(wire[e]))
                                  ELSE ClientExecutes(e[2], Head(wire[e]))
  <2>1. /\ wire[e] \in Seq(Messages \cup {"torn"}) /\ wire[e] # <<>> /\ Head(wire[e]) # "torn"
        /\ e[2] \in Clients
    BY <1>1, EndsOfClients DEF HandleReadBody, BodyIsThere, WireType
  <2>2. Head(wire[e]) \in Messages /\ Tail(wire[e]) \in Seq(Messages \cup {"torn"})
    BY <2>1, QueueFacts
  <2>3. WireType' /\ \A o \in Ends \ {e} : wire'[o] = wire[o]
    BY <1>1, <2>2 DEF WireType
  <2>4. /\ ReadType' /\ reading'[e] = "header" /\ readResult'[e] # "ok"
        /\ \A o \in Ends \ {e} : reading'[o] = reading[o] /\ readResult'[o] = readResult[o]
    BY <1>1, ReadDoes
  <2>5. StayClosed /\ EndType'
    BY <1>1 DEF StayClosed, EndType
  <2>6. /\ WriteType' /\ QueueIsBeingWritten' /\ PostType' /\ ServerType'
        /\ executed' \in [Clients -> Seq(Messages)]
    <3>1. CASE e[1] = "session"
      BY <1>1, <2>1, <2>2, <2>5, <3>1, SessionExecutesKeeps DEF HandleReadBody, HistoryType
    <3>2. CASE e[1] # "session"
      <4>1. ClientExecutes(e[2], Head(wire[e]))
        BY <1>1, <3>2
      <4>2. PostType' /\ executed' \in [Clients -> Seq(Messages)]
        BY <2>1, <2>2, <4>1, ClientExecutesKeeps DEF HistoryType
      <4>3. WriteType' /\ QueueIsBeingWritten' /\ ServerType'
        BY <2>5, <4>1, QueuesLeftAlone DEF ClientExecutes, HandleReadBody, ServerType
      <4>4. QED
        BY <4>2, <4>3
    <3>3. QED
      BY <3>1, <3>2
  <2>7. TypeOK'
    BY <2>3, <2>4, <2>5, <2>6 DEF HandleReadBody, HistoryType
  <2>8. BodyIsThere' /\ ClosedUntilBodyFails'
    BY <1>1, <2>3, <2>4 DEF HandleReadBody, BodyIsThere, ClosedUntilBodyFails
  <2>9. QED
    BY <2>6, <2>7, <2>8
<1>2. CASE HandleReadError(e) /\ UNCHANGED <<writeVars, posted, wire, playout, ready, executed>>
  <2>1. ReadType' /\ EndType' /\ QueueIsBeingWritten' /\ BodyIsThere' /\ ClosedUntilBodyFails'
    BY <1>2, ReadErrorKeeps
  <2>2. QED
    BY <1>2, <2>1 DEF HandleReadBody, WriteType, PostType, WireType, ServerType, HistoryType
<1>3. QED
  BY <1>1, <1>2 DEF HandleReadBody

\* An end that connects reads, and a session also writes; one that fails is closed.
LEMMA ConnectsKeeps ==
  ASSUME HandshakeInv, NEW c \in Clients, Connects(c)
  PROVE  HandshakeInv'
<1> USE DEF HandshakeInv, TypeOK
<1>1. Session(c) \in Ends /\ Client(c) \in Ends
  BY EndsOfClients
<1>2. ASSUME NEW e \in Ends, socket[e] # "closed", Read(e, "header"), UNCHANGED wire,
             socket' = [socket EXCEPT ![e] = "open"],
             state' \in {state, [state EXCEPT ![e] = "Connected"]}
      PROVE  ReadType' /\ EndType' /\ StayClosed /\ BodyIsThere' /\ ClosedUntilBodyFails'
  <2>1. /\ ReadType' /\ reading'[e] = "header" /\ readResult'[e] # "ok"
        /\ \A o \in Ends \ {e} : reading'[o] = reading[o] /\ readResult'[o] = readResult[o]
    BY <1>2, ReadDoes
  <2>2. /\ EndType' /\ socket'[e] = "open"
        /\ \A o \in Ends \ {e} : socket'[o] = socket[o] /\ state'[o] = state[o]
    BY <1>2 DEF EndType
  <2>3. QED
    BY <1>2, <2>1, <2>2 DEF StayClosed, BodyIsThere, ClosedUntilBodyFails
<1>3. ASSUME NEW e \in Ends, DoClose(e), UNCHANGED <<clients, readVars, writeVars, posted, wire, playout, ready, history>>
      PROVE  HandshakeInv'
  <2>1. /\ EndType' /\ socket'[e] = "closed" /\ state'[e] = "Disconnected"
        /\ \A o \in Ends \ {e} : socket'[o] = socket[o] /\ state'[o] = state[o]
    BY <1>3, CloseDoes
  <2>2. TypeOK'
    BY <1>3, <2>1 DEF ReadType, WriteType, PostType, WireType, ServerType, HistoryType
  <2>3. QueueIsBeingWritten' /\ BodyIsThere' /\ ClosedUntilBodyFails'
    BY <1>3, <2>1 DEF QueueIsBeingWritten, BodyIsThere, ClosedUntilBodyFails
  <2>4. QED
    BY <2>2, <2>3
<1>4. CASE HandleAccept(c)
  <2>1. CASE clients' = clients \cup {c} /\ Send({Session(c)}, "AnnounceRequest") /\ UNCHANGED state
             /\ socket' = [socket EXCEPT ![Session(c)] = "open"] /\ Read(Session(c), "header")
    <3>1. ReadType' /\ EndType' /\ StayClosed /\ BodyIsThere' /\ ClosedUntilBodyFails'
      BY <1>1, <1>2, <1>4, <2>1 DEF HandleAccept
    <3>2. WriteType' /\ QueueIsBeingWritten'
      BY <2>1, <3>1, SendKeepsQueues, MessageKinds
    <3>3. QED
      BY <1>4, <2>1, <3>1, <3>2 DEF HandleAccept, PostType, WireType, ServerType, HistoryType
  <2>2. CASE DoClose(Session(c)) /\ UNCHANGED <<clients, readVars, writeVars>>
    BY <1>1, <1>3, <1>4, <2>2 DEF HandleAccept
  <2>3. QED
    BY <1>4, <2>1, <2>2 DEF HandleAccept
<1>5. CASE HandleConnect(c)
  <2>1. CASE /\ socket' = [socket EXCEPT ![Client(c)] = "open"] /\ Read(Client(c), "header")
             /\ state' = [state EXCEPT ![Client(c)] = "Connected"]
    <3>1. ReadType' /\ EndType' /\ StayClosed /\ BodyIsThere' /\ ClosedUntilBodyFails'
      BY <1>1, <1>2, <1>5, <2>1 DEF HandleConnect
    <3>2. WriteType' /\ QueueIsBeingWritten'
      BY <1>5, <3>1, QueuesLeftAlone DEF HandleConnect
    <3>3. QED
      BY <1>5, <3>1, <3>2 DEF HandleConnect, PostType, WireType, ServerType, HistoryType
  <2>2. CASE DoClose(Client(c)) /\ UNCHANGED readVars
    BY <1>1, <1>3, <1>5, <2>2 DEF HandleConnect
  <2>3. QED
    BY <1>5, <2>1, <2>2 DEF HandleConnect
<1>6. QED
  BY <1>4, <1>5 DEF Connects

\* What the server and its user send at any time goes behind what is queued.
LEMMA ServerSendsKeeps ==
  ASSUME HandshakeInv, NotifyRPLChange \/ GetStatusRequest
  PROVE  HandshakeInv'
<1> USE DEF HandshakeInv, TypeOK
<1>1. StayClosed /\ UNCHANGED <<endVars, readVars, wire, posted>>
  BY DEF NotifyRPLChange, GetStatusRequest, StayClosed
<1>2. WriteType' /\ QueueIsBeingWritten'
  <2>1. CASE NotifyRPLChange
    BY <1>1, <2>1, SendKeepsQueues, MessageKinds DEF NotifyRPLChange
  <2>2. CASE GetStatusRequest
    <3>1. PICK c \in clients : Send({Session(c)}, "GetStatusRequest")
      BY <2>2 DEF GetStatusRequest
    <3>2. QED
      BY <1>1, <3>1, SendKeepsQueues, MessageKinds
  <2>3. QED
    BY <2>1, <2>2
<1>3. ServerType' /\ HistoryType'
  BY DCSHandshakeAssumption DEF NotifyRPLChange, GetStatusRequest, ServerType, HistoryType
<1>4. ReadType' /\ EndType' /\ PostType' /\ WireType'
  BY <1>1 DEF ReadType, EndType, PostType, WireType
<1>5. QED
  BY <1>1, <1>2, <1>3, <1>4 DEF BodyIsThere, ClosedUntilBodyFails

LEMMA CloseKeeps ==
  ASSUME HandshakeInv, Close
  PROVE  HandshakeInv'
<1> USE DEF HandshakeInv, TypeOK
<1>1. PICK c \in Clients : posted' = [posted EXCEPT ![c] = Append(@, "DoClose")]
  BY DEF Close
<1>2. posted[c] \in Seq(Messages \cup {"DoClose"})
  BY DEF PostType
<1>3. Append(posted[c], "DoClose") \in Seq(Messages \cup {"DoClose"})
  BY <1>2, QueueFacts
<1>4. PostType'
  BY <1>1, <1>3 DEF PostType
<1>5. HistoryType'
  BY DCSHandshakeAssumption DEF Close, HistoryType
<1>6. QED
  BY <1>4, <1>5
  DEF Close, ReadType, WriteType, EndType, WireType, ServerType, QueueIsBeingWritten,
      BodyIsThere, ClosedUntilBodyFails

LEMMA RunPostedKeeps ==
  ASSUME HandshakeInv, NEW c \in Clients, RunPosted(c)
  PROVE  HandshakeInv'
<1> USE DEF HandshakeInv, TypeOK
<1>1. /\ posted[c] \in Seq(Messages \cup {"DoClose"}) /\ posted[c] # <<>>
      /\ Client(c) \in Ends
  BY EndsOfClients DEF RunPosted, PostType
<1>2. /\ Head(posted[c]) \in Messages \cup {"DoClose"}
      /\ Tail(posted[c]) \in Seq(Messages \cup {"DoClose"})
  BY <1>1, QueueFacts
<1>3. PostType'
  BY <1>2 DEF RunPosted, PostType
<1>4. CASE Head(posted[c]) = "DoClose"
  <2>1. /\ EndType' /\ socket'[Client(c)] = "closed" /\ state'[Client(c)] = "Disconnected"
        /\ \A o \in Ends \ {Client(c)} : socket'[o] = socket[o] /\ state'[o] = state[o]
    BY <1>1, <1>4, CloseDoes DEF RunPosted
  <2>2. TypeOK'
    BY <1>3, <1>4, <2>1 DEF RunPosted, ReadType, WriteType, WireType, ServerType, HistoryType
  <2>3. QueueIsBeingWritten' /\ BodyIsThere' /\ ClosedUntilBodyFails'
    BY <1>4, <2>1 DEF RunPosted, QueueIsBeingWritten, BodyIsThere, ClosedUntilBodyFails
  <2>4. QED
    BY <2>2, <2>3
<1>5. CASE Head(posted[c]) # "DoClose"
  <2>1. Send({Client(c)}, Head(posted[c])) /\ Head(posted[c]) \in Messages /\ UNCHANGED endVars
    BY <1>2, <1>5 DEF RunPosted
  <2>2. WriteType' /\ QueueIsBeingWritten'
    BY <2>1, SendKeepsQueues DEF StayClosed
  <2>3. QED
    BY <1>3, <2>1, <2>2
    DEF RunPosted, ReadType, EndType, WireType, ServerType, HistoryType, BodyIsThere,
        ClosedUntilBodyFails
<1>6. QED
  BY <1>4, <1>5

LEMMA LoseKeeps ==
  ASSUME HandshakeInv, Lose
  PROVE  HandshakeInv'
<1> USE DEF HandshakeInv, TypeOK
<1>1. HistoryType'
  BY DCSHandshakeAssumption DEF Lose, HistoryType
<1>2. QED
  BY <1>1
  DEF Lose, ReadType, WriteType, EndType, PostType, WireType, ServerType,
      QueueIsBeingWritten, BodyIsThere, ClosedUntilBodyFails

LEMMA HandshakeStepKeeps == HandshakeInv /\ [Next]_vars => HandshakeInv'
<1>1. ASSUME HandshakeInv, UNCHANGED vars
      PROVE  HandshakeInv'
  BY <1>1
  DEF HandshakeInv, vars, TypeOK, ReadType, WriteType, EndType, PostType, WireType, ServerType,
      HistoryType, QueueIsBeingWritten, BodyIsThere, ClosedUntilBodyFails
<1>2. ASSUME HandshakeInv, NEW e \in Ends, Io(e)
      PROVE  HandshakeInv'
  BY <1>2, ReadCompletesKeeps, WriteCompletesKeeps, HandleReadHeaderKeeps, HandleReadBodyKeeps,
     HandleWriteKeeps DEF Io
<1>3. QED
  BY <1>1, <1>2, ConnectsKeeps, RunPostedKeeps, LoseKeeps, ServerSendsKeeps, CloseKeeps DEF Next

-----------------------------------------------------------------------------
THEOREM HandshakeInvariant == Spec => []HandshakeInv
  BY InitHandshakeInv, HandshakeStepKeeps, PTL DEF Spec

\* Every variable of the control channel keeps its type.
THEOREM HandshakeTypes == Spec => []TypeOK
<1>1. HandshakeInv => TypeOK
  BY DEF HandshakeInv
<1>2. QED
  BY <1>1, HandshakeInvariant, PTL

\* A message only waits behind one that is being written, or at an end that has closed.
THEOREM QueuesAreWritten == Spec => []QueueIsBeingWritten
<1>1. HandshakeInv => QueueIsBeingWritten
  BY DEF HandshakeInv
<1>2. QED
  BY <1>1, HandshakeInvariant, PTL

\* No handler that runs late connects an end that has closed, but for the body behind a header.
THEOREM ClosedEndsSaySo == Spec => []ClosedIsDisconnected
<1>1. HandshakeInv => ClosedIsDisconnected
  BY DEF HandshakeInv, ClosedUntilBodyFails, ClosedIsDisconnected
<1>2. QED
  BY <1>1, HandshakeInvariant, PTL

-----------------------------------------------------------------------------
(* The order of the handshake.  The invariant is about whole paths: what   *)
(* is on a wire, in the queue behind it and, towards a session, among a    *)
(* client's posted calls.  Of the script's messages, only the next is ever *)
(* on its way.                                                             *)

HIDE DEF endVars, readVars, writeVars, history

\* The script's messages to a client, and those to its session.
ScriptRequests == {"AnnounceRequest", "GetNewLeaseRequest", "SetRPLLocationRequest"}
ScriptResponses == {"AnnounceResponse", "GetNewLeaseResponse", "SetRPLLocationResponse"}

\* What an end still has to send: its queue, but for a message that has been sent.
Unsent(e) == IF writeResult[e] = "ok" THEN Tail(writeMsgs[e]) ELSE writeMsgs[e]

\* All that is on its way to an end, the first message first.
ToClient(c) == wire[Client(c)] \o Unsent(Session(c))
ToSession(c) == (wire[Session(c)] \o Unsent(Client(c))) \o posted[c]

\* At most one message of a kind is on its way.
AtMostOneOf(kinds, path) ==
  \A i, j \in DOMAIN path : path[i] \in kinds /\ path[j] \in kinds => i = j

NoneOf(kinds, path) == \A i \in DOMAIN path : path[i] \notin kinds

\* The only message of these kinds on a path is what the script has after those done.
Follows(kinds, path, done) ==
  /\ AtMostOneOf(kinds, path)
  /\ \A i \in DOMAIN path : path[i] \in kinds => Len(done) < 6 /\ path[i] = Script[Len(done) + 1]

\* The messages executed are the beginning of the script, and the only message of the
\* script on its way is the next.
InScript(c) ==
  /\ Len(executed[c]) <= 6 /\ \A i \in 1 .. Len(executed[c]) : executed[c][i] = Script[i]
  /\ Follows(ScriptRequests, ToClient(c), executed[c])
  /\ Follows(ScriptResponses, ToSession(c), executed[c])

\* A session that was not accepted has announced nothing.
NotYetAccepted(c) ==
  socket[Session(c)] = "unopened" =>
    executed[c] = <<>> /\ NoneOf(ScriptRequests, ToClient(c))

OrderInv == \A c \in Clients : InScript(c) /\ NotYetAccepted(c)
-----------------------------------------------------------------------------
(* Paths.                                                                  *)

\* No message of these kinds is new on a path.
Thins(kinds, path, next) ==
  /\ \A j \in DOMAIN next : next[j] \in kinds => \E i \in DOMAIN path : path[i] = next[j]
  /\ AtMostOneOf(kinds, path) => AtMostOneOf(kinds, next)

LEMMA ThinsAppend ==
  ASSUME NEW S, NEW p \in Seq(S), NEW x \in S, NEW kinds, x \notin kinds
  PROVE  Thins(kinds, p, Append(p, x))
<1>1. /\ DOMAIN p = 1 .. Len(p) /\ Len(p) \in Nat /\ DOMAIN Append(p, x) = 1 .. Len(p) + 1
      /\ Append(p, x)[Len(p) + 1] = x /\ \A i \in 1 .. Len(p) : Append(p, x)[i] = p[i]
  OBVIOUS
<1>2. \A j \in DOMAIN Append(p, x) : Append(p, x)[j] \in kinds => j \in DOMAIN p
  BY <1>1
<1>3. QED
  BY <1>1, <1>2 DEF Thins, AtMostOneOf

LEMMA ThinsTail ==
  ASSUME NEW S, NEW p \in Seq(S), p # <<>>, NEW kinds
  PROVE  /\ Thins(kinds, p, Tail(p))
         /\ AtMostOneOf(kinds, p) /\ Head(p) \in kinds => NoneOf(kinds, Tail(p))
<1>1. /\ DOMAIN p = 1 .. Len(p) /\ Len(p) \in Nat \ {0} /\ DOMAIN Tail(p) = 1 .. Len(p) - 1
      /\ Head(p) = p[1] /\ \A i \in 1 .. Len(p) - 1 : Tail(p)[i] = p[i + 1]
  BY HeadTailProperties, LenProperties, EmptySeq
<1>2. \A i \in DOMAIN Tail(p) : i + 1 \in DOMAIN p /\ Tail(p)[i] = p[i + 1] /\ i + 1 # 1
  BY <1>1
<1>3. Thins(kinds, p, Tail(p))
  BY <1>1, <1>2 DEF Thins, AtMostOneOf
<1>4. ASSUME AtMostOneOf(kinds, p), Head(p) \in kinds
      PROVE  NoneOf(kinds, Tail(p))
  BY <1>1, <1>2, <1>4 DEF AtMostOneOf, NoneOf
<1>5. QED
  BY <1>3, <1>4

\* A message that joins the first part of a path.
LEMMA ThinsInsert ==
  ASSUME NEW S, NEW p \in Seq(S), NEW q \in Seq(S), NEW x \in S, NEW kinds, x \notin kinds
  PROVE  Thins(kinds, p \o q, Append(p, x) \o q)
<1> DEFINE a == p \o q
           b == Append(p, x) \o q
           Old(j) == IF j <= Len(p) THEN j ELSE j - 1
<1>1. /\ Len(p) \in Nat /\ Len(q) \in Nat /\ Append(p, x) \in Seq(S) /\ Len(Append(p, x)) = Len(p) + 1
      /\ Append(p, x)[Len(p) + 1] = x /\ \A i \in 1 .. Len(p) : Append(p, x)[i] = p[i]
  OBVIOUS
<1>2. /\ DOMAIN a = 1 .. Len(p) + Len(q)
      /\ \A i \in DOMAIN a : a[i] = IF i <= Len(p) THEN p[i] ELSE q[i - Len(p)]
  BY ConcatProperties, LenProperties
<1>3. /\ DOMAIN b = 1 .. Len(p) + 1 + Len(q)
      /\ \A i \in DOMAIN b : b[i] = IF i <= Len(p) + 1 THEN Append(p, x)[i] ELSE q[i - (Len(p) + 1)]
  BY <1>1, ConcatProperties, LenProperties
<1> HIDE DEF a, b
<1>4. \A j \in DOMAIN b : b[j] \in kinds =>
        j # Len(p) + 1 /\ Old(j) \in DOMAIN a /\ a[Old(j)] = b[j]
  <2> SUFFICES ASSUME NEW j \in DOMAIN b, b[j] \in kinds
               PROVE  j # Len(p) + 1 /\ Old(j) \in DOMAIN a /\ a[Old(j)] = b[j]
    OBVIOUS
  <2>1. j # Len(p) + 1
    BY <1>1, <1>3
  <2>2. CASE j <= Len(p)
    BY <1>1, <1>2, <1>3, <2>2
  <2>3. CASE j > Len(p) + 1
    <3>1. Old(j) = j - 1 /\ j - 1 \in DOMAIN a /\ ~(j - 1 <= Len(p)) /\ j - 1 - Len(p) = j - (Len(p) + 1)
      BY <1>1, <1>2, <1>3, <2>3
    <3>2. QED
      BY <1>1, <1>2, <1>3, <2>1, <2>3, <3>1
  <2>4. QED
    BY <1>1, <1>3, <2>1, <2>2, <2>3
<1>5. \A i, j \in DOMAIN b : i # Len(p) + 1 /\ j # Len(p) + 1 /\ Old(i) = Old(j) => i = j
  BY <1>1, <1>3
<1> HIDE DEF Old
<1>6. Thins(kinds, a, b)
  BY <1>4, <1>5 DEF Thins, AtMostOneOf
<1>7. QED
  BY <1>6 DEF a, b

LEMMA ThinsInsertBefore ==
  ASSUME NEW S, NEW p \in Seq(S), NEW q \in Seq(S), NEW r \in Seq(S), NEW x \in S,
         NEW kinds, x \notin kinds
  PROVE  Thins(kinds, (p \o q) \o r, (Append(p, x) \o q) \o r)
<1>1. q \o r \in Seq(S) /\ Append(p, x) \in Seq(S)
  OBVIOUS
<1>2. Thins(kinds, p \o (q \o r), Append(p, x) \o (q \o r))
  BY <1>1, ThinsInsert
<1>3. \A s \in Seq(S) : (s \o q) \o r = s \o (q \o r)
  OBVIOUS
<1>4. QED
  BY <1>1, <1>2, <1>3

\* A message that moves on from one part of its path to the next.
LEMMA MovesOn ==
  ASSUME NEW S, NEW p \in Seq(S), NEW q \in Seq(S), q # <<>>
  PROVE  Append(p, Head(q)) \o Tail(q) = p \o q
<1>1. /\ Head(q) \in S /\ Tail(q) \in Seq(S) /\ Len(Tail(q)) = Len(q) - 1 /\ Len(q) \in Nat \ {0}
      /\ Head(q) = q[1] /\ \A i \in 1 .. Len(q) - 1 : Tail(q)[i] = q[i + 1]
  BY HeadTailProperties, LenProperties, EmptySeq
<1>2. /\ Append(p, Head(q)) \in Seq(S) /\ Len(Append(p, Head(q))) = Len(p) + 1 /\ Len(p) \in Nat
      /\ Append(p, Head(q))[Len(p) + 1] = Head(q)
      /\ \A i \in 1 .. Len(p) : Append(p, Head(q))[i] = p[i]
  BY <1>1
<1> DEFINE a == Append(p, Head(q)) \o Tail(q)
           b == p \o q
<1>3. /\ a \in Seq(S) /\ Len(a) = Len(p) + Len(q)
      /\ \A i \in 1 .. Len(a) : a[i] = IF i <= Len(p) + 1 THEN Append(p, Head(q))[i]
                                                        ELSE Tail(q)[i - (Len(p) + 1)]
  BY <1>1, <1>2, ConcatProperties
<1>4. /\ b \in Seq(S) /\ Len(b) = Len(p) + Len(q)
      /\ \A i \in 1 .. Len(b) : b[i] = IF i <= Len(p) THEN p[i] ELSE q[i - Len(p)]
  BY ConcatProperties
<1> HIDE DEF a, b
<1>5. ASSUME NEW i \in 1 .. Len(a)
      PROVE  a[i] = b[i]
  <2>1. CASE i <= Len(p)
    BY <1>2, <1>3, <1>4, <2>1
  <2>2. CASE i = Len(p) + 1
    BY <1>1, <1>2, <1>3, <1>4, <2>2
  <2>3. CASE i > Len(p) + 1
    <3>1. i - (Len(p) + 1) \in 1 .. Len(q) - 1 /\ i - (Len(p) + 1) + 1 = i - Len(p)
      BY <1>1, <1>2, <1>3, <2>3
    <3>2. QED
      BY <1>1, <1>2, <1>3, <1>4, <2>3, <3>1
  <2>4. QED
    BY <1>2, <1>3, <2>1, <2>2, <2>3
<1>6. a = b
  BY <1>3, <1>4, <1>5, SeqEqual
<1>7. QED
  BY <1>6 DEF a, b

\* A message that leaves from the middle.
LEMMA ThinsRemove ==
  ASSUME NEW S, NEW p \in Seq(S), NEW q \in Seq(S), q # <<>>, NEW kinds
  PROVE  Thins(kinds, p \o q, p \o Tail(q))
<1> DEFINE a == p \o q
           b == p \o Tail(q)
           Old(j) == IF j <= Len(p) THEN j ELSE j + 1
<1>1. /\ Tail(q) \in Seq(S) /\ Len(Tail(q)) = Len(q) - 1 /\ Len(q) \in Nat \ {0} /\ Len(p) \in Nat
      /\ \A i \in 1 .. Len(q) - 1 : Tail(q)[i] = q[i + 1]
  BY HeadTailProperties, LenProperties, EmptySeq
<1>2. /\ DOMAIN a = 1 .. Len(p) + Len(q)
      /\ \A i \in DOMAIN a : a[i] = IF i <= Len(p) THEN p[i] ELSE q[i - Len(p)]
  BY ConcatProperties, LenProperties
<1>3. /\ DOMAIN b = 1 .. Len(p) + (Len(q) - 1)
      /\ \A i \in DOMAIN b : b[i] = IF i <= Len(p) THEN p[i] ELSE Tail(q)[i - Len(p)]
  BY <1>1, ConcatProperties, LenProperties
<1> HIDE DEF a, b
<1>4. \A j \in DOMAIN b : Old(j) \in DOMAIN a /\ a[Old(j)] = b[j]
  <2> SUFFICES ASSUME NEW j \in DOMAIN b
               PROVE  Old(j) \in DOMAIN a /\ a[Old(j)] = b[j]
    OBVIOUS
  <2>1. CASE j <= Len(p)
    BY <1>1, <1>2, <1>3, <2>1
  <2>2. CASE j > Len(p)
    <3>1. /\ Old(j) = j + 1 /\ j + 1 \in DOMAIN a /\ ~(j + 1 <= Len(p))
          /\ j - Len(p) \in 1 .. Len(q) - 1 /\ j + 1 - Len(p) = j - Len(p) + 1
      BY <1>1, <1>2, <1>3, <2>2
    <3>2. QED
      BY <1>1, <1>2, <1>3, <2>2, <3>1
  <2>3. QED
    BY <1>1, <1>3, <2>1, <2>2
<1>5. \A i, j \in DOMAIN b : Old(i) = Old(j) => i = j
  BY <1>1, <1>3
<1> HIDE DEF Old
<1>6. Thins(kinds, a, b)
  BY <1>4, <1>5 DEF Thins, AtMostOneOf
<1>7. QED
  BY <1>6 DEF a, b

LEMMA AppendBehind ==
  ASSUME NEW S, NEW p \in Seq(S), NEW q \in Seq(S), NEW x \in S
  PROVE  p \o Append(q, x) = Append(p \o q, x)
  OBVIOUS

LEMMA TailOfPath ==
  ASSUME NEW S, NEW p \in Seq(S), NEW q \in Seq(S), p # <<>>
  PROVE  Tail(p) \o q = Tail(p \o q) /\ Head(p) = Head(p \o q) /\ p \o q # <<>>
  OBVIOUS
-----------------------------------------------------------------------------
(* The order.                                                              *)

\* What a path may hold.
OnPaths == Messages \cup {"torn", "DoClose"}

LEMMA BehindOnPath ==
  \A p, q \in Seq(OnPaths), x \in OnPaths : p \o Append(q, x) = Append(p \o q, x)
  BY AppendBehind

LEMMA PathTypes ==
  ASSUME HandshakeInv
  PROVE  /\ \A e \in Ends : /\ Unsent(e) \in Seq(OnPaths) /\ wire[e] \in Seq(OnPaths)
                            /\ writeMsgs[e] \in Seq(Messages)
         /\ \A c \in Clients : posted[c] \in Seq(OnPaths)
         /\ \A c \in Clients : ToClient(c) \in Seq(OnPaths) /\ ToSession(c) \in Seq(OnPaths)
<1> USE DEF HandshakeInv, TypeOK
<1>1. ASSUME NEW e \in Ends
      PROVE  Unsent(e) \in Seq(OnPaths) /\ wire[e] \in Seq(OnPaths) /\ writeMsgs[e] \in Seq(Messages)
  <2>1. writeMsgs[e] \in Seq(Messages) /\ wire[e] \in Seq(Messages \cup {"torn"})
    BY DEF WriteType, WireType
  <2>2. Unsent(e) \in Seq(Messages)
    BY <2>1, QueueFacts DEF Unsent, QueueIsBeingWritten
  <2>3. QED
    BY <2>1, <2>2, SeqMonotonic DEF OnPaths
<1>2. ASSUME NEW c \in Clients
      PROVE  posted[c] \in Seq(OnPaths)
  BY SeqMonotonic DEF PostType, OnPaths
<1>3. ASSUME NEW c \in Clients
      PROVE  ToClient(c) \in Seq(OnPaths) /\ ToSession(c) \in Seq(OnPaths)
  BY <1>1, <1>2, EndsOfClients, ConcatProperties DEF ToClient, ToSession
<1>4. QED
  BY <1>1, <1>2, <1>3

LEMMA EndsApart ==
  /\ \A c, d : /\ Session(c) # Client(d) /\ (Session(c) = Session(d) => c = d)
              /\ (Client(c) = Client(d) => c = d)
  /\ \A e \in Ends : e = Session(e[2]) \/ e = Client(e[2])
  /\ \A e, o \in Ends : Peer(e) = Peer(o) => e = o
  /\ \A c : Peer(Session(c)) = Client(c) /\ Peer(Client(c)) = Session(c)
  /\ \A e \in Ends, c \in Clients : /\ Peer(e) = Client(c) <=> e = Session(c)
                                   /\ Peer(e) = Session(c) <=> e = Client(c)
  BY DEF Session, Client, Ends, Peer

\* Sending puts a message behind the others on its path, whatever is being written.
LEMMA SendLengthens ==
  ASSUME WriteType, QueueIsBeingWritten, NEW ends, NEW msg \in Messages, Send(ends, msg)
  PROVE  \A e \in Ends : Unsent(e)' = IF e \in ends THEN Append(Unsent(e), msg) ELSE Unsent(e)
<1> SUFFICES ASSUME NEW e \in Ends
             PROVE  Unsent(e)' = IF e \in ends THEN Append(Unsent(e), msg) ELSE Unsent(e)
  OBVIOUS
<1>1. /\ writeMsgs'[e] = IF e \in ends THEN Append(writeMsgs[e], msg) ELSE writeMsgs[e]
      /\ writeResult'[e] = IF e \in ends /\ writeMsgs[e] = <<>> THEN "pending" ELSE writeResult[e]
  BY DEF Send, Queued, StartIfIdle
<1>2. writeMsgs[e] \in Seq(Messages) /\ (writeResult[e] = "ok" => writeMsgs[e] # <<>>)
  BY DEF WriteType, QueueIsBeingWritten
<1>3. writeMsgs[e] # <<>> => Tail(Append(writeMsgs[e], msg)) = Append(Tail(writeMsgs[e]), msg)
  BY <1>2
<1>4. QED
  BY <1>1, <1>2, <1>3 DEF Unsent

\* What changes neither what was executed nor brings messages of the script on their way.
Quiet(c) ==
  /\ executed'[c] = executed[c]
  /\ Thins(ScriptRequests, ToClient(c), ToClient(c)')
  /\ Thins(ScriptResponses, ToSession(c), ToSession(c)')

LEMMA ThinsSame ==
  ASSUME NEW kinds, NEW p
  PROVE  Thins(kinds, p, p)
  BY DEF Thins

LEMMA QuietKeeps ==
  ASSUME NEW c \in Clients, InScript(c), NotYetAccepted(c), Quiet(c),
         socket'[Session(c)] = "unopened" => socket[Session(c)] = "unopened"
  PROVE  InScript(c)' /\ NotYetAccepted(c)'
<1>1. InScript(c)'
  BY DEF InScript, Quiet, Follows, Thins
<1>2. NotYetAccepted(c)'
  BY DEF NotYetAccepted, Quiet, NoneOf, Thins
<1>3. QED
  BY <1>1, <1>2

LEMMA WriteCompletesIsQuiet ==
  ASSUME HandshakeInv, NEW e \in Ends, WriteCompletes(e), NEW c \in Clients
  PROVE  Quiet(c)
<1> USE DEF HandshakeInv, TypeOK
<1>1. executed' = executed /\ posted' = posted /\ writeMsgs' = writeMsgs /\ Peer(e) \in Ends
  BY EndsOfClients DEF WriteCompletes, history
<1>2. wire \in [Ends -> Seq(Messages \cup {"torn"})] /\ writeResult \in [Ends -> Results]
  BY DEF WireType, WriteType
<1>3. /\ Session(c) \in Ends /\ Client(c) \in Ends
      /\ \A o \in Ends : Unsent(o) \in Seq(OnPaths) /\ wire[o] \in Seq(OnPaths)
      /\ posted[c] \in Seq(OnPaths)
  BY PathTypes, EndsOfClients
<1>4. CASE UNCHANGED wire /\ \A o \in Ends : Unsent(o)' = Unsent(o)
  BY <1>1, <1>3, <1>4, ThinsSame DEF Quiet, ToClient, ToSession
<1>5. CASE /\ writeResult' = [writeResult EXCEPT ![e] = "ok"] /\ writeResult[e] = "pending"
           /\ wire' = [wire EXCEPT ![Peer(e)] = Append(@, Head(writeMsgs[e]))]
  <2>1. /\ \A o \in Ends \ {e} : Unsent(o)' = Unsent(o)
        /\ Unsent(e) = writeMsgs[e] /\ Unsent(e)' = Tail(writeMsgs[e]) /\ Unsent(e) # <<>>
    BY <1>1, <1>2, <1>5 DEF Unsent, QueueIsBeingWritten
  <2>2. \A o \in Ends : wire'[o] = IF o = Peer(e) THEN Append(wire[o], Head(Unsent(e))) ELSE wire[o]
    BY <1>1, <1>2, <1>5, <2>1
  <2>3. Append(wire[Peer(e)], Head(Unsent(e))) \o Tail(Unsent(e)) = wire[Peer(e)] \o Unsent(e)
    BY <1>1, <1>3, <2>1, MovesOn
  <2>4. \A o \in Ends : wire'[Peer(o)] \o Unsent(o)' = wire[Peer(o)] \o Unsent(o)
    <3> SUFFICES ASSUME NEW o \in Ends
                 PROVE  wire'[Peer(o)] \o Unsent(o)' = wire[Peer(o)] \o Unsent(o)
      OBVIOUS
    <3>1. CASE o = e
      BY <1>1, <2>1, <2>2, <2>3, <3>1
    <3>2. CASE o # e
      <4>1. Peer(o) \in Ends /\ Peer(o) # Peer(e)
        BY <3>2, EndsApart, EndsOfClients
      <4>2. QED
        BY <2>1, <2>2, <3>2, <4>1
    <3>3. QED
      BY <3>1, <3>2
  <2>5. ToClient(c)' = ToClient(c) /\ ToSession(c)' = ToSession(c)
    <3>1. /\ wire'[Client(c)] \o Unsent(Session(c))' = wire[Client(c)] \o Unsent(Session(c))
          /\ wire'[Session(c)] \o Unsent(Client(c))' = wire[Session(c)] \o Unsent(Client(c))
      BY <1>3, <2>4, EndsApart
    <3>2. QED
      BY <1>1, <3>1 DEF ToClient, ToSession
  <2>6. QED
    BY <1>1, <2>5, ThinsSame DEF Quiet
<1>6. CASE /\ wire' = [wire EXCEPT ![Peer(e)] = Append(@, "torn")]
           /\ writeResult' = [writeResult EXCEPT ![e] = "error"] /\ writeResult[e] = "pending"
  <2>1. \A o \in Ends : Unsent(o)' = Unsent(o)
    BY <1>1, <1>2, <1>6 DEF Unsent
  <2>2. \A o \in Ends : wire'[o] = IF o = Peer(e) THEN Append(wire[o], "torn") ELSE wire[o]
    BY <1>1, <1>2, <1>6
  <2>3. "torn" \notin ScriptRequests /\ "torn" \notin ScriptResponses /\ "torn" \in OnPaths
    BY DEF ScriptRequests, ScriptResponses, OnPaths
  <2>4. Thins(ScriptRequests, ToClient(c), ToClient(c)')
    BY <1>3, <2>1, <2>2, <2>3, ThinsInsert, ThinsSame DEF ToClient
  <2>5. /\ ToSession(c) = (wire[Session(c)] \o Unsent(Client(c))) \o posted[c]
        /\ ToSession(c)' = (wire'[Session(c)] \o Unsent(Client(c))) \o posted[c]
        /\ wire'[Session(c)] \in {wire[Session(c)], Append(wire[Session(c)], "torn")}
    BY <1>1, <1>3, <2>1, <2>2 DEF ToSession
  <2>6. Thins(ScriptResponses, ToSession(c), ToSession(c)')
    <3>1. /\ wire[Session(c)] \in Seq(OnPaths) /\ Unsent(Client(c)) \in Seq(OnPaths)
          /\ posted[c] \in Seq(OnPaths)
      BY <1>3
    <3>2. QED
      BY <2>3, <2>5, <3>1, ThinsInsertBefore, ThinsSame
  <2>7. QED
    BY <1>1, <2>4, <2>6 DEF Quiet
<1>7. CASE UNCHANGED wire /\ writeResult[e] = "pending"
           /\ writeResult' = [writeResult EXCEPT ![e] = "error"]
  BY <1>1, <1>2, <1>4, <1>7 DEF Unsent
<1>8. QED
  BY <1>5, <1>6, <1>7 DEF WriteCompletes

\* A step that leaves both paths alone.
LEMMA QuietSteps ==
  ASSUME HandshakeInv, NEW c \in Clients, executed'[c] = executed[c],
         wire'[Client(c)] = wire[Client(c)], wire'[Session(c)] = wire[Session(c)],
         posted'[c] = posted[c],
         Unsent(Session(c))' = Unsent(Session(c)), Unsent(Client(c))' = Unsent(Client(c))
  PROVE  Quiet(c)
<1>1. ToClient(c)' = ToClient(c) /\ ToSession(c)' = ToSession(c)
  BY DEF ToClient, ToSession
<1>2. QED
  BY <1>1, ThinsSame DEF Quiet

LEMMA HandleWriteIsQuiet ==
  ASSUME HandshakeInv, NEW e \in Ends, HandleWrite(e), NEW c \in Clients
  PROVE  Quiet(c)
<1> USE DEF HandshakeInv, TypeOK
<1>1. ASSUME NEW o \in Ends
      PROVE  Unsent(o)' = Unsent(o)
  <2>1. CASE writeResult[e] = "ok" /\ writeMsgs' = [writeMsgs EXCEPT ![e] = Tail(@)] /\ NextWrite(e)
    <3>1. writeMsgs'[o] = IF o = e THEN Tail(writeMsgs[o]) ELSE writeMsgs[o]
      BY <2>1 DEF WriteType
    <3>2. PICK r \in {"pending", "none"} : writeResult' = [writeResult EXCEPT ![e] = r]
      BY <2>1 DEF NextWrite
    <3>3. writeResult'[o] = IF o = e THEN r ELSE writeResult[o]
      BY <3>2 DEF WriteType
    <3>4. QED
      BY <2>1, <3>1, <3>2, <3>3 DEF Unsent
  <2>2. CASE /\ writeResult[e] = "error" /\ UNCHANGED writeMsgs
             /\ writeResult' = [writeResult EXCEPT ![e] = "none"]
    <3>1. writeResult'[o] = IF o = e THEN "none" ELSE writeResult[o]
      BY <2>2 DEF WriteType
    <3>2. QED
      BY <2>2, <3>1 DEF Unsent
  <2>3. QED
    BY <2>1, <2>2 DEF HandleWrite
<1>2. UNCHANGED <<wire, posted, executed>>
  BY DEF HandleWrite, history
<1>3. Client(c) \in Ends /\ Session(c) \in Ends
  BY EndsOfClients
<1>4. QED
  BY <1>1, <1>2, <1>3, QuietSteps

\* A status request or a notification goes behind the others; the client answers neither.
LEMMA ServerSendsIsQuiet ==
  ASSUME HandshakeInv, NotifyRPLChange \/ GetStatusRequest, NEW c \in Clients
  PROVE  Quiet(c)
<1> USE DEF HandshakeInv, TypeOK
<1>1. UNCHANGED <<wire, posted, executed>>
  BY DEF NotifyRPLChange, GetStatusRequest
<1>2. PICK ends \in SUBSET {Session(d) : d \in Clients},
           msg \in {"AnnounceResponse", "GetStatusRequest"} : Send(ends, msg)
  <2>1. CASE NotifyRPLChange
    <3>1. {Session(d) : d \in clients} \in SUBSET {Session(d) : d \in Clients}
      BY DEF ServerType
    <3>2. QED
      BY <2>1, <3>1 DEF NotifyRPLChange
  <2>2. CASE GetStatusRequest
    BY <2>2 DEF GetStatusRequest, ServerType
  <2>3. QED
    BY <2>1, <2>2
<1>3. msg \in Messages /\ msg \in OnPaths /\ msg \notin ScriptRequests
  BY MessageKinds DEF ScriptRequests, OnPaths
<1>4. \A e \in Ends : Unsent(e)' = IF e \in ends THEN Append(Unsent(e), msg) ELSE Unsent(e)
  BY <1>2, <1>3, SendLengthens
<1>5. Session(c) \in Ends /\ Client(c) \in Ends /\ Client(c) \notin ends
  BY <1>2, EndsOfClients, EndsApart
<1>6. ToSession(c)' = ToSession(c)
  BY <1>1, <1>4, <1>5 DEF ToSession
<1>7. ToClient(c)' \in {ToClient(c), Append(ToClient(c), msg)}
  <2>1. wire[Client(c)] \in Seq(OnPaths) /\ Unsent(Session(c)) \in Seq(OnPaths)
    BY <1>5, PathTypes
  <2>2. wire[Client(c)] \o Append(Unsent(Session(c)), msg) = Append(ToClient(c), msg)
    <3>1. wire[Client(c)] \o Append(Unsent(Session(c)), msg)
          = Append(wire[Client(c)] \o Unsent(Session(c)), msg)
      BY <1>3, <2>1, BehindOnPath
    <3>2. QED
      BY <3>1 DEF ToClient
  <2>3. QED
    BY <1>1, <1>4, <1>5, <2>2 DEF ToClient
<1>8. Thins(ScriptRequests, ToClient(c), ToClient(c)')
  BY <1>3, <1>7, PathTypes, ThinsAppend, ThinsSame
<1>9. QED
  BY <1>1, <1>6, <1>8, ThinsSame DEF Quiet

LEMMA CloseIsQuiet ==
  ASSUME HandshakeInv, Close, NEW c \in Clients
  PROVE  Quiet(c)
<1> USE DEF HandshakeInv, TypeOK
<1>1. UNCHANGED <<wire, writeVars, executed>>
  BY DEF Close
<1>2. posted'[c] \in {posted[c], Append(posted[c], "DoClose")}
  <2>1. PICK d \in Clients : posted' = [posted EXCEPT ![d] = Append(@, "DoClose")]
    BY DEF Close
  <2>2. posted'[c] = IF c = d THEN Append(posted[c], "DoClose") ELSE posted[c]
    BY <2>1 DEF PostType
  <2>3. QED
    BY <2>2
<1>3. Session(c) \in Ends /\ Client(c) \in Ends /\ \A e \in Ends : Unsent(e)' = Unsent(e)
  BY <1>1, EndsOfClients DEF Unsent, writeVars
<1>4. ToClient(c)' = ToClient(c)
  BY <1>1, <1>3 DEF ToClient
<1>5. "DoClose" \in OnPaths /\ "DoClose" \notin ScriptResponses
  BY DEF OnPaths, ScriptResponses
<1>6. ToSession(c)' \in {ToSession(c), Append(ToSession(c), "DoClose")}
  <2>1. wire[Session(c)] \o Unsent(Client(c)) \in Seq(OnPaths) /\ posted[c] \in Seq(OnPaths)
    BY <1>3, PathTypes, ConcatProperties
  <2>2. (wire[Session(c)] \o Unsent(Client(c))) \o Append(posted[c], "DoClose")
        = Append(ToSession(c), "DoClose")
    <3>1. \A p, q \in Seq(OnPaths) : p \o Append(q, "DoClose") = Append(p \o q, "DoClose")
      BY <1>5, BehindOnPath
    <3>2. QED
      BY <2>1, <3>1 DEF ToSession
  <2>3. QED
    BY <1>1, <1>2, <1>3, <2>2 DEF ToSession
<1>7. Thins(ScriptResponses, ToSession(c), ToSession(c)')
  BY <1>5, <1>6, PathTypes, ThinsAppend, ThinsSame
<1>8. QED
  BY <1>1, <1>4, <1>7, ThinsSame DEF Quiet

\* What was posted is written behind the others, or closes the client.
LEMMA RunPostedIsQuiet ==
  ASSUME HandshakeInv, NEW d \in Clients, RunPosted(d), NEW c \in Clients
  PROVE  Quiet(c)
<1> USE DEF HandshakeInv, TypeOK
<1>1. UNCHANGED <<wire, executed>> /\ posted[d] # <<>>
  BY DEF RunPosted, history
<1>2. posted'[c] = IF c = d THEN Tail(posted[c]) ELSE posted[c]
  BY DEF RunPosted, PostType
<1>3. /\ Session(c) \in Ends /\ Client(c) \in Ends
      /\ wire[Session(c)] \in Seq(OnPaths) /\ Unsent(Client(c)) \in Seq(OnPaths)
      /\ posted[c] \in Seq(OnPaths)
  BY PathTypes, EndsOfClients
<1>4. wire[Session(c)] \o Unsent(Client(c)) \in Seq(OnPaths)
  BY <1>3, ConcatProperties
<1>5. CASE Head(posted[d]) = "DoClose"
  <2>1. \A e \in Ends : Unsent(e)' = Unsent(e)
    BY <1>5 DEF RunPosted, Unsent, writeVars
  <2>2. ToClient(c)' = ToClient(c)
    BY <1>1, <1>3, <2>1 DEF ToClient
  <2>3. ToSession(c)' = (wire[Session(c)] \o Unsent(Client(c))) \o posted'[c]
    BY <1>1, <1>3, <2>1 DEF ToSession
  <2>4. Thins(ScriptResponses, ToSession(c), ToSession(c)')
    BY <1>1, <1>2, <1>3, <1>4, <2>3, ThinsRemove, ThinsSame DEF ToSession
  <2>5. QED
    BY <1>1, <2>2, <2>4, ThinsSame DEF Quiet
<1>6. CASE Head(posted[d]) # "DoClose"
  <2>1. Head(posted[d]) \in Messages /\ Send({Client(d)}, Head(posted[d]))
    BY <1>1, <1>6, QueueFacts DEF RunPosted, PostType
  <2>2. \A e \in Ends : Unsent(e)' = IF e = Client(d) THEN Append(Unsent(e), Head(posted[d]))
                                                    ELSE Unsent(e)
    BY <2>1, SendLengthens
  <2>3. ToClient(c)' = ToClient(c)
    <3>1. Session(c) # Client(d)
      BY EndsApart
    <3>2. Unsent(Session(c))' = Unsent(Session(c))
      BY <1>3, <2>2, <3>1
    <3>3. QED
      BY <1>1, <3>2 DEF ToClient
  <2>4. ToSession(c)' = ToSession(c)
    <3>1. CASE c = d
      <4>1. Head(posted[c]) \in OnPaths
        BY <2>1, <3>1 DEF OnPaths
      <4>2. wire[Session(c)] \o Append(Unsent(Client(c)), Head(posted[c]))
            = Append(wire[Session(c)] \o Unsent(Client(c)), Head(posted[c]))
        BY <1>3, <4>1, BehindOnPath
      <4>3. Append(wire[Session(c)] \o Unsent(Client(c)), Head(posted[c])) \o Tail(posted[c])
            = (wire[Session(c)] \o Unsent(Client(c))) \o posted[c]
        BY <1>1, <1>3, <1>4, <3>1, MovesOn
      <4>4. QED
        BY <1>1, <1>2, <1>3, <2>2, <3>1, <4>2, <4>3 DEF ToSession
    <3>2. CASE c # d
      BY <1>1, <1>2, <1>3, <2>2, <3>2, EndsApart DEF ToSession
    <3>3. QED
      BY <3>1, <3>2
  <2>5. QED
    BY <1>1, <2>3, <2>4, ThinsSame DEF Quiet
<1>7. QED
  BY <1>5, <1>6
-----------------------------------------------------------------------------
(* Executing a message of the script.                                      *)

LEMMA ScriptFacts ==
  /\ \A i \in 1 .. 6 : /\ Script[i] \in ScriptRequests <=> i \in {1, 3, 5}
                       /\ Script[i] \in ScriptResponses <=> i \in {2, 4, 6}
                       /\ Script[i] \in Messages
  /\ \A i, j \in 1 .. 6 : Script[i] = Script[j] => i = j
  /\ \A msg \in ScriptRequests : msg \notin ScriptResponses
  /\ \A msg \in Messages : msg \in ToSet(Script) <=> msg \in ScriptRequests \cup ScriptResponses
<1>1. /\ Len(Script) = 6 /\ DOMAIN Script = 1 .. 6
      /\ Script[1] = "AnnounceRequest" /\ Script[2] = "AnnounceResponse"
      /\ Script[3] = "GetNewLeaseRequest" /\ Script[4] = "GetNewLeaseResponse"
      /\ Script[5] = "SetRPLLocationRequest" /\ Script[6] = "SetRPLLocationResponse"
  BY DEF Script
<1>2. ToSet(Script) = ScriptRequests \cup ScriptResponses
  BY <1>1 DEF ToSet, ScriptRequests, ScriptResponses
<1>3. \A i \in 1 .. 6 : i \in {1, 2, 3, 4, 5, 6}
  OBVIOUS
<1>4. QED
  BY <1>1, <1>2, <1>3 DEF ScriptRequests, ScriptResponses, Messages

LEMMA NoneFollows ==
  ASSUME NEW kinds, NEW p, NEW done, NoneOf(kinds, p)
  PROVE  Follows(kinds, p, done)
  BY DEF NoneOf, Follows, AtMostOneOf

LEMMA FirstFollows ==
  ASSUME NEW S, NEW p \in Seq(S), NEW kinds, NEW done, NEW msg \in S, NoneOf(kinds, p),
         Len(done) < 6, msg = Script[Len(done) + 1]
  PROVE  Follows(kinds, Append(p, msg), done)
<1>1. /\ DOMAIN p = 1 .. Len(p) /\ Len(p) \in Nat /\ DOMAIN Append(p, msg) = 1 .. Len(p) + 1
      /\ Append(p, msg)[Len(p) + 1] = msg /\ \A i \in 1 .. Len(p) : Append(p, msg)[i] = p[i]
  OBVIOUS
<1>2. \A i \in DOMAIN Append(p, msg) : Append(p, msg)[i] \in kinds => i = Len(p) + 1
  BY <1>1 DEF NoneOf
<1>3. QED
  BY <1>1, <1>2 DEF Follows, AtMostOneOf

\* With the first message of path p executed, both paths follow the script as before.
Advances(mine, theirs, p, q, done) ==
  /\ Len(done) < 6 /\ Head(p) = Script[Len(done) + 1]
  /\ Len(Append(done, Head(p))) = Len(done) + 1
  /\ \A i \in 1 .. Len(done) + 1 : Append(done, Head(p))[i] = Script[i]
  /\ Follows(mine, Tail(p), Append(done, Head(p)))
  /\ Follows(theirs, q, Append(done, Head(p)))
  /\ \A msg \in OnPaths : Len(done) + 1 < 6 /\ msg = Script[Len(done) + 2] =>
       Follows(theirs, Append(q, msg), Append(done, Head(p)))

\* While an end executes the message the script has next, none of the other end's is on
\* its way; so its answer is the only one, and the next.
LEMMA Executing ==
  ASSUME NEW mine, NEW theirs, \A msg \in theirs : msg \notin mine,
         NEW p \in Seq(OnPaths), NEW q \in Seq(OnPaths), NEW done \in Seq(Messages),
         p # <<>>, Head(p) \in mine, Head(p) \in Messages,
         Len(done) <= 6, \A i \in 1 .. Len(done) : done[i] = Script[i],
         Follows(mine, p, done), Follows(theirs, q, done)
  PROVE  Advances(mine, theirs, p, q, done)
<1>1. 1 \in DOMAIN p /\ Head(p) = p[1]
  BY EmptySeq, LenProperties, HeadTailProperties
<1>2. Len(done) < 6 /\ Head(p) = Script[Len(done) + 1] /\ AtMostOneOf(mine, p)
  BY <1>1 DEF Follows
<1>3. /\ Len(Append(done, Head(p))) = Len(done) + 1 /\ Len(done) \in Nat
      /\ Append(done, Head(p))[Len(done) + 1] = Head(p)
      /\ \A i \in 1 .. Len(done) : Append(done, Head(p))[i] = done[i]
  OBVIOUS
<1>4. NoneOf(mine, Tail(p))
  BY <1>2, ThinsTail
<1>5. NoneOf(theirs, q)
  BY <1>2 DEF Follows, NoneOf
<1>6. \A i \in 1 .. Len(done) + 1 : Append(done, Head(p))[i] = Script[i]
  BY <1>2, <1>3
<1>7. Follows(mine, Tail(p), Append(done, Head(p))) /\ Follows(theirs, q, Append(done, Head(p)))
  BY <1>4, <1>5, NoneFollows
<1>8. ASSUME NEW msg \in OnPaths, Len(done) + 1 < 6, msg = Script[Len(done) + 2]
      PROVE  Follows(theirs, Append(q, msg), Append(done, Head(p)))
  <2>1. /\ Len(Append(done, Head(p))) < 6
        /\ msg = Script[Len(Append(done, Head(p))) + 1]
    BY <1>3, <1>8
  <2>2. QED
    BY <1>5, <2>1, FirstFollows
<1>9. QED
  BY <1>2, <1>3, <1>6, <1>7, <1>8 DEF Advances

\* Before a session is accepted, neither end executes a message of the script.
LEMMA UnacceptedExecutesNothing ==
  ASSUME HandshakeInv, NEW c \in Clients, InScript(c), NotYetAccepted(c), socket[Session(c)] = "unopened"
  PROVE  /\ ToClient(c) # <<>> => Head(ToClient(c)) \notin ScriptRequests
         /\ ToSession(c) # <<>> => Head(ToSession(c)) \notin ScriptResponses
<1>1. ToClient(c) \in Seq(OnPaths) /\ ToSession(c) \in Seq(OnPaths)
  BY PathTypes
<1>2. \A p \in Seq(OnPaths) : p # <<>> => 1 \in DOMAIN p /\ Head(p) = p[1]
  BY EmptySeq, LenProperties, HeadTailProperties
<1>3. executed[c] = <<>> /\ NoneOf(ScriptRequests, ToClient(c))
  BY DEF NotYetAccepted
<1>4. NoneOf(ScriptResponses, ToSession(c))
  <2>1. Len(executed[c]) = 0
    BY <1>3
  <2>2. \A i \in DOMAIN ToSession(c) : ToSession(c)[i] \in ScriptResponses =>
          ToSession(c)[i] = Script[1]
    BY <2>1 DEF InScript, Follows
  <2>3. Script[1] \notin ScriptResponses
    BY ScriptFacts
  <2>4. QED
    BY <2>2, <2>3 DEF NoneOf
<1>5. QED
  BY <1>1, <1>2, <1>3, <1>4 DEF NoneOf

\* The message an end executes is the first on its path, and leaves it.
LEMMA ExecutedIsFirst ==
  ASSUME HandshakeInv, NEW e \in Ends, HandleReadBody(e), readResult[e] = "ok", NEW c \in Clients
  PROVE  /\ UNCHANGED endVars /\ wire[e] # <<>> /\ Head(wire[e]) \in Messages
         /\ wire'[e] = Tail(wire[e]) /\ \A o \in Ends \ {e} : wire'[o] = wire[o]
         /\ e = Client(c) => /\ ToClient(c) # <<>> /\ Head(ToClient(c)) = Head(wire[e])
                             /\ wire'[e] \o Unsent(Session(c)) = Tail(ToClient(c))
         /\ e = Session(c) => /\ ToSession(c) # <<>> /\ Head(ToSession(c)) = Head(wire[e])
                              /\ (wire'[e] \o Unsent(Client(c))) \o posted[c] = Tail(ToSession(c))
<1>1. /\ UNCHANGED endVars /\ wire' = [wire EXCEPT ![e] = Tail(@)]
      /\ wire[e] # <<>> /\ Head(wire[e]) # "torn" /\ wire \in [Ends -> Seq(Messages \cup {"torn"})]
  BY DEF HandshakeInv, TypeOK, WireType, BodyIsThere, HandleReadBody
<1>2. Head(wire[e]) \in Messages
  <2>1. wire[e] \in Seq(Messages \cup {"torn"})
    BY <1>1
  <2>2. QED
    BY <1>1, <2>1, QueueFacts
<1>3. wire'[e] = Tail(wire[e]) /\ \A o \in Ends \ {e} : wire'[o] = wire[o]
  BY <1>1
<1>4. /\ wire[e] \in Seq(OnPaths) /\ posted[c] \in Seq(OnPaths)
      /\ Unsent(Session(c)) \in Seq(OnPaths) /\ Unsent(Client(c)) \in Seq(OnPaths)
  BY PathTypes, EndsOfClients
<1>5. \A q \in Seq(OnPaths) : /\ Tail(wire[e]) \o q = Tail(wire[e] \o q) /\ wire[e] \o q # <<>>
                          /\ Head(wire[e] \o q) = Head(wire[e]) /\ wire[e] \o q \in Seq(OnPaths)
  BY <1>1, <1>4, TailOfPath, ConcatProperties
<1>6. ASSUME e = Client(c)
      PROVE  /\ ToClient(c) # <<>> /\ Head(ToClient(c)) = Head(wire[e])
             /\ wire'[e] \o Unsent(Session(c)) = Tail(ToClient(c))
  BY <1>3, <1>4, <1>5, <1>6 DEF ToClient
<1>7. ASSUME e = Session(c)
      PROVE  /\ ToSession(c) # <<>> /\ Head(ToSession(c)) = Head(wire[e])
             /\ (wire'[e] \o Unsent(Client(c))) \o posted[c] = Tail(ToSession(c))
  <2>1. /\ wire[e] \o Unsent(Client(c)) \in Seq(OnPaths) /\ wire[e] \o Unsent(Client(c)) # <<>>
        /\ Head(wire[e] \o Unsent(Client(c))) = Head(wire[e])
        /\ wire'[e] \o Unsent(Client(c)) = Tail(wire[e] \o Unsent(Client(c)))
    BY <1>3, <1>4, <1>5
  <2>2. \A q \in Seq(OnPaths) : LET p == wire[e] \o Unsent(Client(c))
                            IN  Tail(p) \o q = Tail(p \o q) /\ Head(p) = Head(p \o q) /\ p \o q # <<>>
    BY <2>1, TailOfPath
  <2>3. QED
    BY <1>4, <1>7, <2>1, <2>2 DEF ToSession
<1>8. QED
  BY <1>1, <1>2, <1>3, <1>6, <1>7

\* A client answers a request with the response the script has next.
LEMMA ClientExecutesInScript ==
  ASSUME HandshakeInv, NEW c \in Clients, InScript(c), NotYetAccepted(c),
         HandleReadBody(Client(c)), readResult[Client(c)] = "ok"
  PROVE  InScript(c)' /\ NotYetAccepted(c)'
<1> DEFINE msg == Head(wire[Client(c)])
<1>1. /\ Client(c) \in Ends /\ Session(c) \in Ends /\ Session(c) # Client(c)
      /\ Client(c)[1] # "session" /\ Client(c)[2] = c
  BY EndsOfClients, EndsApart DEF Client
<1>2. /\ UNCHANGED endVars /\ msg \in Messages /\ ToClient(c) # <<>> /\ Head(ToClient(c)) = msg
      /\ wire'[Client(c)] \o Unsent(Session(c)) = Tail(ToClient(c))
      /\ wire'[Session(c)] = wire[Session(c)]
  BY <1>1, ExecutedIsFirst
<1>3. ClientExecutes(c, msg) /\ UNCHANGED writeVars
  BY <1>1 DEF HandleReadBody, ClientExecutes
<1>4. Unsent(Session(c))' = Unsent(Session(c)) /\ Unsent(Client(c))' = Unsent(Client(c))
  BY <1>3 DEF Unsent, writeVars
<1>5. ToClient(c)' = Tail(ToClient(c))
  BY <1>2, <1>4 DEF ToClient
<1>6. /\ ToClient(c) \in Seq(OnPaths) /\ ToSession(c) \in Seq(OnPaths) /\ posted[c] \in Seq(OnPaths)
      /\ wire[Session(c)] \o Unsent(Client(c)) \in Seq(OnPaths)
      /\ executed[c] \in Seq(Messages) /\ posted[c] \in Seq(Messages \cup {"DoClose"})
  BY <1>1, PathTypes, ConcatProperties DEF HandshakeInv, TypeOK, HistoryType, PostType
<1>7. ASSUME NEW reply \in Messages, posted' = [posted EXCEPT ![c] = Append(@, reply)]
      PROVE  ToSession(c)' = Append(ToSession(c), reply) /\ reply \in OnPaths
  <2>1. posted'[c] = Append(posted[c], reply) /\ reply \in OnPaths
    BY <1>7 DEF HandshakeInv, TypeOK, PostType, OnPaths
  <2>2. (wire[Session(c)] \o Unsent(Client(c))) \o Append(posted[c], reply)
        = Append((wire[Session(c)] \o Unsent(Client(c))) \o posted[c], reply)
    BY <1>6, <2>1, BehindOnPath
  <2>3. QED
    BY <1>2, <1>4, <2>1, <2>2 DEF ToSession
<1> HIDE DEF msg
<1>8. CASE msg \in ScriptRequests
  <2>1. PICK reply \in Replies(msg) :
          posted' = [posted EXCEPT ![c] = Append(@, reply)]
    BY <1>3, <1>8 DEF ClientExecutes, Replies, ScriptRequests
  <2>2. reply \in Messages
    BY <1>2, <2>1, RepliesAreMessages
  <2>3. ToSession(c)' = Append(ToSession(c), reply) /\ reply \in OnPaths
    BY <1>7, <2>1, <2>2
  <2>4. executed'[c] = Append(executed[c], msg)
    <3>1. msg \in ToSet(Script) /\ Replies(msg) # {}
      BY <1>2, <1>8, <2>1, ScriptFacts
    <3>2. Note(c, msg)
      BY <1>3, <3>1 DEF ClientExecutes
    <3>3. QED
      BY <3>2 DEF Note, HandshakeInv, TypeOK, HistoryType
  <2>5. /\ \A m \in ScriptResponses : m \notin ScriptRequests
        /\ Len(executed[c]) <= 6 /\ \A i \in 1 .. Len(executed[c]) : executed[c][i] = Script[i]
        /\ Follows(ScriptRequests, ToClient(c), executed[c])
        /\ Follows(ScriptResponses, ToSession(c), executed[c])
    BY ScriptFacts DEF InScript
  <2>6. /\ Len(executed[c]) < 6 /\ msg = Script[Len(executed[c]) + 1]
        /\ Len(executed'[c]) = Len(executed[c]) + 1
        /\ \A i \in 1 .. Len(executed[c]) + 1 : executed'[c][i] = Script[i]
        /\ Follows(ScriptRequests, Tail(ToClient(c)), executed'[c])
        /\ \A m \in OnPaths : Len(executed[c]) + 1 < 6 /\ m = Script[Len(executed[c]) + 2] =>
             Follows(ScriptResponses, Append(ToSession(c), m), executed'[c])
    <3>1. Advances(ScriptRequests, ScriptResponses, ToClient(c), ToSession(c), executed[c])
      BY <1>2, <1>6, <1>8, <2>5, Executing
    <3>2. QED
      BY <1>2, <2>4, <3>1 DEF Advances
  <2>7. Len(executed[c]) + 1 < 6 /\ reply = Script[Len(executed[c]) + 2]
    <3>1. Len(executed[c]) + 1 \in {1, 3, 5}
      <4>1. Len(executed[c]) \in Nat
        BY <1>6
      <4>2. QED
        BY <1>8, <2>6, <4>1, ScriptFacts
    <3>2. /\ msg = "AnnounceRequest" => reply = "AnnounceResponse"
          /\ msg = "GetNewLeaseRequest" => reply = "GetNewLeaseResponse"
          /\ msg = "SetRPLLocationRequest" => reply = "SetRPLLocationResponse"
      BY <2>1 DEF Replies
    <3>3. /\ Script[1] = "AnnounceRequest" /\ Script[2] = "AnnounceResponse"
          /\ Script[3] = "GetNewLeaseRequest" /\ Script[4] = "GetNewLeaseResponse"
          /\ Script[5] = "SetRPLLocationRequest" /\ Script[6] = "SetRPLLocationResponse"
      BY DEF Script
    <3>4. Len(executed[c]) \in {0, 2, 4}
      <4>1. Len(executed[c]) \in Nat
        BY <1>6
      <4>2. \A n \in Nat : n + 1 \in {1, 3, 5} => n \in {0, 2, 4}
        OBVIOUS
      <4>3. QED
        BY <3>1, <4>1, <4>2
    <3>5. CASE Len(executed[c]) = 0
      BY <2>6, <3>2, <3>3, <3>5
    <3>6. CASE Len(executed[c]) = 2
      BY <2>6, <3>2, <3>3, <3>6
    <3>7. CASE Len(executed[c]) = 4
      BY <2>6, <3>2, <3>3, <3>7
    <3>8. QED
      BY <3>4, <3>5, <3>6, <3>7
  <2>8. InScript(c)'
    <3>1. Follows(ScriptResponses, ToSession(c)', executed'[c])
      BY <2>3, <2>6, <2>7
    <3>2. Len(executed'[c]) <= 6
      BY <1>6, <2>6
    <3>3. QED
      BY <1>5, <2>6, <3>1, <3>2 DEF InScript, Follows
  <2>9. NotYetAccepted(c)'
    BY <1>2, <1>8, UnacceptedExecutesNothing DEF NotYetAccepted, endVars
  <2>10. QED
    BY <2>8, <2>9
<1>9. CASE msg \notin ScriptRequests
  <2>1. executed'[c] = executed[c]
    BY <1>2, <1>3, <1>9, ScriptFacts DEF ClientExecutes, Replies, ScriptRequests, ScriptResponses
  <2>2. ToSession(c)' = ToSession(c) \/ \E reply \in Messages \ ScriptResponses :
          ToSession(c)' = Append(ToSession(c), reply)
    <3>1. CASE Replies(msg) = {}
      BY <1>2, <1>3, <1>4, <3>1 DEF ClientExecutes, ToSession
    <3>2. CASE Replies(msg) # {}
      <4>1. Replies(msg) \subseteq {"StatusPlaying", "StatusProcessing"}
        BY <1>9 DEF Replies, ScriptRequests
      <4>2. PICK reply \in Replies(msg) : posted' = [posted EXCEPT ![c] = Append(@, reply)]
        BY <1>3, <3>2 DEF ClientExecutes
      <4>3. reply \in Messages \ ScriptResponses
        BY <4>1, MessageKinds DEF ScriptResponses
      <4>4. QED
        BY <1>7, <4>2, <4>3
    <3>3. QED
      BY <3>1, <3>2
  <2>3. Thins(ScriptResponses, ToSession(c), ToSession(c)')
    BY <1>6, <2>2, ThinsAppend, ThinsSame DEF OnPaths
  <2>4. Thins(ScriptRequests, ToClient(c), ToClient(c)')
    BY <1>2, <1>5, <1>6, ThinsTail
  <2>5. Quiet(c)
    BY <2>1, <2>3, <2>4 DEF Quiet
  <2>6. QED
    BY <1>2, <2>5, QuietKeeps DEF endVars
<1>10. QED
  BY <1>8, <1>9

\* A session follows a response with the script's next request, up to the last.
LEMMA SessionExecutesInScript ==
  ASSUME HandshakeInv, NEW c \in Clients, InScript(c), NotYetAccepted(c),
         HandleReadBody(Session(c)), readResult[Session(c)] = "ok"
  PROVE  InScript(c)' /\ NotYetAccepted(c)'
<1> DEFINE msg == Head(wire[Session(c)])
<1>1. /\ Client(c) \in Ends /\ Session(c) \in Ends /\ Session(c) # Client(c)
      /\ Session(c)[1] = "session" /\ Session(c)[2] = c
  BY EndsOfClients, EndsApart DEF Session
<1>2. /\ UNCHANGED endVars /\ msg \in Messages /\ ToSession(c) # <<>> /\ Head(ToSession(c)) = msg
      /\ (wire'[Session(c)] \o Unsent(Client(c))) \o posted[c] = Tail(ToSession(c))
      /\ wire'[Client(c)] = wire[Client(c)]
  BY <1>1, ExecutedIsFirst
<1>3. SessionExecutes(c, msg) /\ UNCHANGED posted
  BY <1>1 DEF HandleReadBody, SessionExecutes
<1>4. /\ ToClient(c) \in Seq(OnPaths) /\ ToSession(c) \in Seq(OnPaths)
      /\ wire[Client(c)] \in Seq(OnPaths) /\ Unsent(Session(c)) \in Seq(OnPaths)
      /\ executed[c] \in Seq(Messages)
  BY <1>1, PathTypes DEF HandshakeInv, TypeOK, HistoryType
<1> HIDE DEF msg
<1>5. ASSUME Unsent(Client(c))' = Unsent(Client(c))
      PROVE  ToSession(c)' = Tail(ToSession(c))
  BY <1>2, <1>3, <1>5 DEF ToSession
<1>6. ASSUME UNCHANGED writeVars
      PROVE  ToSession(c)' = Tail(ToSession(c)) /\ ToClient(c)' = ToClient(c)
  <2>1. Unsent(Client(c))' = Unsent(Client(c)) /\ Unsent(Session(c))' = Unsent(Session(c))
    BY <1>6 DEF Unsent, writeVars
  <2>2. QED
    BY <1>2, <1>5, <2>1 DEF ToClient
<1>7. ASSUME NEW reply \in Messages, Send({Session(c)}, reply)
      PROVE  /\ ToSession(c)' = Tail(ToSession(c)) /\ reply \in OnPaths
             /\ ToClient(c)' = Append(ToClient(c), reply)
  <2>1. \A e \in Ends : Unsent(e)' = IF e = Session(c) THEN Append(Unsent(e), reply) ELSE Unsent(e)
    BY <1>7, SendLengthens DEF HandshakeInv, TypeOK
  <2>2. Unsent(Client(c))' = Unsent(Client(c)) /\ Unsent(Session(c))' = Append(Unsent(Session(c)), reply)
    BY <1>1, <2>1
  <2>3. reply \in OnPaths /\ wire[Client(c)] \o Append(Unsent(Session(c)), reply)
                        = Append(wire[Client(c)] \o Unsent(Session(c)), reply)
    BY <1>4, BehindOnPath DEF OnPaths
  <2>4. QED
    BY <1>2, <1>5, <2>2, <2>3 DEF ToClient
<1>8. CASE msg \in ScriptResponses
  <2>1. /\ \A m \in ScriptRequests : m \notin ScriptResponses
        /\ Len(executed[c]) <= 6 /\ \A i \in 1 .. Len(executed[c]) : executed[c][i] = Script[i]
        /\ Follows(ScriptRequests, ToClient(c), executed[c])
        /\ Follows(ScriptResponses, ToSession(c), executed[c])
    BY ScriptFacts DEF InScript
  <2>2. Advances(ScriptResponses, ScriptRequests, ToSession(c), ToClient(c), executed[c])
    BY <1>2, <1>4, <1>8, <2>1, Executing
  <2>3. Note(c, msg)
    BY <1>3, <1>8 DEF SessionExecutes, SessionReplies, ScriptResponses
  <2>4. executed'[c] = Append(executed[c], msg)
    BY <2>3 DEF Note, HandshakeInv, TypeOK, HistoryType
  <2>5. /\ Len(executed[c]) < 6 /\ msg = Script[Len(executed[c]) + 1]
        /\ Len(executed'[c]) = Len(executed[c]) + 1
        /\ \A i \in 1 .. Len(executed[c]) + 1 : executed'[c][i] = Script[i]
        /\ Follows(ScriptResponses, Tail(ToSession(c)), executed'[c])
        /\ Follows(ScriptRequests, ToClient(c), executed'[c])
        /\ \A m \in OnPaths : Len(executed[c]) + 1 < 6 /\ m = Script[Len(executed[c]) + 2] =>
             Follows(ScriptRequests, Append(ToClient(c), m), executed'[c])
    BY <1>2, <2>2, <2>4 DEF Advances
  <2>6. ToSession(c)' = Tail(ToSession(c)) /\ Follows(ScriptRequests, ToClient(c)', executed'[c])
    <3>1. /\ Script[1] = "AnnounceRequest" /\ Script[2] = "AnnounceResponse"
          /\ Script[3] = "GetNewLeaseRequest" /\ Script[4] = "GetNewLeaseResponse"
          /\ Script[5] = "SetRPLLocationRequest" /\ Script[6] = "SetRPLLocationResponse"
      BY DEF Script
    <3>2. Len(executed[c]) \in {1, 3, 5}
      <4>1. Len(executed[c]) \in Nat
        BY <1>4
      <4>2. Len(executed[c]) + 1 \in {2, 4, 6}
        BY <1>8, <2>5, <4>1, ScriptFacts
      <4>3. \A n \in Nat : n + 1 \in {2, 4, 6} => n \in {1, 3, 5}
        OBVIOUS
      <4>4. QED
        BY <4>1, <4>2, <4>3
    <3>3. CASE Len(executed[c]) = 1
      <4>1. msg = "AnnounceResponse" /\ Script[Len(executed[c]) + 2] = "GetNewLeaseRequest"
        BY <2>5, <3>1, <3>3
      <4>2. Send({Session(c)}, "GetNewLeaseRequest") /\ "GetNewLeaseRequest" \in Messages
        BY <1>3, <4>1, MessageKinds DEF SessionExecutes, SessionReplies
      <4>3. /\ ToSession(c)' = Tail(ToSession(c)) /\ "GetNewLeaseRequest" \in OnPaths
            /\ ToClient(c)' = Append(ToClient(c), "GetNewLeaseRequest")
        BY <1>7, <4>2
      <4>4. Len(executed[c]) + 1 < 6
        BY <3>3
      <4>5. QED
        BY <2>5, <4>1, <4>3, <4>4
    <3>4. CASE Len(executed[c]) = 3
      <4>1. msg = "GetNewLeaseResponse" /\ Script[Len(executed[c]) + 2] = "SetRPLLocationRequest"
        BY <2>5, <3>1, <3>4
      <4>2. Send({Session(c)}, "SetRPLLocationRequest") /\ "SetRPLLocationRequest" \in Messages
        BY <1>3, <4>1, MessageKinds DEF SessionExecutes, SessionReplies
      <4>3. /\ ToSession(c)' = Tail(ToSession(c)) /\ "SetRPLLocationRequest" \in OnPaths
            /\ ToClient(c)' = Append(ToClient(c), "SetRPLLocationRequest")
        BY <1>7, <4>2
      <4>4. Len(executed[c]) + 1 < 6
        BY <3>4
      <4>5. QED
        BY <2>5, <4>1, <4>3, <4>4
    <3>5. CASE Len(executed[c]) = 5
      <4>1. msg = "SetRPLLocationResponse"
        BY <2>5, <3>1, <3>5
      <4>2. UNCHANGED writeVars
        BY <1>3, <4>1 DEF SessionExecutes
      <4>3. QED
        BY <1>6, <2>5, <4>2
    <3>6. QED
      BY <3>2, <3>3, <3>4, <3>5
  <2>7. Len(executed'[c]) <= 6
    BY <1>4, <2>5
  <2>8. InScript(c)'
    BY <2>5, <2>6, <2>7 DEF InScript, Follows
  <2>9. NotYetAccepted(c)'
    BY <1>2, <1>8, UnacceptedExecutesNothing DEF NotYetAccepted, endVars
  <2>10. QED
    BY <2>8, <2>9
<1>9. CASE msg \notin ScriptResponses
  <2>1. UNCHANGED <<executed, writeVars>>
    BY <1>3, <1>9 DEF SessionExecutes, ScriptResponses
  <2>2. ToSession(c)' = Tail(ToSession(c)) /\ ToClient(c)' = ToClient(c)
    BY <1>6, <2>1
  <2>3. Thins(ScriptResponses, ToSession(c), ToSession(c)')
    BY <1>2, <1>4, <2>2, ThinsTail
  <2>4. Quiet(c)
    BY <2>1, <2>2, <2>3, ThinsSame DEF Quiet
  <2>5. QED
    BY <1>2, <2>4, QuietKeeps DEF endVars
<1>10. QED
  BY <1>8, <1>9

-----------------------------------------------------------------------------
(* The steps.                                                              *)

\* A client's messages are its own: another client's are not executed on its paths.
LEMMA OthersExecuteQuietly ==
  ASSUME HandshakeInv, NEW e \in Ends, HandleReadBody(e), NEW c \in Clients, e[2] # c
  PROVE  Quiet(c)
<1>1. /\ Client(c) \in Ends /\ Session(c) \in Ends /\ e[2] \in Clients
      /\ Client(c) # e /\ Session(c) # e /\ (e[1] = "session" => e = Session(e[2]))
  BY EndsOfClients DEF Client, Session, Ends
<1>2. CASE readResult[e] = "ok"
  <2>1. wire'[Client(c)] = wire[Client(c)] /\ wire'[Session(c)] = wire[Session(c)]
    BY <1>1, <1>2, ExecutedIsFirst
  <2>2. CASE e[1] = "session"
    <3>1. SessionExecutes(e[2], Head(wire[e])) /\ UNCHANGED posted
      BY <1>2, <2>2 DEF HandleReadBody, SessionExecutes
    <3>2. executed'[c] = executed[c]
      BY <3>1 DEF SessionExecutes, SessionReplies, Note, HandshakeInv, TypeOK, HistoryType
    <3>3. UNCHANGED writeVars \/ \E reply \in Messages : Send({e}, reply)
      BY <1>1, <2>2, <3>1, MessageKinds DEF SessionExecutes, SessionReplies
    <3>4. Unsent(Client(c))' = Unsent(Client(c)) /\ Unsent(Session(c))' = Unsent(Session(c))
      <4>1. CASE UNCHANGED writeVars
        BY <4>1 DEF Unsent, writeVars
      <4>2. CASE \E reply \in Messages : Send({e}, reply)
        <5>1. \A o \in Ends \ {e} : Unsent(o)' = Unsent(o)
          BY <4>2, SendLengthens DEF HandshakeInv, TypeOK
        <5>2. QED
          BY <1>1, <5>1
      <4>3. QED
        BY <3>3, <4>1, <4>2
    <3>5. QED
      BY <2>1, <3>1, <3>2, <3>4, QuietSteps
  <2>3. CASE e[1] # "session"
    <3>1. ClientExecutes(e[2], Head(wire[e]))
      BY <1>2, <2>3 DEF HandleReadBody
    <3>2. executed'[c] = executed[c] /\ posted'[c] = posted[c]
      BY <1>1, <3>1 DEF ClientExecutes, Note, HandshakeInv, TypeOK, HistoryType, PostType
    <3>3. Unsent(Client(c))' = Unsent(Client(c)) /\ Unsent(Session(c))' = Unsent(Session(c))
      BY <3>1 DEF ClientExecutes, Unsent, writeVars
    <3>4. QED
      BY <2>1, <3>2, <3>3, QuietSteps
  <2>4. QED
    BY <2>2, <2>3
<1>3. CASE readResult[e] # "ok"
  <2>1. UNCHANGED <<writeVars, posted, wire, executed>>
    BY <1>3 DEF HandleReadBody
  <2>2. Unsent(Client(c))' = Unsent(Client(c)) /\ Unsent(Session(c))' = Unsent(Session(c))
    BY <2>1 DEF Unsent, writeVars
  <2>3. QED
    BY <2>1, <2>2, QuietSteps
<1>4. QED
  BY <1>2, <1>3

LEMMA HandleReadBodyInOrder ==
  ASSUME HandshakeInv, NEW e \in Ends, HandleReadBody(e),
         NEW c \in Clients, InScript(c), NotYetAccepted(c)
  PROVE  InScript(c)' /\ NotYetAccepted(c)'
<1>1. CASE e[2] = c /\ readResult[e] = "ok"
  <2>1. e = Session(c) \/ e = Client(c)
    BY <1>1, EndsApart
  <2>2. QED
    BY <1>1, <2>1, ClientExecutesInScript, SessionExecutesInScript
<1>2. CASE e[2] # c /\ readResult[e] = "ok"
  <2>1. UNCHANGED socket
    BY <1>2 DEF HandleReadBody, endVars
  <2>2. QED
    BY <1>2, <2>1, OthersExecuteQuietly, QuietKeeps
<1>3. CASE readResult[e] # "ok"
  <2>1. UNCHANGED <<writeVars, posted, wire, executed>> /\ DoClose(e)
    BY <1>3 DEF HandleReadBody, HandleReadError
  <2>2. Unsent(Client(c))' = Unsent(Client(c)) /\ Unsent(Session(c))' = Unsent(Session(c))
    BY <2>1 DEF Unsent, writeVars
  <2>3. Quiet(c)
    BY <2>1, <2>2, QuietSteps
  <2>4. socket'[Session(c)] \in {socket[Session(c)], "closed"}
    BY <2>1, EndsOfClients DEF DoClose, HandshakeInv, TypeOK, EndType
  <2>5. QED
    BY <2>3, <2>4, QuietKeeps
<1>4. QED
  BY <1>1, <1>2, <1>3

\* Accepting a client announces the session to it, once.
LEMMA HandleAcceptInOrder ==
  ASSUME HandshakeInv, NEW d \in Clients, HandleAccept(d),
         NEW c \in Clients, InScript(c), NotYetAccepted(c)
  PROVE  InScript(c)' /\ NotYetAccepted(c)'
<1>1. /\ Client(c) \in Ends /\ Session(c) \in Ends /\ Session(d) \in Ends
      /\ Client(c) # Session(d) /\ (Session(c) = Session(d) => c = d)
  BY EndsOfClients, EndsApart
<1>2. UNCHANGED <<wire, posted, executed>>
  BY DEF HandleAccept, history
<1>3. CASE /\ socket' = [socket EXCEPT ![Session(d)] = "open"]
           /\ Send({Session(d)}, "AnnounceRequest")
  <2>1. "AnnounceRequest" \in Messages /\ "AnnounceRequest" \in OnPaths
    BY MessageKinds DEF OnPaths
  <2>2. \A e \in Ends : Unsent(e)' = IF e = Session(d) THEN Append(Unsent(e), "AnnounceRequest")
                                                       ELSE Unsent(e)
    BY <1>3, <2>1, SendLengthens DEF HandshakeInv, TypeOK
  <2>3. Unsent(Client(c))' = Unsent(Client(c))
    BY <1>1, <2>2
  <2>4. CASE c = d
    <3>1. Unsent(Session(c))' = Append(Unsent(Session(c)), "AnnounceRequest")
      BY <1>1, <2>2, <2>4
    <3>2. /\ ToClient(c) \in Seq(OnPaths) /\ wire[Client(c)] \in Seq(OnPaths)
          /\ Unsent(Session(c)) \in Seq(OnPaths)
      BY <1>1, PathTypes
    <3>3. ToClient(c)' = Append(ToClient(c), "AnnounceRequest")
      <4>1. wire[Client(c)] \o Append(Unsent(Session(c)), "AnnounceRequest")
            = Append(wire[Client(c)] \o Unsent(Session(c)), "AnnounceRequest")
        BY <2>1, <3>2, BehindOnPath
      <4>2. QED
        BY <1>2, <3>1, <4>1 DEF ToClient
    <3>4. ToSession(c)' = ToSession(c)
      BY <1>2, <2>3 DEF ToSession
    <3>5. executed[c] = <<>> /\ NoneOf(ScriptRequests, ToClient(c))
      BY <2>4 DEF HandleAccept, NotYetAccepted
    <3>6. Len(executed[c]) < 6 /\ Script[Len(executed[c]) + 1] = "AnnounceRequest"
      <4>1. Len(executed[c]) = 0
        BY <3>5
      <4>2. Script[1] = "AnnounceRequest"
        BY DEF Script
      <4>3. QED
        BY <4>1, <4>2
    <3>7. Follows(ScriptRequests, Append(ToClient(c), "AnnounceRequest"), executed[c])
      BY <2>1, <3>2, <3>5, <3>6, FirstFollows
    <3>8. InScript(c)'
      BY <1>2, <3>3, <3>4, <3>7 DEF InScript, Follows
    <3>9. socket'[Session(c)] = "open"
      BY <1>1, <1>3, <2>4 DEF HandshakeInv, TypeOK, EndType
    <3>10. QED
      BY <3>8, <3>9 DEF NotYetAccepted
  <2>5. CASE c # d
    <3>1. Unsent(Session(c))' = Unsent(Session(c)) /\ socket'[Session(c)] = socket[Session(c)]
      BY <1>1, <1>3, <2>2, <2>5 DEF HandshakeInv, TypeOK, EndType
    <3>2. Quiet(c)
      BY <1>2, <2>3, <3>1, QuietSteps
    <3>3. QED
      BY <3>1, <3>2, QuietKeeps
  <2>6. QED
    BY <2>4, <2>5
<1>4. CASE DoClose(Session(d)) /\ UNCHANGED writeVars
  <2>1. Unsent(Client(c))' = Unsent(Client(c)) /\ Unsent(Session(c))' = Unsent(Session(c))
    BY <1>4 DEF Unsent, writeVars
  <2>2. socket'[Session(c)] \in {socket[Session(c)], "closed"}
    BY <1>1, <1>4 DEF DoClose, HandshakeInv, TypeOK, EndType
  <2>3. QED
    BY <1>2, <2>1, <2>2, QuietSteps, QuietKeeps
<1>5. QED
  BY <1>3, <1>4 DEF HandleAccept

\* The steps that leave every path alone.
LEMMA OtherStepsInOrder ==
  ASSUME HandshakeInv, NEW c \in Clients, InScript(c), NotYetAccepted(c),
         UNCHANGED <<wire, posted, executed, writeVars>>,
         socket'[Session(c)] = "unopened" => socket[Session(c)] = "unopened"
  PROVE  InScript(c)' /\ NotYetAccepted(c)'
<1>1. Unsent(Client(c))' = Unsent(Client(c)) /\ Unsent(Session(c))' = Unsent(Session(c))
  BY DEF Unsent, writeVars
<1>2. QED
  BY <1>1, QuietSteps, QuietKeeps

LEMMA OrderStep == HandshakeInv /\ OrderInv /\ [Next]_vars => OrderInv'
<1> SUFFICES ASSUME HandshakeInv, OrderInv, [Next]_vars, NEW c \in Clients
             PROVE  InScript(c)' /\ NotYetAccepted(c)'
  BY DEF OrderInv
<1>1. /\ InScript(c) /\ NotYetAccepted(c) /\ Session(c) \in Ends
      /\ socket \in [Ends -> {"unopened", "connecting", "open", "closed"}]
  BY EndsOfClients DEF OrderInv, HandshakeInv, TypeOK, EndType
<1>2. ASSUME NEW e \in Ends, DoClose(e)
      PROVE  socket'[Session(c)] = "unopened" => socket[Session(c)] = "unopened"
  BY <1>1, <1>2 DEF DoClose
<1>3. ASSUME NEW e \in Ends, ReadCompletes(e) \/ HandleReadHeader(e)
      PROVE  InScript(c)' /\ NotYetAccepted(c)'
  <2>1. UNCHANGED <<wire, posted, executed, writeVars>> /\ (UNCHANGED socket \/ DoClose(e))
    BY <1>3 DEF ReadCompletes, HandleReadHeader, HandleReadError, history, endVars
  <2>2. QED
    BY <1>1, <1>2, <2>1, OtherStepsInOrder
<1>4. ASSUME NEW e \in Ends, WriteCompletes(e) \/ HandleWrite(e)
      PROVE  InScript(c)' /\ NotYetAccepted(c)'
  <2>1. Quiet(c)
    BY <1>4, WriteCompletesIsQuiet, HandleWriteIsQuiet
  <2>2. UNCHANGED socket \/ DoClose(e)
    BY <1>4 DEF WriteCompletes, HandleWrite, endVars
  <2>3. QED
    BY <1>1, <1>2, <2>1, <2>2, QuietKeeps
<1>5. ASSUME NEW d \in Clients, HandleConnect(d)
      PROVE  InScript(c)' /\ NotYetAccepted(c)'
  <2>1. UNCHANGED <<wire, posted, executed, writeVars>> /\ Client(d) # Session(c) /\ Client(d) \in Ends
    BY <1>5, EndsApart, EndsOfClients DEF HandleConnect, history
  <2>2. socket'[Session(c)] = socket[Session(c)]
    BY <1>1, <1>5, <2>1 DEF HandleConnect, DoClose
  <2>3. QED
    BY <1>1, <2>1, <2>2, OtherStepsInOrder
<1>6. ASSUME NEW d \in Clients, RunPosted(d)
      PROVE  InScript(c)' /\ NotYetAccepted(c)'
  <2>1. Quiet(c) /\ (UNCHANGED socket \/ DoClose(Client(d))) /\ Client(d) \in Ends
    BY <1>6, RunPostedIsQuiet, EndsOfClients DEF RunPosted, endVars
  <2>2. QED
    BY <1>1, <1>2, <2>1, QuietKeeps
<1>7. ASSUME NotifyRPLChange \/ GetStatusRequest \/ Close
      PROVE  InScript(c)' /\ NotYetAccepted(c)'
  <2>1. Quiet(c) /\ UNCHANGED socket
    BY <1>7, ServerSendsIsQuiet, CloseIsQuiet DEF NotifyRPLChange, GetStatusRequest, Close, endVars
  <2>2. QED
    BY <1>1, <2>1, QuietKeeps
<1>8. ASSUME Lose \/ UNCHANGED vars
      PROVE  InScript(c)' /\ NotYetAccepted(c)'
  <2>1. UNCHANGED <<wire, posted, executed, writeVars, socket>>
    BY <1>8 DEF Lose, vars, endVars, history
  <2>2. QED
    BY <1>1, <2>1, OtherStepsInOrder
<1>9. QED
  BY <1>1, <1>3, <1>4, <1>5, <1>6, <1>7, <1>8, HandleReadBodyInOrder, HandleAcceptInOrder
  DEF Next, Io, Connects

LEMMA OrderInit == Init => OrderInv
<1> SUFFICES ASSUME Init, NEW c \in Clients
             PROVE  InScript(c) /\ NotYetAccepted(c)
  BY DEF OrderInv
<1>1. Session(c) \in Ends /\ Client(c) \in Ends
  BY EndsOfClients
<1>2. ToClient(c) = <<>> /\ ToSession(c) = <<>> /\ executed[c] = <<>>
  <2>1. /\ Unsent(Session(c)) = <<>> /\ Unsent(Client(c)) = <<>>
        /\ wire[Client(c)] = <<>> /\ wire[Session(c)] = <<>> /\ posted[c] = <<>>
        /\ executed[c] = <<>>
    BY <1>1 DEF Init, Unsent
  <2>2. <<>> \o <<>> = <<>>
    OBVIOUS
  <2>3. QED
    BY <2>1, <2>2 DEF ToClient, ToSession
<1>3. NoneOf(ScriptRequests, <<>>) /\ NoneOf(ScriptResponses, <<>>)
  BY DEF NoneOf
<1>4. QED
  BY <1>2, <1>3, NoneFollows DEF InScript, NotYetAccepted

\* Both ends execute the handshake's messages in the order of the script, each once.
THEOREM TheHandshakeIsInOrder == Spec => []HandshakeInOrder
<1>1. Init => HandshakeInv /\ OrderInv
  BY InitHandshakeInv, OrderInit
<1>2. (HandshakeInv /\ OrderInv) /\ [Next]_vars => (HandshakeInv /\ OrderInv)'
  BY HandshakeStepKeeps, OrderStep
<1>3. HandshakeInv /\ OrderInv => HandshakeInOrder
  <2> SUFFICES ASSUME HandshakeInv, OrderInv, NEW c \in Clients
               PROVE  IsPrefix(executed[c], Script)
    BY DEF HandshakeInOrder
  <2>1. /\ executed[c] \in Seq(Messages) /\ Len(executed[c]) <= 6
        /\ \A i \in 1 .. Len(executed[c]) : executed[c][i] = Script[i]
    BY DEF HandshakeInv, TypeOK, HistoryType, OrderInv, InScript
  <2>2. Script \in Seq(Messages) /\ Len(Script) = 6
    BY MessageKinds DEF Script
  <2>3. executed[c] = SubSeq(Script, 1, Len(executed[c]))
    BY <2>1, <2>2, SeqEqual
  <2>4. QED
    BY <2>1, <2>2, <2>3 DEF IsPrefix
<1>4. QED
  BY <1>1, <1>2, <1>3, PTL DEF Spec
=============================================================================
