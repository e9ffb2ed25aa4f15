---------------------------- MODULE DCSHandshake ----------------------------
(***************************************************************************)
(* The auditorium sync control channel: DCS_Server accepts a DCS_Session   *)
(* per DCS_Client, and the two ends lead the client to the SS_Server:      *)
(* announce, lease, RPL location.  An end reads all the time, a message's  *)
(* header and then its body, and writes its queue one message at a time.   *)
(* An operation of asio completes first, and its handler runs later, with  *)
(* what the completion found even if the socket was closed in between.     *)
(* The handlers of an end run one after the other, as one io service       *)
(* thread runs them.  A client connects once, so it names its session.     *)
(*                                                                         *)
(* A message is its kind.  One that is cut off is "torn": it has a header, *)
(* and never a whole body.                                                 *)
(***************************************************************************)
EXTENDS Integers, Sequences, SequencesExt

CONSTANTS
  Clients,          \* the DCS_Client objects
  MaxFailures,      \* bound on the broken connections
  MaxNotifications, \* bound on the calls of NotifyRPLChange
  MaxStatus         \* bound on the status requests, and on the calls of Close

ASSUME DCSHandshakeAssumption == {MaxFailures, MaxNotifications, MaxStatus} \subseteq Nat

VARIABLES
  clients,          \* clients_: the accepted sessions
  socket, state,    \* of either end
  reading,          \* what the end reads: nothing, a header or a body
  readResult,
  writeMsgs,        \* write_msgs_
  writeResult,
  posted,           \* the calls a client has posted to its io service
  wire,             \* the messages on their way to an end
  playout,          \* the session whose playoutID_ the SE_Server was given
  ready,            \* what isReady_ was called with
  \* history
  lost,             \* the connections that broke
  executed,         \* the handshake messages executed, of both ends
  failures, notifications, requests

endVars == <<socket, state>>
readVars == <<reading, readResult>>
writeVars == <<writeMsgs, writeResult>>
history == <<lost, executed, failures, notifications, requests>>
vars == <<clients, endVars, readVars, writeVars, posted, wire, playout, ready, history>>

Session(c) == <<"session", c>>
Client(c) == <<"client", c>>
Ends == {"session", "client"} \X Clients
Peer(e) == <<IF e[1] = "session" THEN "client" ELSE "session", e[2]>>
NoSession == "none"

Script == <<"AnnounceRequest", "AnnounceResponse", "GetNewLeaseRequest",
            "GetNewLeaseResponse", "SetRPLLocationRequest", "SetRPLLocationResponse">>

Init ==
  /\ clients = {}
  /\ socket = [e \in Ends |-> IF e[1] = "client" THEN "connecting" ELSE "unopened"]
  /\ state = [e \in Ends |-> "Disconnected"]
  /\ reading = [e \in Ends |-> "nothing"] /\ readResult = [e \in Ends |-> "none"]
  /\ writeMsgs = [e \in Ends |-> <<>>] /\ writeResult = [e \in Ends |-> "none"]
  /\ posted = [c \in Clients |-> <<>>]
  /\ wire = [e \in Ends |-> <<>>]
  /\ playout = NoSession /\ ready = FALSE
  /\ lost = {} /\ executed = [c \in Clients |-> <<>>]
  /\ failures = 0 /\ notifications = 0 /\ requests = 0

-----------------------------------------------------------------------------
(* What both ends do.                                                      *)

\* Mutated: a read that is not started is waited for.
ReadAnyway(e, what) ==
  /\ reading' = [reading EXCEPT ![e] = what]
  /\ readResult' = [readResult EXCEPT ![e] = "pending"]

Read(e, what) ==
  /\ reading' = [reading EXCEPT ![e] = what]
  /\ readResult' = [readResult EXCEPT ![e] = IF what = "nothing" THEN "none" ELSE "pending"]

\* DCS_Session::Send and DCS_Client::DoWrite, on the queues and the writes under way:
\* a message behind others is only queued.
Queued(msg, ends) ==
  [e \in Ends |-> IF e \in ends THEN Append(writeMsgs[e], msg) ELSE writeMsgs[e]]

StartIfIdle(ends) ==
  [e \in Ends |-> IF e \in ends /\ writeMsgs[e] = <<>> THEN "pending" ELSE writeResult[e]]

Send(ends, msg) ==
  /\ writeMsgs' = Queued(msg, ends)
  /\ writeResult' = StartIfIdle(ends)

\* Mutated: only an open socket's state changes.
LeaveState(e) ==
  /\ state' = IF socket[e] = "open" THEN [state EXCEPT ![e] = "Disconnected"] ELSE state
  /\ socket' = [socket EXCEPT ![e] = "closed"]

DoClose(e) ==
  /\ state' = [state EXCEPT ![e] = "Disconnected"]
  /\ socket' = [socket EXCEPT ![e] = "closed"]

-----------------------------------------------------------------------------
(* The connections, and asio's operations on them.                         *)

Broken(e) == socket[e] = "closed" \/ socket[Peer(e)] = "closed" \/ e[2] \in lost

Lose ==
  /\ failures < MaxFailures /\ failures' = failures + 1
  /\ \E c \in Clients \ lost : lost' = lost \cup {c}
  /\ UNCHANGED <<clients, endVars, readVars, writeVars, posted, wire, playout, ready,
                 executed, notifications, requests>>

\* A header or a body has been read, or cannot be.
ReadCompletes(e) ==
  /\ readResult[e] = "pending"
  /\ \/ /\ socket[e] = "open" /\ wire[e] # <<>>
        /\ reading[e] = "body" => Head(wire[e]) # "torn"
        /\ readResult' = [readResult EXCEPT ![e] = "ok"]
     \/ Broken(e) /\ readResult' = [readResult EXCEPT ![e] = "error"]
  /\ UNCHANGED <<clients, endVars, reading, writeVars, posted, wire, playout, ready, history>>

\* The front of the queue has been sent, or some of it may have been.
WriteCompletes(e) ==
  /\ writeResult[e] = "pending"
  /\ \/ /\ socket[e] = "open"
        /\ writeResult' = [writeResult EXCEPT ![e] = "ok"]
        /\ wire' = [wire EXCEPT ![Peer(e)] = Append(@, Head(writeMsgs[e]))]
     \/ /\ Broken(e)
        /\ writeResult' = [writeResult EXCEPT ![e] = "error"]
        /\ wire' \in {wire, [wire EXCEPT ![Peer(e)] = Append(@, "torn")]}
  /\ UNCHANGED <<clients, endVars, readVars, writeMsgs, posted, playout, ready, history>>

\* Mutated: the next message is only written by the next Send.
NextWriteForgotten(e) ==
  writeResult' = [writeResult EXCEPT ![e] = "none"]

NextWrite(e) ==
  writeResult' = [writeResult EXCEPT ![e] = IF Len(writeMsgs[e]) > 1 THEN "pending" ELSE "none"]

HandleWrite(e) ==
  /\ \/ /\ writeResult[e] = "ok"
        /\ writeMsgs' = [writeMsgs EXCEPT ![e] = Tail(@)]
        /\ NextWrite(e)
        /\ UNCHANGED endVars
     \/ /\ writeResult[e] = "error"
        /\ writeResult' = [writeResult EXCEPT ![e] = "none"]
        /\ DoClose(e)
        /\ UNCHANGED writeMsgs
  /\ UNCHANGED <<clients, readVars, posted, wire, playout, ready, history>>

\* Mutated: the session is only closed where a body is missing.
IgnoreHeaderError(e) ==
  /\ Read(e, "nothing")
  /\ IF reading[e] = "body" THEN DoClose(e) ELSE UNCHANGED endVars

HandleReadError(e) ==
  /\ Read(e, "nothing")
  /\ DoClose(e)

\* A session is connected once it has heard of its client.
HandleReadHeader(e) ==
  /\ reading[e] = "header"
  /\ \/ /\ readResult[e] = "ok"
        /\ state' = [state EXCEPT ![e] = IF e[1] = "session" THEN "Connected" ELSE @]
        /\ Read(e, "body")
        /\ UNCHANGED socket
     \/ readResult[e] = "error" /\ HandleReadError(e)
  /\ UNCHANGED <<clients, writeVars, posted, wire, playout, ready, history>>

-----------------------------------------------------------------------------
(* Executing a message.                                                    *)

Note(c, msg) ==
  executed' = [executed EXCEPT ![c] = Append(@, msg)]

\* DCS_Session::Execute.  Other messages have no effect.
SessionReplies(c, msg, reply) ==
  Note(c, msg) /\ Send({Session(c)}, reply)

SessionExecutes(c, msg) ==
  /\ CASE msg = "AnnounceResponse"    -> SessionReplies(c, msg, "GetNewLeaseRequest")
       [] msg = "GetNewLeaseResponse" -> SessionReplies(c, msg, "SetRPLLocationRequest")
       [] msg = "SetRPLLocationResponse" -> Note(c, msg) /\ UNCHANGED writeVars
       [] OTHER -> UNCHANGED <<executed, writeVars>>
  /\ playout' = IF msg = "GetNewLeaseResponse" THEN c ELSE playout
  /\ ready' = IF msg \in {"StatusPlaying", "StatusProcessing"} THEN msg = "StatusPlaying" ELSE ready
  /\ UNCHANGED posted

\* DCS_Client::Execute: a reply is posted.  The status is the client's, whose
\* Client_State may be any.
Replies(msg) ==
  CASE msg = "AnnounceRequest"       -> {"AnnounceResponse"}
    [] msg = "GetNewLeaseRequest"    -> {"GetNewLeaseResponse"}
    [] msg = "SetRPLLocationRequest" -> {"SetRPLLocationResponse"}
    [] msg = "GetStatusRequest"      -> {"StatusPlaying", "StatusProcessing"}
    [] OTHER -> {}

ClientExecutes(c, msg) ==
  /\ IF Replies(msg) = {} THEN UNCHANGED posted
     ELSE \E reply \in Replies(msg) : posted' = [posted EXCEPT ![c] = Append(@, reply)]
  /\ IF msg \in ToSet(Script) /\ Replies(msg) # {} THEN Note(c, msg) ELSE UNCHANGED executed
  /\ UNCHANGED <<writeVars, playout, ready>>

HandleReadBody(e) ==
  /\ reading[e] = "body"
  /\ \/ /\ readResult[e] = "ok"
        /\ wire' = [wire EXCEPT ![e] = Tail(@)]
        /\ IF e[1] = "session" THEN SessionExecutes(e[2], Head(wire[e]))
                               ELSE ClientExecutes(e[2], Head(wire[e]))
        /\ Read(e, "header")
        /\ UNCHANGED endVars
     \/ /\ readResult[e] = "error" /\ HandleReadError(e)
        /\ UNCHANGED <<writeVars, posted, wire, playout, ready, executed>>
  /\ UNCHANGED <<clients, lost, failures, notifications, requests>>

-----------------------------------------------------------------------------
(* The server.                                                             *)

\* HandleAccept and DCS_Session::Start.
HandleAccept(c) ==
  /\ socket[Session(c)] = "unopened"
  /\ \/ /\ c \notin lost
        /\ clients' = clients \cup {c}
        /\ socket' = [socket EXCEPT ![Session(c)] = "open"]
        /\ Read(Session(c), "header")
        /\ Send({Session(c)}, "AnnounceRequest")
        /\ UNCHANGED state
     \/ /\ c \in lost
        /\ DoClose(Session(c))
        /\ UNCHANGED <<clients, readVars, writeVars>>
  /\ UNCHANGED <<posted, wire, playout, ready, history>>

\* Mutated: the sessions announce themselves again.
AnnounceAgain ==
  /\ clients # {}
  /\ notifications < MaxNotifications /\ notifications' = notifications + 1
  /\ Send({Session(c) : c \in clients}, "AnnounceRequest")
  /\ UNCHANGED <<clients, endVars, readVars, posted, wire, playout, ready,
                 lost, executed, failures, requests>>

\* Every session is sent a response, which its client does not execute.
NotifyRPLChange ==
  /\ clients # {}
  /\ notifications < MaxNotifications /\ notifications' = notifications + 1
  /\ Send({Session(c) : c \in clients}, "AnnounceResponse")
  /\ UNCHANGED <<clients, endVars, readVars, posted, wire, playout, ready,
                 lost, executed, failures, requests>>

\* DCS_Session::GetStatusRequest.
GetStatusRequest ==
  /\ requests < MaxStatus /\ requests' = requests + 1
  /\ \E c \in clients : Send({Session(c)}, "GetStatusRequest")
  /\ UNCHANGED <<clients, endVars, readVars, posted, wire, playout, ready,
                 lost, executed, failures, notifications>>

-----------------------------------------------------------------------------
(* The client.                                                             *)

HandleConnect(c) ==
  /\ socket[Client(c)] = "connecting"
  /\ \/ /\ c \notin lost
        /\ socket' = [socket EXCEPT ![Client(c)] = "open"]
        /\ state' = [state EXCEPT ![Client(c)] = "Connected"]
        /\ Read(Client(c), "header")
     \/ /\ c \in lost
        /\ DoClose(Client(c))
        /\ UNCHANGED readVars
  /\ UNCHANGED <<clients, writeVars, posted, wire, playout, ready, history>>

Close ==
  /\ requests < MaxStatus /\ requests' = requests + 1
  /\ \E c \in Clients :
       /\ socket[Client(c)] # "connecting"
       /\ posted' = [posted EXCEPT ![c] = Append(@, "DoClose")]
  /\ UNCHANGED <<clients, endVars, readVars, writeVars, wire, playout, ready,
                 lost, executed, failures, notifications>>

\* What was posted runs: DoClose, or DoWrite of a message.
RunPosted(c) ==
  /\ posted[c] # <<>>
  /\ posted' = [posted EXCEPT ![c] = Tail(@)]
  /\ IF Head(posted[c]) = "DoClose"
     THEN DoClose(Client(c)) /\ UNCHANGED writeVars
     ELSE Send({Client(c)}, Head(posted[c])) /\ UNCHANGED endVars
  /\ UNCHANGED <<clients, readVars, wire, playout, ready, history>>

Io(e) ==
  \/ ReadCompletes(e) \/ WriteCompletes(e)
  \/ HandleReadHeader(e) \/ HandleReadBody(e) \/ HandleWrite(e)

Connects(c) == HandleAccept(c) \/ HandleConnect(c)

Next ==
  \/ \E e \in Ends : Io(e)
  \/ \E c \in Clients : Connects(c) \/ RunPosted(c)
  \/ Lose \/ NotifyRPLChange \/ GetStatusRequest \/ Close

Spec == Init /\ [][Next]_vars

\* The io services run: their operations complete, and their handlers are called.
FairSpec ==
  /\ Spec
  /\ \A e \in Ends : WF_vars(ReadCompletes(e) \/ HandleReadHeader(e) \/ HandleReadBody(e))
                     /\ WF_vars(WriteCompletes(e) \/ HandleWrite(e))
  /\ \A c \in Clients : WF_vars(HandleAccept(c)) /\ WF_vars(HandleConnect(c)) /\ WF_vars(RunPosted(c))

-----------------------------------------------------------------------------
(* Properties.                                                             *)

Messages == ToSet(Script) \cup {"GetStatusRequest", "StatusPlaying", "StatusProcessing"}
Results == {"none", "pending", "ok", "error"}
ReadType ==
  /\ reading \in [Ends -> {"nothing", "header", "body"}]
  /\ readResult \in [Ends -> Results]
  /\ \A e \in Ends : (reading[e] = "nothing") = (readResult[e] = "none")
WriteType == writeResult \in [Ends -> Results] /\ writeMsgs \in [Ends -> Seq(Messages)]
EndType ==
  /\ socket \in [Ends -> {"unopened", "connecting", "open", "closed"}]
  /\ state \in [Ends -> {"Disconnected", "Connected"}]
PostType == posted \in [Clients -> Seq(Messages \cup {"DoClose"})]
WireType == wire \in [Ends -> Seq(Messages \cup {"torn"})]
ServerType == clients \subseteq Clients /\ playout \in Clients \cup {NoSession} /\ ready \in BOOLEAN
HistoryType ==
  /\ lost \subseteq Clients /\ executed \in [Clients -> Seq(Messages)]
  /\ failures \in 0 .. MaxFailures /\ notifications \in 0 .. MaxNotifications
  /\ requests \in 0 .. MaxStatus

\* Every variable has its type, and a read has a result if and only if it was started.
TypeOK ==
  ReadType /\ WriteType /\ EndType /\ PostType /\ WireType /\ ServerType /\ HistoryType

\* A write under way is that of the front of the queue, and whatever waits in a queue
\* waits behind one: a message is only stuck in the queue of an end that has closed.
QueueIsBeingWritten ==
  \A e \in Ends :
    /\ writeResult[e] # "none" => writeMsgs[e] # <<>>
    /\ writeMsgs[e] # <<>> /\ writeResult[e] = "none" => socket[e] = "closed"

\* Whatever is notified, asked or closed in between, both ends execute the
\* handshake's messages in its order, each once: a client is led to the SS_Server
\* once, and with a lease.
HandshakeInOrder == \A c \in Clients : IsPrefix(executed[c], Script)

\* An end that is closed says so, whatever handlers were still to run when it was
\* closed; only a session that has just read a header forgets it until its body fails.
ClosedIsDisconnected ==
  \A e \in Ends : socket[e] = "closed" /\ reading[e] # "body" => state[e] = "Disconnected"

\* A connection that nobody closes gets through the handshake.
HandshakeEnds ==
  \A c \in Clients : socket[Client(c)] = "open" ~>
    executed[c] = Script \/ \E e \in Ends : e[2] = c /\ Broken(e)

\* When an end closes, or the connection breaks, the other end closes too, after
\* whatever it still had to read or to write.
BothEndsClose ==
  \A e \in Ends : Broken(e) ~> socket[e] = "closed"
=============================================================================
